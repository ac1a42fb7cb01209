--------------------------- MODULE MCSshTransport ---------------------------
(* SshTransport with a cipher of blocks of 6 bytes and a MAC of 2, packets   *)
(* of one and of two blocks, and a read buffer that holds little more than   *)
(* one packet: every place where recv() can break the stream.                *)
EXTENDS SshTransport

MCSizes == {6, 12}
MCMessages == {<<"packet", 3, 0>>}
=============================================================================
