-------------------------- MODULE MCStreamTransfer --------------------------
(***************************************************************************)
(* Small instances of StreamTransfer; the constants are in the cfg files.  *)
(***************************************************************************)
EXTENDS StreamTransfer
=============================================================================
