---------------------------- MODULE SshTransport ----------------------------
(***************************************************************************)
(* libssh2 transport.c: packets over a non-blocking socket.  The reader    *)
(* (_libssh2_transport_read) cuts a byte stream that arrives in arbitrary  *)
(* pieces into packets, before and after the switch to encryption; the     *)
(* writer (_libssh2_transport_write) keeps what a full socket did not take *)
(* for the next call; and a packet that asks for a reply makes the reader  *)
(* write (packet.c, SSH_MSG_GLOBAL_REQUEST).  BLOCK_ADJUST turns calls     *)
(* that would block into waits on the directions the calls recorded.       *)
(*                                                                         *)
(* Bytes are counted, not represented: what matters is where in the stream *)
(* of the peer a packet is cut and which bytes go through the cipher.      *)
(***************************************************************************)
EXTENDS Integers, Sequences, FiniteSets, FiniteSetsExt

CONSTANTS
    BlockSize,    \* blocksize of the cipher
    MacLen,       \* mac_len
    BufSize,      \* PACKETBUFSIZE
    Sizes,        \* packet sizes of the peer: length and padding fields, payload, padding
    Messages,     \* packets the layers above send: <<data, data_len, 0>>
    MaxIn,        \* bound: packets the peer sends
    MaxOut        \* bound: packets written by the layers above

Header == 5      \* packet_length(4) + padding_length(1)

ASSUME TransportAssumption ==
    /\ BlockSize \in Nat /\ BlockSize > Header
    /\ MacLen \in Nat
    /\ BufSize \in Nat /\ BufSize >= BlockSize
    /\ \A s \in Sizes : s \in Nat /\ s >= BlockSize /\ s % BlockSize = 0
    /\ Messages \subseteq STRING \X (Nat \ {0}) \X {0}
    /\ MaxIn \in Nat /\ MaxOut \in Nat

Kinds == {"plain", "request", "newkeys", "corrupt", "disconnect"}
NoData == <<"NULL", 0, 0>>
None == <<"none", 0, 0>>
Read == <<"read", 0, 0>>

\* The answer to the k-th packet of the peer: one byte, built in that packet.
Reply(k) == <<"reply", 1, k>>

VARIABLES
    peer,      \* packets the peer sends: [kind, size, enc, from, to], as a stream of bytes
    closed,    \* the peer has closed the connection
    dead,      \* the socket has reported it
    readable,  \* bytes the library has not read are in the socket
    got,       \* bytes recv() has returned
    rd,        \* session->packet: [held, total, data, decrypted], held = writeidx - readidx
    call,      \* the call the library executes: [op, at]
    jump1,     \* readPack_state = jump1 with packAdd_state = jump5: a reply to complete
    macstate,  \* fullpacket_state idle, or created with its fullpacket_macstate
    newkeys,   \* LIBSSH2_STATE_NEWKEYS
    up,        \* socket_state = LIBSSH2_SOCKET_CONNECTED
    cut,       \* packets cut from the stream
    taken,     \* packets _libssh2_packet_add has dealt with
    out,       \* outbuf, odata/olen, ototal_num, osent: [buf, odata, total, sent]
    wire,      \* packets on the wire: [msg, total, sent]; local.seqno is their number
    dirs,      \* socket_block_directions
    block,     \* api_block_mode, as libssh2_session_set_blocking left it
    misuse, unanswered, garbled   \* history, for the properties

peerVars == <<peer, closed>>
reader == <<got, rd, jump1, macstate, newkeys, up, cut, taken, garbled>>
writer == <<out, wire, misuse, dead>>
vars == <<peerVars, readable, reader, call, writer, dirs, block, unanswered>>

-----------------------------------------------------------------------------
(***************************************************************************)
(* The peer and the network (external).                                    *)
(***************************************************************************)
Mac(enc) == IF enc THEN MacLen ELSE 0
StreamEnd == IF peer = <<>> THEN 0 ELSE peer[Len(peer)].to

\* The peer builds its next packet: NEWKEYS once, everything after it encrypted, and a
\* wrong MAC only where there is one.
PeerSends(kind, size) ==
    LET enc == newkeys \/ \E i \in DOMAIN peer : peer[i].kind = "newkeys"
    IN  /\ ~closed /\ Len(peer) < MaxIn
        /\ kind = "newkeys" => ~enc
        /\ kind = "corrupt" => enc
        /\ peer' = Append(peer, [kind |-> kind, size |-> size, enc |-> enc,
                                 from |-> StreamEnd, to |-> StreamEnd + size + Mac(enc)])
        /\ UNCHANGED <<closed, readable, reader, call, writer, dirs, block, unanswered>>

\* Some more of what the peer has sent reaches the socket.
BytesArrive ==
    /\ ~readable /\ got < StreamEnd
    /\ readable' = TRUE
    /\ UNCHANGED <<peerVars, reader, call, writer, dirs, block, unanswered>>

PeerCloses ==
    /\ ~closed
    /\ closed' = TRUE
    /\ UNCHANGED <<peer, readable, reader, call, writer, dirs, block, unanswered>>

-----------------------------------------------------------------------------
(***************************************************************************)
(* _libssh2_transport_write.                                               *)
(***************************************************************************)
\* The padding that makes length fields, payload and padding whole blocks.
PaddingLength(len, blocksize) ==
    LET least == blocksize - ((len + Header) % blocksize)
    IN  IF least < 4 THEN least + blocksize ELSE least

OutSize(len) ==
    LET blocksize == IF newkeys THEN BlockSize ELSE 8
    IN  len + Header + PaddingLength(len, blocksize) + Mac(newkeys)

\* send() takes n of the bytes offered, would block, or fails for good.  Of the partial
\* results, all but one byte stands for any: the writer only subtracts them.  A socket
\* that has failed once goes on failing.
SendResults(length) ==
    (IF dead THEN {} ELSE {[rc |-> "sent", n |-> n] : n \in {length - 1, length} \ {0}}
                          \cup {[rc |-> "EAGAIN", n |-> 0]})
    \cup (IF closed THEN {[rc |-> "error", n |-> 0]} ELSE {})

GrowWire(n) == [wire EXCEPT ![Len(wire)].sent = @ + n]

\* What is left of a pending packet is offered to the socket, which answers res.
Resumes(res, rc) ==
    /\ wire' = IF res.n > 0 THEN GrowWire(res.n) ELSE wire
    /\ dead' = (res.rc = "error")
    /\ IF res.rc = "sent" /\ res.n = out.total - out.sent
         THEN /\ rc = "NONE"
              /\ out' = [out EXCEPT !.buf = FALSE, !.total = 0, !.sent = @ + res.n]
              /\ UNCHANGED dirs
         ELSE /\ rc = IF res.rc = "error" THEN "FAIL" ELSE "EAGAIN"
              /\ out' = [out EXCEPT !.sent = @ + res.n]
              /\ dirs' = IF res.rc = "EAGAIN" THEN dirs \cup {"out"} ELSE dirs

\* send_existing: a packet is pending, and only the call that started it may go on.
SendExisting(m, rc) ==
    \/ /\ m # out.odata
       /\ rc = "BADUSE"
       /\ misuse' = TRUE
       /\ UNCHANGED <<out, wire, dirs, dead>>
    \/ /\ m = out.odata
       /\ UNCHANGED misuse
       /\ \E res \in SendResults(out.total - out.sent) : Resumes(res, rc)

\* A new packet: what the socket does not take at once is kept.
SendNew(m, rc) ==
    /\ UNCHANGED misuse
    /\ LET total == OutSize(m[2]) IN
       \E res \in SendResults(total) :
         /\ wire' = Append(wire, [msg |-> m, total |-> total, sent |-> res.n])
         /\ dead' = (res.rc = "error")
         /\ rc = CASE res.n = total -> "NONE"
                   [] res.rc = "error" -> "FAIL"
                   [] OTHER -> "EAGAIN"
         /\ out' = CASE rc = "NONE" -> [out EXCEPT !.odata = NoData]
                     [] rc = "FAIL" -> [out EXCEPT !.buf = TRUE]
                     [] OTHER -> [buf |-> TRUE, odata |-> m, total |-> total, sent |-> res.n]
         /\ dirs' = IF rc = "EAGAIN" THEN dirs \cup {"out"} ELSE dirs \ {"out"}

\* A write call for m returns rc.
MutantWrites(m, rc) == SendNew(m, rc)
Writes(m, rc) == IF out.buf THEN SendExisting(m, rc) ELSE SendNew(m, rc)

-----------------------------------------------------------------------------
(***************************************************************************)
(* Calls.  BLOCK_ADJUST: a call that would block returns, or waits for the *)
(* socket and is made again with the same arguments.                       *)
(***************************************************************************)
Idle == [op |-> None, at |-> "idle"]
MutantReturns(rc) == call' = Idle
Returns(rc) ==
    call' = IF rc = "EAGAIN" /\ block THEN [call EXCEPT !.at = "select"] ELSE Idle

CallWrite(m) ==
    /\ call = Idle /\ (out.buf \/ Len(wire) < MaxOut)
    /\ call' = [op |-> m, at |-> "run"]
    /\ UNCHANGED <<peerVars, readable, reader, writer, dirs, block, unanswered>>

CallRead ==
    /\ call = Idle
    /\ call' = [op |-> Read, at |-> "run"]
    /\ dirs' = dirs \ {"in"}
    /\ UNCHANGED <<peerVars, readable, reader, writer, block, unanswered>>

TransportWrite ==
    /\ call.at = "run" /\ call.op \in Messages
    /\ \E rc \in {"NONE", "EAGAIN", "FAIL", "BADUSE"} : Writes(call.op, rc) /\ Returns(rc)
    /\ UNCHANGED <<peerVars, readable, reader, block, unanswered>>

\* _libssh2_wait_socket: select() on the recorded directions, without a timeout.
MutantWaitSocket ==
    /\ call.at = "select"
    /\ "in" \in dirs /\ (readable \/ (closed /\ got = StreamEnd))
    /\ call' = [call EXCEPT !.at = "run"]
    /\ dirs' = IF call.op = Read THEN dirs \ {"in"} ELSE dirs
    /\ UNCHANGED <<peerVars, readable, reader, writer, block, unanswered>>
WaitSocket ==
    /\ call.at = "select"
    /\ \/ "in" \in dirs /\ (readable \/ (closed /\ got = StreamEnd))
       \/ "out" \in dirs
    /\ call' = [call EXCEPT !.at = "run"]
    /\ dirs' = IF call.op = Read THEN dirs \ {"in"} ELSE dirs
    /\ UNCHANGED <<peerVars, readable, reader, writer, block, unanswered>>

-----------------------------------------------------------------------------
(***************************************************************************)
(* _libssh2_transport_read.                                                *)
(***************************************************************************)
\* p->total_num = 0: the next packet can be read.
PacketDone ==
    /\ cut' = cut + 1
    /\ rd' = [rd EXCEPT !.total = 0, !.data = 0, !.decrypted = 0]

Dealt(p) ==
    /\ PacketDone
    /\ taken' = taken + 1
    /\ jump1' = FALSE
    /\ newkeys' = (newkeys \/ p.kind = "newkeys")

\* A global request after its reply has been written, failed or been put off: then the
\* packet stays where it is, and the next read goes on with it.
MutantAnswered(p, rc) ==
    IF rc = "EAGAIN"
      THEN /\ jump1' = TRUE /\ macstate' = "confirmed"
           /\ taken' = taken + 1
           /\ UNCHANGED <<cut, rd, newkeys, unanswered>>
      ELSE /\ Dealt(p)
           /\ macstate' = "idle"
           /\ unanswered' = (unanswered \/ rc # "NONE")
Answered(p, rc) ==
    IF rc = "EAGAIN"
      THEN /\ jump1' = TRUE /\ macstate' = "confirmed"
           /\ UNCHANGED <<cut, taken, rd, newkeys, unanswered>>
      ELSE /\ Dealt(p)
           /\ macstate' = "idle"
           /\ unanswered' = (unanswered \/ rc # "NONE")

\* fullpacket and _libssh2_packet_add.  A packet whose MAC is wrong is refused and
\* leaves fullpacket_state as it is, so that the next packet is not looked at again.
\* SSH_MSG_DISCONNECT ends the session; a global request is answered from inside the
\* read; the key exchange sets NEWKEYS as soon as it has the packet.
FullPacket ==
    /\ call = [op |-> Read, at |-> "full"]
    /\ LET p == peer[cut + 1]
           state == IF macstate # "idle" THEN macstate
                    ELSE IF p.kind = "corrupt" THEN "invalid" ELSE "confirmed"
       IN
       \/ /\ state = "invalid"
          /\ PacketDone
          /\ macstate' = state
          /\ Returns("FAIL")
          /\ UNCHANGED <<taken, jump1, newkeys, up, writer, dirs, unanswered>>
       \/ /\ state = "confirmed" /\ p.kind = "disconnect"
          /\ Dealt(p)
          /\ macstate' = state
          /\ up' = FALSE
          /\ Returns("FAIL")
          /\ UNCHANGED <<writer, dirs, unanswered>>
       \/ /\ state = "confirmed" /\ p.kind = "request"
          /\ \E rc \in {"NONE", "EAGAIN", "FAIL", "BADUSE"} :
               /\ Writes(Reply(cut + 1), rc)
               /\ Returns(IF rc = "EAGAIN" THEN rc ELSE "NONE")
               /\ Answered(p, rc)
          /\ UNCHANGED up
       \/ /\ state = "confirmed" /\ p.kind \notin {"disconnect", "request"}
          /\ Dealt(p)
          /\ macstate' = "idle"
          /\ Returns("NONE")
          /\ UNCHANGED <<up, writer, dirs, unanswered>>
    /\ UNCHANGED <<peerVars, readable, got, garbled, block>>

\* A read that has a reply to complete goes back to fullpacket at once; one on a
\* session that has been told to disconnect returns at once.
ReadResumes ==
    /\ call = [op |-> Read, at |-> "run"] /\ jump1
    /\ call' = [call EXCEPT !.at = "full"]
    /\ UNCHANGED <<peerVars, readable, reader, writer, dirs, block, unanswered>>

ReadDisconnected ==
    /\ call = [op |-> Read, at |-> "run"] /\ ~jump1 /\ ~up
    /\ Returns("NONE")
    /\ UNCHANGED <<peerVars, readable, reader, writer, dirs, block, unanswered>>

\* The size of the piece the reader works with.
ReadBlock == IF newkeys THEN BlockSize ELSE Header

\* decrypt(): n more bytes of the packet, whole blocks, have gone through the cipher.
Decrypt(r, n) == [r EXCEPT !.decrypted = @ + n]

\* The first block of a packet: its length is known, and what it holds of the payload.
WithHeader(r, p) ==
    [r EXCEPT !.held = @ - ReadBlock,
              !.total = p.size - Header + Mac(newkeys),
              !.data = ReadBlock - Header,
              !.decrypted = IF newkeys THEN ReadBlock ELSE 0]

\* The rest: whole blocks through the cipher, the MAC (or everything, before the
\* switch) copied as it is, a fraction of a block left in the buffer.
MutantFilled(r) ==
    LET numbytes == Min({r.held, r.total - r.data})
    IN  [r EXCEPT !.held = @ - numbytes, !.data = @ + numbytes,
                  !.decrypted = IF newkeys THEN @ + numbytes ELSE @]
Filled(r) ==
    LET numbytes == Min({r.held, r.total - r.data})
        toMac == r.total - Mac(newkeys)
        numdecrypt == numbytes - (numbytes % BlockSize)
        moved(n) == [r EXCEPT !.held = @ - n, !.data = @ + n]
    IN  IF ~newkeys THEN moved(numbytes)
        ELSE IF r.data + numbytes > toMac
               THEN Decrypt(moved(numbytes), Max({toMac - r.data, 0}))
               ELSE Decrypt(moved(numdecrypt), numdecrypt)

\* One turn of the loop with the buffer r and n bytes received in all.
Turn(r, n) ==
    LET p == peer[cut + 1]
        start == r.total = 0
        f == Filled(IF start THEN WithHeader(r, p) ELSE r)
        used == n - f.held
    IN  /\ got' = n
        /\ IF start /\ r.held < ReadBlock
             THEN /\ rd' = r
                  /\ dirs' = dirs \cup {"in"}
                  /\ Returns("EAGAIN")
                  /\ UNCHANGED garbled
             ELSE /\ rd' = f
                  /\ call' = IF f.total = f.data THEN [call EXCEPT !.at = "full"] ELSE call
                  /\ garbled' = \/ garbled
                                \/ start /\ n - r.held # p.from
                                \/ newkeys # p.enc
                                \/ f.total = f.data /\ used # p.to
                                \/ newkeys /\ f.total = f.data /\ f.decrypted # p.size
                  /\ UNCHANGED dirs

\* Less than a block is left: the rest is moved to the start of the buffer and
\* recv() is asked for as much as fits behind it.
ReadLoop ==
    /\ call = [op |-> Read, at |-> "run"] /\ ~jump1 /\ up
    /\ \/ /\ rd.held >= ReadBlock
          /\ Turn(rd, got)
          /\ UNCHANGED readable
       \/ /\ rd.held < ReadBlock /\ readable
          /\ \E n \in 1..Min({StreamEnd - got, BufSize - rd.held}) :
               /\ Turn([rd EXCEPT !.held = @ + n], got + n)
               /\ readable' \in IF got + n < StreamEnd THEN BOOLEAN ELSE {FALSE}
       \/ /\ rd.held < ReadBlock /\ ~readable
          /\ IF closed /\ got = StreamEnd
               THEN Returns("FAIL") /\ UNCHANGED dirs
               ELSE Returns("EAGAIN") /\ dirs' = dirs \cup {"in"}
          /\ UNCHANGED <<readable, got, rd, garbled>>
    /\ UNCHANGED <<peerVars, jump1, macstate, newkeys, up, cut, taken, writer, block,
                   unanswered>>

-----------------------------------------------------------------------------
Init ==
    /\ newkeys \in BOOLEAN /\ peer = <<>>
    /\ closed = FALSE /\ dead = FALSE /\ readable = FALSE
    /\ got = 0
    /\ rd = [held |-> 0, total |-> 0, data |-> 0, decrypted |-> 0]
    /\ call = Idle
    /\ jump1 = FALSE /\ macstate = "idle" /\ up = TRUE
    /\ cut = 0 /\ taken = 0
    /\ out = [buf |-> FALSE, odata |-> NoData, total |-> 0, sent |-> 0]
    /\ wire = <<>>
    /\ dirs = {}
    /\ block \in BOOLEAN
    /\ misuse = FALSE /\ unanswered = FALSE /\ garbled = FALSE

Library ==
    TransportWrite \/ WaitSocket \/ FullPacket \/ ReadResumes \/ ReadDisconnected \/ ReadLoop

Next ==
    \/ \E kind \in Kinds, size \in Sizes : PeerSends(kind, size)
    \/ BytesArrive \/ PeerCloses
    \/ \E m \in Messages : CallWrite(m)
    \/ CallRead
    \/ Library

Spec == Init /\ [][Next]_vars

\* A step of a write, or of a reply inside a read, that puts bytes on the wire or
\* ends the call.
WriteProgress ==
    /\ TransportWrite \/ FullPacket
    /\ wire' # wire \/ call' = Idle

\* The library runs while a call is being executed, bytes that were sent arrive, and
\* a socket that is asked again and again takes some bytes: the peer reads.  Nobody
\* has to call anything, and the peer has to send nothing.
FairSpec ==
    /\ Spec
    /\ WF_vars(Library) /\ WF_vars(BytesArrive) /\ SF_vars(WriteProgress)

-----------------------------------------------------------------------------
Outgoing == Messages \cup {Reply(k) : k \in 1..MaxIn}

\* Types of struct transportpacket, of the saved states and of the wire; the read buffer
\* never holds more than PACKETBUFSIZE.
TypeOK ==
    /\ peer \in Seq([kind : Kinds, size : Sizes, enc : BOOLEAN, from : Nat, to : Nat])
    /\ closed \in BOOLEAN /\ dead \in BOOLEAN /\ readable \in BOOLEAN
    /\ got \in 0..StreamEnd
    /\ rd \in [held : 0..BufSize, total : Nat, data : Nat, decrypted : Nat]
    /\ rd.data <= rd.total
    /\ call \in [op : Outgoing \cup {Read, None}, at : {"idle", "run", "select", "full"}]
    /\ jump1 \in BOOLEAN /\ newkeys \in BOOLEAN /\ up \in BOOLEAN /\ block \in BOOLEAN
    /\ macstate \in {"idle", "confirmed", "invalid"}
    /\ cut \in 0..Len(peer) /\ taken \in 0..cut
    /\ out \in [buf : BOOLEAN, odata : Outgoing \cup {NoData}, total : Nat, sent : Nat]
    /\ wire \in Seq([msg : Outgoing, total : Nat, sent : Nat])
    /\ dirs \subseteq {"in", "out"}
    /\ misuse \in BOOLEAN /\ unanswered \in BOOLEAN /\ garbled \in BOOLEAN

\* However the stream of the peer is broken up by recv(), every packet is cut from it
\* exactly where the peer put it, with the cipher in force when the peer built it, and
\* all of it but the MAC goes through the cipher, once (transport.c, the arithmetic on
\* readidx, total_num, data_num, numdecrypt and the MAC's skip).  Nothing is taken from
\* a packet on whose MAC is wrong: fullpacket_state is left as it is, and later packets
\* inherit the verdict.
StreamInSync ==
    /\ ~garbled
    /\ \A i \in 1..cut : peer[i].kind = "corrupt" => taken < i

\* Packets leave whole and one after the other, whoever calls in between: only the
\* last can be incomplete, and then its rest is what the writer has kept.
WireIsWhole ==
    /\ \A i \in DOMAIN wire : wire[i].sent < wire[i].total => i = Len(wire) /\ out.buf
    /\ out.buf /\ ~closed =>
         LET last == wire[Len(wire)]
         IN  out.odata = last.msg /\ out.total = last.total /\ out.sent = last.sent

\* A blocking session completes each packet before it does
\* anything else: no call is refused as a misuse, and every global request that was
\* read has been answered, as long as the connection is up.
BlockingNeverMisuses ==
    block /\ ~closed => ~misuse /\ ~unanswered

\* What a blocked call waits for.
CanGoOn ==
    \/ call.op \in Messages
    \/ call.op = Read /\ (jump1 \/ closed \/ (cut < Len(peer) /\ up))

\* A blocked call returns once it can: its packet is taken by the socket, or a packet
\* has been sent to it.  The directions recorded in socket_block_directions suffice.
BlockedCallReturns == call.at = "select" /\ CanGoOn ~> call.at = "idle"

\* The packets on the wire to their last byte.
Completed ==
    LET whole == {i \in DOMAIN wire : wire[i].sent = wire[i].total}
    IN  [i \in 1..Cardinality(whole) |-> wire[i].msg]

Link == INSTANCE PacketLink WITH
            Inbound <- Kinds, Outbound <- Outgoing,
            sent <- [i \in DOMAIN peer |-> peer[i].kind],
            received <- taken, written <- Completed

\* The transport implements the packet link the layers above rely on.
ImplementsLink == Link!LinkSpec
=============================================================================
