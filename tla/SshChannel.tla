----------------------------- MODULE SshChannel -----------------------------
(***************************************************************************)
(* libssh2 channel.c over packet.c: the open channels of a blocking        *)
(* session.  A call runs to its end before the next one, but each          *)
(* transport_write and transport_read inside it may return EAGAIN, and     *)
(* then the function returns, BLOCK_ADJUST waits and calls it again with   *)
(* the same arguments: what it has not saved in the channel is gone.       *)
(* Meanwhile the peer goes on sending.  One step is one packet read or     *)
(* written.  The transport is the packet link of PacketLink, with the rule *)
(* of SshTransport that a packet begun must be finished by the same write. *)
(*                                                                         *)
(* Data is counted in bytes per channel and stream (0, or 1 for stderr).   *)
(***************************************************************************)
EXTENDS Totals, FiniteSetsExt

CONSTANTS
    Chans,        \* channels of the session
    Ops,          \* calls the application makes: <<function, argument>>
    Kinds,        \* kinds of packets the peer sends
    Lens,         \* sizes of the peer's data packets; below 4 the refund of a flush wraps around
    Blocking,     \* packets whose write may return EAGAIN
    Window,       \* remote.window_size when the channel is opened
    PacketSize,   \* local.packet_size
    LowWater,     \* LIBSSH2_CHANNEL_WINDOW_DEFAULT * 300; the window is raised by twice that
    MinAdjust,    \* LIBSSH2_CHANNEL_MINADJUST
    MaxPackets,   \* bound: packets the peer sends
    MaxCalls      \* bound: calls of the application

Streams == {0, 1}
Modes == {"normal", "ignore", "merge"}
CallNames == {"read", "write", "flush", "adjust", "mode", "eof", "waitEof", "waitClosed",
              "close", "free"}
PacketKinds == {"adjust", "data", "eof", "close", "failure"}
NoPacket == <<"none", 0>>
NoAnswer == [kind |-> "none", c |-> 0, s |-> 0, n |-> 0]

ASSUME ChannelAssumption ==
    /\ Chans \subseteq Nat \ {0}
    /\ Lens \subseteq Nat /\ \A n \in Lens : 4 <= n /\ n <= Window
    /\ {Window, PacketSize, LowWater, MinAdjust, MaxPackets, MaxCalls} \subseteq Nat
    /\ PacketSize > 0
    /\ Kinds \subseteq {"data", "eof", "close", "adjust", "request", "disconnect"}
    /\ \A o \in Ops :
         /\ o[1] \in CallNames
         /\ o[1] = "read" => o[2] \in Streams \X Nat
         /\ o[1] = "write" => o[2] \in {0} \X Nat
         /\ o[1] = "flush" => o[2] \subseteq Streams
         /\ o[1] = "adjust" => o[2] \in Nat \X {0, 1}
         /\ o[1] = "mode" => o[2] \in Modes

VARIABLES
    ch,        \* LIBSSH2_CHANNEL: local.*, remote.* and the saved states of its functions
    brigade,   \* session->packets: [c, s, size, len], len bytes of it not yet read
    inbound,   \* packets in the socket
    net,       \* up, disconnected (socket_state) or broken (the socket fails)
    pend,      \* packet the transport has begun to send
    add,       \* packAdd_state jump1 or jump4: the answer a received packet waits for
    call,      \* the call being executed: [op, c, arg, at, n], n as the function's local
    peer,      \* the other end: window, grant, bytes sent and got, eof, close, and the kinds
               \* of half-sent packets because of which one for it was refused
    app,       \* bytes the application was given, gave away, lost, was told it wrote, and
               \* those of a stream that is ignored
    packets, calls   \* counters for the bounds

vars == <<ch, brigade, inbound, net, pend, add, call, peer, app, packets, calls>>
session == <<ch, brigade, inbound, net, pend, add, peer>>

-----------------------------------------------------------------------------
(***************************************************************************)
(* Writing.                                                                *)
(***************************************************************************)
\* What the other end, in state p, makes of packet kind with amount n (external).
Received(p, kind, n) ==
    CASE kind = "adjust" -> [p EXCEPT !.grant = @ + n]
      [] kind = "data"   -> [p EXCEPT !.got = @ + n, !.window = @ - n]
      [] kind = "eof"    -> [p EXCEPT !.eofs = @ + 1]
      [] kind = "close"  -> [p EXCEPT !.closes = @ + 1]
      [] OTHER           -> p

\* _libssh2_transport_write, as SshTransport!Writes has it: only the packet that was
\* begun can be gone on with, everything else is a misuse until it is complete.
Send(kind, c, n, rc) ==
    \/ /\ pend \notin {NoPacket, <<kind, c>>}
       /\ rc = "FAIL"
       /\ peer' = [peer EXCEPT ![c].refused = @ \cup {pend[1]}]
       /\ UNCHANGED pend
    \/ /\ pend \in {NoPacket, <<kind, c>>}
       /\ \/ /\ rc = "NONE" /\ net # "broken"
             /\ pend' = NoPacket
             /\ peer' = [peer EXCEPT ![c] = Received(@, kind, n)]
          \/ /\ rc = "EAGAIN" /\ net # "broken" /\ kind \in Blocking
             /\ pend' = <<kind, c>>
             /\ UNCHANGED peer
          \/ /\ rc = "FAIL" /\ net # "up"
             /\ UNCHANGED <<pend, peer>>

\* _libssh2_channel_receive_window_adjust: less than MINADJUST is put off unless forced.
AdjustSends(c, adjustment, force) ==
    \/ ch[c].adjusting
    \/ adjustment + ch[c].queue >= MinAdjust
    \/ force /\ adjustment + ch[c].queue > 0

Adjust(c, adjustment, force, rc) ==
    IF AdjustSends(c, adjustment, force)
      THEN Send("adjust", c,
                IF ch[c].adjusting THEN ch[c].amount ELSE adjustment + ch[c].queue, rc)
      ELSE rc = "NONE" /\ UNCHANGED <<pend, peer>>

\* What was put off goes into the packet, but not into the window.
MutantAdjusted(c, adjustment, force, rc) ==
    LET s == ch[c]
    IN  IF ~AdjustSends(c, adjustment, force) THEN [s EXCEPT !.queue = @ + adjustment]
        ELSE IF rc = "NONE"
          THEN [s EXCEPT !.queue = 0, !.adjusting = FALSE, !.amount = 0, !.rwin = @ + adjustment]
          ELSE [s EXCEPT !.queue = 0, !.adjusting = TRUE, !.amount = adjustment + s.queue, !.stalled = TRUE]

\* The channel after it.  When the call is repeated after EAGAIN the window grows by this
\* call's adjustment, not by the amount that is in the packet: slipped is the difference.
Adjusted(c, adjustment, force, rc) ==
    LET s == ch[c]
        total == IF s.adjusting THEN adjustment ELSE adjustment + s.queue
        amount == IF s.adjusting THEN s.amount ELSE total
    IN  IF ~AdjustSends(c, adjustment, force) THEN [s EXCEPT !.queue = total]
        ELSE IF rc = "NONE"
          THEN [s EXCEPT !.queue = 0, !.adjusting = FALSE, !.amount = 0, !.rwin = @ + total,
                         !.slipped = @ + amount - total]
          ELSE [s EXCEPT !.queue = IF rc = "EAGAIN" THEN 0 ELSE total,
                         !.adjusting = TRUE, !.amount = amount, !.stalled = TRUE]

-----------------------------------------------------------------------------
(***************************************************************************)
(* Reading: _libssh2_transport_read with _libssh2_packet_add.              *)
(***************************************************************************)
\* What becomes of n bytes that nobody reads: they are cut off, a channel that is gone did
\* not want them, or they were for the stderr that is ignored.
Lost(c, s, n) == app' = [app EXCEPT ![c].lost[s] = @ + n]
Dropped(c, s, n) == app' = [app EXCEPT ![c].dropped[s] = @ + n]
Ignored(c, n) == app' = [app EXCEPT ![c].dropped[1] = @ + n, ![c].ignored = @ + n]

\* SSH_MSG_CHANNEL_DATA and _EXTENDED_DATA that the channel keeps: cut to the window (the
\* packet size is never exceeded).  Data that had to be cut leaves the window as it is.
KeepData(c, s, n) ==
    LET room == ch[c].rwin IN
    \/ /\ n <= room
       /\ brigade' = Append(brigade, [c |-> c, s |-> s, size |-> n, len |-> n])
       /\ ch' = [ch EXCEPT ![c].reof = FALSE, ![c].rwin = @ - n]
       /\ UNCHANGED app
    \/ /\ room < n
       /\ Lost(c, s, n - room)
       /\ brigade' = IF room = 0 THEN brigade
                     ELSE Append(brigade, [c |-> c, s |-> s, size |-> room, len |-> room])
       /\ ch' = [ch EXCEPT ![c].reof = @ /\ room = 0, ![c].slipped = @ - n]

\* jump_point1 and jump_point4: the window gets back what an ignored packet p took, or the
\* request p is refused.  After EAGAIN the next read goes on from here, whatever has become
\* of the channel; of one that has been freed meanwhile the old state is read.
Answer(p, rc) ==
    LET c == p.c IN
    /\ \E w \in {"NONE", "EAGAIN", "FAIL"} :
         /\ \/ /\ p.kind = "data"
               /\ Adjust(c, p.n, FALSE, w)
               /\ ch' = [ch EXCEPT ![c] = Adjusted(c, p.n, FALSE, w)]
            \/ /\ p.kind = "request"
               /\ Send("failure", c, 0, w)
               /\ UNCHANGED ch
         /\ rc = IF w = "EAGAIN" THEN w ELSE "packet"
         /\ add' = IF w = "EAGAIN" THEN p ELSE NoAnswer
    /\ UNCHANGED <<brigade, net>>

\* The channel, in state s, after packet p, which is no data.
Told(s, p) ==
    CASE p.kind = "eof"   -> [s EXCEPT !.reof = TRUE]
      [] p.kind = "close" -> [s EXCEPT !.reof = TRUE, !.rclose = TRUE]
      [] OTHER            -> [s EXCEPT !.lwin = @ + p.n]

\* A packet p that was read is dealt with; rc is what _libssh2_packet_add returns.
PacketAdd(p, rc) ==
    LET c == p.c IN
    \/ /\ p.kind = "disconnect"
       /\ net' = "disconnected" /\ rc = "FAIL"
       /\ UNCHANGED <<ch, brigade, pend, add, peer, app>>
    \/ /\ p.kind \notin {"disconnect", "request"} /\ ~ch[c].live
       /\ rc = "packet"
       /\ IF p.kind = "data" THEN Dropped(c, p.s, p.n) ELSE UNCHANGED app
       /\ UNCHANGED <<ch, brigade, net, pend, add, peer>>
    \/ /\ p.kind = "data" /\ ch[c].live /\ ~(p.s = 1 /\ ch[c].mode = "ignore")
       /\ rc = "packet"
       /\ KeepData(c, p.s, p.n)
       /\ UNCHANGED <<net, pend, add, peer>>
    \/ /\ p.kind = "data" /\ ch[c].live /\ p.s = 1 /\ ch[c].mode = "ignore"
       /\ Ignored(c, p.n)
       /\ Answer(p, rc)
    \/ /\ p.kind = "request"
       /\ Answer(p, rc)
       /\ UNCHANGED app
    \/ /\ p.kind \in {"eof", "close", "adjust"} /\ ch[c].live
       /\ rc = "packet"
       /\ ch' = [ch EXCEPT ![c] = Told(@, p)]
       /\ UNCHANGED <<brigade, net, pend, add, peer, app>>

\* One call of _libssh2_transport_read: a packet was dealt with, the socket is empty
\* or an answer could not be sent (EAGAIN), the session is disconnected (zero), or the
\* socket fails.
TransportRead(rc) ==
    \/ /\ add # NoAnswer
       /\ Answer(add, rc)
       /\ UNCHANGED <<inbound, app>>
    \/ /\ add = NoAnswer /\ net = "disconnected" /\ rc = "zero"
       /\ UNCHANGED <<session, app>>
    \/ /\ add = NoAnswer /\ net # "disconnected" /\ inbound = <<>>
       /\ rc = IF net = "broken" THEN "FAIL" ELSE "EAGAIN"
       /\ UNCHANGED <<session, app>>
    \/ /\ add = NoAnswer /\ net # "disconnected" /\ inbound # <<>>
       /\ PacketAdd(Head(inbound), rc)
       /\ inbound' = Tail(inbound)

-----------------------------------------------------------------------------
(***************************************************************************)
(* Calls.  BLOCK_ADJUST: EAGAIN is a wait for the socket and the same call *)
(* again, from the top of the function.                                    *)
(***************************************************************************)
Zero == [s \in Streams |-> 0]
Idle == [op |-> "none", c |-> 0, arg |-> <<0, 0>>, at |-> "idle", n |-> Zero]
Goto(at) == call' = [call EXCEPT !.at = at]
Again == call' = [call EXCEPT !.at = "select", !.n = Zero]
Return == call' = Idle
Running(op, at) == call.op = op /\ call.at = at
Rcs == {"NONE", "packet", "EAGAIN", "zero", "FAIL"}

Call(op, c, arg) ==
    /\ call = Idle /\ ch[c].live
    /\ calls < MaxCalls /\ calls' = calls + 1
    /\ call' = [op |-> op, c |-> c, arg |-> arg, at |-> "enter", n |-> Zero]
    /\ UNCHANGED <<session, app, packets>>

Wake ==
    /\ call.at = "select"
    /\ inbound # <<>> \/ pend # NoPacket \/ net # "up"
    /\ Goto("enter")
    /\ UNCHANGED <<session, app, packets, calls>>

-----------------------------------------------------------------------------
(***************************************************************************)
(* _libssh2_channel_read(channel, stream, buflen).                         *)
(***************************************************************************)
Matches(c, s, p) ==
    p.c = c /\ (p.s = s \/ (s = 0 /\ ch[c].mode = "merge"))

\* The bytes of each packet that a read of want bytes takes: from the front.
Taken(c, s, want) ==
    LET size == [i \in DOMAIN brigade |-> IF Matches(c, s, brigade[i]) THEN brigade[i].len ELSE 0]
        before == Sums(size)
        least(a, b) == IF a < b THEN a ELSE b
    IN  [i \in DOMAIN brigade |->
            IF before[i - 1] >= want THEN 0 ELSE least(size[i], want - before[i - 1])]

\* What they leave: a packet that is read to its end is removed.
MutantRest(taken) == Only(brigade, {i \in DOMAIN brigade : taken[i] = 0})
Rest(taken) ==
    LET left == [i \in DOMAIN brigade |-> [brigade[i] EXCEPT !.len = @ - taken[i]]]
    IN  Only(left, {i \in DOMAIN brigade : left[i].len > 0})

PerStream(bytes) ==
    [s \in Streams |-> Total([i \in DOMAIN brigade |-> IF brigade[i].s = s THEN bytes[i] ELSE 0])]

Add(f, g) == [s \in Streams |-> f[s] + g[s]]

\* All pending packets are read first; then, unless a window adjustment is to be
\* completed (jump1), the brigade is emptied into the buffer.
ReadEnters ==
    /\ Running("read", "enter")
    /\ \E rc \in Rcs :
         /\ TransportRead(rc)
         /\ call' = CASE rc = "packet" -> call
                      [] rc = "FAIL"   -> Idle
                      [] OTHER -> [call EXCEPT !.at = IF ch[call.c].jump1 THEN "adjust" ELSE rc]
    /\ UNCHANGED <<packets, calls>>

\* Nothing for this stream: zero at its end, or EAGAIN.
MutantReadsNothing(c) == Return
ReadsNothing(c) ==
    IF ch[c].reof \/ ch[c].rclose \/ call.at = "zero" THEN Return ELSE Again

\* The bytes go into the buffer, and the window is raised if it has become too narrow.
ReadCopies ==
    /\ call.op = "read" /\ call.at \in {"EAGAIN", "zero"}
    /\ LET c == call.c
           taken == Taken(c, call.arg[1], call.arg[2])
           bytes == PerStream(taken)
       IN
       \/ /\ bytes = Zero
          /\ ReadsNothing(c)
          /\ UNCHANGED <<ch, brigade, app>>
       \/ /\ bytes # Zero /\ ch[c].rwin < LowWater
          /\ brigade' = Rest(taken)
          /\ ch' = [ch EXCEPT ![c].jump1 = TRUE]
          /\ call' = [call EXCEPT !.at = "adjust", !.n = bytes]
          /\ UNCHANGED app
       \/ /\ bytes # Zero /\ ch[c].rwin >= LowWater
          /\ brigade' = Rest(taken)
          /\ app' = [app EXCEPT ![c].read = Add(@, bytes)]
          /\ Return
          /\ UNCHANGED ch
    /\ UNCHANGED <<inbound, net, pend, add, peer, packets, calls>>

\* bytes_read is a local variable: a read that is repeated from here returns zero.
ReadAdjusts ==
    /\ Running("read", "adjust")
    /\ LET c == call.c
           adjustment == 2 * LowWater
       IN  \E rc \in Rcs :
             /\ Adjust(c, adjustment, FALSE, rc)
             /\ ch' = [ch EXCEPT ![c] =
                   [Adjusted(c, adjustment, FALSE, rc) EXCEPT !.jump1 = rc = "EAGAIN"]]
             /\ IF rc = "EAGAIN"
                  THEN Again /\ app' = [app EXCEPT ![c].lost = Add(@, call.n)]
                  ELSE Return /\ app' = [app EXCEPT ![c].read = Add(@, call.n)]
    /\ UNCHANGED <<brigade, inbound, net, add, packets, calls>>

-----------------------------------------------------------------------------
(***************************************************************************)
(* _libssh2_channel_write(channel, 0, buflen).                             *)
(***************************************************************************)
\* What is left of the buffer.  write_bufwrote is kept in the channel, the count the
\* call returns (n[0], the variable wrote) is not.
Left == call.arg[2] - ch[call.c].bufwrote

Wrote(n) ==
    /\ ch' = [ch EXCEPT ![call.c].writing = "idle"]
    /\ app' = [app EXCEPT ![call.c].wrote = @ + n]
    /\ Return

WriteEnters ==
    /\ Running("write", "enter")
    /\ LET c == call.c IN
       \/ /\ ch[c].writing = "idle" /\ ch[c].lclose
          /\ Return
          /\ UNCHANGED ch
       \/ /\ ch[c].writing = "idle" /\ ~ch[c].lclose
          /\ ch' = [ch EXCEPT ![c].writing = "allocated", ![c].bufwrote = 0]
          /\ Goto("drain")
       \/ /\ ch[c].writing = "created"
          /\ Goto("send")
          /\ UNCHANGED ch
    /\ UNCHANGED <<brigade, inbound, net, pend, add, peer, app, packets, calls>>

\* The incoming flow is drained first; then the window decides how much goes out.
WriteDrains ==
    /\ Running("write", "drain")
    /\ \E rc \in Rcs :
         /\ TransportRead(rc)
         /\ Goto(IF rc = "packet" THEN "drain" ELSE "split")
    /\ UNCHANGED <<packets, calls>>

WriteSplits ==
    /\ Running("write", "split")
    /\ LET c == call.c IN
       IF ch[c].lwin = 0
         THEN Wrote(call.n[0])
         ELSE /\ ch' = [ch EXCEPT ![c].writing = "created",
                                  ![c].bufwrite = Min({Left, ch[c].lwin, PacketSize})]
              /\ Goto("send")
              /\ UNCHANGED app
    /\ UNCHANGED <<brigade, inbound, net, pend, add, peer, packets, calls>>

WriteSends ==
    /\ Running("write", "send")
    /\ LET c == call.c
           n == ch[c].bufwrite
       IN  \E rc \in Rcs :
             /\ Send("data", c, n, rc)
             /\ \/ /\ rc = "EAGAIN"
                   /\ Again
                   /\ UNCHANGED <<ch, app>>
                \/ /\ rc = "FAIL"
                   /\ ch' = [ch EXCEPT ![c].writing = "idle"]
                   /\ Return
                   /\ UNCHANGED app
                \/ /\ rc = "NONE" /\ n < Left
                   /\ ch' = [ch EXCEPT ![c].lwin = @ - n, ![c].bufwrote = @ + n,
                                       ![c].writing = "allocated"]
                   /\ call' = [call EXCEPT !.at = "drain", !.n[0] = @ + n]
                   /\ UNCHANGED app
                \/ /\ rc = "NONE" /\ n = Left
                   /\ ch' = [ch EXCEPT ![c].lwin = @ - n, ![c].bufwrote = @ + n,
                                       ![c].writing = "idle"]
                   /\ app' = [app EXCEPT ![c].wrote = @ + call.n[0] + n]
                   /\ Return
    /\ UNCHANGED <<brigade, inbound, net, add, packets, calls>>

-----------------------------------------------------------------------------
(***************************************************************************)
(* Flushing, window and mode.                                              *)
(***************************************************************************)
\* _libssh2_channel_flush(channel, streams): the packets go, and the window gets back
\* their length less 13, the header of extended data: 4 bytes too few for stream 0.
Flushed(c, streams) ==
    {i \in DOMAIN brigade : brigade[i].c = c /\ brigade[i].s \in streams}
Refund(i) == brigade[i].size - (IF brigade[i].s = 0 THEN 4 ELSE 0)

FlushEnters ==
    /\ Running("flush", "enter") /\ ~ch[call.c].flushing
    /\ LET c == call.c
           gone == Flushed(c, call.arg)
           lens == [i \in DOMAIN brigade |-> IF i \in gone THEN brigade[i].len ELSE 0]
       IN  /\ brigade' = Rest(lens)
           /\ ch' = [ch EXCEPT ![c].flushing = TRUE,
                 ![c].refund = Total([i \in DOMAIN brigade |-> IF i \in gone THEN Refund(i) ELSE 0])]
           /\ app' = [app EXCEPT ![c].dropped = Add(@, PerStream(lens))]
    /\ UNCHANGED <<inbound, net, pend, add, call, peer, packets, calls>>

FlushRefunds ==
    /\ Running("flush", "enter") /\ ch[call.c].flushing
    /\ LET c == call.c
           refund == ch[c].refund
       IN  \E rc \in Rcs :
             /\ IF refund > 0 THEN Adjust(c, refund, FALSE, rc)
                ELSE rc = "NONE" /\ UNCHANGED <<pend, peer>>
             /\ ch' = [ch EXCEPT ![c] =
                   [(IF refund > 0 THEN Adjusted(c, refund, FALSE, rc) ELSE @)
                        EXCEPT !.flushing = rc = "EAGAIN"]]
             /\ IF rc = "EAGAIN" THEN Again ELSE Return
    /\ UNCHANGED <<brigade, inbound, net, add, app, packets, calls>>

\* libssh2_channel_receive_window_adjust(channel, adjustment, force).
WindowAdjusts ==
    /\ Running("adjust", "enter")
    /\ \E rc \in Rcs :
         /\ Adjust(call.c, call.arg[1], call.arg[2] = 1, rc)
         /\ ch' = [ch EXCEPT ![call.c] = Adjusted(call.c, call.arg[1], call.arg[2] = 1, rc)]
         /\ IF rc = "EAGAIN" THEN Again ELSE Return
    /\ UNCHANGED <<brigade, inbound, net, add, app, packets, calls>>

\* _libssh2_channel_extended_data: the mode is set; the flush that should follow tests
\* for the state it has just left and never happens.
ExtendedData ==
    /\ Running("mode", "enter")
    /\ ch' = [ch EXCEPT ![call.c].mode = call.arg]
    /\ Return
    /\ UNCHANGED <<brigade, inbound, net, pend, add, peer, app, packets, calls>>

-----------------------------------------------------------------------------
(***************************************************************************)
(* End of file, closing and freeing.                                       *)
(***************************************************************************)
SendEof ==
    /\ Running("eof", "enter")
    /\ \E rc \in Rcs :
         /\ Send("eof", call.c, 0, rc)
         /\ ch' = [ch EXCEPT ![call.c].leof = @ \/ rc = "NONE"]
         /\ IF rc = "EAGAIN" THEN Again ELSE Return
    /\ UNCHANGED <<brigade, inbound, net, add, app, packets, calls>>

\* channel_wait_eof: nothing but the end of file, EAGAIN or a failure ends the loop.
WaitEof ==
    /\ Running("waitEof", "enter")
    /\ \/ /\ ch[call.c].reof
          /\ Return
          /\ UNCHANGED <<session, app>>
       \/ /\ ~ch[call.c].reof
          /\ \E rc \in Rcs :
               /\ TransportRead(rc)
               /\ CASE rc = "EAGAIN" -> Again
                    [] rc = "FAIL" -> Return
                    [] OTHER -> UNCHANGED call
    /\ UNCHANGED <<packets, calls>>

\* libssh2_channel_eof: data that is waiting masks the end of file.
ChannelEof(c) == ch[c].reof /\ \A i \in DOMAIN brigade : brigade[i].c # c

\* channel_wait_closed: refused unless the end of file has been read; then packets are
\* read until the close is among them.
WaitClosed ==
    /\ call.op = "waitClosed" /\ call.at \in {"enter", "loop"}
    /\ \/ /\ ch[call.c].rclose \/ (call.at = "enter" /\ ~ChannelEof(call.c))
          /\ Return
          /\ UNCHANGED <<session, app>>
       \/ /\ ~ch[call.c].rclose /\ (call.at = "enter" => ChannelEof(call.c))
          /\ \E rc \in Rcs :
               /\ TransportRead(rc)
               /\ CASE rc = "packet" -> Goto("loop")
                    [] rc = "EAGAIN" -> Again
                    [] OTHER -> Return
    /\ UNCHANGED <<packets, calls>>

\* channel_close: the packet is sent, and then the remote close awaited, as long as
\* transport_read returns zero: any packet ends the wait.  A close inside a free goes
\* on to the rest of the free, or ends it on a failure.
Closes(at) == call.op \in {"close", "free"} /\ call.at = at
Closed(ok) == IF call.op = "free" /\ ok THEN Goto("cleanup") ELSE Return

MutantCloseEnters ==
    /\ Closes("enter")
    /\ IF ch[call.c].lclose \/ (call.op = "free" /\ net = "disconnected")
         THEN Closed(TRUE)
         ELSE Goto("send")
    /\ UNCHANGED <<session, app, packets, calls>>
MutantCloseIgnoresSocket ==
    /\ Closes("enter")
    /\ IF ch[call.c].lclose THEN Closed(TRUE)
         ELSE Goto(IF ch[call.c].closing = "sent" THEN "await" ELSE "send")
    /\ UNCHANGED <<session, app, packets, calls>>
CloseEnters ==
    /\ Closes("enter")
    /\ IF ch[call.c].lclose \/ (call.op = "free" /\ net = "disconnected")
         THEN Closed(TRUE)
         ELSE Goto(IF ch[call.c].closing = "sent" THEN "await" ELSE "send")
    /\ UNCHANGED <<session, app, packets, calls>>

CloseSends ==
    /\ Closes("send")
    /\ \E rc \in Rcs :
         /\ Send("close", call.c, 0, rc)
         /\ ch' = [ch EXCEPT ![call.c].closing =
               CASE rc = "NONE" -> "sent" [] rc = "EAGAIN" -> "created" [] OTHER -> "idle"]
         /\ CASE rc = "NONE" -> Goto("await") [] rc = "EAGAIN" -> Again [] OTHER -> Closed(FALSE)
    /\ UNCHANGED <<brigade, inbound, net, add, app, packets, calls>>

CloseAwaits ==
    /\ Closes("await")
    /\ \/ /\ ch[call.c].rclose
          /\ Goto("closed")
          /\ UNCHANGED <<session, app>>
       \/ /\ ~ch[call.c].rclose
          /\ \E rc \in Rcs :
               /\ TransportRead(rc)
               /\ CASE rc = "EAGAIN" -> Again
                    [] rc = "zero" -> UNCHANGED call
                    [] rc = "packet" -> Goto("closed")
                    [] OTHER -> Goto("closedFail")
    /\ UNCHANGED <<packets, calls>>

CloseEnds ==
    /\ Closes("closed") \/ Closes("closedFail")
    /\ ch' = [ch EXCEPT ![call.c].lclose = TRUE, ![call.c].closing = "idle"]
    /\ Closed(call.at = "closed")
    /\ UNCHANGED <<brigade, inbound, net, pend, add, peer, app, packets, calls>>

\* _libssh2_channel_free, its end: the packets of the channel go, and the channel.
FreeCleans ==
    /\ Running("free", "cleanup")
    /\ LET c == call.c
           lens == [i \in DOMAIN brigade |-> IF brigade[i].c = c THEN brigade[i].len ELSE 0]
       IN  /\ brigade' = Rest(lens)
           /\ ch' = [ch EXCEPT ![c].live = FALSE]
           /\ app' = [app EXCEPT ![c].dropped = Add(@, PerStream(lens))]
    /\ Return
    /\ UNCHANGED <<inbound, net, pend, add, peer, packets, calls>>

-----------------------------------------------------------------------------
(***************************************************************************)
(* The other end (external): it keeps to the windows, sends nothing after  *)
(* its close, no data after its end of file, and answers a close.          *)
(***************************************************************************)
PeerSends(p) ==
    /\ net = "up" /\ packets < MaxPackets
    /\ \A i \in DOMAIN inbound : inbound[i].kind # "disconnect"
    /\ packets' = packets + 1
    /\ inbound' = Append(inbound, p)

Packet(kind, c, s, n) == [kind |-> kind, c |-> c, s |-> s, n |-> n]

PeerData(c, s, n) ==
    /\ "data" \in Kinds /\ ~peer[c].eof /\ ~peer[c].close /\ n <= peer[c].grant
    /\ PeerSends(Packet("data", c, s, n))
    /\ peer' = [peer EXCEPT ![c].grant = @ - n, ![c].sent[s] = @ + n]
    /\ UNCHANGED <<ch, brigade, net, pend, add, call, app, calls>>

\* The other end, in state p, after it has said so.
Said(p, kind) ==
    CASE kind = "eof"    -> [p EXCEPT !.eof = TRUE]
      [] kind = "close"  -> [p EXCEPT !.eof = TRUE, !.close = TRUE]
      [] kind = "adjust" -> [p EXCEPT !.window = @ + PacketSize]
      [] OTHER           -> p

PeerSays(kind, c) ==
    /\ kind \in Kinds /\ ~peer[c].close
    /\ kind = "eof" => ~peer[c].eof
    /\ PeerSends(Packet(kind, c, 0, IF kind = "adjust" THEN PacketSize ELSE 0))
    /\ peer' = [peer EXCEPT ![c] = Said(@, kind)]
    /\ UNCHANGED <<ch, brigade, net, pend, add, call, app, calls>>

PeerAnswersClose(c) ==
    /\ peer[c].closes > 0 /\ ~peer[c].close /\ net = "up"
    /\ inbound' = Append(inbound, Packet("close", c, 0, 0))
    /\ peer' = [peer EXCEPT ![c] = Said(@, "close")]
    /\ UNCHANGED <<ch, brigade, net, pend, add, call, app, packets, calls>>

ConnectionBreaks ==
    /\ "disconnect" \in Kinds
    /\ net = "up"
    /\ net' = "broken"
    /\ UNCHANGED <<ch, brigade, inbound, pend, add, call, peer, app, packets, calls>>

-----------------------------------------------------------------------------
NewChannel ==
    [live |-> TRUE, lwin |-> PacketSize, leof |-> FALSE, lclose |-> FALSE,
     rwin |-> Window, reof |-> FALSE, rclose |-> FALSE, mode |-> "normal",
     queue |-> 0, adjusting |-> FALSE, amount |-> 0, slipped |-> 0, stalled |-> FALSE, jump1 |-> FALSE,
     writing |-> "idle", bufwrote |-> 0, bufwrite |-> 0,
     flushing |-> FALSE, refund |-> 0, closing |-> "idle"]

Init ==
    /\ ch = [c \in Chans |-> NewChannel]
    /\ brigade = <<>> /\ inbound = <<>>
    /\ net = "up" /\ pend = NoPacket /\ add = NoAnswer
    /\ call = Idle
    /\ peer = [c \in Chans |-> [window |-> PacketSize, grant |-> Window, sent |-> Zero, got |-> 0,
                                eof |-> FALSE, close |-> FALSE, eofs |-> 0, closes |-> 0,
                                refused |-> {}]]
    /\ app = [c \in Chans |-> [read |-> Zero, dropped |-> Zero, lost |-> Zero, ignored |-> 0,
                               wrote |-> 0]]
    /\ packets = 0 /\ calls = 0

Library ==
    \/ Wake
    \/ ReadEnters \/ ReadCopies \/ ReadAdjusts
    \/ WriteEnters \/ WriteDrains \/ WriteSplits \/ WriteSends
    \/ FlushEnters \/ FlushRefunds \/ WindowAdjusts \/ ExtendedData
    \/ SendEof \/ WaitEof \/ WaitClosed
    \/ CloseEnters \/ CloseSends \/ CloseAwaits \/ CloseEnds \/ FreeCleans

Next ==
    \/ \E c \in Chans, o \in Ops : Call(o[1], c, o[2])
    \/ Library
    \/ \E c \in Chans, s \in Streams, n \in Lens : PeerData(c, s, n)
    \/ \E c \in Chans, kind \in {"eof", "close", "adjust", "request", "disconnect"} : PeerSays(kind, c)
    \/ \E c \in Chans : PeerAnswersClose(c)
    \/ ConnectionBreaks

Spec == Init /\ [][Next]_vars

\* A packet that the socket has begun to take is completed.
Completes == Library /\ pend # NoPacket /\ pend' = NoPacket

\* A call runs while it can, a socket that is asked again and again takes a packet to
\* its end, and the other end answers a close.
FairSpec ==
    /\ Spec
    /\ WF_vars(Library) /\ SF_vars(Completes)
    /\ \A c \in Chans : WF_vars(PeerAnswersClose(c))

-----------------------------------------------------------------------------
Bytes(q, c, s) ==
    Total([i \in DOMAIN q |-> IF q[i].c = c /\ q[i].s = s THEN q[i].len ELSE 0])
InFlight(c, s) ==
    Total([i \in DOMAIN inbound |->
              IF inbound[i].kind = "data" /\ inbound[i].c = c /\ inbound[i].s = s
                THEN inbound[i].n ELSE 0])
InBuffer(c, s) == IF call.op = "read" /\ call.c = c THEN call.n[s] ELSE 0

\* Types of the channel, the brigade and the counters; no window is ever negative.
TypeOK ==
    /\ \A c \in Chans :
         /\ {ch[c].live, ch[c].leof, ch[c].lclose, ch[c].reof, ch[c].rclose, ch[c].adjusting,
             ch[c].stalled, ch[c].jump1, ch[c].flushing, peer[c].eof, peer[c].close} \subseteq BOOLEAN
         /\ {ch[c].lwin, ch[c].rwin, ch[c].queue, ch[c].amount, ch[c].bufwrote, ch[c].bufwrite,
             ch[c].refund, peer[c].grant, peer[c].got, peer[c].eofs, peer[c].closes,
             app[c].ignored, app[c].wrote} \subseteq Nat
         /\ ch[c].slipped \in Int
         /\ ch[c].mode \in Modes
         /\ ch[c].writing \in {"idle", "allocated", "created"}
         /\ ch[c].closing \in {"idle", "created", "sent"}
         /\ peer[c].refused \subseteq PacketKinds
         /\ {peer[c].sent, app[c].read, app[c].dropped, app[c].lost} \subseteq [Streams -> Nat]
    /\ \A i \in DOMAIN brigade : brigade[i] \in [c : Chans, s : Streams, size : Nat, len : Nat \ {0}]
    /\ \A i \in DOMAIN inbound : inbound[i].c \in Chans /\ inbound[i].kind \in Kinds \cup {"close"}
    /\ net \in {"up", "disconnected", "broken"}
    /\ pend = NoPacket \/ pend \in PacketKinds \X Chans
    /\ packets \in 0..MaxPackets /\ calls \in 0..MaxCalls

\* Every byte the other end has sent is still on its way, in the brigade, in the buffer
\* of the read that is being executed, given to the application, given away by a flush,
\* an ignored stream or a free, or lost (_libssh2_packet_add, _libssh2_channel_read,
\* _libssh2_channel_flush).  And none is lost, cut off by the window or forgotten by a
\* read, unless an adjustment of the channel's window could once not be sent.
NothingLost ==
    \A c \in Chans, s \in Streams :
        /\ peer[c].sent[s] = InFlight(c, s) + Bytes(brigade, c, s) + InBuffer(c, s)
                             + app[c].read[s] + app[c].dropped[s] + app[c].lost[s]
        /\ app[c].lost[s] # 0 => ch[c].stalled

\* remote.window_size is the number of bytes the other end may still send and what is on
\* its way (libssh2_channel_window_read_ex): a smaller value loses data, a larger one
\* stops the other end for good, because a read then does not raise the window.  It is
\* so up to two mistakes of the code: the bytes of a stream that is ignored are granted
\* again but were never taken off, and an adjustment that could not be sent is repeated
\* with the amount of the packet, while the window grows by that of the repeating call.
WindowIsGrant ==
    \A c \in Chans :
        ch[c].live =>
            /\ ch[c].rwin + ch[c].slipped
                 = peer[c].grant + InFlight(c, 0) + InFlight(c, 1) + app[c].ignored
            /\ ch[c].slipped # 0 => ch[c].stalled

\* What goes to the other end keeps to the protocol, however often a call is repeated:
\* its window is not overrun, a close is sent once, and after it no data.  And no data,
\* end of file or close that is half sent is ever in the way of another packet: each
\* blocked call goes on with its own packet before it reads anything that has to be
\* answered.  (A half-sent adjustment or failure reply may be.)
WireDiscipline ==
    \A c \in Chans :
        /\ peer[c].window >= 0
        /\ peer[c].closes <= 1
        /\ ch[c].writing = "created" => peer[c].closes = 0
        /\ net = "up" => peer[c].refused \subseteq {"adjust", "failure"}

\* A read returns no bytes only at the end of the connection, or at the end of its
\* stream, when nothing of it is on its way or in the brigade: "It is important to not
\* return 0 until the currently read channel is complete".  The exception is a read that
\* is repeated because its adjustment of the window could not be sent: bytes of the
\* channel are lost then.
ZeroMeansEnd ==
    [][call.op = "read" /\ call'.op = "none" /\ app' = app =>
         LET c == call.c
             s == call.arg[1]
         IN  \/ net' # "up"
             \/ /\ ch[c].reof \/ ch[c].rclose
                /\ call.arg[2] > 0 => InFlight(c, s) = 0 /\ Bytes(brigade, c, s) = 0
             \/ ch[c].jump1 /\ ch[c].stalled /\ app[c].lost # Zero]_vars

\* A channel that is freed is let go: the call returns once the other end answers the
\* close, or the connection is lost.
FreeReturns == call.op = "free" ~> call.op = "none"
=============================================================================
