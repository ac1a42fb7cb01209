---------------------------- MODULE SshRequests ----------------------------
(***************************************************************************)
(* libssh2 requests and their answers, in a blocking session: opening      *)
(* channels, channel requests, port forwarding (channel.c), user           *)
(* authentication (userauth.c), and the packet brigade they take answers   *)
(* from (packet.c).                                                        *)
(*                                                                         *)
(* Every function here is a state machine whose state is saved in the      *)
(* session, the channel or the listener, so that it can be called again    *)
(* after EAGAIN.  Each is given as a program: what it does in a saved      *)
(* state, and the state and the return value that follow.  One step is one *)
(* packet written, read or taken from the brigade.  Allocations succeed.   *)
(***************************************************************************)
EXTENDS Integers, Sequences, FiniteSets, SequencesExt, FiniteSetsExt, Functions

CONSTANTS
    Ops,          \* functions the application calls
    ReqChans,     \* channels that are open at the start, on which requests are made
    Kinds,        \* what the server does unasked
    Blocking,     \* packets whose write may return EAGAIN
    QueueMax,     \* queue_maxsize of the listener, 0 for no limit
    MaxPackets,   \* bound: packets the server sends unasked
    MaxCalls,     \* bound: calls of the application
    MaxId,        \* bound: local ids of channels
    MaxRounds,    \* bound: times the server answers with another question
    MaxTimeouts   \* bound: waits that last LIBSSH2_READ_TIMEOUT

ASSUME RequestsAssumption ==
    /\ {QueueMax, MaxPackets, MaxCalls, MaxId, MaxRounds, MaxTimeouts} \subseteq Nat
    /\ 0 \in ReqChans /\ ReqChans \subseteq 0..MaxId
    /\ Ops \subseteq {"open", "direct", "listen", "accept", "cancel", "env", "pty", "ptySize", "x11Req",
                     "process", "list", "password", "hostbased", "publickey", "keyboard"}
    /\ Kinds \subseteq {"forward", "x11", "ignore", "disconnect", "break"}

VARIABLES
    saved,       \* *_state of each function: [slot -> state], a slot being <<name, channel>>
    call,        \* the call being executed: [op, c, at, own, slept, more]
    brigade,     \* session->packets: [type, c, id]
    inbound,     \* packets in the socket
    pend,        \* packet the transport has begun to send
    add,         \* packAdd_state: the incoming connection whose answer is half sent
    lst,         \* LIBSSH2_LISTENER: [on, queue, size], and whether one was cancelled
    chans,       \* session->channels, as local ids
    nextChannel, \* session->next_channel
    auth,        \* LIBSSH2_STATE_AUTHENTICATED
    eagain,      \* err_code = LIBSSH2_ERROR_EAGAIN
    disc,        \* socket_state = LIBSSH2_SOCKET_DISCONNECTED
    sock,        \* up, or broken: every send and receive fails
    x11cb,       \* session->x11 is set
    crashed,     \* a null pointer was followed
    peer,        \* the server: [asks, asked, open, listens, accepted]
    last,        \* the last call that returned: [op, c, rc, own, of], of being the request answered
    late,        \* answers nobody waits for any longer: {<<types, channel>>}
    packets, calls, timeouts   \* counters for the bounds

peerVars == <<peer, late>>
net == <<inbound, pend, add, sock, disc, packets>>
counters == <<calls, timeouts>>
vars == <<saved, call, brigade, net, lst, chans, nextChannel, auth, eagain, x11cb, crashed,
          peerVars, last, counters>>

-----------------------------------------------------------------------------
(***************************************************************************)
(* The programs.                                                           *)
(***************************************************************************)
Ends(to, rc) == [to |-> to, rc |-> rc]
Goes(to) == Ends(to, "go")

\* A packet is written: on success the function goes on or returns as ok says, on
\* failure it returns and leaves the state fail.
Writes(kind, ok, fail) ==
    [do |-> "write", kind |-> kind, ok |-> ok, fail |-> fail, types |-> <<>>, on |-> <<>>]

\* An answer of one of the types is required; on says what each of them leads to.
Requires(types, on, fail) ==
    [do |-> "require", kind |-> "", ok |-> Goes(""), fail |-> fail, types |-> types, on |-> on]

\* The application or the key file is asked; the function goes on, or fails.
Asks(ok, fail) ==
    [do |-> "callback", kind |-> "", ok |-> Goes(ok), fail |-> fail, types |-> <<>>, on |-> <<>>]

ChannelReply == <<"success", "failure">>
OpenReply == <<"openOk", "openFail">>
GlobalReply == <<"requestOk", "requestFail">>
AuthReply == <<"authOk", "authFail">>
ByChannel(types) == types \in {ChannelReply, OpenReply}

Answered(types, yes, no) == [t \in Range(types) |-> IF t = types[1] THEN yes ELSE no]
Simple(kind, types, denied) ==
    [created |-> Writes(kind, Goes("sent"), "idle"),
     sent    |-> Requires(types, Answered(types, Ends("idle", "ok"), denied), "idle")]

\* channel.c.  A denied X11 request leaves its state behind, and so does every change
\* of the size of a terminal, which shares its state with the request for one.
ChannelOpen == Simple("open", OpenReply, Ends("idle", "denied"))
DirectTcpip == ChannelOpen
ForwardListen == Simple("listen", GlobalReply, Ends("idle", "denied"))
MutantSetenv == Simple("env", ChannelReply, Ends("sent", "denied"))
Setenv == Simple("env", ChannelReply, Ends("idle", "denied"))
RequestPty == Simple("pty-req", ChannelReply, Ends("idle", "denied"))
X11Req == Simple("x11-req", ChannelReply, Ends("sent", "denied"))
ProcessStartup == Simple("process", ChannelReply, Ends("idle", "denied"))
RequestPtySize ==
    [created |-> Writes("window-change", Ends("sent", "ok"), "idle"),
     sent    |-> [Asks("idle", "idle") EXCEPT !.do = "refuse"]]

\* userauth.c.
UserauthList == Simple("none", AuthReply, Ends("idle", "ok"))
HostBased == Simple("hostbased", AuthReply, Ends("idle", "denied"))

\* The last word of the server on a login, and what a method does with the type more,
\* by which the server asks for more.
Verdict == Answered(AuthReply, Ends("idle", "ok"), Ends("idle", "denied"))
VerdictOr(more) ==
    LET types == Append(AuthReply, more)
    IN  Requires(types, [t \in Range(types) |-> IF t = more THEN Goes("sent1") ELSE Verdict[t]], "idle")

\* An expired password: the new one is asked for and sent, and answered as the first
\* one was.  A callback that gives none, and a failed write, leave the state as it is.
PasswordAnswer == VerdictOr("changeReq")
AsksNewPassword == Asks("sent2", "sent1")
SendsNewPassword == Writes("password", Goes("sent"), "sent2")
Password ==
    [created |-> Writes("password", Goes("sent"), "idle"), sent |-> PasswordAnswer,
     sent1 |-> AsksNewPassword, sent2 |-> SendsNewPassword]

\* A public key is offered, and if the server would take it, a signature is sent.
PublicKeyAnswer == VerdictOr("pkOk")
Signs == Asks("sent2", "idle")
SignatureAnswer == Requires(AuthReply, Verdict, "idle")
PublicKey ==
    [created |-> Writes("probe", Goes("sent"), "idle"), sent |-> PublicKeyAnswer,
     sent1 |-> Signs, sent2 |-> Writes("signature", Goes("sent3"), "idle"),
     sent3 |-> SignatureAnswer]

\* Questions are answered until the server has no more.
KeyboardQuestions == VerdictOr("infoReq")
KeyboardResponses == Writes("keyboard", Goes("sent"), "idle")
KeyboardInteractive ==
    [created |-> Writes("keyboard", Goes("sent"), "idle"), sent |-> KeyboardQuestions,
     sent1 |-> KeyboardResponses]

ChannelOps == {"env", "pty", "ptySize", "x11Req", "process"}
AuthOps == {"list", "password", "hostbased", "publickey", "keyboard"}
PointerOps == {"open", "direct", "listen", "list", "accept"}   \* BLOCK_ADJUST_ERRNO

Program(op) ==
    CASE op = "open" -> ChannelOpen [] op = "direct" -> DirectTcpip
      [] op = "listen" -> ForwardListen [] op = "env" -> Setenv
      [] op = "pty" -> RequestPty [] op = "ptySize" -> RequestPtySize
      [] op = "x11Req" -> X11Req [] op = "process" -> ProcessStartup
      [] op = "list" -> UserauthList [] op = "password" -> Password
      [] op = "hostbased" -> HostBased [] op = "publickey" -> PublicKey
      [] op = "keyboard" -> KeyboardInteractive

Slot(op, c) ==
    CASE op \in {"open", "direct"} -> <<"open", 0>>
      [] op = "ptySize" -> <<"pty", c>>
      [] OTHER -> <<op, IF op \in ChannelOps THEN c ELSE 0>>

Slots == ({"open", "listen", "cancel"} \cup AuthOps) \X {0}
         \cup {"env", "pty", "x11Req", "process"} \X ReqChans

-----------------------------------------------------------------------------
(***************************************************************************)
(* The server (external): it answers in order what it is asked.  What it   *)
(* sends while no call is executed waits in the socket until the next one, *)
(* and might as well be sent then.                                         *)
(***************************************************************************)
Answers(kind) ==
    CASE kind \in {"env", "pty-req", "x11-req", "process"} -> {"success", "failure"}
      [] kind = "open" -> {"openOk", "openFail"}
      [] kind = "listen" -> {"requestOk", "requestFail"}
      [] kind = "close" -> {"close"}
      [] kind \in {"none", "hostbased", "signature"} -> {"authOk", "authFail"}
      [] kind = "password" -> {"authOk", "authFail", "changeReq"}
      [] kind = "probe" -> {"authFail", "pkOk"}
      [] kind = "keyboard" -> {"authOk", "authFail", "infoReq"}
      [] OTHER -> {}

\* What the server makes of a packet that has reached it.
Received(kind, c) ==
    IF disc \/ sock = "broken" THEN peer
    ELSE [peer EXCEPT
            !.asked = @ + 1,
            !.asks = IF Answers(kind) = {} THEN @
                     ELSE Append(@, [kind |-> kind, c |-> c, id |-> peer.asked + 1]),
            !.open = IF kind = "confirm" THEN @ \cup {c} ELSE IF kind = "close" THEN @ \ {c} ELSE @,
            !.listens = @ /\ kind # "cancel"]

ServerAnswers ==
    /\ peer.asks # <<>> /\ ~disc /\ sock = "up" /\ call.op # "none"
    /\ LET q == Head(peer.asks) IN
       \E t \in Answers(q.kind) :
         /\ t \in {"changeReq", "infoReq"} => peer.rounds < MaxRounds
         /\ inbound' = Append(inbound, [type |-> t, c |-> q.c, id |-> q.id])
         /\ peer' = [peer EXCEPT
                       !.asks = Tail(@),
                       !.rounds = IF t \in {"changeReq", "infoReq"} THEN @ + 1 ELSE @,
                       !.open = IF t = "openOk" THEN @ \cup {q.c} ELSE @,
                       !.listens = @ \/ t = "requestOk",
                       !.accepted = @ \/ t = "authOk"]
    /\ UNCHANGED <<saved, call, brigade, pend, add, sock, disc, packets, lst, chans, nextChannel, auth,
                   eagain, x11cb, crashed, late, last, counters>>

\* A connection to the forwarded port or to the X server, a packet nobody waits for, or
\* the end of the session.
ServerSends(kind) ==
    /\ kind \in Kinds /\ kind # "break" /\ packets < MaxPackets
    /\ ~disc /\ sock = "up" /\ call.op # "none"
    /\ kind = "forward" => peer.listens
    /\ packets' = packets + 1
    /\ inbound' = Append(inbound, [type |-> kind, c |-> 0, id |-> 0])
    /\ UNCHANGED <<saved, call, brigade, pend, add, sock, disc, lst, chans, nextChannel, auth, eagain,
                   x11cb, crashed, peerVars, last, counters>>

\* The connection is reset while a call is executed: what was not read is lost with it.
ConnectionBreaks ==
    /\ "break" \in Kinds /\ sock = "up" /\ call.op # "none"
    /\ sock' = "broken"
    /\ inbound' = <<>> /\ peer' = [peer EXCEPT !.asks = <<>>]
    /\ UNCHANGED <<saved, call, brigade, pend, add, disc, packets, lst, chans, nextChannel, auth, eagain,
                   x11cb, crashed, late, last, counters>>

-----------------------------------------------------------------------------
(***************************************************************************)
(* The transport.                                                          *)
(***************************************************************************)
NoPacket == <<"", 0>>
NoAdd == [type |-> "none", c |-> 0, id |-> 0]

\* _libssh2_transport_write.  After the server has disconnected the socket may take one
\* more packet, and then fails.
Send(kind, c, rc) ==
    \/ /\ pend \notin {NoPacket, <<kind, c>>}
       /\ rc = "FAIL"
       /\ UNCHANGED <<pend, peer, sock>>
    \/ /\ pend \in {NoPacket, <<kind, c>>}
       /\ \/ /\ rc = "NONE" /\ sock = "up"
             /\ pend' = NoPacket
             /\ peer' = Received(kind, c)
             /\ sock' = IF disc THEN "broken" ELSE sock
          \/ /\ rc = "EAGAIN" /\ sock = "up" /\ kind \in Blocking
             /\ pend' = <<kind, c>>
             /\ UNCHANGED <<peer, sock>>
          \/ /\ rc = "FAIL" /\ (sock = "broken" \/ disc)
             /\ UNCHANGED <<pend, peer, sock>>

\* _libssh2_channel_nextid.
NextId == Max(chans \cup {nextChannel})

\* packet_queue_listener and packet_x11_open: a channel is made and confirmed, or the
\* connection refused.  The channel that was made is forgotten when the confirmation
\* has to be repeated: a null pointer is linked.
Accepts(type) ==
    IF type = "x11" THEN x11cb
    ELSE lst.on /\ ~(QueueMax # 0 /\ QueueMax <= lst.size)

Resumed == add # NoAdd
Link(type, id) ==
    /\ chans' = IF type = "x11" /\ ~Resumed THEN chans \cup {id} ELSE chans
    /\ lst' = IF type = "forward" /\ ~Resumed
                THEN [lst EXCEPT !.queue = Append(@, id), !.size = @ + 1] ELSE lst
    /\ crashed' = (crashed \/ Resumed)

Connection(type, rc) ==
    LET confirm == IF Resumed THEN add.c # 0 ELSE Accepts(type)
        id == IF Resumed THEN add.c ELSE IF confirm THEN NextId ELSE 0
    IN  \E w \in {"NONE", "EAGAIN", "FAIL"} :
          /\ Send(IF confirm THEN "confirm" ELSE "refuse", id, w)
          /\ nextChannel' = IF confirm /\ ~Resumed THEN id + 1 ELSE nextChannel
          /\ add' = IF w = "EAGAIN" THEN [type |-> type, c |-> id, id |-> 0] ELSE NoAdd
          /\ rc = IF w = "NONE" THEN type ELSE w
          /\ IF w = "NONE" /\ confirm THEN Link(type, id) ELSE UNCHANGED <<chans, lst, crashed>>

ReadResults == {"EAGAIN", "zero", "FAIL", "forward", "x11"} \cup {inbound[i].type : i \in DOMAIN inbound}

\* _libssh2_transport_read with _libssh2_packet_add: the type of the packet, or EAGAIN,
\* zero when the session is disconnected, or FAIL.
TransportRead(rc) ==
    \/ /\ Resumed
       /\ Connection(add.type, rc)
       /\ UNCHANGED <<inbound, disc, brigade>>
    \/ /\ ~Resumed /\ disc /\ rc = "zero"
       /\ UNCHANGED <<inbound, pend, add, sock, disc, brigade, peer, chans, lst, nextChannel, crashed>>
    \/ /\ ~Resumed /\ ~disc /\ inbound = <<>>
       /\ rc = IF sock = "broken" THEN "FAIL" ELSE "EAGAIN"
       /\ UNCHANGED <<inbound, pend, add, sock, disc, brigade, peer, chans, lst, nextChannel, crashed>>
    \/ /\ ~Resumed /\ ~disc /\ inbound # <<>>
       /\ inbound' = Tail(inbound)
       /\ LET p == Head(inbound) IN
          \/ /\ p.type \in {"forward", "x11"}
             /\ Connection(p.type, rc)
             /\ UNCHANGED <<disc, brigade>>
          \/ /\ p.type \notin {"forward", "x11"}
             /\ rc = IF p.type = "disconnect" THEN "FAIL" ELSE p.type
             /\ disc' = (p.type = "disconnect")
             /\ brigade' = IF p.type \in {"disconnect", "ignore", "close"} THEN brigade
                           ELSE Append(brigade, p)
             /\ UNCHANGED <<pend, add, sock, peer, chans, lst, nextChannel, crashed>>

-----------------------------------------------------------------------------
(***************************************************************************)
(* Calls.                                                                  *)
(***************************************************************************)
NoListener == [on |-> FALSE, queue |-> <<>>, size |-> 0, cancelled |-> FALSE]
NoResult == [op |-> "none", c |-> 0, rc |-> "ok", own |-> 0, of |-> 0]
Idle == [op |-> "none", c |-> 0, at |-> "idle", own |-> 0, slept |-> FALSE, more |-> FALSE]
Running(at) == call.op # "none" /\ call.at = at /\ ~crashed
InProgram == Running("run") /\ call.op \notin {"accept", "cancel"}
MySlot == Slot(call.op, call.c)
Step == Program(call.op)[saved[MySlot]]
Opens == call.op \in {"open", "direct"}

\* BLOCK_ADJUST, after EAGAIN: wait for the socket, then the same call again.
Again ==
    /\ call' = [call EXCEPT !.at = "select"]
    /\ eagain' = (eagain \/ call.op \in PointerOps)

\* The function returns.  One that returns a null pointer is called again if the last
\* error recorded is EAGAIN, which it is if this failure recorded none: the function
\* then starts afresh.
Returns(rc, of, err) ==
    LET again == rc # "ok" /\ call.op \in PointerOps /\ err
    IN  /\ eagain' = err
        /\ IF again THEN call' = [call EXCEPT !.at = "select", !.own = 0] /\ UNCHANGED last
           ELSE /\ call' = Idle
                /\ last' = [op |-> call.op, c |-> call.c, rc |-> rc, own |-> call.own, of |-> of]

\* Functions whose failure to get an answer records an error of its own.
Reports == {"listen", "list", "process"}

Call(op, c) ==
    /\ call = Idle /\ ~crashed
    /\ sock = "up"                         \* a connection that is lost is not used again
    /\ op \in Ops /\ (op \in ChannelOps => c \in chans) /\ (op \notin ChannelOps => c = 0)
    /\ op \in {"accept", "cancel"} => lst.on
    /\ op = "listen" => ~lst.on           \* one port is forwarded at a time
    /\ calls < MaxCalls /\ calls' = calls + 1
    /\ call' = [Idle EXCEPT !.op = op, !.c = c, !.at = "run"]
    /\ crashed' = (op = "password" /\ saved[Slot(op, c)] \in {"sent1", "sent2"})
    /\ last' = NoResult
    /\ UNCHANGED <<saved, brigade, net, lst, chans, nextChannel, auth, eagain, x11cb, peerVars, timeouts>>

Wake ==
    /\ Running("select")
    /\ inbound # <<>> \/ pend # NoPacket \/ disc \/ sock = "broken"
    /\ call' = [call EXCEPT !.at = "run", !.slept = TRUE]
    /\ UNCHANGED <<saved, brigade, net, lst, chans, nextChannel, auth, eagain, x11cb, crashed, peerVars,
                   last, counters>>

\* file_read_publickey and file_read_privatekey fail, with an error.
KeyFileFails ==
    /\ InProgram /\ saved[MySlot] = "idle" /\ call.op \in {"hostbased", "publickey"}
    /\ Returns("fail", 0, FALSE)
    /\ UNCHANGED <<saved, brigade, net, lst, chans, nextChannel, auth, x11cb, crashed, peerVars, counters>>

\* The packet is built; an open makes its channel and puts it into the session.
Builds ==
    /\ InProgram /\ saved[MySlot] = "idle"
    /\ saved' = [saved EXCEPT ![MySlot] = "created"]
    /\ IF Opens
         THEN /\ NextId <= MaxId
              /\ chans' = chans \cup {NextId}
              /\ nextChannel' = NextId + 1
              /\ call' = [call EXCEPT !.c = NextId]
         ELSE UNCHANGED <<chans, nextChannel, call>>
    /\ UNCHANGED <<brigade, net, lst, auth, eagain, x11cb, crashed, peerVars, last, counters>>

\* channel_error: the channel of an open that failed is taken out of the session.
MutantDrop == UNCHANGED chans
Drop == chans' = IF Opens THEN chans \ {call.c} ELSE chans

WritesRequest ==
    /\ InProgram /\ saved[MySlot] # "idle" /\ Step.do = "write"
    /\ \E rc \in {"NONE", "EAGAIN", "FAIL"} :
         /\ Send(Step.kind, call.c, rc)
         /\ saved' = [saved EXCEPT ![MySlot] =
               CASE rc = "NONE" -> Step.ok.to [] rc = "EAGAIN" -> @ [] OTHER -> Step.fail]
         /\ CASE rc = "NONE" /\ Step.ok.rc = "go" ->
                   /\ call' = [call EXCEPT !.own = IF disc THEN 0 ELSE peer'.asked]
                   /\ UNCHANGED <<chans, eagain, last>>
              [] rc = "NONE" /\ Step.ok.rc # "go" ->
                   Returns(Step.ok.rc, call.own, eagain) /\ UNCHANGED chans
              [] rc = "EAGAIN" -> Again /\ UNCHANGED <<chans, last>>
              [] OTHER -> Returns("fail", 0, FALSE) /\ Drop
    /\ UNCHANGED <<brigade, inbound, add, disc, packets, lst, nextChannel, auth, x11cb, crashed, late,
                   counters>>

\* channel_request_pty_size called in the state it has left behind.
RefusesPtySize ==
    /\ InProgram /\ saved[MySlot] # "idle" /\ Step.do = "refuse"
    /\ saved' = [saved EXCEPT ![MySlot] = Step.fail]
    /\ Returns("fail", 0, eagain)
    /\ UNCHANGED <<brigade, net, lst, chans, nextChannel, auth, x11cb, crashed, peerVars, counters>>

CallsBack ==
    /\ InProgram /\ saved[MySlot] # "idle" /\ Step.do = "callback"
    /\ \/ /\ saved' = [saved EXCEPT ![MySlot] = Step.ok.to]
          /\ UNCHANGED <<call, last, eagain>>
       \/ /\ saved' = [saved EXCEPT ![MySlot] = Step.fail]
          /\ Returns("fail", 0, FALSE)
       \/ /\ call.op = "password"       \* no passwd_change_cb
          /\ saved' = [saved EXCEPT ![MySlot] = "idle"]
          /\ Returns("fail", 0, FALSE)
    /\ UNCHANGED <<brigade, net, lst, chans, nextChannel, auth, x11cb, crashed, peerVars, counters>>

\* _libssh2_packet_askv: the place in the brigade of the first packet of the first type
\* that is there, or 0.
MutantPacketAskv(types, c) ==
    LET places(t) == {i \in DOMAIN brigade : brigade[i].type = t}
        there == {k \in DOMAIN types : places(types[k]) # {}}
    IN  IF there = {} THEN 0 ELSE Min(places(types[Min(there)]))
PacketAskv(types, c) ==
    LET places(t) == {i \in DOMAIN brigade :
                        brigade[i].type = t /\ (ByChannel(types) => brigade[i].c = c)}
        there == {k \in DOMAIN types : places(types[k]) # {}}
    IN  IF there = {} THEN 0 ELSE Min(places(types[Min(there)]))

\* The answer p is the one that sets LIBSSH2_STATE_AUTHENTICATED.
MutantAuthenticates(p) == call.op \in AuthOps /\ Step.on[p.type].rc = "ok"
Authenticates(p) == p.type = "authOk"

\* The function goes on with the answer p.  A successful login is recorded; a port that
\* is forwarded gets its listener; an open that was denied loses its channel.
Takes(p) ==
    LET end == Step.on[p.type]
        err == CASE call.op = "list" -> eagain /\ p.type = "authFail"
                 [] end.rc = "denied" -> FALSE
                 [] OTHER -> eagain
    IN  /\ saved' = [saved EXCEPT ![MySlot] = end.to]
        /\ auth' = (auth \/ Authenticates(p))
        /\ lst' = IF p.type = "requestOk" THEN [NoListener EXCEPT !.on = TRUE, !.cancelled = lst.cancelled] ELSE lst
        /\ IF end.rc = "denied" THEN Drop ELSE UNCHANGED chans
        /\ IF end.rc = "go"
             THEN call' = [call EXCEPT !.at = "run"] /\ UNCHANGED <<eagain, last>>
             ELSE Returns(end.rc, p.id, err)

RequiresFails ==
    /\ saved' = [saved EXCEPT ![MySlot] = Step.fail]
    /\ Drop
    /\ Returns("fail", 0, eagain /\ call.op \notin Reports)

AwaitsAnswer == InProgram /\ saved[MySlot] # "idle" /\ Step.do = "require"
Waiting == Running("read") /\ call.op \notin {"accept", "cancel"}

\* _libssh2_packet_requirev, its start: is the answer in the brigade?
AsksBrigade ==
    /\ AwaitsAnswer
    /\ LET i == PacketAskv(Step.types, call.c) IN
       IF i # 0
         THEN /\ Takes(brigade[i])
              /\ brigade' = RemoveAt(brigade, i)
         ELSE /\ call' = [call EXCEPT !.at = "read"]
              /\ UNCHANGED <<saved, brigade, auth, lst, chans, eagain, last>>
    /\ UNCHANGED <<net, nextChannel, x11cb, crashed, peerVars, counters>>

\* Its loop: packets are read until one is of a type that was asked for; if it is not
\* for this channel the call fails, as one does that has lasted too long.
ReadsAnswer ==
    /\ Waiting
    /\ \E rc \in ReadResults :
         /\ TransportRead(rc)
         /\ CASE rc = "EAGAIN" -> Again /\ UNCHANGED saved
              [] rc \in Range(Step.types) ->
                   /\ call' = [call EXCEPT !.at = "match"]
                   /\ UNCHANGED <<saved, eagain>>
              [] rc \in {"zero", "FAIL"} ->
                   /\ call' = [call EXCEPT !.at = "fails"]
                   /\ UNCHANGED <<saved, eagain>>
              [] OTHER -> UNCHANGED <<saved, call, eagain>>
    /\ UNCHANGED <<packets, auth, x11cb, late, last, counters>>

\* The request is given up: its answer may still come.
GivesUp ==
    /\ RequiresFails
    /\ late' = late \cup {<<Step.types[1], IF ByChannel(Step.types) THEN call.c ELSE 0>>}

\* The packet that was read is taken from the brigade if it matches.
TakesAnswer ==
    /\ Running("match")
    /\ LET i == PacketAskv(Step.types, call.c) IN
       IF i = 0
         THEN /\ GivesUp
              /\ UNCHANGED <<brigade, auth, lst>>
         ELSE /\ Takes(brigade[i])
              /\ brigade' = RemoveAt(brigade, i)
              /\ UNCHANGED late
    /\ UNCHANGED <<net, nextChannel, x11cb, crashed, peer, counters>>

AnswerFails ==
    /\ Running("fails")
    /\ RequiresFails
    /\ UNCHANGED <<brigade, net, lst, nextChannel, auth, x11cb, crashed, peerVars, counters>>

\* LIBSSH2_READ_TIMEOUT has passed when the socket, having woken the call, is empty again.
AnswerTimesOut ==
    /\ Waiting /\ call.slept /\ inbound = <<>> /\ ~Resumed /\ ~disc /\ sock = "up"
    /\ timeouts < MaxTimeouts /\ timeouts' = timeouts + 1
    /\ GivesUp
    /\ UNCHANGED <<brigade, net, lst, nextChannel, auth, x11cb, crashed, peer, calls>>

-----------------------------------------------------------------------------
(***************************************************************************)
(* Forwarded connections.                                                  *)
(***************************************************************************)
\* channel_forward_accept: all that has come is read, and the first connection in the
\* queue becomes a channel of the session.
ForwardAccept ==
    /\ Running("run") /\ call.op = "accept"
    /\ \E rc \in ReadResults :
         /\ TransportRead(rc)
         /\ call' = IF rc \in {"EAGAIN", "zero", "FAIL"} THEN [call EXCEPT !.at = rc] ELSE call
    /\ UNCHANGED <<saved, packets, auth, eagain, x11cb, late, last, counters>>

AcceptEnds ==
    /\ call.op = "accept" /\ call.at \in {"EAGAIN", "zero", "FAIL"}
    /\ \/ /\ lst.queue # <<>>
          /\ chans' = chans \cup {Head(lst.queue)}
          /\ lst' = [lst EXCEPT !.queue = Tail(@), !.size = @ - 1]
          /\ Returns("ok", 0, eagain)
       \/ /\ lst.queue = <<>>
          /\ IF call.at = "EAGAIN" THEN Again /\ UNCHANGED last ELSE Returns("fail", 0, FALSE)
          /\ UNCHANGED <<chans, lst>>
    /\ UNCHANGED <<saved, brigade, net, nextChannel, auth, x11cb, crashed, peerVars, counters>>

\* channel_forward_cancel: the server is told, the channels in the queue are freed one
\* after the other, and the listener goes.
CancelStart ==
    /\ Running("run") /\ call.op = "cancel"
    /\ \E rc \in {"NONE", "EAGAIN", "FAIL"} :
         /\ Send("cancel", 0, rc)
         /\ saved' = [saved EXCEPT ![<<"cancel", 0>>] =
               CASE rc = "NONE" -> "sent" [] rc = "EAGAIN" -> "created" [] OTHER -> "idle"]
         /\ CASE rc = "NONE" ->
                   /\ call' = [call EXCEPT !.at = IF lst.queue = <<>> THEN "end" ELSE "free"]
                   /\ UNCHANGED <<eagain, last>>
              [] rc = "EAGAIN" -> Again /\ UNCHANGED last
              [] OTHER -> Returns("fail", 0, FALSE)
    /\ UNCHANGED <<brigade, inbound, add, disc, packets, lst, chans, nextChannel, auth, x11cb, crashed,
                   late, counters>>

\* libssh2_channel_free of the first in the queue, a blocking call: a close is sent
\* unless the session is disconnected, and packets are read until one is there.  The
\* next channel to free is looked up before (more).
Freed(queue, more) ==
    /\ lst' = [lst EXCEPT !.queue = Tail(queue)]
    /\ call' = [call EXCEPT !.at = IF more THEN "free" ELSE "end"]

CancelFrees ==
    /\ Running("free")
    /\ \/ /\ disc
          /\ Freed(lst.queue, Len(lst.queue) > 1)
          /\ UNCHANGED <<pend, peer, sock>>
       \/ /\ ~disc
          /\ \E rc \in {"NONE", "EAGAIN", "FAIL"} :
               /\ Send("close", Head(lst.queue), rc)
               /\ CASE rc = "NONE" ->
                         /\ call' = [call EXCEPT !.at = "await", !.more = Len(lst.queue) > 1]
                         /\ UNCHANGED lst
                    [] rc = "EAGAIN" -> UNCHANGED <<call, lst>>
                    [] OTHER -> Freed(lst.queue, Len(lst.queue) > 1)
    /\ UNCHANGED <<saved, brigade, inbound, add, disc, packets, chans, nextChannel, auth, eagain,
                   x11cb, crashed, late, last, counters>>

CancelAwaits ==
    /\ Running("await")
    /\ \E rc \in ReadResults :
         /\ TransportRead(rc)
         /\ call' = IF rc \in {"EAGAIN", "zero"} THEN call ELSE [call EXCEPT !.at = "freed"]
    /\ UNCHANGED <<saved, packets, auth, eagain, x11cb, late, last, counters>>

CancelFreed ==
    /\ Running("freed")
    /\ Freed(lst.queue, call.more)
    /\ UNCHANGED <<saved, brigade, net, chans, nextChannel, auth, eagain, x11cb, crashed, peerVars, last,
                   counters>>

CancelEnds ==
    /\ Running("end")
    /\ lst' = [NoListener EXCEPT !.cancelled = TRUE]
    /\ saved' = [saved EXCEPT ![<<"cancel", 0>>] = "idle"]
    /\ Returns("ok", 0, eagain)
    /\ UNCHANGED <<brigade, net, chans, nextChannel, auth, x11cb, crashed, peerVars, counters>>

-----------------------------------------------------------------------------
\* The session has its first channels open, and may have a port forwarded.
Init ==
    /\ saved = [s \in Slots |-> "idle"]
    /\ call = Idle /\ brigade = <<>> /\ inbound = <<>>
    /\ pend = NoPacket /\ add = NoAdd
    /\ \E on \in BOOLEAN :
         /\ lst = [NoListener EXCEPT !.on = on]
         /\ peer = [asks |-> <<>>, asked |-> 0, open |-> ReqChans, listens |-> on,
                    accepted |-> FALSE, rounds |-> 0]
    /\ chans = ReqChans /\ nextChannel = Max(ReqChans) + 1
    /\ auth = FALSE /\ eagain = FALSE /\ disc = FALSE /\ sock = "up" /\ x11cb \in BOOLEAN
    /\ crashed = FALSE
    /\ last = NoResult
    /\ late = {}
    /\ packets = 0 /\ calls = 0 /\ timeouts = 0

Library ==
    \/ Wake \/ KeyFileFails \/ Builds \/ WritesRequest \/ RefusesPtySize \/ CallsBack
    \/ AsksBrigade \/ ReadsAnswer \/ TakesAnswer \/ AnswerFails
    \/ ForwardAccept \/ AcceptEnds
    \/ CancelStart \/ CancelFrees \/ CancelAwaits \/ CancelFreed \/ CancelEnds

Next ==
    \/ \E op \in Ops, c \in ReqChans : Call(op, c)
    \/ Library
    \/ AnswerTimesOut
    \/ ServerAnswers
    \/ \E kind \in Kinds : ServerSends(kind)
    \/ ConnectionBreaks

Spec == Init /\ [][Next]_vars

-----------------------------------------------------------------------------
\* Types of the saved states, the brigade, the listener and the channels.
TypeOK ==
    /\ saved \in [Slots -> {"idle", "created", "sent", "sent1", "sent2", "sent3"}]
    /\ call.op \in Ops \cup {"none"} /\ call.c \in Nat /\ call.own \in 0..peer.asked
    /\ call.at \in {"idle", "run", "select", "read", "match", "fails", "EAGAIN", "zero", "FAIL",
                    "free", "await", "freed", "end"}
    /\ \A i \in DOMAIN brigade : brigade[i].id \in 1..peer.asked
    /\ lst.on \in BOOLEAN /\ lst.size \in Nat /\ Range(lst.queue) \subseteq Nat
    /\ chans \subseteq Nat /\ nextChannel \in Nat
    /\ {auth, eagain, disc, x11cb, crashed, call.slept, call.more} \subseteq BOOLEAN
    /\ sock \in {"up", "broken"}
    /\ packets \in 0..MaxPackets /\ calls \in 0..MaxCalls /\ timeouts \in 0..MaxTimeouts

\* The connection stands, and no wait was given up.
Orderly == sock = "up" /\ ~disc /\ late = {}

\* The answer an operation reports on, by the first of its types.
Sort(op) ==
    CASE op \in ChannelOps -> "success" [] op \in {"open", "direct"} -> "openOk"
      [] op = "listen" -> "requestOk" [] OTHER -> "authOk"

\* A call that reports what the server said reports what the server said to this very
\* request, not to an earlier one or to one on another channel: answers are matched by
\* type and channel alone (_libssh2_packet_askv).  Only the answer to a request of the
\* same sort on the same channel can be mistaken for it, and only if that was given up:
\* after a time out, or because an answer came that was late itself.
AnswersAreOwn ==
    last.rc \in {"ok", "denied"} /\ last.of \notin {0, last.own} =>
        <<Sort(last.op), last.c>> \in late

\* No answer is left in the brigade for the next call to find: each request has taken
\* its own, and the functions are back in their initial state.  The exceptions are a
\* denied X11 request and a change of the size of a terminal, which never reset their
\* state, and a password change that fails half way.
NothingLeftBehind ==
    call = Idle =>
        /\ Orderly => brigade = <<>>
        /\ \A s \in Slots : saved[s] # "idle" => s[1] \in {"x11Req", "pty", "password"}

\* Client and server agree on whether the user is logged in, whatever method it took.
LoginAgrees == Orderly /\ call = Idle => (auth <=> peer.accepted)

\* Client and server agree on the channels that are open: those of the session and those
\* waiting in the queue of the listener, which is never longer than it may be.
ChannelsAgree ==
    /\ lst.size = Len(lst.queue) \/ call.op = "cancel"
    /\ QueueMax # 0 => lst.size <= QueueMax
    /\ Orderly /\ call = Idle /\ ~crashed /\ ~lst.cancelled => peer.open = chans \cup Range(lst.queue)
=============================================================================
