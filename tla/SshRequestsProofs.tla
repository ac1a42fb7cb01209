-------------------------- MODULE SshRequestsProofs --------------------------
(***************************************************************************)
(* Proofs about SshRequests: its type invariant, and that an answer is     *)
(* taken by the request it belongs to, that no answer and no state is left *)
(* behind, and that client and server agree on the login and the channels. *)
(*                                                                         *)
(* Requests are numbered in the order they are made, and answered in that  *)
(* order; every answer on its way is waited for by the call being executed *)
(* or was given up; and a half-sent packet is written on by whoever began  *)
(* it, so that a read fails only at the end of the connection.  What each  *)
(* action does to the parts of the state is stated first (the lemmas named *)
(* Effect), summed up as one of fourteen events (Happens), and each part   *)
(* of the invariant is shown for those.                                    *)
(***************************************************************************)
EXTENDS SshRequests, SequenceTheorems, WellFoundedInduction, TLAPS

-----------------------------------------------------------------------------
(***************************************************************************)
(* The invariant.                                                          *)
(***************************************************************************)
Requests == {"open", "direct", "listen"} \cup ChannelOps \cup AuthOps
AnswerTypes == {"success", "failure", "openOk", "openFail", "requestOk", "requestFail",
                "authOk", "authFail", "changeReq", "pkOk", "infoReq"}
AskKinds == {"open", "listen", "env", "pty-req", "x11-req", "process", "close",
             "none", "hostbased", "password", "probe", "signature", "keyboard"}

\* The answers of a sort, by the first of its types.
Group(sort) ==
    CASE sort = "success" -> {"success", "failure"}
      [] sort = "openOk" -> {"openOk", "openFail"}
      [] sort = "requestOk" -> {"requestOk", "requestFail"}
      [] OTHER -> {"authOk", "authFail", "changeReq", "pkOk", "infoReq"}
Sorts == {"success", "openOk", "requestOk", "authOk"}

Asked == [kind : AskKinds, c : Nat, id : Nat \ {0}]
Answer == [type : AnswerTypes, c : Nat, id : Nat \ {0}]
Packet == [type : AnswerTypes \cup {"close", "forward", "x11", "ignore", "disconnect"}, c : Nat, id : Nat]

Peers == [asks : Seq(Asked), asked : Nat, open : SUBSET Nat, listens : BOOLEAN,
          accepted : BOOLEAN, rounds : Nat]
Listeners == [on : BOOLEAN, queue : Seq(Nat), size : Int, cancelled : BOOLEAN]

\* The states a function can be in.
States(name) ==
    CASE name = "password" -> {"created", "sent", "sent1", "sent2"}
      [] name = "publickey" -> {"created", "sent", "sent1", "sent2", "sent3"}
      [] name = "keyboard" -> {"created", "sent", "sent1"}
      [] OTHER -> {"created", "sent"}

AllStates == {"idle", "created", "sent", "sent1", "sent2", "sent3"}

Left == {"x11Req", "pty", "password"}
CallSlot == IF call.op = "none" THEN <<"none", 0>> ELSE Slot(call.op, call.c)

SavedOK ==
    /\ saved \in [Slots -> AllStates]
    /\ \A s \in Slots :
         /\ saved[s] \in States(s[1]) \cup {"idle"}
         /\ saved[s] # "idle" => s[1] \in Left \/ s = CallSlot

Places(op) ==
    CASE op = "none" -> {"idle"}
      [] op = "accept" -> {"run", "select", "EAGAIN", "zero", "FAIL"}
      [] op = "cancel" -> {"run", "select", "free", "await", "freed", "end"}
      [] OTHER -> {"run", "select", "read", "match", "fails"}

CallOK ==
    /\ call \in [op : Ops \cup {"none"}, c : Nat, at : Places(call.op), own : Nat,
                 slept : BOOLEAN, more : BOOLEAN]
    /\ call.op = "none" => call = Idle
    /\ call.op \in ChannelOps => call.c \in ReqChans
    /\ call.op \notin ChannelOps \cup {"open", "direct"} => call.c = 0
    /\ call.op \notin Requests => call.own = 0
    /\ call.at \in {"read", "match", "fails"} => saved[MySlot] # "idle" /\ Step.do = "require"

NetOK ==
    /\ brigade \in Seq(Answer) /\ inbound \in Seq(Packet)
    /\ \A i \in DOMAIN inbound : inbound[i].type \in AnswerTypes => inbound[i].id # 0
    /\ add \in [type : {"none", "forward", "x11"}, c : Nat, id : {0}]
    /\ add.type = "none" => add = NoAdd
    /\ peer \in Peers
    /\ sock \in {"up", "broken"}
    /\ sock = "broken" /\ ~disc => inbound = <<>> /\ peer.asks = <<>>

LateOK ==
    /\ late \subseteq Sorts \X Nat
    /\ \A l \in late : l[1] \in {"requestOk", "authOk"} => l[2] = 0

Freeing == call.op = "cancel" /\ call.at \in {"free", "await", "freed", "end"}
ListenOK ==
    /\ lst \in Listeners
    /\ ~lst.on => lst.queue = <<>>
    /\ call.op = "listen" => ~lst.on
    /\ lst.size = Len(lst.queue) \/ (Freeing /\ lst.size >= Len(lst.queue))
    /\ QueueMax # 0 => lst.size <= QueueMax
    /\ call.at \in {"free", "await", "freed"} => lst.queue # <<>>
    /\ call.at \in {"await", "freed"} /\ call.more => Len(lst.queue) > 1

ChansOK ==
    /\ chans \subseteq Nat /\ nextChannel \in Nat
    /\ \A c \in chans \cup Range(lst.queue) : c < nextChannel

OthersOK ==
    /\ auth \in BOOLEAN /\ eagain \in BOOLEAN /\ disc \in BOOLEAN /\ x11cb \in BOOLEAN
    /\ crashed \in BOOLEAN
    /\ packets \in 0..MaxPackets /\ calls \in 0..MaxCalls /\ timeouts \in 0..MaxTimeouts

Types == SavedOK /\ CallOK /\ NetOK /\ LateOK /\ ListenOK /\ ChansOK /\ OthersOK

\* Who waits for an answer: the call that has asked for it, or nobody.
Owner(type, c, id) ==
    /\ call.op \in Requests /\ saved[MySlot] # "idle" /\ Step.do = "require"
    /\ type \in Range(Step.types) /\ c = call.c /\ id = call.own
GivenUp(type, c) == \E l \in late : type \in Group(l[1]) /\ c = l[2]
Known(type, c, id) == Owner(type, c, id) \/ GivenUp(type, c)

\* An answer the call would take.
Fits(p) == p.type \in Range(Step.types) /\ (ByChannel(Step.types) => p.c = call.c)

\* Whatever waits in the brigade, comes from the server or is asked of it is known.
BrigadeKnown == \A i \in DOMAIN brigade : Known(brigade[i].type, brigade[i].c, brigade[i].id)
InboundKnown ==
    \A i \in DOMAIN inbound :
        inbound[i].type \in AnswerTypes => Known(inbound[i].type, inbound[i].c, inbound[i].id)
AsksKnown ==
    \A i \in DOMAIN peer.asks : peer.asks[i].kind # "close" =>
        \A t \in Answers(peer.asks[i].kind) : Known(t, peer.asks[i].c, peer.asks[i].id)

\* What is in the brigade when a call reads is not for it.
NoneFits == call.at \in {"read", "fails"} => \A i \in DOMAIN brigade : ~Fits(brigade[i])
AtEnd == call.at = "fails" => disc \/ sock = "broken"
AnswersInv == BrigadeKnown /\ (~disc => InboundKnown /\ AsksKnown) /\ NoneFits /\ AtEnd

\* The packet that the call executed is about to write.
Writing(kind, c) ==
    \/ /\ call.op \in Requests /\ saved[MySlot] # "idle" /\ Step.do = "write"
       /\ kind = Step.kind /\ c = call.c
    \/ call.op = "cancel" /\ call.at \in {"run", "select"} /\ kind = "cancel" /\ c = 0
    \/ call.op = "cancel" /\ call.at = "free" /\ kind = "close" /\ c = Head(lst.queue)

\* A packet that is half sent belongs to a connection that is being met, or to the call.
Stands == sock # "broken" /\ ~disc
HalfInv ==
    /\ nextChannel # 0
    /\ Stands /\ Resumed => pend = <<IF add.c # 0 THEN "confirm" ELSE "refuse", add.c>>
    /\ Stands /\ ~Resumed => pend = NoPacket \/ \E kind, c : Writing(kind, c) /\ pend = <<kind, c>>

\* The word of a login that succeeded is on its way until the client has it.
HasOk(s) == \E i \in DOMAIN s : s[i].type = "authOk"
LoginInv ==
    /\ HasOk(brigade) \/ HasOk(inbound) \/ auth => peer.accepted
    /\ peer.accepted => auth \/ disc \/ sock = "broken" \/ HasOk(brigade) \/ HasOk(inbound)

\* Requests are answered in order.  Packets the server sends unasked have the id 0.
Upto(s, n) == \A i \in DOMAIN s : s[i].id <= n
Rises(s) == \A i, j \in DOMAIN s : i < j /\ s[j].id # 0 => s[i].id < s[j].id
Below(s, r) == \A i \in DOMAIN s, j \in DOMAIN r : r[j].id # 0 => s[i].id < r[j].id

OrderInv ==
    /\ Upto(peer.asks, peer.asked) /\ Upto(inbound, peer.asked) /\ Upto(brigade, peer.asked)
    /\ Rises(peer.asks) /\ Rises(inbound) /\ Rises(brigade)
    /\ Below(inbound, peer.asks) /\ Below(brigade, peer.asks) /\ Below(brigade, inbound)

OwnInv == call.own <= peer.asked

Opening == Opens /\ saved[<<"open", 0>>] # "idle"
Calm == Orderly /\ ~crashed /\ ~lst.cancelled /\ ~Freeing

\* Every channel that is known has a number that was given out.
OpenTypes == {"openOk", "openFail"}
Packets == Range(inbound) \cup Range(brigade)
IdsInv ==
    /\ \A c \in peer.open : c < nextChannel
    /\ \A q \in Range(peer.asks) : q.kind = "open" => q.c < nextChannel
    /\ \A p \in Packets : p.type \in OpenTypes => p.c < nextChannel
    /\ add.c # 0 => add.c < nextChannel
    /\ Opening => call.c < nextChannel

\* The server has open the channels of the session and of the queue, but for the one
\* that is being opened: of that the answer on its way tells whether it is open.
Shared == chans \cup Range(lst.queue)
SameOpen ==
    \A c \in peer.open \cup Shared : ~(Opening /\ c = call.c) => (c \in peer.open <=> c \in Shared)
OpeningOK ==
    Opening => /\ call.c \in chans /\ call.c \notin Range(lst.queue)
               /\ saved[<<"open", 0>>] = "created" => call.c \notin peer.open
AsksOK == \A q \in Range(peer.asks) : q.kind = "open" => q.c \notin peer.open
AnswersOK ==
    \A p \in Packets :
      /\ p.type = "openOk" => p.c \in peer.open
      /\ p.type = "openFail" => p.c \notin peer.open
OpenInv == Calm => SameOpen /\ OpeningOK /\ AsksOK /\ AnswersOK

-----------------------------------------------------------------------------
\* What a step of a program can be.
Shape(op, s, st) ==
    /\ st.do \in {"write", "require", "callback", "refuse"}
    /\ st.fail \in States(op) \cup {"idle"}
    /\ st.fail # "idle" => op = "password"
    /\ st.do = "write" =>
         /\ st.ok.to \in States(op) /\ st.ok.rc \in {"go", "ok"}
         /\ st.kind \notin {"close", "cancel", "confirm", "refuse"}
         /\ st.kind = "open" <=> op \in {"open", "direct"}
         /\ st.ok.rc = "ok" => op = "ptySize" /\ Answers(st.kind) = {}
         /\ st.ok.rc = "go" =>
              /\ st.kind \in AskKinds
              /\ Program(op)[st.ok.to].do = "require"
              /\ Answers(st.kind) \subseteq Range(Program(op)[st.ok.to].types)
    /\ st.do = "callback" => st.ok.to \in States(op)
    /\ st.do = "require" =>
         /\ st.types[1] = Sort(op) /\ DOMAIN st.types \subseteq Nat
         /\ Range(st.types) \subseteq Group(Sort(op))
         /\ ByChannel(st.types) <=> Sort(op) \in {"success", "openOk"}
         /\ \A t \in Range(st.types) :
              /\ st.on[t].to \in States(op) \cup {"idle"} /\ st.on[t].rc \in {"go", "ok", "denied"}
              /\ st.on[t].rc = "go" => st.on[t].to \in States(op)
              /\ st.on[t].rc # "go" => st.on[t].to = "idle" \/ op = "x11Req"
              /\ t = "openOk" => st.on[t] = [to |-> "idle", rc |-> "ok"]
              /\ t = "openFail" => st.on[t] = [to |-> "idle", rc |-> "denied"]
              /\ t = "requestOk" => st.on[t].rc = "ok"

\* Two answers as a sequence.
LEMMA Pairs ==
    ASSUME NEW a, NEW b
    PROVE  Range(<<a, b>>) = {a, b} /\ <<a, b>>[1] = a /\ DOMAIN <<a, b>> \subseteq Nat
<1>1. DOMAIN <<a, b>> = {1, 2} /\ <<a, b>>[1] = a /\ <<a, b>>[2] = b
  OBVIOUS
<1> QED
  BY <1>1 DEF Range

\* Two answers and a third.
LEMMA Triples ==
    ASSUME NEW a, NEW b, NEW c
    PROVE  /\ Range(Append(<<a, b>>, c)) = {a, b, c} /\ Append(<<a, b>>, c)[1] = a
           /\ DOMAIN Append(<<a, b>>, c) \subseteq Nat
<1> DEFINE s == <<a, b>>
           u == Append(s, c)
           S == {a, b, c}
<1>1. s \in Seq(S) /\ Len(s) = 2 /\ s[1] = a /\ s[2] = b /\ c \in S
  OBVIOUS
<1> HIDE DEF s, S
<1>2. /\ u \in Seq(S) /\ Len(u) = Len(s) + 1 /\ u[Len(s) + 1] = c
      /\ \A i \in 1..Len(s) : u[i] = s[i]
  <2>1. \A t \in Seq(S), e \in S :
          /\ Append(t, e) \in Seq(S) /\ Len(Append(t, e)) = Len(t) + 1 /\ Append(t, e)[Len(t) + 1] = e
          /\ \A i \in 1..Len(t) : Append(t, e)[i] = t[i]
    BY AppendProperties
  <2> QED
    BY <1>1, <2>1
<1>3. DOMAIN u = {1, 2, 3} /\ u[1] = a /\ u[2] = b /\ u[3] = c
  BY <1>1, <1>2
<1> HIDE DEF u
<1>4. Range(u) = {a, b, c}
  BY <1>3 DEF Range
<1> QED
  BY <1>3, <1>4 DEF u, s

\* The answers of a sort.
LEMMA Replies ==
    /\ Range(ChannelReply) = Group("success") /\ ChannelReply[1] = "success" /\ ByChannel(ChannelReply)
    /\ Range(OpenReply) = Group("openOk") /\ OpenReply[1] = "openOk" /\ ByChannel(OpenReply)
    /\ Range(GlobalReply) = Group("requestOk") /\ GlobalReply[1] = "requestOk" /\ ~ByChannel(GlobalReply)
    /\ Range(AuthReply) = {"authOk", "authFail"} /\ AuthReply[1] = "authOk" /\ ~ByChannel(AuthReply)
    /\ DOMAIN ChannelReply \subseteq Nat /\ DOMAIN OpenReply \subseteq Nat
    /\ DOMAIN GlobalReply \subseteq Nat /\ DOMAIN AuthReply \subseteq Nat
<1>1. /\ ChannelReply[1] = "success" /\ OpenReply[1] = "openOk" /\ GlobalReply[1] = "requestOk"
      /\ AuthReply[1] = "authOk"
  BY DEF ChannelReply, OpenReply, GlobalReply, AuthReply
<1>2. ByChannel(ChannelReply) /\ ByChannel(OpenReply) /\ ~ByChannel(GlobalReply) /\ ~ByChannel(AuthReply)
  BY <1>1 DEF ByChannel
<1>3. /\ Range(ChannelReply) = {"success", "failure"} /\ Range(OpenReply) = {"openOk", "openFail"}
      /\ Range(GlobalReply) = {"requestOk", "requestFail"} /\ Range(AuthReply) = {"authOk", "authFail"}
  BY Pairs DEF ChannelReply, OpenReply, GlobalReply, AuthReply
<1>4. /\ DOMAIN ChannelReply \subseteq Nat /\ DOMAIN OpenReply \subseteq Nat
      /\ DOMAIN GlobalReply \subseteq Nat /\ DOMAIN AuthReply \subseteq Nat
  BY Pairs DEF ChannelReply, OpenReply, GlobalReply, AuthReply
<1> QED
  BY <1>1, <1>2, <1>3, <1>4 DEF Group

\* The answers to a login when the server may ask for more.
LEMMA MoreReplies ==
    ASSUME NEW more
    PROVE  /\ Range(Append(AuthReply, more)) = {"authOk", "authFail", more}
           /\ Append(AuthReply, more)[1] = "authOk" /\ ~ByChannel(Append(AuthReply, more))
           /\ DOMAIN Append(AuthReply, more) \subseteq Nat
<1>1. /\ Range(Append(AuthReply, more)) = {"authOk", "authFail", more} /\ Append(AuthReply, more)[1] = "authOk"
      /\ DOMAIN Append(AuthReply, more) \subseteq Nat
  BY Triples DEF AuthReply
<1> QED
  BY <1>1, Replies DEF ByChannel

\* A write that goes on leads to where its answers are required.
LEMMA WriteShape ==
    ASSUME NEW op, NEW s, NEW kind, NEW to \in States(op), NEW fail \in States(op) \cup {"idle"},
           fail # "idle" => op = "password",
           kind \in AskKinds \ {"close"}, kind = "open" <=> op \in {"open", "direct"},
           Program(op)[to].do = "require",
           Answers(kind) \subseteq Range(Program(op)[to].types)
    PROVE  Shape(op, s, Writes(kind, Goes(to), fail))
BY DEF Shape, Writes, Goes, Ends, AskKinds

\* A question to the application leads to another state of the function.
LEMMA CallbackShape ==
    ASSUME NEW op, NEW s, NEW to \in States(op), NEW fail \in States(op) \cup {"idle"},
           fail # "idle" => op = "password"
    PROVE  Shape(op, s, Asks(to, fail))
BY DEF Shape, Asks, Goes, Ends

\* Two answers of a sort.
LEMMA RequireShape ==
    ASSUME NEW op, NEW s, NEW types, NEW a, NEW b, a # b,
           types[1] = a, DOMAIN types \subseteq Nat, Range(types) = {a, b}, a = Sort(op), {a, b} \subseteq Group(a),
           ByChannel(types) <=> a \in {"success", "openOk"},
           NEW yes, yes = Ends("idle", "ok"), NEW no,
           \/ no \in {Ends("idle", "ok"), Ends("idle", "denied")} /\ a # "openOk"
           \/ no = Ends("idle", "denied")
           \/ no = Ends("sent", "denied") /\ op = "x11Req",
           b \notin {"openOk", "requestOk"}, b = "openFail" => a = "openOk",
           "sent" \in States(op)
    PROVE  Shape(op, s, Requires(types, Answered(types, yes, no), "idle"))
<1> DEFINE on == Answered(types, yes, no)
<1>1. on[a] = yes /\ on[b] = no
  BY DEF Answered
<1>2. /\ yes.to = "idle" /\ yes.rc = "ok" /\ no.to \in {"idle", "sent"} /\ no.rc \in {"ok", "denied"}
      /\ no.to = "idle" \/ op = "x11Req"
      /\ op = "x11Req" => a = "success"
      /\ a # "openFail"
      /\ a = "openOk" => yes = [to |-> "idle", rc |-> "ok"] /\ no = [to |-> "idle", rc |-> "denied"]
  BY DEF Ends, Sort, ChannelOps
<1> HIDE DEF on
<1>3. \A t \in {a, b} :
        /\ on[t].to \in States(op) \cup {"idle"} /\ on[t].rc \in {"ok", "denied"}
        /\ on[t].to = "idle" \/ op = "x11Req"
        /\ t = "openOk" => on[t] = [to |-> "idle", rc |-> "ok"]
        /\ t = "openFail" => on[t] = [to |-> "idle", rc |-> "denied"]
        /\ t = "requestOk" => on[t].rc = "ok"
  BY <1>1, <1>2
<1>4. Requires(types, on, "idle").do = "require" /\ Requires(types, on, "idle").types = types
      /\ Requires(types, on, "idle").on = on /\ Requires(types, on, "idle").fail = "idle"
  BY DEF Requires
<1> HIDE DEF Requires
<1> DEFINE st == Requires(types, on, "idle")
<1> HIDE DEF st
<1>5. Shape(op, s, st)
  BY <1>3, <1>4 DEF Shape, st
<1> QED
  BY <1>5 DEF st, on

\* A request that is written and answered once.
LEMMA SimpleShapes ==
    ASSUME NEW op \in Requests, NEW kind, NEW types, NEW no, NEW s \in {"created", "sent"},
           Program(op) = Simple(kind, types, no), States(op) = {"created", "sent"},
           \/ Sort(op) # "authOk" /\ Range(types) = Group(Sort(op))
           \/ Sort(op) = "authOk" /\ Range(types) = {"authOk", "authFail"},
           types[1] = Sort(op), DOMAIN types \subseteq Nat, ByChannel(types) <=> Sort(op) \in {"success", "openOk"},
           \/ no \in {Ends("idle", "ok"), Ends("idle", "denied")} /\ Sort(op) # "openOk"
           \/ no = Ends("idle", "denied")
           \/ no = Ends("sent", "denied") /\ op = "x11Req",
           kind \in AskKinds \ {"close"}, kind = "open" <=> op \in {"open", "direct"},
           Answers(kind) \subseteq Range(types)
    PROVE  Shape(op, s, Program(op)[s])
<1> DEFINE st == Program(op)[s]
           on == Answered(types, Ends("idle", "ok"), no)
<1>1. Program(op)["sent"] = Requires(types, on, "idle")
  BY DEF Simple
<1>2. Program(op)["created"] = Writes(kind, Goes("sent"), "idle")
  BY DEF Simple
<1>3. CASE s = "created"
  <2>1. Program(op)["sent"].do = "require" /\ Program(op)["sent"].types = types
    <3> DEFINE x == Requires(types, on, "idle")
    <3>1. x.do = "require" /\ x.types = types
      BY DEF Requires
    <3> QED
      BY ONLY <1>1, <3>1
  <2> QED
    BY <1>2, <1>3, <2>1, WriteShape
<1>4. CASE s = "sent"
  <2>1. PICK a, b : /\ a = Sort(op) /\ a # b /\ Range(types) = {a, b} /\ {a, b} \subseteq Group(a)
                    /\ b \notin {"openOk", "requestOk"} /\ (b = "openFail" => a = "openOk")
    <3>1. Sort(op) \in Sorts
      BY DEF Sort, Sorts
    <3>2. \/ Sort(op) = "success" /\ Range(types) = {"success", "failure"}
          \/ Sort(op) = "openOk" /\ Range(types) = {"openOk", "openFail"}
          \/ Sort(op) = "requestOk" /\ Range(types) = {"requestOk", "requestFail"}
          \/ Sort(op) = "authOk" /\ Range(types) = {"authOk", "authFail"}
      <4>1. \/ Sort(op) # "authOk" /\ Range(types) = Group(Sort(op))
            \/ Sort(op) = "authOk" /\ Range(types) = {"authOk", "authFail"}
        OBVIOUS
      <4> QED
        BY ONLY <3>1, <4>1 DEF Sorts, Group
    <3> QED
      BY <3>2 DEF Group
  <2>2. /\ types[1] = a /\ DOMAIN types \subseteq Nat /\ (ByChannel(types) <=> a \in {"success", "openOk"})
        /\ \/ no \in {Ends("idle", "ok"), Ends("idle", "denied")} /\ a # "openOk"
           \/ no = Ends("idle", "denied")
           \/ no = Ends("sent", "denied") /\ op = "x11Req"
        /\ "sent" \in States(op)
    BY <2>1
  <2>3. Shape(op, s, Requires(types, on, "idle"))
    <3>1. Ends("idle", "ok") = Ends("idle", "ok")
      OBVIOUS
    <3> HIDE DEF on
    <3>2. on = Answered(types, Ends("idle", "ok"), no)
      BY DEF on
    <3> QED
      BY ONLY <2>1, <2>2, <3>1, <3>2, RequireShape
  <2> QED
    BY <1>1, <1>4, <2>3
<1> QED
  BY <1>3, <1>4

\* The functions with one request and one answer.
LEMMA SimpleOps ==
    ASSUME NEW op \in {"open", "direct", "listen", "env", "pty", "x11Req", "process", "list", "hostbased"},
           NEW s \in States(op)
    PROVE  Shape(op, s, Program(op)[s])
<1>1. op \in Requests /\ States(op) = {"created", "sent"}
  BY DEF Requests, ChannelOps, AuthOps, States
<1>2. CASE op = "open"
  <2>1. Program(op) = Simple("open", OpenReply, Ends("idle", "denied"))
    BY <1>2, Zenon DEF Program, ChannelOpen
  <2>2. Sort(op) = OpenReply[1] /\ Answers("open") \subseteq Range(OpenReply)
    BY <1>2, Replies DEF Sort, ChannelOps, Answers, Group
  <2> QED
    BY <1>1, <1>2, <2>1, <2>2, Replies, SimpleShapes DEF AskKinds
<1>3. CASE op = "direct"
  <2>1. Program(op) = Simple("open", OpenReply, Ends("idle", "denied"))
    BY <1>3, Zenon DEF Program, DirectTcpip, ChannelOpen
  <2>2. Sort(op) = OpenReply[1] /\ Answers("open") \subseteq Range(OpenReply)
    BY <1>3, Replies DEF Sort, ChannelOps, Answers, Group
  <2> QED
    BY <1>1, <1>3, <2>1, <2>2, Replies, SimpleShapes DEF AskKinds
<1>4. CASE op = "listen"
  <2>1. Program(op) = Simple("listen", GlobalReply, Ends("idle", "denied"))
    BY <1>4, Zenon DEF Program, ForwardListen
  <2>2. Sort(op) = GlobalReply[1] /\ Answers("listen") \subseteq Range(GlobalReply)
    BY <1>4, Replies DEF Sort, ChannelOps, Answers, Group
  <2> QED
    BY <1>1, <1>4, <2>1, <2>2, Replies, SimpleShapes DEF AskKinds
<1>5. CASE op = "env"
  <2>1. Program(op) = Simple("env", ChannelReply, Ends("idle", "denied"))
    BY <1>5, Zenon DEF Program, Setenv
  <2>2. Sort(op) = ChannelReply[1] /\ Answers("env") \subseteq Range(ChannelReply)
    BY <1>5, Replies DEF Sort, ChannelOps, Answers, Group
  <2> QED
    BY <1>1, <1>5, <2>1, <2>2, Replies, SimpleShapes DEF AskKinds
<1>6. CASE op = "pty"
  <2>1. Program(op) = Simple("pty-req", ChannelReply, Ends("idle", "denied"))
    BY <1>6, Zenon DEF Program, RequestPty
  <2>2. Sort(op) = ChannelReply[1] /\ Answers("pty-req") \subseteq Range(ChannelReply)
    BY <1>6, Replies DEF Sort, ChannelOps, Answers, Group
  <2> QED
    BY <1>1, <1>6, <2>1, <2>2, Replies, SimpleShapes DEF AskKinds
<1>7. CASE op = "x11Req"
  <2>1. Program(op) = Simple("x11-req", ChannelReply, Ends("sent", "denied"))
    BY <1>7, Zenon DEF Program, X11Req
  <2>2. Sort(op) = ChannelReply[1] /\ Answers("x11-req") \subseteq Range(ChannelReply)
    BY <1>7, Replies DEF Sort, ChannelOps, Answers, Group
  <2> QED
    BY <1>1, <1>7, <2>1, <2>2, Replies, SimpleShapes DEF AskKinds
<1>8. CASE op = "process"
  <2>1. Program(op) = Simple("process", ChannelReply, Ends("idle", "denied"))
    BY <1>8, Zenon DEF Program, ProcessStartup
  <2>2. Sort(op) = ChannelReply[1] /\ Answers("process") \subseteq Range(ChannelReply)
    BY <1>8, Replies DEF Sort, ChannelOps, Answers, Group
  <2> QED
    BY <1>1, <1>8, <2>1, <2>2, Replies, SimpleShapes DEF AskKinds
<1>9. CASE op = "list"
  <2>1. Program(op) = Simple("none", AuthReply, Ends("idle", "ok"))
    BY <1>9, Zenon DEF Program, UserauthList
  <2>2. Sort(op) = AuthReply[1] /\ Answers("none") \subseteq Range(AuthReply)
    BY <1>9, Replies DEF Sort, ChannelOps, Answers, Group
  <2> QED
    BY <1>1, <1>9, <2>1, <2>2, Replies, SimpleShapes DEF AskKinds
<1>10. CASE op = "hostbased"
  <2>1. Program(op) = Simple("hostbased", AuthReply, Ends("idle", "denied"))
    BY <1>10, Zenon DEF Program, HostBased
  <2>2. Sort(op) = AuthReply[1] /\ Answers("hostbased") \subseteq Range(AuthReply)
    BY <1>10, Replies DEF Sort, ChannelOps, Answers, Group
  <2> QED
    BY <1>1, <1>10, <2>1, <2>2, Replies, SimpleShapes DEF AskKinds
<1> QED
  BY <1>2, <1>3, <1>4, <1>5, <1>6, <1>7, <1>8, <1>9, <1>10

\* The last word on a login.
LEMMA VerdictFacts ==
    /\ DOMAIN Verdict = {"authOk", "authFail"}
    /\ Verdict["authOk"] = Ends("idle", "ok") /\ Verdict["authFail"] = Ends("idle", "denied")
<1>1. Range(AuthReply) = {"authOk", "authFail"} /\ AuthReply[1] = "authOk"
  BY Replies
<1> QED
  BY <1>1 DEF Verdict, Answered

\* A login method that is asked for more.
LEMMA VerdictShape ==
    ASSUME NEW op \in AuthOps, NEW s, NEW more \in {"changeReq", "pkOk", "infoReq"}, "sent1" \in States(op)
    PROVE  /\ Shape(op, s, VerdictOr(more))
           /\ VerdictOr(more).do = "require"
           /\ Range(VerdictOr(more).types) = {"authOk", "authFail", more}
<1> DEFINE types == Append(AuthReply, more)
           on == [t \in Range(types) |-> IF t = more THEN Goes("sent1") ELSE Verdict[t]]
           st == Requires(types, on, "idle")
<1>1. /\ Range(types) = {"authOk", "authFail", more} /\ types[1] = "authOk" /\ ~ByChannel(types)
      /\ DOMAIN types \subseteq Nat
  BY MoreReplies
<1>2. Sort(op) = "authOk" /\ Range(types) \subseteq Group("authOk") /\ op # "x11Req"
  BY <1>1 DEF Sort, AuthOps, ChannelOps, Group
<1>3. \A t \in Range(types) :
        /\ on[t].to \in States(op) \cup {"idle"} /\ on[t].rc \in {"go", "ok", "denied"}
        /\ on[t].rc = "go" => on[t].to \in States(op)
        /\ on[t].rc # "go" => on[t].to = "idle"
  <2>1. on["authOk"] = Ends("idle", "ok") /\ on["authFail"] = Ends("idle", "denied") /\ on[more] = Goes("sent1")
    BY <1>1, VerdictFacts
  <2> HIDE DEF on
  <2> QED
    BY <1>1, <2>1 DEF Goes, Ends
<1>4. VerdictOr(more) = st
  BY DEF VerdictOr
<1> HIDE DEF types, on
<1>5. st.do = "require" /\ st.types = types /\ st.on = on /\ st.fail = "idle"
  BY DEF Requires
<1> HIDE DEF st
<1>6. Shape(op, s, st)
  BY <1>1, <1>2, <1>3, <1>5 DEF Shape
<1> QED
  BY <1>1, <1>4, <1>5, <1>6

\* The change of the size of a terminal, and what it finds when called again.
LEMMA PtySizeShape ==
    ASSUME NEW s \in States("ptySize")
    PROVE  Shape("ptySize", s, Program("ptySize")[s])
<1>1. States("ptySize") = {"created", "sent"} /\ Answers("window-change") = {}
  BY DEF States, Answers
<1>2. Program("ptySize") = RequestPtySize
  BY DEF Program
<1>3. CASE s = "created"
  <2>1. Program("ptySize")[s] = Writes("window-change", Ends("sent", "ok"), "idle")
    BY <1>2, <1>3 DEF RequestPtySize
  <2> DEFINE st == Program("ptySize")[s]
  <2>2. /\ st.do = "write" /\ st.kind = "window-change" /\ st.fail = "idle"
        /\ st.ok.to = "sent" /\ st.ok.rc = "ok"
    BY <2>1 DEF Writes, Ends
  <2> HIDE DEF st
  <2>3. Shape("ptySize", s, st)
    BY <1>1, <2>2 DEF Shape
  <2> QED
    BY <2>3 DEF st
<1>4. CASE s = "sent"
  <2>1. Program("ptySize")[s] = [Asks("idle", "idle") EXCEPT !.do = "refuse"]
    BY <1>2, <1>4 DEF RequestPtySize
  <2> DEFINE st == Program("ptySize")[s]
  <2>2. st.do = "refuse" /\ st.fail = "idle"
    <3> DEFINE x == Asks("idle", "idle")
    <3>1. DOMAIN x = {"do", "kind", "ok", "fail", "types", "on"} /\ x.fail = "idle"
      BY DEF Asks
    <3> HIDE DEF x
    <3>2. [x EXCEPT !.do = "refuse"].do = "refuse" /\ [x EXCEPT !.do = "refuse"].fail = "idle"
      BY <3>1
    <3> QED
      BY <2>1, <3>2 DEF x
  <2> HIDE DEF st
  <2>3. Shape("ptySize", s, st)
    BY <1>1, <2>2 DEF Shape
  <2> QED
    BY <2>3 DEF st
<1> QED
  BY <1>1, <1>3, <1>4

\* The password method, with its change of the password.
LEMMA PasswordShape ==
    ASSUME NEW s \in States("password")
    PROVE  Shape("password", s, Program("password")[s])
<1>1. States("password") = {"created", "sent", "sent1", "sent2"} /\ "password" \in AuthOps
  BY DEF States, AuthOps
<1>2. Program("password") = Password
  BY DEF Program
<1>3. Answers("password") \subseteq {"authOk", "authFail", "changeReq"} /\ "password" \in AskKinds \ {"close"}
  BY DEF Answers, AskKinds
<1>4. /\ Program("password")["created"] = Writes("password", Goes("sent"), "idle")
      /\ Program("password")["sent"] = VerdictOr("changeReq")
      /\ Program("password")["sent1"] = Asks("sent2", "sent1")
      /\ Program("password")["sent2"] = Writes("password", Goes("sent"), "sent2")
  BY <1>2 DEF Password, PasswordAnswer, AsksNewPassword, SendsNewPassword
<1> QED
  BY <1>1, <1>3, <1>4, WriteShape, VerdictShape, CallbackShape

\* The public key method, which asks before it signs.
LEMMA PublicKeyShape ==
    ASSUME NEW s \in States("publickey")
    PROVE  Shape("publickey", s, Program("publickey")[s])
<1>1. /\ States("publickey") = {"created", "sent", "sent1", "sent2", "sent3"} /\ "publickey" \in AuthOps
      /\ Sort("publickey") = "authOk" /\ {"authOk", "authFail"} \subseteq Group("authOk")
  BY DEF States, AuthOps, Sort, Group, ChannelOps
<1>2. Program("publickey") = PublicKey
  BY DEF Program
<1>3. /\ Answers("probe") \subseteq {"authOk", "authFail", "pkOk"} /\ "probe" \in AskKinds \ {"close"}
      /\ Answers("signature") \subseteq {"authOk", "authFail"} /\ "signature" \in AskKinds \ {"close"}
  BY DEF Answers, AskKinds
<1>4. /\ Program("publickey")["created"] = Writes("probe", Goes("sent"), "idle")
      /\ Program("publickey")["sent"] = VerdictOr("pkOk")
      /\ Program("publickey")["sent1"] = Asks("sent2", "idle")
      /\ Program("publickey")["sent2"] = Writes("signature", Goes("sent3"), "idle")
      /\ Program("publickey")["sent3"] = Requires(AuthReply, Verdict, "idle")
  BY <1>2 DEF PublicKey, PublicKeyAnswer, Signs, SignatureAnswer
<1>5. Shape("publickey", s, Requires(AuthReply, Verdict, "idle"))
  <2>1. Verdict = Answered(AuthReply, Ends("idle", "ok"), Ends("idle", "denied"))
    BY DEF Verdict
  <2> QED
    BY <1>1, <2>1, Replies, RequireShape
<1>6. /\ Requires(AuthReply, Verdict, "idle").do = "require"
      /\ Requires(AuthReply, Verdict, "idle").types = AuthReply
  <2>1. \A a, b : Requires(a, b, "idle").do = "require" /\ Requires(a, b, "idle").types = a
    BY DEF Requires
  <2> QED
    BY <2>1
<1> QED
  BY <1>1, <1>3, <1>4, <1>5, <1>6, Replies, WriteShape, VerdictShape, CallbackShape

\* The keyboard-interactive method.
LEMMA KeyboardShape ==
    ASSUME NEW s \in States("keyboard")
    PROVE  Shape("keyboard", s, Program("keyboard")[s])
<1>1. States("keyboard") = {"created", "sent", "sent1"} /\ "keyboard" \in AuthOps
  BY DEF States, AuthOps
<1>2. Program("keyboard") = KeyboardInteractive
  BY DEF Program
<1>3. Answers("keyboard") \subseteq {"authOk", "authFail", "infoReq"} /\ "keyboard" \in AskKinds \ {"close"}
  BY DEF Answers, AskKinds
<1>4. /\ Program("keyboard")["created"] = Writes("keyboard", Goes("sent"), "idle")
      /\ Program("keyboard")["sent"] = VerdictOr("infoReq")
      /\ Program("keyboard")["sent1"] = Writes("keyboard", Goes("sent"), "idle")
  BY <1>2 DEF KeyboardInteractive, KeyboardQuestions, KeyboardResponses
<1> QED
  BY <1>1, <1>3, <1>4, WriteShape, VerdictShape

\* Every step of every program.
LEMMA Shapes ==
    ASSUME NEW op \in Requests, NEW s \in States(op)
    PROVE  Shape(op, s, Program(op)[s])
BY SimpleOps, PtySizeShape, PasswordShape, PublicKeyShape, KeyboardShape DEF Requests, ChannelOps, AuthOps

-----------------------------------------------------------------------------
(***************************************************************************)
(* Calls and slots.                                                        *)
(***************************************************************************)
\* The slot of a function, and its states.
LEMMA SlotFacts ==
    ASSUME NEW op \in Requests \cup {"cancel"}, NEW c, op \in ChannelOps => c \in ReqChans
    PROVE  /\ Slot(op, c) \in Slots /\ Slot(op, c)[1] \in Requests \cup {"cancel"}
           /\ States(Slot(op, c)[1]) = States(op)
           /\ Slot(op, c)[1] = "open" <=> op \in {"open", "direct"}
<1>1. CASE op \in {"open", "direct"}
  BY <1>1 DEF Slot, Slots, States, Requests
<1>2. CASE op = "ptySize"
  BY <1>2 DEF Slot, Slots, States, Requests, ChannelOps
<1>3. CASE op \notin {"open", "direct", "ptySize"}
  BY <1>3 DEF Slot, Slots, Requests, ChannelOps, AuthOps
<1> QED
  BY <1>1, <1>2, <1>3

\* What the current call is about to do.
LEMMA StepFacts ==
    ASSUME SavedOK, CallOK, call.op \in Requests
    PROVE  /\ MySlot \in Slots /\ CallSlot = MySlot
           /\ saved[MySlot] \in States(call.op) \cup {"idle"}
           /\ saved[MySlot] # "idle" => Shape(call.op, saved[MySlot], Step)
<1>1. call.op # "none" /\ (call.op \in ChannelOps => call.c \in ReqChans)
  BY DEF Requests, ChannelOps, AuthOps, CallOK
<1>2. MySlot \in Slots /\ States(MySlot[1]) = States(call.op)
  BY <1>1, SlotFacts DEF MySlot
<1>3. saved[MySlot] \in States(call.op) \cup {"idle"}
  BY <1>2 DEF SavedOK
<1>4. saved[MySlot] # "idle" => Shape(call.op, saved[MySlot], Step)
  BY <1>3, Shapes DEF Step
<1> QED
  BY <1>1, <1>2, <1>3, <1>4 DEF CallSlot, MySlot

\* The functions that are programs.
LEMMA OpFacts ==
    ASSUME CallOK
    PROVE  /\ call.op \in Ops \cup {"none"} /\ call.c \in Nat /\ call.own \in Nat
           /\ call.slept \in BOOLEAN /\ call.more \in BOOLEAN /\ call.at \in Places(call.op)
           /\ call.op \in Requests \cup {"none", "accept", "cancel"}
           /\ InProgram => call.op \in Requests /\ call.at = "run"
           /\ call.op # "none" /\ call.at \in {"read", "match", "fails"} => call.op \in Requests
           /\ call.at \in {"free", "await", "freed", "end"} => call.op = "cancel"
           /\ call.at \in {"EAGAIN", "zero", "FAIL"} => call.op = "accept"
<1>1. call \in [op : Ops \cup {"none"}, c : Nat, at : Places(call.op), own : Nat,
                slept : BOOLEAN, more : BOOLEAN]
  BY DEF CallOK
<1>2. call.op \in Requests \cup {"none", "accept", "cancel"}
  BY <1>1, RequestsAssumption DEF Requests, ChannelOps, AuthOps
<1>3. call.at \in Places(call.op)
  BY <1>1
<1> QED
  BY <1>1, <1>2, <1>3 DEF InProgram, Running, Places

\* A call goes to another place.
Moved(x) == call' = [call EXCEPT !.at = x]

\* A saved state changes, or none.
Saves(x) == saved' = [saved EXCEPT ![MySlot] = x]

\* The fields of a call that is changed.
HasCall(op, c, at, own) ==
    /\ call' \in [op : {op}, c : {c}, at : {at}, own : {own}, slept : BOOLEAN, more : BOOLEAN]
    /\ call'.op = op /\ call'.c = c /\ call'.at = at /\ call'.own = own

\* A record that is changed.
LEMMA CallFields ==
    ASSUME CallOK
    PROVE  /\ \A x : Moved(x) => HasCall(call.op, call.c, x, call.own) /\ call'.more = call.more
           /\ \A x, n : call' = [call EXCEPT !.at = x, !.own = n] => HasCall(call.op, call.c, x, n)
           /\ \A n : call' = [call EXCEPT !.own = n] => HasCall(call.op, call.c, call.at, n)
           /\ \A c : call' = [call EXCEPT !.c = c] => HasCall(call.op, c, call.at, call.own)
           /\ \A x : call' = [call EXCEPT !.at = x, !.slept = TRUE] => HasCall(call.op, call.c, x, call.own)
           /\ \A x, b : b \in BOOLEAN /\ call' = [call EXCEPT !.at = x, !.more = b] =>
                HasCall(call.op, call.c, x, call.own) /\ call'.more = b
<1>1. call \in [op : Ops \cup {"none"}, c : Nat, at : Places(call.op), own : Nat,
                slept : BOOLEAN, more : BOOLEAN]
  BY DEF CallOK
<1>2. /\ DOMAIN call = {"op", "c", "at", "own", "slept", "more"}
      /\ call.slept \in BOOLEAN /\ call.more \in BOOLEAN
      /\ call = [op |-> call.op, c |-> call.c, at |-> call.at, own |-> call.own,
                 slept |-> call.slept, more |-> call.more]
  BY <1>1
<1>3. ASSUME NEW x, NEW n, NEW c, NEW s \in BOOLEAN, NEW m \in BOOLEAN,
             call' = [op |-> call.op, c |-> c, at |-> x, own |-> n, slept |-> s, more |-> m]
      PROVE  HasCall(call.op, c, x, n) /\ call'.more = m
  BY <1>3 DEF HasCall
<1>4. ASSUME NEW x, Moved(x) PROVE HasCall(call.op, call.c, x, call.own) /\ call'.more = call.more
  <2>1. call' = [op |-> call.op, c |-> call.c, at |-> x, own |-> call.own, slept |-> call.slept, more |-> call.more]
    BY <1>2, <1>4 DEF Moved
  <2> QED
    BY <1>2, <1>3, <2>1
<1>5. ASSUME NEW x, NEW n, call' = [call EXCEPT !.at = x, !.own = n]
      PROVE  HasCall(call.op, call.c, x, n)
  <2>1. call' = [op |-> call.op, c |-> call.c, at |-> x, own |-> n, slept |-> call.slept, more |-> call.more]
    BY <1>2, <1>5
  <2> QED
    BY <1>2, <1>3, <2>1
<1>6. ASSUME NEW n, call' = [call EXCEPT !.own = n] PROVE HasCall(call.op, call.c, call.at, n)
  <2>1. call' = [op |-> call.op, c |-> call.c, at |-> call.at, own |-> n, slept |-> call.slept, more |-> call.more]
    BY <1>2, <1>6
  <2> QED
    BY <1>2, <1>3, <2>1
<1>7. ASSUME NEW c, call' = [call EXCEPT !.c = c] PROVE HasCall(call.op, c, call.at, call.own)
  <2>1. call' = [op |-> call.op, c |-> c, at |-> call.at, own |-> call.own, slept |-> call.slept, more |-> call.more]
    BY <1>2, <1>7
  <2> QED
    BY <1>2, <1>3, <2>1
<1>8. ASSUME NEW x, call' = [call EXCEPT !.at = x, !.slept = TRUE]
      PROVE  HasCall(call.op, call.c, x, call.own)
  <2>1. call' = [op |-> call.op, c |-> call.c, at |-> x, own |-> call.own, slept |-> TRUE, more |-> call.more]
    BY <1>2, <1>8
  <2> QED
    BY <1>2, <1>3, <2>1
<1>9. ASSUME NEW x, NEW b \in BOOLEAN, call' = [call EXCEPT !.at = x, !.more = b]
      PROVE  HasCall(call.op, call.c, x, call.own) /\ call'.more = b
  <2>1. call' = [op |-> call.op, c |-> call.c, at |-> x, own |-> call.own, slept |-> call.slept, more |-> b]
    BY <1>2, <1>9
  <2> QED
    BY <1>2, <1>3, <2>1
<1> QED
  BY <1>4, <1>5, <1>6, <1>7, <1>8, <1>9, Zenon

\* A call has returned, or starts afresh.
Returned ==
    \/ call' = Idle
    \/ HasCall(call.op, call.c, "select", 0) /\ call.op \in PointerOps

Result(rc, of) == [op |-> call.op, c |-> call.c, rc |-> rc, own |-> call.own, of |-> of]

\* What a return does.
LEMMA ReturnFacts ==
    ASSUME CallOK, NEW rc, NEW of, NEW err, Returns(rc, of, err)
    PROVE  /\ Returned /\ eagain' = err /\ (last' = last \/ last' = Result(rc, of))
           /\ rc = "ok" => call' = Idle /\ last' = Result(rc, of)
<1>1. CASE call' = Idle
  BY <1>1 DEF Returns, Returned, Result
<1>2. CASE call' = [call EXCEPT !.at = "select", !.own = 0] /\ call.op \in PointerOps
  <2>1. HasCall(call.op, call.c, "select", 0)
    BY <1>2, CallFields, Zenon
  <2> QED
    BY <1>2, <2>1 DEF Returns, Returned, Result
<1>3. rc = "ok" => call' = Idle /\ last' = Result(rc, of)
  BY DEF Returns, Result
<1> QED
  BY <1>1, <1>2, <1>3 DEF Returns

\* An idle call.
LEMMA IdleFacts ==
    /\ Idle.op = "none" /\ Idle.c = 0 /\ Idle.at = "idle" /\ Idle.own = 0
    /\ Idle.slept = FALSE /\ Idle.more = FALSE
BY DEF Idle

\* What waiting for the socket does.
LEMMA AgainFacts ==
    ASSUME CallOK, OthersOK, Again
    PROVE  HasCall(call.op, call.c, "select", call.own) /\ eagain' \in BOOLEAN
<1>1. Moved("select")
  BY DEF Again, Moved
<1> QED
  <2>1. HasCall(call.op, call.c, "select", call.own)
    BY <1>1, CallFields, Zenon
  <2>2. eagain \in BOOLEAN /\ eagain' = (eagain \/ call.op \in PointerOps)
    BY DEF Again, OthersOK
  <2> QED
    BY <2>1, <2>2, Zenon

-----------------------------------------------------------------------------
(***************************************************************************)
(* Numbers and sequences.                                                  *)
(***************************************************************************)
\* A set of naturals has a least element.
LEMMA Least ==
    ASSUME NEW T, T \subseteq Nat, T # {}
    PROVE  Min(T) \in T /\ \A y \in T : Min(T) <= y
<1>1. PICK x \in T : \A y \in T : ~(<<y, x>> \in OpToRel(<, Nat))
  BY NatLessThanWellFounded, WFMin, ZenonT(30)
<1>2. OpToRel(<, Nat) = {ss \in Nat \X Nat : ss[1] < ss[2]}
  BY DEF OpToRel
<1>3. \A y \in T : ~(<<y, x>> \in {ss \in Nat \X Nat : ss[1] < ss[2]})
  BY <1>1, <1>2, ZenonT(30)
<1>4. ASSUME NEW y \in T PROVE x <= y
  <2>1. <<y, x>> \in Nat \X Nat /\ <<y, x>>[1] = y /\ <<y, x>>[2] = x /\ x \in Nat /\ y \in Nat
    OBVIOUS
  <2>2. ~(y < x)
    BY <1>3, <2>1
  <2> QED
    BY <2>1, <2>2
<1> QED
  BY <1>4 DEF Min

\* A bounded set of naturals has a greatest element.
LEMMA Greatest ==
    ASSUME NEW T, T \subseteq Nat, T # {}, NEW n \in Nat, \A x \in T : x <= n
    PROVE  Max(T) \in T /\ \A y \in T : Max(T) >= y
<1> DEFINE B == {b \in Nat : \A x \in T : x <= b}
<1>1. Min(B) \in B /\ \A y \in B : Min(B) <= y
  <2>1. B \subseteq Nat /\ n \in B
    OBVIOUS
  <2> HIDE DEF B
  <2> QED
    BY <2>1, Least
<1> DEFINE m == Min(B)
<1> HIDE DEF m
<1>2. m \in Nat /\ (\A x \in T : x <= m) /\ \A y \in B : m <= y
  BY <1>1 DEF m
<1>3. m \in T
  <2> SUFFICES ASSUME m \notin T PROVE FALSE
    OBVIOUS
  <2>1. \A x \in T : x <= m - 1
    BY <1>2
  <2>2. m - 1 \in Nat
    <3>1. PICK x : x \in T
      OBVIOUS
    <3>2. x \in Nat /\ x <= m - 1
      BY <2>1, <3>1
    <3> QED
      BY <1>2, <3>2
  <2>3. m - 1 \in B
    BY <2>1, <2>2
  <2> QED
    BY <1>2, <2>3
<1> HIDE DEF B
<1>4. \E x \in T : \A y \in T : x >= y
  BY <1>2, <1>3
<1> QED
  BY <1>4 DEF Max

\* The id of the next channel is free.
LEMMA NextIdIs ==
    ASSUME ChansOK
    PROVE  NextId = nextChannel
<1>1. chans \cup {nextChannel} \subseteq Nat /\ \A c \in chans \cup {nextChannel} : c <= nextChannel
  BY DEF ChansOK
<1>2. NextId \in chans \cup {nextChannel} /\ \A c \in chans \cup {nextChannel} : NextId >= c
  BY <1>1, Greatest DEF NextId
<1> QED
  BY <1>1, <1>2

\* A sequence without one of its elements.
Skip(i, k) == IF k < i THEN k ELSE k + 1

\* Taking the i-th element out moves those after it one place down.
LEMMA RemoveFacts ==
    ASSUME NEW S, NEW s \in Seq(S), NEW i \in DOMAIN s, NEW r, r = RemoveAt(s, i)
    PROVE  /\ r \in Seq(S) /\ Len(r) = Len(s) - 1
           /\ \A k \in DOMAIN r : Skip(i, k) \in DOMAIN s /\ Skip(i, k) # i /\ r[k] = s[Skip(i, k)]
<1> DEFINE a == SubSeq(s, 1, i - 1)
           b == SubSeq(s, i + 1, Len(s))
<1>1. i \in 1..Len(s) /\ Len(s) \in Nat /\ DOMAIN s = 1..Len(s)
  OBVIOUS
<1>2. a \in Seq(S) /\ Len(a) = i - 1 /\ \A k \in 1..(i - 1) : a[k] = s[k]
  <2>1. \A k \in 1..(i - 1) : s[k] \in S
    BY <1>1
  <2> QED
    BY <1>1, <2>1, SubSeqProperties
<1>3. b \in Seq(S) /\ Len(b) = Len(s) - i /\ \A k \in 1..(Len(s) - i) : b[k] = s[k + i]
  <2>1. \A k \in (i + 1)..Len(s) : s[k] \in S
    BY <1>1
  <2>2. /\ SubSeq(s, i + 1, Len(s)) \in Seq(S)
        /\ Len(SubSeq(s, i + 1, Len(s))) = IF i + 1 <= Len(s) THEN Len(s) - (i + 1) + 1 ELSE 0
        /\ \A k \in 1..(Len(s) - (i + 1) + 1) : SubSeq(s, i + 1, Len(s))[k] = s[(i + 1) + k - 1]
    BY <1>1, <2>1, SubSeqProperties
  <2> HIDE DEF b
  <2>3. Len(b) = Len(s) - i
    <3>1. Len(b) = IF i + 1 <= Len(s) THEN Len(s) - (i + 1) + 1 ELSE 0
      BY <2>2 DEF b
    <3> QED
      BY <1>1, <3>1
  <2>4. ASSUME NEW k \in 1..(Len(s) - i) PROVE b[k] = s[k + i]
    <3>1. k \in 1..(Len(s) - (i + 1) + 1) /\ (i + 1) + k - 1 = k + i
      BY <1>1
    <3> QED
      BY <2>2, <3>1 DEF b
  <2> QED
    BY <2>2, <2>3, <2>4 DEF b
<1> HIDE DEF a, b
<1>4. r = a \o b
  BY DEF RemoveAt, a, b
<1>5. /\ r \in Seq(S) /\ Len(r) = Len(a) + Len(b)
      /\ \A k \in 1..(Len(a) + Len(b)) : r[k] = IF k <= Len(a) THEN a[k] ELSE b[k - Len(a)]
  <2>1. /\ a \o b \in Seq(S) /\ Len(a \o b) = Len(a) + Len(b)
        /\ \A k \in 1..(Len(a) + Len(b)) : (a \o b)[k] = IF k <= Len(a) THEN a[k] ELSE b[k - Len(a)]
    BY <1>2, <1>3, ConcatProperties
  <2> QED
    BY <1>4, <2>1
<1>6. Len(r) = Len(s) - 1 /\ DOMAIN r = 1..(Len(s) - 1)
  BY <1>1, <1>2, <1>3, <1>5
<1>7. ASSUME NEW k \in 1..(Len(s) - 1)
      PROVE  Skip(i, k) \in 1..Len(s) /\ Skip(i, k) # i /\ r[k] = s[Skip(i, k)]
  <2>1. CASE k < i
    BY <1>1, <1>2, <1>3, <1>5, <2>1 DEF Skip
  <2>2. CASE k >= i
    <3>1. r[k] = b[k - (i - 1)] /\ k - (i - 1) \in 1..(Len(s) - i)
      <4>1. Len(a) + Len(b) = Len(s) - 1 /\ Len(a) = i - 1 /\ k \in Int
        BY <1>1, <1>2, <1>3
      <4>2. k \in 1..(Len(a) + Len(b)) /\ ~(k <= Len(a)) /\ k - (i - 1) \in 1..(Len(s) - i)
        <5>1. /\ k \in 1..(Len(s) - 1) /\ ~(k <= i - 1) /\ k - (i - 1) \in 1..(Len(s) - i)
          BY <1>1, <2>2
        <5> QED
          BY <4>1, <5>1
      <4> QED
        BY <1>5, <4>1, <4>2
    <3>2. b[k - (i - 1)] = s[k + 1]
      <4>1. (k - (i - 1)) + i = k + 1
        BY <1>1
      <4> QED
        BY <1>3, <3>1, <4>1
    <3> QED
      BY <1>1, <2>2, <3>1, <3>2 DEF Skip
  <2> QED
    BY <1>1, <2>1, <2>2
<1>8. DOMAIN r = 1..(Len(s) - 1)
  BY <1>6
<1>9. r \in Seq(S)
  BY <1>5
<1> QED
  BY <1>1, <1>6, <1>7, <1>8, <1>9, Zenon

\* The element that is not there is the only one that is lost.
LEMMA RemoveKeeps ==
    ASSUME NEW S, NEW s \in Seq(S), NEW i \in DOMAIN s, NEW r, r = RemoveAt(s, i),
           NEW j \in DOMAIN s, j # i
    PROVE  \E k \in DOMAIN r : r[k] = s[j]
<1> DEFINE k == IF j < i THEN j ELSE j - 1
<1>1. r \in Seq(S) /\ Len(r) = Len(s) - 1 /\ \A n \in DOMAIN r : r[n] = s[Skip(i, n)]
  BY RemoveFacts
<1>2. k \in DOMAIN r /\ Skip(i, k) = j
  BY <1>1 DEF Skip
<1> QED
  BY <1>1, <1>2

\* The packets _libssh2_packet_askv looks for.
FitsIn(types, c, p) == p.type \in Range(types) /\ (ByChannel(types) => p.c = c)

\* It finds one of them, if there is one.
LEMMA AskvFacts ==
    ASSUME NEW types, DOMAIN types \subseteq Nat, NEW c, brigade \in Seq(Answer),
           NEW i, i = PacketAskv(types, c)
    PROVE  /\ i = 0 => \A j \in DOMAIN brigade : ~FitsIn(types, c, brigade[j])
           /\ i # 0 => i \in DOMAIN brigade /\ FitsIn(types, c, brigade[i])
<1> DEFINE P(t) == {j \in DOMAIN brigade :
                      brigade[j].type = t /\ (ByChannel(types) => brigade[j].c = c)}
           T == {k \in DOMAIN types : P(types[k]) # {}}
<1>1. i = IF T = {} THEN 0 ELSE Min(P(types[Min(T)]))
  BY DEF PacketAskv
<1>2. ASSUME T = {}, NEW j \in DOMAIN brigade, FitsIn(types, c, brigade[j]) PROVE FALSE
  <2>1. PICK k \in DOMAIN types : types[k] = brigade[j].type
    BY <1>2 DEF FitsIn, Range
  <2>2. j \in P(types[k])
    BY <1>2, <2>1 DEF FitsIn
  <2> QED
    BY <1>2, <2>1, <2>2
<1>3. ASSUME T # {} PROVE i # 0 /\ i \in DOMAIN brigade /\ FitsIn(types, c, brigade[i])
  <2>1. T \subseteq Nat
    OBVIOUS
  <2>2. Min(T) \in T
    BY <1>3, <2>1, Least
  <2> DEFINE Q == P(types[Min(T)])
  <2>3. Q # {} /\ Q \subseteq Nat \ {0}
    <3>1. DOMAIN brigade \subseteq Nat \ {0}
      OBVIOUS
    <3> QED
      BY <2>2, <3>1
  <2> HIDE DEF Q
  <2>4. Min(Q) \in Q
    BY <2>3, Least
  <2>5. i \in Q
    BY <1>1, <1>3, <2>4 DEF Q
  <2>6. types[Min(T)] \in Range(types)
    BY <2>2 DEF Range
  <2> QED
    BY <2>3, <2>5, <2>6 DEF Q, FitsIn
<1> QED
  BY <1>1, <1>2, <1>3

\* A sequence with one more element.
LEMMA AppendFacts ==
    ASSUME NEW S, NEW s \in Seq(S), NEW e \in S, NEW r, r = Append(s, e)
    PROVE  /\ r \in Seq(S) /\ Len(r) = Len(s) + 1
           /\ \A k \in DOMAIN s : k \in DOMAIN r /\ r[k] = s[k]
           /\ Len(r) \in DOMAIN r /\ r[Len(r)] = e
           /\ \A k \in DOMAIN r : (k \in DOMAIN s /\ r[k] = s[k]) \/ (k = Len(s) + 1 /\ r[k] = e)
<1>1. /\ Append(s, e) \in Seq(S) /\ Len(Append(s, e)) = Len(s) + 1 /\ Append(s, e)[Len(s) + 1] = e
      /\ \A k \in 1..Len(s) : Append(s, e)[k] = s[k]
  BY AppendProperties
<1>2. r \in Seq(S) /\ Len(r) = Len(s) + 1 /\ r[Len(s) + 1] = e /\ \A k \in 1..Len(s) : r[k] = s[k]
  BY <1>1
<1>3. DOMAIN s = 1..Len(s) /\ DOMAIN r = 1..(Len(s) + 1) /\ Len(s) \in Nat
  BY <1>2
<1> QED
  BY <1>2, <1>3

\* A sequence without its first element.
LEMMA TailFacts ==
    ASSUME NEW S, NEW s \in Seq(S), s # <<>>, NEW r, r = Tail(s)
    PROVE  /\ r \in Seq(S) /\ Len(r) = Len(s) - 1 /\ Head(s) = s[1] /\ 1 \in DOMAIN s /\ Head(s) \in S
           /\ \A k \in DOMAIN r : k + 1 \in DOMAIN s /\ k + 1 > 1 /\ r[k] = s[k + 1]
           /\ \A k \in DOMAIN s : k # 1 => k - 1 \in DOMAIN r /\ r[k - 1] = s[k]
<1>1. /\ Head(s) \in S /\ Tail(s) \in Seq(S) /\ Len(Tail(s)) = Len(s) - 1
      /\ \A i \in 1..Len(Tail(s)) : Tail(s)[i] = s[i + 1]
  BY HeadTailProperties
<1>2. r \in Seq(S) /\ Len(r) = Len(s) - 1 /\ \A i \in 1..Len(r) : r[i] = s[i + 1]
  BY <1>1
<1>3. DOMAIN s = 1..Len(s) /\ DOMAIN r = 1..(Len(s) - 1) /\ Len(s) \in Nat \ {0}
  BY <1>2
<1>4. Head(s) = s[1]
  OBVIOUS
<1> QED
  BY <1>1, <1>2, <1>3, <1>4

-----------------------------------------------------------------------------
(***************************************************************************)
(* The transport.                                                          *)
(***************************************************************************)
\* What sending a packet does to the server.
Sent(kind, c, rc) ==
    /\ rc \in {"NONE", "EAGAIN", "FAIL"}
    /\ peer' \in Peers /\ sock' \in {"up", "broken"}
    /\ rc # "NONE" => peer' = peer /\ sock' = sock
    /\ rc # "FAIL" => pend \in {NoPacket, <<kind, c>>} /\ pend' = IF rc = "NONE" THEN NoPacket ELSE <<kind, c>>
    /\ rc = "FAIL" => pend' = pend /\ (disc \/ sock = "broken" \/ pend \notin {NoPacket, <<kind, c>>})
    /\ rc = "NONE" => sock = "up" /\ (sock' = "broken" => disc)
    /\ rc = "NONE" /\ disc => peer' = peer
    /\ rc = "NONE" /\ ~disc =>
         /\ peer'.asked = peer.asked + 1 /\ peer'.accepted = peer.accepted
         /\ peer'.open = IF kind = "confirm" THEN peer.open \cup {c}
                         ELSE IF kind = "close" THEN peer.open \ {c} ELSE peer.open
         /\ Answers(kind) = {} => peer'.asks = peer.asks
         /\ Answers(kind) # {} =>
              /\ peer'.asks = Append(peer.asks, [kind |-> kind, c |-> c, id |-> peer.asked + 1])
              /\ [kind |-> kind, c |-> c, id |-> peer.asked + 1] \in Asked

\* A packet that arrives is counted, and asked of the server when it has an answer.
LEMMA ReceivedFacts ==
    ASSUME peer \in Peers, disc \in BOOLEAN, NEW kind, NEW c \in Nat, ~disc, sock = "up",
           peer' = Received(kind, c)
    PROVE  /\ peer' \in Peers
           /\ peer'.asked = peer.asked + 1 /\ peer'.accepted = peer.accepted
           /\ peer'.open = IF kind = "confirm" THEN peer.open \cup {c}
                           ELSE IF kind = "close" THEN peer.open \ {c} ELSE peer.open
           /\ Answers(kind) = {} => peer'.asks = peer.asks
           /\ Answers(kind) # {} =>
                /\ peer'.asks = Append(peer.asks, [kind |-> kind, c |-> c, id |-> peer.asked + 1])
                /\ [kind |-> kind, c |-> c, id |-> peer.asked + 1] \in Asked
<1> DEFINE q == [kind |-> kind, c |-> c, id |-> peer.asked + 1]
           asks == IF Answers(kind) = {} THEN peer.asks ELSE Append(peer.asks, q)
           open == IF kind = "confirm" THEN peer.open \cup {c}
                   ELSE IF kind = "close" THEN peer.open \ {c} ELSE peer.open
<1>1. /\ DOMAIN peer = {"asks", "asked", "open", "listens", "accepted", "rounds"}
      /\ peer.asks \in Seq(Asked) /\ peer.asked \in Nat /\ peer.open \in SUBSET Nat
      /\ peer.listens \in BOOLEAN /\ peer.accepted \in BOOLEAN /\ peer.rounds \in Nat
  BY DEF Peers
<1>2. Answers(kind) # {} => q \in Asked
  <2>1. Answers(kind) # {} => kind \in AskKinds
    BY DEF Answers, AskKinds
  <2> QED
    BY <1>1, <2>1 DEF Asked
<1>3. asks \in Seq(Asked)
  <2>1. \A e \in Asked : Append(peer.asks, e) \in Seq(Asked)
    BY <1>1, AppendProperties
  <2> HIDE DEF q
  <2> QED
    BY <1>1, <1>2, <2>1
<1>4. open \in SUBSET Nat
  BY <1>1
<1> HIDE DEF asks, open, q
<1>5. peer' = [asks |-> asks, asked |-> peer.asked + 1, open |-> open,
               listens |-> peer.listens /\ kind # "cancel", accepted |-> peer.accepted,
               rounds |-> peer.rounds]
  <2>1. peer' = [peer EXCEPT !.asked = @ + 1, !.asks = asks, !.open = open,
                             !.listens = @ /\ kind # "cancel"]
    BY DEF Received, asks, open, q
  <2> QED
    BY <1>1, <2>1
<1>6. peer' \in Peers
  BY <1>1, <1>3, <1>4, <1>5 DEF Peers
<1>7. peer'.asked = peer.asked + 1 /\ peer'.accepted = peer.accepted /\ peer'.open = open /\ peer'.asks = asks
  BY <1>5
<1> QED
  BY <1>2, <1>6, <1>7 DEF asks, open, q

\* The outcomes of _libssh2_transport_write.
LEMMA SendFacts ==
    ASSUME NetOK, disc \in BOOLEAN, NEW kind, NEW c \in Nat, NEW rc, Send(kind, c, rc)
    PROVE  Sent(kind, c, rc)
<1>1. peer \in Peers /\ sock \in {"up", "broken"}
  BY DEF NetOK
<1>2. CASE /\ peer' = peer /\ sock' = sock /\ pend' = pend /\ rc = "FAIL"
           /\ disc \/ sock = "broken" \/ pend \notin {NoPacket, <<kind, c>>}
  BY <1>1, <1>2 DEF Sent
<1>3. CASE /\ rc = "NONE" /\ sock = "up" /\ peer' = Received(kind, c)
           /\ sock' = IF disc THEN "broken" ELSE sock
           /\ pend \in {NoPacket, <<kind, c>>} /\ pend' = NoPacket
  <2>1. CASE disc
    BY <1>1, <1>3, <2>1 DEF Received, Sent
  <2>2. CASE ~disc
    BY <1>1, <1>3, <2>2, ReceivedFacts DEF Sent
  <2> QED
    BY <2>1, <2>2
<1>4. CASE /\ peer' = peer /\ sock' = sock /\ rc = "EAGAIN"
           /\ pend \in {NoPacket, <<kind, c>>} /\ pend' = <<kind, c>>
  BY <1>1, <1>4 DEF Sent
<1> QED
  BY <1>2, <1>3, <1>4 DEF Send

\* A connection joins the queue of the listener.
Grows(id) ==
    /\ lst' \in Listeners
    /\ lst'.on = lst.on /\ lst'.cancelled = lst.cancelled
    /\ lst'.size = lst.size + 1 /\ lst'.queue = Append(lst.queue, id)

\* What a connection the server opens does.
Connected(type, confirm, id, w, rc) ==
    /\ type \in {"forward", "x11"} /\ confirm \in BOOLEAN /\ id \in Nat
    /\ Sent(IF confirm THEN "confirm" ELSE "refuse", id, w)
    /\ rc = IF w = "NONE" THEN type ELSE w
    /\ ~Resumed /\ confirm =>
         /\ id = nextChannel /\ nextChannel' = id + 1
         /\ type = "forward" => lst.on /\ (QueueMax # 0 => lst.size < QueueMax)
    /\ Resumed \/ ~confirm => nextChannel' = nextChannel
    /\ Resumed => id = add.c /\ (confirm => id # 0)
    /\ ~confirm => id = 0
    /\ add' = IF w = "EAGAIN" THEN [type |-> type, c |-> id, id |-> 0] ELSE NoAdd
    /\ crashed' \in BOOLEAN /\ (crashed => crashed')
    /\ w = "NONE" /\ confirm /\ Resumed => crashed'
    /\ w = "NONE" /\ confirm /\ ~Resumed /\ type = "x11" => chans' = chans \cup {id} /\ lst' = lst
    /\ w = "NONE" /\ confirm /\ ~Resumed /\ type = "forward" => chans' = chans /\ Grows(id)
    /\ w # "NONE" \/ ~confirm \/ Resumed => chans' = chans /\ lst' = lst

\* A connection joins the queue of the listener.
LEMMA GrowsFacts ==
    ASSUME lst \in Listeners, NEW id \in Nat,
           lst' = [lst EXCEPT !.queue = Append(@, id), !.size = @ + 1]
    PROVE  Grows(id)
<1>1. /\ DOMAIN lst = {"on", "queue", "size", "cancelled"}
      /\ lst.on \in BOOLEAN /\ lst.queue \in Seq(Nat) /\ lst.size \in Int /\ lst.cancelled \in BOOLEAN
  BY DEF Listeners
<1>2. lst' = [on |-> lst.on, queue |-> Append(lst.queue, id), size |-> lst.size + 1, cancelled |-> lst.cancelled]
  BY <1>1
<1>3. Append(lst.queue, id) \in Seq(Nat)
  BY <1>1, AppendProperties
<1> QED
  BY <1>1, <1>2, <1>3 DEF Grows, Listeners

\* A confirmed channel is linked into the session or into the queue, once.
LEMMA LinkFacts ==
    ASSUME lst \in Listeners, crashed \in BOOLEAN, NEW type \in {"forward", "x11"}, NEW id \in Nat,
           Link(type, id)
    PROVE  /\ crashed' \in BOOLEAN /\ (crashed => crashed') /\ (Resumed => crashed')
           /\ ~Resumed /\ type = "x11" => chans' = chans \cup {id} /\ lst' = lst
           /\ ~Resumed /\ type = "forward" => chans' = chans /\ Grows(id)
           /\ Resumed => chans' = chans /\ lst' = lst
<1>1. crashed' = (crashed \/ Resumed)
  BY DEF Link
<1>2. crashed' \in BOOLEAN /\ (crashed => crashed') /\ (Resumed => crashed')
  BY <1>1, Zenon
<1>3. ~Resumed /\ type = "forward" => chans' = chans /\ Grows(id)
  <2> HAVE ~Resumed /\ type = "forward"
  <2>1. chans' = chans /\ lst' = [lst EXCEPT !.queue = Append(@, id), !.size = @ + 1]
    BY DEF Link
  <2> QED
    BY <2>1, GrowsFacts, Zenon
<1>4. ~Resumed /\ type = "x11" => chans' = chans \cup {id} /\ lst' = lst
  BY DEF Link
<1>5. Resumed => chans' = chans /\ lst' = lst
  BY DEF Link
<1> QED
  BY <1>2, <1>3, <1>4, <1>5

\* What an incoming connection does to the channels and the listener.
LEMMA ConnectionFacts ==
    ASSUME NetOK, ListenOK, ChansOK, OthersOK, NEW type \in {"forward", "x11"}, NEW rc, Connection(type, rc)
    PROVE  \E confirm \in BOOLEAN, id \in Nat, w \in {"NONE", "EAGAIN", "FAIL"} :
             Connected(type, confirm, id, w, rc)
<1> DEFINE confirm == IF Resumed THEN add.c # 0 ELSE Accepts(type)
           id == IF Resumed THEN add.c ELSE IF confirm THEN NextId ELSE 0
<1>1. PICK w \in {"NONE", "EAGAIN", "FAIL"} :
        /\ Send(IF confirm THEN "confirm" ELSE "refuse", id, w)
        /\ nextChannel' = IF confirm /\ ~Resumed THEN id + 1 ELSE nextChannel
        /\ add' = IF w = "EAGAIN" THEN [type |-> type, c |-> id, id |-> 0] ELSE NoAdd
        /\ rc = IF w = "NONE" THEN type ELSE w
        /\ IF w = "NONE" /\ confirm THEN Link(type, id) ELSE UNCHANGED <<chans, lst, crashed>>
  BY DEF Connection
<1>2. /\ lst \in Listeners /\ lst.size \in Int /\ crashed \in BOOLEAN /\ disc \in BOOLEAN /\ nextChannel \in Nat
      /\ NextId = nextChannel /\ add.c \in Nat
  BY NextIdIs DEF ListenOK, OthersOK, ChansOK, Listeners, NetOK
<1>3. confirm \in BOOLEAN /\ id \in Nat
  <2>1. lst.on \in BOOLEAN /\ x11cb \in BOOLEAN
    BY <1>2 DEF Listeners, OthersOK
  <2>2. Accepts(type) \in BOOLEAN
    BY <2>1, Zenon DEF Accepts
  <2>3. (add.c # 0) \in BOOLEAN
    OBVIOUS
  <2>4. confirm \in BOOLEAN
    BY <2>2, <2>3, Zenon
  <2> HIDE DEF confirm
  <2>5. id \in Nat
    BY <1>2
  <2> QED
    BY <2>4, <2>5
<1>4. Sent(IF confirm THEN "confirm" ELSE "refuse", id, w)
  BY <1>1, <1>2, <1>3, SendFacts
<1>5. /\ ~Resumed /\ confirm =>
           /\ id = nextChannel
           /\ type = "forward" => lst.on /\ (QueueMax # 0 => lst.size < QueueMax)
      /\ Resumed => id = add.c /\ (confirm => id # 0)
      /\ ~confirm => id = 0
  BY <1>2, RequestsAssumption DEF Accepts
<1> HIDE DEF confirm, id
<1>6. w = "NONE" /\ confirm => Link(type, id)
  BY <1>1
<1>7. w # "NONE" \/ ~confirm => UNCHANGED <<chans, lst, crashed>>
  BY <1>1
<1>8. /\ crashed' \in BOOLEAN /\ (crashed => crashed')
      /\ w = "NONE" /\ confirm /\ Resumed => crashed'
      /\ w = "NONE" /\ confirm /\ ~Resumed /\ type = "x11" => chans' = chans \cup {id} /\ lst' = lst
      /\ w = "NONE" /\ confirm /\ ~Resumed /\ type = "forward" => chans' = chans /\ Grows(id)
      /\ w # "NONE" \/ ~confirm \/ Resumed => chans' = chans /\ lst' = lst
  <2>1. CASE w = "NONE" /\ confirm
    BY <1>2, <1>3, <1>6, <2>1, LinkFacts, Zenon
  <2>2. CASE w # "NONE" \/ ~confirm
    BY <1>2, <1>7, <2>2, Zenon
  <2> QED
    BY <2>1, <2>2
<1>9. /\ nextChannel' = IF confirm /\ ~Resumed THEN id + 1 ELSE nextChannel
      /\ add' = IF w = "EAGAIN" THEN [type |-> type, c |-> id, id |-> 0] ELSE NoAdd
      /\ rc = IF w = "NONE" THEN type ELSE w
  BY <1>1
<1>10. Connected(type, confirm, id, w, rc)
  BY <1>3, <1>4, <1>5, <1>8, <1>9, Zenon DEF Connected
<1> QED
  BY <1>3, <1>10

\* Nothing is read.
Stalls(rc) ==
    /\ ~Resumed /\ UNCHANGED <<inbound, pend, add, sock, disc, brigade, peer, chans, lst, nextChannel, crashed>>
    /\ \/ disc /\ rc = "zero"
       \/ ~disc /\ inbound = <<>> /\ rc = IF sock = "broken" THEN "FAIL" ELSE "EAGAIN"

\* A connection is met, or met again.
Meets(rc) ==
    /\ UNCHANGED <<disc, brigade>>
    /\ \/ Resumed /\ inbound' = inbound
       \/ /\ ~Resumed /\ ~disc /\ inbound # <<>> /\ inbound' = Tail(inbound)
          /\ Head(inbound).type \in {"forward", "x11"}
    /\ \E type \in {"forward", "x11"}, confirm \in BOOLEAN, id \in Nat, w \in {"NONE", "EAGAIN", "FAIL"} :
         Connected(type, confirm, id, w, rc)

\* A packet is read.
Gets(rc) ==
    /\ ~Resumed /\ ~disc /\ inbound # <<>> /\ inbound' = Tail(inbound)
    /\ Head(inbound).type \notin {"forward", "x11"}
    /\ rc = IF Head(inbound).type = "disconnect" THEN "FAIL" ELSE Head(inbound).type
    /\ disc' = (Head(inbound).type = "disconnect")
    /\ brigade' = IF Head(inbound).type \in {"disconnect", "ignore", "close"} THEN brigade
                  ELSE Append(brigade, Head(inbound))
    /\ UNCHANGED <<pend, add, sock, peer, chans, lst, nextChannel, crashed>>

\* The outcomes of _libssh2_transport_read: nothing, a connection, or a packet.
LEMMA ReadFacts ==
    ASSUME NetOK, ListenOK, ChansOK, OthersOK, NEW rc, TransportRead(rc)
    PROVE  Stalls(rc) \/ Meets(rc) \/ Gets(rc)
<1>1. CASE Resumed /\ Connection(add.type, rc) /\ UNCHANGED <<inbound, disc, brigade>>
  <2>1. add.type \in {"forward", "x11"}
    BY <1>1 DEF NetOK, Resumed
  <2>2. \E confirm \in BOOLEAN, id \in Nat, w \in {"NONE", "EAGAIN", "FAIL"} :
          Connected(add.type, confirm, id, w, rc)
    BY <1>1, <2>1, ConnectionFacts
  <2> QED
    BY <1>1, <2>1, <2>2, Zenon DEF Meets
<1>2. CASE /\ ~Resumed /\ ~disc /\ inbound # <<>> /\ inbound' = Tail(inbound)
           /\ Head(inbound).type \in {"forward", "x11"} /\ Connection(Head(inbound).type, rc)
           /\ UNCHANGED <<disc, brigade>>
  <2>1. \E confirm \in BOOLEAN, id \in Nat, w \in {"NONE", "EAGAIN", "FAIL"} :
          Connected(Head(inbound).type, confirm, id, w, rc)
    BY <1>2, ConnectionFacts
  <2> QED
    BY <1>2, <2>1, Zenon DEF Meets
<1>3. CASE \/ /\ ~Resumed /\ disc /\ rc = "zero"
              /\ UNCHANGED <<inbound, pend, add, sock, disc, brigade, peer, chans, lst, nextChannel, crashed>>
           \/ /\ ~Resumed /\ ~disc /\ inbound = <<>>
              /\ rc = IF sock = "broken" THEN "FAIL" ELSE "EAGAIN"
              /\ UNCHANGED <<inbound, pend, add, sock, disc, brigade, peer, chans, lst, nextChannel, crashed>>
  BY <1>3, Zenon DEF Stalls
<1>4. CASE Gets(rc)
  BY <1>4
<1> QED
  BY <1>1, <1>2, <1>3, <1>4, Zenon DEF TransportRead, Gets

-----------------------------------------------------------------------------
(***************************************************************************)
(* What the steps do to the packets on their way.                          *)
(***************************************************************************)
\* Nothing is sent, read or taken.
Quiet == UNCHANGED <<brigade, inbound, add, sock, disc, peer>>

\* A packet is sent.
Sends(kind, c, rc) == c \in Nat /\ Sent(kind, c, rc) /\ UNCHANGED <<brigade, inbound, add, disc>>

\* An answer is taken.
TakesOut(i) ==
    /\ i \in DOMAIN brigade /\ brigade' = RemoveAt(brigade, i)
    /\ auth' = (auth \/ brigade[i].type = "authOk")
    /\ UNCHANGED <<inbound, add, sock, disc, peer>>

Reads(rc) == Stalls(rc) \/ Meets(rc) \/ Gets(rc)

\* The server answers a question.
Replied(q, t) ==
    /\ peer.asks # <<>> /\ ~disc /\ sock = "up" /\ q = Head(peer.asks) /\ t \in Answers(q.kind)
    /\ [type |-> t, c |-> q.c, id |-> q.id] \in Packet
    /\ t \in AnswerTypes \/ (q.kind = "close" /\ t = "close")
    /\ inbound' = Append(inbound, [type |-> t, c |-> q.c, id |-> q.id])
    /\ peer' \in Peers /\ peer'.asks = Tail(peer.asks) /\ peer'.asked = peer.asked
    /\ peer'.open = (IF t = "openOk" THEN peer.open \cup {q.c} ELSE peer.open)
    /\ peer'.accepted = (peer.accepted \/ t = "authOk")
    /\ UNCHANGED <<brigade, add, sock, disc>>

\* It sends something unasked.
Unasked(kind) ==
    /\ kind \in {"forward", "x11", "ignore", "disconnect"} /\ ~disc /\ sock = "up"
    /\ inbound' = Append(inbound, [type |-> kind, c |-> 0, id |-> 0])
    /\ [type |-> kind, c |-> 0, id |-> 0] \in Packet
    /\ UNCHANGED <<brigade, add, sock, disc, peer>>

\* The connection breaks.
Broken ==
    /\ sock' = "broken" /\ inbound' = <<>> /\ peer' \in Peers /\ peer'.asks = <<>>
    /\ peer'.asked = peer.asked /\ peer'.accepted = peer.accepted /\ peer'.open = peer.open
    /\ UNCHANGED <<brigade, add, disc>>

Flows ==
    \/ /\ auth' = auth
       /\ \/ Quiet
          \/ \E kind, c, rc : Sends(kind, c, rc)
          \/ \E rc : Reads(rc)
          \/ \E q, t : Replied(q, t)
          \/ \E kind : Unasked(kind)
          \/ Broken
    \/ \E i : TakesOut(i)

\* The fields of the server's record.
LEMMA PeerFields ==
    ASSUME peer \in Peers
    PROVE  /\ DOMAIN peer = {"asks", "asked", "open", "listens", "accepted", "rounds"}
           /\ peer.asks \in Seq(Asked) /\ peer.asked \in Nat /\ peer.open \in SUBSET Nat
           /\ peer.listens \in BOOLEAN /\ peer.accepted \in BOOLEAN /\ peer.rounds \in Nat
BY DEF Peers

\* An answer of the server moves a question from its queue into the socket.
LEMMA ServerAnswersFlow ==
    ASSUME NetOK, ServerAnswers
    PROVE  \E q, t : Replied(q, t)
<1> DEFINE q == Head(peer.asks)
<1>1. PICK t \in Answers(q.kind) :
         /\ inbound' = Append(inbound, [type |-> t, c |-> q.c, id |-> q.id])
         /\ peer' = [peer EXCEPT
                       !.asks = Tail(@),
                       !.rounds = IF t \in {"changeReq", "infoReq"} THEN @ + 1 ELSE @,
                       !.open = IF t = "openOk" THEN @ \cup {q.c} ELSE @,
                       !.listens = @ \/ t = "requestOk",
                       !.accepted = @ \/ t = "authOk"]
  BY Zenon DEF ServerAnswers
<1>2. peer.asks # <<>> /\ ~disc /\ sock = "up" /\ UNCHANGED <<brigade, add, sock, disc>>
  BY DEF ServerAnswers
<1>3. /\ DOMAIN peer = {"asks", "asked", "open", "listens", "accepted", "rounds"}
      /\ peer.asks \in Seq(Asked) /\ peer.asked \in Nat /\ peer.open \in SUBSET Nat
      /\ peer.listens \in BOOLEAN /\ peer.accepted \in BOOLEAN /\ peer.rounds \in Nat
  BY PeerFields DEF NetOK
<1>4. q \in Asked /\ Tail(peer.asks) \in Seq(Asked)
  BY <1>2, <1>3, TailFacts
<1>5. q.kind \in AskKinds /\ q.c \in Nat /\ q.id \in Nat
  BY <1>4 DEF Asked
<1>6. t \in AnswerTypes \/ (q.kind = "close" /\ t = "close")
  BY <1>1, <1>5 DEF Answers, AnswerTypes, AskKinds
<1>7. [type |-> t, c |-> q.c, id |-> q.id] \in Packet
  BY <1>5, <1>6 DEF Packet
<1> DEFINE rounds == IF t \in {"changeReq", "infoReq"} THEN peer.rounds + 1 ELSE peer.rounds
           open == IF t = "openOk" THEN peer.open \cup {q.c} ELSE peer.open
           listens == peer.listens \/ t = "requestOk"
           accepted == peer.accepted \/ t = "authOk"
           asks == Tail(peer.asks)
<1>8. rounds \in Nat /\ open \in SUBSET Nat
  BY <1>3, <1>5
<1>9. listens \in BOOLEAN /\ accepted \in BOOLEAN
  BY Zenon
<1>10. peer' = [peer EXCEPT !.asks = asks, !.rounds = rounds, !.open = open, !.listens = listens, !.accepted = accepted]
  BY <1>1
<1>11. asks \in Seq(Asked) /\ accepted = (peer.accepted \/ t = "authOk") /\ asks = Tail(peer.asks)
       /\ open = IF t = "openOk" THEN peer.open \cup {q.c} ELSE peer.open
  BY <1>4
<1> HIDE DEF rounds, open, listens, accepted, asks, q
<1>12. peer' = [asks |-> asks, asked |-> peer.asked, open |-> open, listens |-> listens,
                accepted |-> accepted, rounds |-> rounds]
  BY <1>3, <1>10
<1>13. peer' \in Peers
  BY <1>3, <1>8, <1>9, <1>11, <1>12 DEF Peers
<1>14. peer'.asks = asks /\ peer'.asked = peer.asked /\ peer'.open = open /\ peer'.accepted = accepted
  BY <1>12
<1>15. inbound' = Append(inbound, [type |-> t, c |-> q.c, id |-> q.id]) /\ t \in Answers(q.kind)
  BY <1>1
<1>16. q = Head(peer.asks)
  BY DEF q
<1>17. Replied(q, t)
  BY <1>2, <1>6, <1>7, <1>11, <1>13, <1>14, <1>15, <1>16, Zenon DEF Replied
<1> QED
  BY <1>17

\* A packet sent unasked answers nothing.
LEMMA ServerSendsFlow ==
    ASSUME NEW kind \in Kinds, ServerSends(kind)
    PROVE  Unasked(kind)
<1>1. kind \in {"forward", "x11", "ignore", "disconnect"}
  BY RequestsAssumption DEF ServerSends
<1>2. [type |-> kind, c |-> 0, id |-> 0] \in Packet
  BY <1>1 DEF Packet
<1> QED
  BY <1>1, <1>2 DEF ServerSends, Unasked, peerVars

\* A reset connection loses what was not read, and what was asked.
LEMMA BreaksFlow ==
    ASSUME NetOK, ConnectionBreaks
    PROVE  Broken
<1>1. /\ DOMAIN peer = {"asks", "asked", "open", "listens", "accepted", "rounds"}
      /\ peer.asks \in Seq(Asked) /\ peer.asked \in Nat /\ peer.open \in SUBSET Nat
      /\ peer.listens \in BOOLEAN /\ peer.accepted \in BOOLEAN /\ peer.rounds \in Nat
  BY PeerFields DEF NetOK
<1>2. peer' = [asks |-> <<>>, asked |-> peer.asked, open |-> peer.open, listens |-> peer.listens,
               accepted |-> peer.accepted, rounds |-> peer.rounds]
  BY <1>1 DEF ConnectionBreaks
<1>3. <<>> \in Seq(Asked)
  OBVIOUS
<1>4. peer' \in Peers
  BY <1>1, <1>2, <1>3 DEF Peers
<1> QED
  BY <1>2, <1>4 DEF ConnectionBreaks, Broken

\* The answer a step takes is one the call would take.
LEMMA PacketAskvFlow ==
    ASSUME SavedOK, CallOK, NetOK, call.op \in Requests, saved[MySlot] # "idle", Step.do = "require",
           NEW i, i = PacketAskv(Step.types, call.c)
    PROVE  /\ i = 0 => \A j \in DOMAIN brigade : ~Fits(brigade[j])
           /\ i # 0 => i \in DOMAIN brigade /\ Fits(brigade[i])
<1>1. DOMAIN Step.types \subseteq Nat
  BY StepFacts DEF Shape
<1>2. brigade \in Seq(Answer)
  BY DEF NetOK
<1>3. \A p : Fits(p) <=> FitsIn(Step.types, call.c, p)
  BY DEF Fits, FitsIn
<1> QED
  BY <1>1, <1>2, <1>3, AskvFacts

\* Every step is one of them.
LEMMA NextFlows ==
    ASSUME Types, Next
    PROVE  Flows
<1> USE DEF Types
<1>1. ASSUME NEW op \in Ops, NEW c \in ReqChans, Call(op, c) PROVE Flows
  BY <1>1 DEF Call, Quiet, net, peerVars, Flows
<1>2. CASE Wake \/ KeyFileFails \/ Builds \/ RefusesPtySize \/ CallsBack \/ AnswerFails \/ AcceptEnds
  BY <1>2 DEF Wake, KeyFileFails, Builds, RefusesPtySize, CallsBack, AnswerFails, AcceptEnds, Quiet, net, peerVars, Flows
<1>3. CASE CancelFreed \/ CancelEnds \/ AnswerTimesOut
  BY <1>3 DEF CancelFreed, CancelEnds, AnswerTimesOut, Quiet, net, peerVars, Flows
<1>4. CASE WritesRequest
  <2>1. PICK rc : Send(Step.kind, call.c, rc)
    BY <1>4 DEF WritesRequest
  <2>2. call.c \in Nat /\ disc \in BOOLEAN
    BY OpFacts DEF OthersOK
  <2>3. Sent(Step.kind, call.c, rc)
    BY <2>1, <2>2, SendFacts
  <2>4. Sends(Step.kind, call.c, rc)
    BY <1>4, <2>2, <2>3 DEF WritesRequest, Sends
  <2> QED
    BY <1>4, <2>4 DEF Flows, WritesRequest
<1>5. CASE AsksBrigade
  <2> DEFINE i == PacketAskv(Step.types, call.c)
  <2>1. CASE i = 0
    BY <1>5, <2>1 DEF AsksBrigade, Quiet, net, peerVars, Flows
  <2>2. CASE i # 0
    <3>1. i \in DOMAIN brigade
      BY <1>5, <2>2, OpFacts, PacketAskvFlow DEF AsksBrigade, AwaitsAnswer
    <3>2. TakesOut(i)
      BY <1>5, <2>2, <3>1 DEF AsksBrigade, TakesOut, Takes, Authenticates, net, peerVars
    <3> QED
      BY <3>2 DEF Flows
  <2> QED
    BY <2>1, <2>2
<1>6. CASE TakesAnswer
  <2> DEFINE i == PacketAskv(Step.types, call.c)
  <2>1. CASE i = 0
    BY <1>6, <2>1 DEF TakesAnswer, Quiet, net, Flows
  <2>2. CASE i # 0
    <3>1. call.op \in Requests /\ saved[MySlot] # "idle" /\ Step.do = "require"
      BY <1>6, OpFacts DEF TakesAnswer, Running, CallOK
    <3>2. i \in DOMAIN brigade
      BY <2>2, <3>1, PacketAskvFlow
    <3>3. TakesOut(i)
      BY <1>6, <2>2, <3>2 DEF TakesAnswer, TakesOut, Takes, Authenticates, net
    <3> QED
      BY <3>3 DEF Flows
  <2> QED
    BY <2>1, <2>2
<1>7. CASE ReadsAnswer \/ ForwardAccept \/ CancelAwaits
  <2>1. PICK rc : TransportRead(rc)
    BY <1>7 DEF ReadsAnswer, ForwardAccept, CancelAwaits
  <2>2. Reads(rc)
    BY <2>1, ReadFacts DEF Reads
  <2> QED
    BY <1>7, <2>2 DEF Flows, ReadsAnswer, ForwardAccept, CancelAwaits
<1>8. CASE CancelStart
  <2>1. PICK rc : Send("cancel", 0, rc)
    BY <1>8 DEF CancelStart
  <2>2. Sent("cancel", 0, rc)
    BY <2>1, SendFacts DEF OthersOK
  <2>3. Sends("cancel", 0, rc)
    BY <1>8, <2>2 DEF CancelStart, Sends
  <2> QED
    BY <1>8, <2>3 DEF Flows, CancelStart
<1>9. CASE CancelFrees
  <2>1. CASE disc
    BY <1>9, <2>1 DEF CancelFrees, Quiet, Flows
  <2>2. CASE ~disc
    <3>1. PICK rc : Send("close", Head(lst.queue), rc)
      BY <1>9, <2>2 DEF CancelFrees
    <3>2. Head(lst.queue) \in Nat
      <4>1. lst.queue \in Seq(Nat) /\ lst.queue # <<>>
        BY <1>9 DEF CancelFrees, Running, ListenOK, Listeners
      <4> QED
        BY <4>1
    <3>3. Sent("close", Head(lst.queue), rc)
      BY <3>1, <3>2, SendFacts DEF OthersOK
    <3>4. Sends("close", Head(lst.queue), rc)
      BY <1>9, <3>2, <3>3 DEF CancelFrees, Sends
    <3> QED
      BY <1>9, <3>4 DEF Flows, CancelFrees
  <2> QED
    BY <2>1, <2>2
<1>10. CASE ServerAnswers
  <2>1. \E q, t : Replied(q, t)
    BY <1>10, ServerAnswersFlow
  <2> QED
    BY <1>10, <2>1 DEF Flows, ServerAnswers
<1>11. ASSUME NEW kind \in Kinds, ServerSends(kind) PROVE Flows
  BY <1>11, ServerSendsFlow DEF Flows, ServerSends
<1>12. CASE ConnectionBreaks
  BY <1>12, BreaksFlow DEF Flows, ConnectionBreaks
<1> QED
  BY <1>1, <1>2, <1>3, <1>4, <1>5, <1>6, <1>7, <1>8, <1>9, <1>10, <1>11, <1>12 DEF Next, Library, Flows

-----------------------------------------------------------------------------
(***************************************************************************)
(* The types of the packets, and their order.                              *)
(***************************************************************************)
\* A packet the server sends.
LEMMA InboundGrows ==
    ASSUME NetOK, NEW p \in Packet, p.type \in AnswerTypes => p.id # 0, inbound' = Append(inbound, p)
    PROVE  /\ inbound' \in Seq(Packet)
           /\ \A i \in DOMAIN inbound' : inbound'[i].type \in AnswerTypes => inbound'[i].id # 0
BY AppendFacts DEF NetOK

\* The packet that is read is well formed, and so are those behind it.
LEMMA InboundShrinks ==
    ASSUME NetOK, inbound # <<>>, inbound' = Tail(inbound)
    PROVE  /\ inbound' \in Seq(Packet)
           /\ \A i \in DOMAIN inbound' : inbound'[i].type \in AnswerTypes => inbound'[i].id # 0
           /\ Head(inbound) \in Packet
           /\ Head(inbound).type \in AnswerTypes => Head(inbound) \in Answer
<1>1. /\ inbound' \in Seq(Packet) /\ Head(inbound) \in Packet /\ Head(inbound) = inbound[1] /\ 1 \in DOMAIN inbound
      /\ \A k \in DOMAIN inbound' : k + 1 \in DOMAIN inbound /\ inbound'[k] = inbound[k + 1]
  BY TailFacts DEF NetOK
<1>2. \A i \in DOMAIN inbound : inbound[i].type \in AnswerTypes => inbound[i].id # 0
  BY DEF NetOK
<1>3. Head(inbound).type \in AnswerTypes => Head(inbound) \in Answer
  <2>1. Head(inbound).type \in AnswerTypes => Head(inbound).id # 0
    BY <1>1, <1>2
  <2> QED
    BY <1>1, <2>1 DEF Packet, Answer
<1> QED
  BY <1>1, <1>2, <1>3

\* What a packet that is read does to the brigade.
LEMMA GetsFacts ==
    ASSUME NetOK, NEW rc, Gets(rc)
    PROVE  /\ Head(inbound) \in Packet
           /\ \/ brigade' = brigade /\ Head(inbound).type \notin AnswerTypes
              \/ /\ brigade' = Append(brigade, Head(inbound)) /\ Head(inbound) \in Answer
                 /\ Head(inbound).type \in AnswerTypes /\ ~disc'
<1>1. Head(inbound) \in Packet /\ (Head(inbound).type \in AnswerTypes => Head(inbound) \in Answer)
  BY InboundShrinks DEF Gets
<1>2. Head(inbound).type \in AnswerTypes \cup {"close", "ignore", "disconnect"}
  BY <1>1 DEF Packet, Gets
<1>3. CASE Head(inbound).type \in AnswerTypes
  BY <1>1, <1>3 DEF Gets, AnswerTypes
<1>4. CASE Head(inbound).type \in {"close", "ignore", "disconnect"}
  BY <1>1, <1>4 DEF Gets, AnswerTypes
<1> QED
  BY <1>2, <1>3, <1>4

\* The packets keep their types.
LEMMA NetStep ==
    ASSUME NetOK, disc \in BOOLEAN, Flows
    PROVE  NetOK'
<1>1. CASE Quiet
  BY <1>1 DEF Quiet, NetOK
<1>2. ASSUME NEW kind, NEW c, NEW rc, Sends(kind, c, rc) PROVE NetOK'
  <2>1. Sent(kind, c, rc) /\ UNCHANGED <<brigade, inbound, add, disc>>
    BY <1>2 DEF Sends
  <2>2. peer' \in Peers /\ sock' \in {"up", "broken"}
    BY <2>1 DEF Sent
  <2>3. sock' = "broken" /\ ~disc => sock = "broken" /\ peer' = peer
    BY <2>1 DEF Sent
  <2> QED
    BY <2>1, <2>2, <2>3 DEF NetOK
<1>3. ASSUME NEW i, TakesOut(i) PROVE NetOK'
  <2>1. brigade \in Seq(Answer)
    BY DEF NetOK
  <2>2. brigade' \in Seq(Answer)
    BY <1>3, <2>1, RemoveFacts DEF TakesOut
  <2> QED
    BY <1>3, <2>2 DEF NetOK, TakesOut
<1>4. ASSUME NEW rc, Stalls(rc) PROVE NetOK'
  BY <1>4 DEF Stalls, NetOK
<1>5. ASSUME NEW rc, Meets(rc) PROVE NetOK'
  <2>1. PICK type \in {"forward", "x11"}, confirm \in BOOLEAN, id \in Nat, w \in {"NONE", "EAGAIN", "FAIL"} :
          Connected(type, confirm, id, w, rc)
    BY <1>5 DEF Meets
  <2>2. Sent(IF confirm THEN "confirm" ELSE "refuse", id, w)
    BY <2>1 DEF Connected
  <2>3. add' = IF w = "EAGAIN" THEN [type |-> type, c |-> id, id |-> 0] ELSE NoAdd
    BY <2>1 DEF Connected
  <2>4. add' \in [type : {"none", "forward", "x11"}, c : Nat, id : {0}] /\ (add'.type = "none" => add' = NoAdd)
    BY <2>3 DEF NoAdd
  <2>5. peer' \in Peers /\ sock' \in {"up", "broken"}
    BY <2>2 DEF Sent
  <2>6. sock' = "broken" /\ ~disc => sock = "broken" /\ peer' = peer
    BY <2>2 DEF Sent
  <2>7. brigade' = brigade /\ disc' = disc
    BY <1>5 DEF Meets
  <2>8. CASE inbound' = inbound
    BY <2>4, <2>5, <2>6, <2>7, <2>8 DEF NetOK
  <2>9. CASE ~disc /\ inbound # <<>> /\ inbound' = Tail(inbound)
    <3>1. /\ inbound' \in Seq(Packet)
          /\ \A i \in DOMAIN inbound' : inbound'[i].type \in AnswerTypes => inbound'[i].id # 0
      BY <2>9, InboundShrinks
    <3>2. sock' # "broken"
      BY <2>6, <2>9 DEF NetOK
    <3> QED
      BY <2>4, <2>5, <2>7, <3>1, <3>2 DEF NetOK
  <2> QED
    BY <1>5, <2>8, <2>9 DEF Meets
<1>6. ASSUME NEW rc, Gets(rc) PROVE NetOK'
  <2>1. UNCHANGED <<add, sock, peer>> /\ ~disc /\ inbound # <<>> /\ inbound' = Tail(inbound)
    BY <1>6 DEF Gets
  <2>2. /\ inbound' \in Seq(Packet)
        /\ \A i \in DOMAIN inbound' : inbound'[i].type \in AnswerTypes => inbound'[i].id # 0
    BY <2>1, InboundShrinks
  <2>3. brigade' \in Seq(Answer)
    <3>1. brigade \in Seq(Answer) /\ \A e \in Answer : Append(brigade, e) \in Seq(Answer)
      BY AppendProperties DEF NetOK
    <3> QED
      BY <1>6, <3>1, GetsFacts
  <2>4. sock # "broken"
    BY <2>1 DEF NetOK
  <2> QED
    BY <2>1, <2>2, <2>3, <2>4 DEF NetOK
<1>7. ASSUME NEW q, NEW t, Replied(q, t) PROVE NetOK'
  <2> DEFINE p == [type |-> t, c |-> q.c, id |-> q.id]
  <2>1. p \in Packet /\ inbound' = Append(inbound, p) /\ UNCHANGED <<brigade, add, sock, disc>> /\ peer' \in Peers /\ sock = "up"
    BY <1>7 DEF Replied
  <2>2. p.type \in AnswerTypes => p.id # 0
    <3>1. peer.asks \in Seq(Asked) /\ peer.asks # <<>> /\ q = Head(peer.asks)
      BY <1>7, PeerFields DEF Replied, NetOK
    <3>2. q \in Asked
      BY <3>1, TailFacts
    <3> QED
      BY <3>2 DEF Asked
  <2> HIDE DEF p
  <2>3. /\ inbound' \in Seq(Packet)
        /\ \A i \in DOMAIN inbound' : inbound'[i].type \in AnswerTypes => inbound'[i].id # 0
    BY <2>1, <2>2, InboundGrows
  <2> QED
    BY <2>1, <2>3 DEF NetOK
<1>8. ASSUME NEW kind, Unasked(kind) PROVE NetOK'
  <2> DEFINE p == [type |-> kind, c |-> 0, id |-> 0]
  <2>1. p \in Packet /\ inbound' = Append(inbound, p) /\ UNCHANGED <<brigade, add, sock, disc, peer>> /\ sock = "up"
    BY <1>8 DEF Unasked
  <2>2. p.type \in AnswerTypes => p.id # 0
    BY <1>8 DEF Unasked, AnswerTypes
  <2> HIDE DEF p
  <2>3. /\ inbound' \in Seq(Packet)
        /\ \A i \in DOMAIN inbound' : inbound'[i].type \in AnswerTypes => inbound'[i].id # 0
    BY <2>1, <2>2, InboundGrows
  <2> QED
    BY <2>1, <2>3 DEF NetOK
<1>9. CASE Broken
  <2>1. <<>> \in Seq(Packet) /\ DOMAIN <<>> = {}
    OBVIOUS
  <2> QED
    BY <1>9, <2>1 DEF Broken, NetOK
<1> QED
  BY <1>1, <1>2, <1>3, <1>4, <1>5, <1>6, <1>7, <1>8, <1>9 DEF Flows, Reads

\* r has some of the elements of s, in their order.
Within(r, s, f) ==
    /\ \A k \in DOMAIN r : f[k] \in DOMAIN s /\ r[k] = s[f[k]]
    /\ \A k, m \in DOMAIN r : k < m => f[k] < f[m]

\* Part of a sequence, in the same order, is ordered like the whole.
LEMMA WithinOrdered ==
    ASSUME NEW r, NEW s, NEW f, Within(r, s, f)
    PROVE  /\ \A n : Upto(s, n) => Upto(r, n)
           /\ Rises(s) => Rises(r)
           /\ \A t : Below(s, t) => Below(r, t)
           /\ \A t : Below(t, s) => Below(t, r)
BY DEF Within, Upto, Rises, Below

\* The tail is such a part.
LEMMA TailOrdered ==
    ASSUME NEW S, NEW s \in Seq(S), s # <<>>
    PROVE  \E f : Within(Tail(s), s, f)
<1> DEFINE r == Tail(s)
           f == [k \in DOMAIN r |-> k + 1]
<1>1. r \in Seq(S) /\ \A k \in DOMAIN r : k + 1 \in DOMAIN s /\ r[k] = s[k + 1]
  BY TailFacts
<1>2. DOMAIN r \subseteq Int
  BY <1>1
<1> HIDE DEF r
<1>3. Within(r, s, f)
  BY <1>1, <1>2 DEF Within
<1> QED
  BY <1>3 DEF r

\* So is what is left when an element is taken out.
LEMMA RemoveOrdered ==
    ASSUME NEW S, NEW s \in Seq(S), NEW i \in DOMAIN s
    PROVE  \E f : Within(RemoveAt(s, i), s, f)
<1> DEFINE r == RemoveAt(s, i)
           f == [k \in DOMAIN r |-> Skip(i, k)]
<1>1. r \in Seq(S) /\ \A k \in DOMAIN r : Skip(i, k) \in DOMAIN s /\ r[k] = s[Skip(i, k)]
  BY RemoveFacts
<1>2. DOMAIN r \subseteq Int /\ i \in Int
  BY <1>1
<1> HIDE DEF r
<1>3. \A k, m \in Int : k < m => Skip(i, k) < Skip(i, m)
  BY <1>2 DEF Skip
<1>4. Within(r, s, f)
  BY <1>1, <1>2, <1>3 DEF Within
<1> QED
  BY <1>4 DEF r

\* A packet appended is within the numbers given out.
LEMMA AppendUpto ==
    ASSUME NEW S, NEW s \in Seq(S), NEW e \in S, NEW n, Upto(s, n), e.id <= n
    PROVE  Upto(Append(s, e), n)
<1> DEFINE r == Append(s, e)
<1>1. \A k \in DOMAIN r : (k \in DOMAIN s /\ r[k] = s[k]) \/ (k = Len(s) + 1 /\ r[k] = e)
  BY AppendFacts
<1> HIDE DEF r
<1>2. Upto(r, n)
  BY <1>1 DEF Upto
<1> QED
  BY <1>2 DEF r

\* A packet appended after lower numbers keeps a sequence rising.
LEMMA AppendRises ==
    ASSUME NEW S, NEW s \in Seq(S), NEW e \in S, Rises(s), e.id = 0 \/ \A k \in DOMAIN s : s[k].id < e.id
    PROVE  Rises(Append(s, e))
<1> DEFINE r == Append(s, e)
<1>1. /\ r \in Seq(S) /\ Len(r) = Len(s) + 1
      /\ \A k \in DOMAIN r : (k \in DOMAIN s /\ r[k] = s[k]) \/ (k = Len(s) + 1 /\ r[k] = e)
  BY AppendFacts
<1>2. DOMAIN s = 1..Len(s) /\ DOMAIN r = 1..(Len(s) + 1) /\ Len(s) \in Nat
  BY <1>1
<1> HIDE DEF r
<1>3. ASSUME NEW i \in DOMAIN r, NEW j \in DOMAIN r, i < j, r[j].id # 0 PROVE r[i].id < r[j].id
  <2>1. i \in DOMAIN s /\ r[i] = s[i]
    BY <1>1, <1>2, <1>3
  <2>2. CASE j \in DOMAIN s /\ r[j] = s[j]
    BY <1>3, <2>1, <2>2 DEF Rises
  <2>3. CASE r[j] = e
    BY <1>3, <2>1, <2>3
  <2> QED
    BY <1>1, <2>2, <2>3
<1>4. Rises(r)
  BY <1>3 DEF Rises
<1> QED
  BY <1>4 DEF r

\* A packet appended keeps the sequence above another.
LEMMA AppendAbove ==
    ASSUME NEW S, NEW s \in Seq(S), NEW e \in S, NEW t, Below(t, s),
           e.id = 0 \/ \A k \in DOMAIN t : t[k].id < e.id
    PROVE  Below(t, Append(s, e))
<1> DEFINE r == Append(s, e)
<1>1. \A k \in DOMAIN r : (k \in DOMAIN s /\ r[k] = s[k]) \/ (k = Len(s) + 1 /\ r[k] = e)
  BY AppendFacts
<1> HIDE DEF r
<1>2. Below(t, r)
  BY <1>1 DEF Below
<1> QED
  BY <1>2 DEF r

\* A packet appended keeps the sequence below another.
LEMMA AppendBelow ==
    ASSUME NEW S, NEW s \in Seq(S), NEW e \in S, NEW t, Below(s, t),
           \A k \in DOMAIN t : t[k].id # 0 => e.id < t[k].id
    PROVE  Below(Append(s, e), t)
<1> DEFINE r == Append(s, e)
<1>1. \A k \in DOMAIN r : (k \in DOMAIN s /\ r[k] = s[k]) \/ (k = Len(s) + 1 /\ r[k] = e)
  BY AppendFacts
<1> HIDE DEF r
<1>2. Below(r, t)
  BY <1>1 DEF Below
<1> QED
  BY <1>2 DEF r

\* A bound that grows.
LEMMA UptoLess ==
    ASSUME NEW s, \A i \in DOMAIN s : s[i].id \in Nat, NEW n \in Nat, Upto(s, n)
    PROVE  Upto(s, n + 1) /\ \A i \in DOMAIN s : s[i].id < n + 1
<1>1. ASSUME NEW i \in DOMAIN s PROVE s[i].id < n + 1 /\ s[i].id <= n + 1
  <2>1. s[i].id \in Nat /\ s[i].id <= n
    BY DEF Upto
  <2> QED
    BY <2>1
<1> QED
  BY <1>1 DEF Upto

\* Ids are numbers.
LEMMA Numbered ==
    ASSUME NetOK
    PROVE  /\ brigade \in Seq(Answer) /\ inbound \in Seq(Packet) /\ peer.asks \in Seq(Asked) /\ peer.asked \in Nat
           /\ \A i \in DOMAIN brigade : brigade[i].id \in Nat /\ brigade[i].id # 0
           /\ \A i \in DOMAIN inbound : inbound[i].id \in Nat
           /\ \A i \in DOMAIN peer.asks : peer.asks[i].id \in Nat /\ peer.asks[i].id # 0
<1>1. brigade \in Seq(Answer) /\ inbound \in Seq(Packet) /\ peer.asks \in Seq(Asked) /\ peer.asked \in Nat
  BY PeerFields DEF NetOK
<1>2. /\ \A i \in DOMAIN brigade : brigade[i] \in Answer
      /\ \A i \in DOMAIN inbound : inbound[i] \in Packet
      /\ \A i \in DOMAIN peer.asks : peer.asks[i] \in Asked
  BY <1>1
<1> QED
  BY <1>1, <1>2 DEF Answer, Packet, Asked

\* More is asked, or not.
LEMMA SentOrdered ==
    ASSUME NetOK, disc \in BOOLEAN, OrderInv, NEW kind, NEW c, NEW rc, Sent(kind, c, rc), brigade' = brigade,
           \/ inbound' = inbound
           \/ inbound # <<>> /\ inbound' = Tail(inbound)
    PROVE  OrderInv' /\ peer.asked <= peer'.asked
<1>1. /\ brigade \in Seq(Answer) /\ inbound \in Seq(Packet) /\ peer.asks \in Seq(Asked) /\ peer.asked \in Nat
      /\ \A i \in DOMAIN brigade : brigade[i].id \in Nat /\ brigade[i].id # 0
      /\ \A i \in DOMAIN inbound : inbound[i].id \in Nat
      /\ \A i \in DOMAIN peer.asks : peer.asks[i].id \in Nat /\ peer.asks[i].id # 0
  BY Numbered
<1>2. /\ Upto(inbound', peer.asked) /\ Rises(inbound') /\ Below(inbound', peer.asks) /\ Below(brigade, inbound')
      /\ \A i \in DOMAIN inbound' : inbound'[i].id \in Nat
  <2>1. CASE inbound' = inbound
    BY <1>1, <2>1 DEF OrderInv
  <2>2. CASE inbound # <<>> /\ inbound' = Tail(inbound)
    <3>1. PICK f : Within(inbound', inbound, f)
      BY <1>1, <2>2, TailOrdered
    <3>2. /\ Upto(inbound', peer.asked) /\ Rises(inbound') /\ Below(inbound', peer.asks) /\ Below(brigade, inbound')
      BY <3>1, WithinOrdered DEF OrderInv
    <3> QED
      BY <1>1, <3>1, <3>2 DEF Within
  <2> QED
    BY <2>1, <2>2
<1>3. CASE peer'.asks = peer.asks /\ peer'.asked = peer.asked
  BY <1>1, <1>2, <1>3 DEF OrderInv
<1>4. CASE peer'.asked = peer.asked + 1 /\ peer'.asks = peer.asks
  <2>1. Upto(peer.asks, peer.asked + 1) /\ Upto(inbound', peer.asked + 1) /\ Upto(brigade, peer.asked + 1)
    BY <1>1, <1>2, UptoLess DEF OrderInv
  <2> QED
    BY <1>1, <1>2, <1>4, <2>1 DEF OrderInv
<1>5. ASSUME NEW q \in Asked, q.id = peer.asked + 1, peer'.asked = peer.asked + 1, peer'.asks = Append(peer.asks, q)
      PROVE  OrderInv' /\ peer.asked <= peer'.asked
  <2>1. Upto(peer.asks, peer.asked + 1) /\ Upto(inbound', peer.asked + 1) /\ Upto(brigade, peer.asked + 1)
    BY <1>1, <1>2, UptoLess DEF OrderInv
  <2>2. /\ \A k \in DOMAIN peer.asks : peer.asks[k].id < q.id
        /\ \A k \in DOMAIN inbound' : inbound'[k].id < q.id
        /\ \A k \in DOMAIN brigade : brigade[k].id < q.id
    BY <1>1, <1>2, <1>5, UptoLess DEF OrderInv
  <2>3. q.id <= peer.asked + 1
    BY <1>1, <1>5
  <2>4. Upto(peer'.asks, peer.asked + 1)
    BY <1>1, <1>5, <2>1, <2>3, AppendUpto
  <2>5. Rises(peer'.asks)
    BY <1>1, <1>5, <2>2, AppendRises DEF OrderInv
  <2>6. Below(inbound', peer'.asks)
    BY <1>1, <1>2, <1>5, <2>2, AppendAbove
  <2>7. Below(brigade, peer'.asks)
    BY <1>1, <1>5, <2>2, AppendAbove DEF OrderInv
  <2> QED
    BY <1>1, <1>2, <1>5, <2>1, <2>4, <2>5, <2>6, <2>7 DEF OrderInv
<1>6. CASE rc = "NONE" /\ ~disc /\ Answers(kind) # {}
  BY <1>1, <1>5, <1>6 DEF Sent
<1>7. CASE rc = "NONE" /\ ~disc /\ Answers(kind) = {}
  BY <1>4, <1>7 DEF Sent
<1>8. CASE rc # "NONE" \/ disc
  BY <1>3, <1>8 DEF Sent
<1> QED
  BY <1>6, <1>7, <1>8

\* The order is kept.
LEMMA OrderStep ==
    ASSUME NetOK, disc \in BOOLEAN, OrderInv, Flows
    PROVE  OrderInv' /\ peer.asked <= peer'.asked
<1>1. /\ brigade \in Seq(Answer) /\ inbound \in Seq(Packet) /\ peer.asks \in Seq(Asked) /\ peer.asked \in Nat
      /\ \A i \in DOMAIN brigade : brigade[i].id \in Nat /\ brigade[i].id # 0
      /\ \A i \in DOMAIN inbound : inbound[i].id \in Nat
      /\ \A i \in DOMAIN peer.asks : peer.asks[i].id \in Nat /\ peer.asks[i].id # 0
  BY Numbered
<1> DEFINE Goal == OrderInv' /\ peer.asked <= peer'.asked
<1>2. CASE Quiet \/ \E rc : Stalls(rc)
  BY <1>1, <1>2 DEF Quiet, Stalls, OrderInv
<1>3. ASSUME NEW kind, NEW c, NEW rc, Sends(kind, c, rc) PROVE Goal
  BY <1>3, SentOrdered DEF Sends
<1>4. ASSUME NEW i, TakesOut(i) PROVE Goal
  <2>1. PICK f : Within(brigade', brigade, f)
    BY <1>1, <1>4, RemoveOrdered DEF TakesOut
  <2>2. Upto(brigade', peer.asked) /\ Rises(brigade') /\ Below(brigade', peer.asks) /\ Below(brigade', inbound)
    BY <2>1, WithinOrdered DEF OrderInv
  <2> QED
    BY <1>1, <1>4, <2>2 DEF TakesOut, OrderInv
<1>5. ASSUME NEW rc, Meets(rc) PROVE Goal
  <2>1. PICK type \in {"forward", "x11"}, confirm \in BOOLEAN, id \in Nat, w \in {"NONE", "EAGAIN", "FAIL"} :
          Connected(type, confirm, id, w, rc)
    BY <1>5 DEF Meets
  <2>2. Sent(IF confirm THEN "confirm" ELSE "refuse", id, w)
    BY <2>1 DEF Connected
  <2> QED
    BY <1>5, <2>2, SentOrdered DEF Meets
<1>6. ASSUME NEW rc, Gets(rc) PROVE Goal
  <2> DEFINE p == Head(inbound)
  <2>1. inbound # <<>> /\ inbound' = Tail(inbound) /\ peer' = peer
    BY <1>6 DEF Gets
  <2>2. PICK f : Within(inbound', inbound, f)
    BY <1>1, <2>1, TailOrdered
  <2>3. Upto(inbound', peer.asked) /\ Rises(inbound') /\ Below(inbound', peer.asks) /\ Below(brigade, inbound')
    BY <2>2, WithinOrdered DEF OrderInv
  <2>4. CASE brigade' = brigade
    BY <1>1, <2>1, <2>3, <2>4 DEF OrderInv
  <2>5. CASE brigade' = Append(brigade, p) /\ p \in Answer
    <3>1. 1 \in DOMAIN inbound /\ p = inbound[1] /\ \A k \in DOMAIN inbound' : k + 1 \in DOMAIN inbound /\ k + 1 > 1 /\ inbound'[k] = inbound[k + 1]
      BY <1>1, <2>1, TailFacts
    <3>2. p.id \in Nat /\ p.id # 0
      BY <2>5 DEF Answer
    <3>3. p.id <= peer.asked
      BY <3>1 DEF OrderInv, Upto
    <3>4. \A k \in DOMAIN brigade : brigade[k].id < p.id
      BY <3>1, <3>2 DEF OrderInv, Below
    <3>5. \A k \in DOMAIN peer.asks : peer.asks[k].id # 0 => p.id < peer.asks[k].id
      BY <3>1 DEF OrderInv, Below
    <3>6. \A k \in DOMAIN inbound' : inbound'[k].id # 0 => p.id < inbound'[k].id
      <4>1. Rises(inbound)
        BY DEF OrderInv
      <4> QED
        BY <1>1, <3>1, <4>1 DEF Rises
    <3> HIDE DEF p
    <3>7. Upto(brigade', peer.asked) /\ Rises(brigade')
      BY <1>1, <2>5, <3>3, <3>4, AppendUpto, AppendRises DEF OrderInv
    <3>8. Below(brigade', peer.asks)
      BY <1>1, <2>5, <3>5, AppendBelow DEF OrderInv
    <3>9. Below(brigade', inbound')
      BY <1>1, <2>3, <2>5, <3>6, AppendBelow
    <3> QED
      BY <1>1, <2>1, <2>3, <3>7, <3>8, <3>9 DEF OrderInv
  <2> QED
    BY <1>6, <2>4, <2>5, GetsFacts
<1>7. ASSUME NEW q, NEW t, Replied(q, t) PROVE Goal
  <2> DEFINE p == [type |-> t, c |-> q.c, id |-> q.id]
  <2>1. /\ peer.asks # <<>> /\ q = Head(peer.asks) /\ p \in Packet /\ inbound' = Append(inbound, p)
        /\ peer'.asks = Tail(peer.asks) /\ peer'.asked = peer.asked /\ brigade' = brigade /\ p.id = q.id
    BY <1>7 DEF Replied
  <2> HIDE DEF p
  <2>2. PICK f : Within(peer'.asks, peer.asks, f)
    BY <1>1, <2>1, TailOrdered
  <2>3. Upto(peer'.asks, peer.asked) /\ Rises(peer'.asks) /\ Below(inbound, peer'.asks) /\ Below(brigade, peer'.asks)
    BY <2>2, WithinOrdered DEF OrderInv
  <2>4. 1 \in DOMAIN peer.asks /\ q = peer.asks[1]
        /\ \A k \in DOMAIN peer'.asks : k + 1 \in DOMAIN peer.asks /\ k + 1 > 1 /\ peer'.asks[k] = peer.asks[k + 1]
    BY <1>1, <2>1, TailFacts
  <2>5. p.id \in Nat /\ p.id # 0
    BY <1>1, <2>1, <2>4
  <2>6. p.id <= peer.asked
    BY <2>1, <2>4 DEF OrderInv, Upto
  <2>7. /\ \A k \in DOMAIN inbound : inbound[k].id < p.id
        /\ \A k \in DOMAIN brigade : brigade[k].id < p.id
    BY <2>1, <2>4, <2>5 DEF OrderInv, Below
  <2>8. \A k \in DOMAIN peer'.asks : peer'.asks[k].id # 0 => p.id < peer'.asks[k].id
    <3>1. Rises(peer.asks)
      BY DEF OrderInv
    <3> QED
      BY <1>1, <2>1, <2>4, <3>1 DEF Rises
  <2>9. Upto(inbound', peer.asked) /\ Rises(inbound')
    BY <1>1, <2>1, <2>6, <2>7, AppendUpto, AppendRises DEF OrderInv
  <2>10. Below(inbound', peer'.asks)
    BY <1>1, <2>1, <2>3, <2>8, AppendBelow
  <2>11. Below(brigade, inbound')
    BY <1>1, <2>1, <2>7, AppendAbove DEF OrderInv
  <2> QED
    BY <1>1, <2>1, <2>3, <2>9, <2>10, <2>11 DEF OrderInv
<1>8. ASSUME NEW kind, Unasked(kind) PROVE Goal
  <2> DEFINE p == [type |-> kind, c |-> 0, id |-> 0]
  <2>1. p \in Packet /\ inbound' = Append(inbound, p) /\ peer' = peer /\ brigade' = brigade /\ p.id = 0
    BY <1>8 DEF Unasked
  <2> HIDE DEF p
  <2>2. Upto(inbound', peer.asked) /\ Rises(inbound') /\ Below(brigade, inbound')
    BY <1>1, <2>1, AppendUpto, AppendRises, AppendAbove DEF OrderInv
  <2>3. Below(inbound', peer.asks)
    <3>1. \A k \in DOMAIN peer.asks : peer.asks[k].id # 0 => p.id < peer.asks[k].id
      BY <1>1, <2>1
    <3> QED
      BY <1>1, <2>1, <3>1, AppendBelow DEF OrderInv
  <2> QED
    BY <1>1, <2>1, <2>2, <2>3 DEF OrderInv
<1>9. CASE Broken
  <2>1. DOMAIN <<>> = {}
    OBVIOUS
  <2>2. Upto(brigade, peer.asked) /\ Rises(brigade)
    BY DEF OrderInv
  <2> QED
    BY <1>1, <1>9, <2>1, <2>2 DEF Broken, OrderInv, Upto, Rises, Below
<1> QED
  BY <1>2, <1>3, <1>4, <1>5, <1>6, <1>7, <1>8, <1>9 DEF Flows, Reads

-----------------------------------------------------------------------------
(***************************************************************************)
(* Logins.                                                                 *)
(***************************************************************************)
LEMMA OkAppended ==
    ASSUME NEW S, NEW s \in Seq(S), NEW e \in S
    PROVE  HasOk(Append(s, e)) <=> HasOk(s) \/ e.type = "authOk"
<1> DEFINE r == Append(s, e)
<1>1. /\ \A k \in DOMAIN s : k \in DOMAIN r /\ r[k] = s[k]
      /\ Len(r) \in DOMAIN r /\ r[Len(r)] = e
      /\ \A k \in DOMAIN r : (k \in DOMAIN s /\ r[k] = s[k]) \/ (k = Len(s) + 1 /\ r[k] = e)
  BY AppendFacts
<1> HIDE DEF r
<1>2. HasOk(r) <=> HasOk(s) \/ e.type = "authOk"
  BY <1>1 DEF HasOk
<1> QED
  BY <1>2 DEF r

\* The word of a login in the tail of a sequence.
LEMMA OkTail ==
    ASSUME NEW S, NEW s \in Seq(S), s # <<>>
    PROVE  HasOk(s) <=> HasOk(Tail(s)) \/ Head(s).type = "authOk"
<1> DEFINE r == Tail(s)
<1>1. /\ Head(s) = s[1] /\ 1 \in DOMAIN s
      /\ \A k \in DOMAIN r : k + 1 \in DOMAIN s /\ r[k] = s[k + 1]
      /\ \A k \in DOMAIN s : k # 1 => k - 1 \in DOMAIN r /\ r[k - 1] = s[k]
  BY TailFacts
<1> HIDE DEF r
<1>2. HasOk(s) <=> HasOk(r) \/ Head(s).type = "authOk"
  BY <1>1 DEF HasOk
<1> QED
  BY <1>2 DEF r

\* The word of a login when a packet is taken out.
LEMMA OkRemoved ==
    ASSUME NEW S, NEW s \in Seq(S), NEW i \in DOMAIN s
    PROVE  HasOk(s) <=> HasOk(RemoveAt(s, i)) \/ s[i].type = "authOk"
<1> DEFINE r == RemoveAt(s, i)
<1>1. /\ \A k \in DOMAIN r : Skip(i, k) \in DOMAIN s /\ r[k] = s[Skip(i, k)]
      /\ \A j \in DOMAIN s : j # i => \E k \in DOMAIN r : r[k] = s[j]
  BY RemoveFacts, RemoveKeeps
<1> HIDE DEF r
<1>2. HasOk(s) <=> HasOk(r) \/ s[i].type = "authOk"
  BY <1>1 DEF HasOk
<1> QED
  BY <1>2 DEF r

\* The server's word is not lost.
LEMMA LoginStep ==
    ASSUME NetOK, OthersOK, LoginInv, Flows
    PROVE  LoginInv'
<1>1. brigade \in Seq(Answer) /\ inbound \in Seq(Packet)
  BY Numbered
<1>2. CASE auth' = auth /\ (Quiet \/ \E rc : Stalls(rc))
  BY <1>2 DEF Quiet, Stalls, LoginInv
<1>3. ASSUME NEW kind, NEW c, NEW rc, Sends(kind, c, rc), auth' = auth PROVE LoginInv'
  <2>1. peer'.accepted = peer.accepted /\ (sock' = "broken" \/ sock' = sock)
    BY <1>3 DEF Sends, Sent, NetOK
  <2> QED
    BY <1>3, <2>1 DEF Sends, LoginInv
<1>4. ASSUME NEW i, TakesOut(i) PROVE LoginInv'
  <2>1. HasOk(brigade) <=> HasOk(brigade') \/ brigade[i].type = "authOk"
    BY <1>1, <1>4, OkRemoved DEF TakesOut
  <2>2. auth' <=> auth \/ brigade[i].type = "authOk"
    BY <1>4, Zenon DEF TakesOut
  <2> QED
    BY <1>4, <2>1, <2>2 DEF TakesOut, LoginInv
<1>5. ASSUME NEW rc, Meets(rc), auth' = auth PROVE LoginInv'
  <2>1. PICK type \in {"forward", "x11"}, confirm \in BOOLEAN, id \in Nat, w \in {"NONE", "EAGAIN", "FAIL"} :
          Connected(type, confirm, id, w, rc)
    BY <1>5 DEF Meets
  <2>2. Sent(IF confirm THEN "confirm" ELSE "refuse", id, w)
    BY <2>1 DEF Connected
  <2>3. peer'.accepted = peer.accepted /\ (sock' = "broken" \/ sock' = sock)
    BY <2>2 DEF Sent, NetOK
  <2>4. HasOk(inbound') <=> HasOk(inbound)
    <3>1. CASE inbound' = inbound
      BY <3>1
    <3>2. CASE inbound # <<>> /\ inbound' = Tail(inbound) /\ Head(inbound).type \in {"forward", "x11"}
      BY <1>1, <3>2, OkTail
    <3> QED
      BY <1>5, <3>1, <3>2 DEF Meets
  <2> QED
    BY <1>5, <2>3, <2>4 DEF Meets, LoginInv
<1>6. ASSUME NEW rc, Gets(rc), auth' = auth PROVE LoginInv'
  <2>1. inbound # <<>> /\ inbound' = Tail(inbound) /\ peer' = peer /\ sock' = sock /\ ~disc
    BY <1>6 DEF Gets
  <2>2. HasOk(inbound) <=> HasOk(inbound') \/ Head(inbound).type = "authOk"
    BY <1>1, <2>1, OkTail
  <2>3. CASE brigade' = brigade /\ Head(inbound).type \notin AnswerTypes
    BY <1>6, <2>1, <2>2, <2>3 DEF LoginInv, AnswerTypes
  <2>4. CASE brigade' = Append(brigade, Head(inbound)) /\ Head(inbound) \in Answer
    <3>1. HasOk(brigade') <=> HasOk(brigade) \/ Head(inbound).type = "authOk"
      BY <1>1, <2>4, OkAppended
    <3> QED
      BY <1>6, <2>1, <2>2, <3>1 DEF LoginInv
  <2> QED
    BY <1>6, <2>3, <2>4, GetsFacts
<1>7. ASSUME NEW q, NEW t, Replied(q, t), auth' = auth PROVE LoginInv'
  <2> DEFINE p == [type |-> t, c |-> q.c, id |-> q.id]
  <2>1. p \in Packet /\ inbound' = Append(inbound, p) /\ p.type = t
    BY <1>7 DEF Replied
  <2> HIDE DEF p
  <2>2. HasOk(inbound') <=> HasOk(inbound) \/ t = "authOk"
    BY <1>1, <2>1, OkAppended
  <2>3. peer'.accepted <=> peer.accepted \/ t = "authOk"
    BY <1>7, Zenon DEF Replied
  <2>4. brigade' = brigade /\ sock' = sock /\ disc' = disc
    BY <1>7 DEF Replied
  <2> QED
    BY <1>7, <2>2, <2>3, <2>4 DEF LoginInv
<1>8. ASSUME NEW kind, Unasked(kind), auth' = auth PROVE LoginInv'
  <2> DEFINE p == [type |-> kind, c |-> 0, id |-> 0]
  <2>1. p \in Packet /\ inbound' = Append(inbound, p) /\ p.type # "authOk"
    BY <1>8 DEF Unasked
  <2> HIDE DEF p
  <2>2. HasOk(inbound') <=> HasOk(inbound)
    BY <1>1, <2>1, OkAppended
  <2> QED
    BY <1>8, <2>2 DEF Unasked, LoginInv
<1>9. CASE Broken /\ auth' = auth
  <2>1. ~HasOk(<<>>)
    BY DEF HasOk
  <2> QED
    BY <1>9, <2>1 DEF Broken, LoginInv
<1> QED
  BY <1>2, <1>3, <1>4, <1>5, <1>6, <1>7, <1>8, <1>9 DEF Flows, Reads

-----------------------------------------------------------------------------
(***************************************************************************)
(* The functions and their saved states.                                   *)
(***************************************************************************)
Called == Requests \cup {"accept", "cancel"}

\* The state of the function that is executed changes.
LEMMA SavedFacts ==
    ASSUME SavedOK, CallOK, call.op \in Requests \cup {"cancel"},
           NEW s \in States(call.op) \cup {"idle"}, Saves(s)
    PROVE  /\ saved' \in [Slots -> AllStates] /\ MySlot \in Slots /\ saved'[MySlot] = s
           /\ \A t \in Slots : t # MySlot => saved'[t] = saved[t]
           /\ CallSlot = MySlot /\ States(MySlot[1]) = States(call.op)
<1>1. call.op # "none" /\ (call.op \in ChannelOps => call.c \in ReqChans)
  BY DEF Requests, ChannelOps, AuthOps, CallOK
<1>2. MySlot \in Slots /\ States(MySlot[1]) = States(call.op)
  BY <1>1, SlotFacts DEF MySlot
<1>3. s \in AllStates
  BY DEF States, AllStates
<1> QED
  BY <1>1, <1>2, <1>3 DEF SavedOK, Saves, CallSlot, MySlot

\* A function goes on, in another place or with another state.
LEMMA ControlMoves ==
    ASSUME SavedOK, CallOK, call.op \in Called,
           NEW d \in Nat, d = call.c \/ Opens, NEW x \in Places(call.op), NEW n \in Nat,
           call.op \notin Requests => n = 0,
           HasCall(call.op, d, x, n),
           \/ saved' = saved
           \/ call.op # "accept" /\ \E s \in States(call.op) \cup {"idle"} : Saves(s),
           x \in {"read", "match", "fails"} =>
              saved' = saved /\ d = call.c /\ saved[MySlot] # "idle" /\ Step.do = "require"
    PROVE  SavedOK' /\ CallOK'
<1>1. /\ call'.op = call.op /\ call'.c = d /\ call'.at = x /\ call'.own = n
      /\ call' \in [op : Ops \cup {"none"}, c : Nat, at : Places(call'.op), own : Nat, slept : BOOLEAN, more : BOOLEAN]
  BY OpFacts DEF HasCall
<1>2. call.op # "none"
  BY DEF Called, Requests, ChannelOps, AuthOps
<1>3. CallSlot' = CallSlot /\ MySlot' = MySlot
  BY <1>1, <1>2 DEF CallSlot, MySlot, Slot, Opens
<1>4. SavedOK'
  <2>1. CASE saved' = saved
    BY <1>3, <2>1 DEF SavedOK
  <2>2. ASSUME call.op # "accept", NEW s \in States(call.op) \cup {"idle"}, Saves(s) PROVE SavedOK'
    <3>1. call.op \in Requests \cup {"cancel"}
      BY <2>2 DEF Called
    <3>2. /\ saved' \in [Slots -> AllStates] /\ MySlot \in Slots /\ saved'[MySlot] = s
          /\ \A t \in Slots : t # MySlot => saved'[t] = saved[t]
          /\ CallSlot = MySlot /\ States(MySlot[1]) = States(call.op)
      BY <2>2, <3>1, SavedFacts
    <3> QED
      BY <1>3, <2>2, <3>2 DEF SavedOK
  <2> QED
    BY <2>1, <2>2
<1>5. x \in {"read", "match", "fails"} => (saved[MySlot] # "idle" /\ Step.do = "require")'
  BY <1>1, <1>3 DEF Step
<1>6. /\ call.op \in ChannelOps => d \in ReqChans
      /\ call.op \notin ChannelOps \cup {"open", "direct"} => d = 0
  BY DEF CallOK, Opens, ChannelOps
<1>7. CallOK'
  BY <1>1, <1>2, <1>5, <1>6 DEF CallOK
<1> QED
  BY <1>4, <1>7

\* A function returns.
LEMMA ControlReturns ==
    ASSUME SavedOK, CallOK, call.op \in Called, Returned,
           \/ saved' = saved /\ (call.op = "accept" \/ saved[MySlot] = "idle")
           \/ /\ call.op # "accept"
              /\ \E s \in States(call.op) \cup {"idle"} : Saves(s) /\ (s = "idle" \/ MySlot[1] \in Left)
    PROVE  SavedOK' /\ CallOK'
<1>1. call.op # "none"
  BY DEF Called, Requests, ChannelOps, AuthOps
<1>2. CASE call' = Idle
  <2>1. call'.op = "none" /\ call'.c = 0 /\ call'.at = "idle" /\ call'.own = 0 /\ call'.slept = FALSE /\ call'.more = FALSE
    BY <1>2, IdleFacts
  <2>2. call' \in [op : Ops \cup {"none"}, c : Nat, at : Places(call'.op), own : Nat, slept : BOOLEAN, more : BOOLEAN]
    <3>1. "idle" \in Places(call'.op)
      BY <2>1 DEF Places
    <3> QED
      BY <1>2, <2>1, <3>1 DEF Idle
  <2>3. "none" \notin ChannelOps /\ "none" \notin Requests
    BY DEF Requests, ChannelOps, AuthOps
  <2>4. CallOK'
    BY <1>2, <2>1, <2>2, <2>3 DEF CallOK
  <2>5. CallSlot' = <<"none", 0>>
    BY <2>1 DEF CallSlot
  <2>6. SavedOK'
    <3>1. CASE saved' = saved /\ call.op = "accept"
      <4>1. \A t \in Slots : t # CallSlot
        BY <3>1 DEF CallSlot, Slot, Slots, AuthOps, ChannelOps
      <4> QED
        BY <3>1, <4>1 DEF SavedOK
    <3>2. CASE saved' = saved /\ call.op # "accept" /\ saved[MySlot] = "idle"
      <4>1. CallSlot = MySlot
        BY <1>1 DEF CallSlot, MySlot
      <4> QED
        BY <3>2, <4>1 DEF SavedOK
    <3>3. ASSUME call.op # "accept", NEW s \in States(call.op) \cup {"idle"}, Saves(s), s = "idle" \/ MySlot[1] \in Left
          PROVE  SavedOK'
      <4>1. call.op \in Requests \cup {"cancel"}
        BY <3>3 DEF Called
      <4>2. /\ saved' \in [Slots -> AllStates] /\ MySlot \in Slots /\ saved'[MySlot] = s
            /\ \A t \in Slots : t # MySlot => saved'[t] = saved[t]
            /\ CallSlot = MySlot /\ States(MySlot[1]) = States(call.op)
        BY <3>3, <4>1, SavedFacts
      <4> QED
        BY <3>3, <4>2 DEF SavedOK
    <3> QED
      BY <3>1, <3>2, <3>3
  <2> QED
    BY <2>4, <2>6
<1>3. CASE HasCall(call.op, call.c, "select", 0)
  <2>1. "select" \in Places(call.op) /\ call.c \in Nat
    BY <1>1, OpFacts DEF Places
  <2>2. \/ saved' = saved
        \/ call.op # "accept" /\ \E s \in States(call.op) \cup {"idle"} : Saves(s)
    OBVIOUS
  <2> QED
    BY <1>3, <2>1, <2>2, ControlMoves
<1> QED
  BY <1>2, <1>3 DEF Returned

-----------------------------------------------------------------------------
(***************************************************************************)
(* What each action does to the function that is executed.                 *)
(***************************************************************************)
\* It goes to another place, it goes on in another state, or it returns.
GoesTo(x) == saved' = saved /\ HasCall(call.op, call.c, x, call.own)
Advances(s, n) == s \in States(call.op) /\ Saves(s) /\ HasCall(call.op, call.c, "run", n)
Finishes(s) ==
    /\ s \in States(call.op) \cup {"idle"} /\ (s = "idle" \/ MySlot[1] \in Left)
    /\ Saves(s) /\ Returned

InCall == SavedOK /\ CallOK /\ OthersOK

\* A call that stays where it is.
LEMMA CallStays ==
    ASSUME CallOK, call' = call
    PROVE  HasCall(call.op, call.c, call.at, call.own)
<1>1. call' = [call EXCEPT !.own = call.own]
  BY DEF CallOK
<1> QED
  BY <1>1, CallFields, Zenon

\* Waking calls the function again.
LEMMA WakeEffect ==
    ASSUME InCall, Wake
    PROVE  call.op \in Called /\ GoesTo("run")
<1>1. call.op \in Called
  BY OpFacts DEF InCall, Wake, Running, Called
<1>2. call' = [call EXCEPT !.at = "run", !.slept = TRUE] /\ saved' = saved
  BY DEF Wake
<1>3. HasCall(call.op, call.c, "run", call.own)
  BY <1>2, CallFields, Zenon DEF InCall
<1> QED
  BY <1>1, <1>2, <1>3 DEF GoesTo

\* A key that cannot be read ends the call.
LEMMA KeyFileFailsEffect ==
    ASSUME InCall, KeyFileFails
    PROVE  call.op \in AuthOps /\ saved' = saved /\ saved[MySlot] = "idle" /\ Returned
<1>1. call.op \in AuthOps /\ saved' = saved /\ saved[MySlot] = "idle" /\ Returns("fail", 0, FALSE)
  BY DEF KeyFileFails, AuthOps
<1> QED
  BY <1>1, ReturnFacts DEF InCall

\* Building a packet, and the new channel of an open.
LEMMA BuildsEffect ==
    ASSUME InCall, ChansOK, Builds
    PROVE  /\ call.op \in Requests /\ saved[MySlot] = "idle" /\ Saves("created") /\ "created" \in States(call.op)
           /\ ~Opens => HasCall(call.op, call.c, "run", call.own) /\ chans' = chans /\ nextChannel' = nextChannel
           /\ Opens => /\ HasCall(call.op, nextChannel, "run", call.own)
                       /\ chans' = chans \cup {nextChannel} /\ nextChannel' = nextChannel + 1
<1>1. call.op \in Requests /\ call.at = "run" /\ saved[MySlot] = "idle" /\ Saves("created")
  BY OpFacts DEF Builds, InCall, Saves
<1>2. "created" \in States(call.op)
  BY DEF States
<1>3. ASSUME ~Opens PROVE HasCall(call.op, call.c, "run", call.own) /\ chans' = chans /\ nextChannel' = nextChannel
  <2>1. call' = call /\ chans' = chans /\ nextChannel' = nextChannel
    BY <1>3 DEF Builds
  <2> QED
    BY <1>1, <2>1, CallStays DEF InCall
<1>4. ASSUME Opens
      PROVE  /\ HasCall(call.op, nextChannel, "run", call.own)
             /\ chans' = chans \cup {nextChannel} /\ nextChannel' = nextChannel + 1
  <2>1. /\ call' = [call EXCEPT !.c = nextChannel]
        /\ chans' = chans \cup {nextChannel} /\ nextChannel' = nextChannel + 1
    BY <1>4, NextIdIs DEF Builds
  <2>2. HasCall(call.op, nextChannel, call.at, call.own)
    BY <2>1, CallFields, Zenon DEF InCall
  <2> QED
    BY <1>1, <2>1, <2>2
<1> QED
  BY <1>1, <1>2, <1>3, <1>4

\* The state a step that fails leaves is the first, but for a change of password.
LEMMA FailState ==
    ASSUME SavedOK, CallOK, call.op \in Requests, saved[MySlot] # "idle"
    PROVE  /\ Shape(call.op, saved[MySlot], Step)
           /\ Step.fail \in States(call.op) \cup {"idle"}
           /\ Step.fail = "idle" \/ (call.op = "password" /\ MySlot[1] \in Left)
<1>1. Shape(call.op, saved[MySlot], Step)
  BY StepFacts
<1>2. call.op = "password" => MySlot[1] = "password"
  BY DEF MySlot, Slot
<1> QED
  BY <1>1, <1>2 DEF Shape, Left

\* A request is sent, half sent, or not sent.
Writes1(rc) ==
    \/ /\ rc = "NONE" /\ Step.ok.rc = "go" /\ chans' = chans /\ last' = last
       /\ Advances(Step.ok.to, IF disc THEN 0 ELSE peer'.asked)
    \/ /\ rc = "NONE" /\ Step.ok.rc = "ok" /\ call.op = "ptySize" /\ chans' = chans
       /\ Finishes(Step.ok.to) /\ (last' = last \/ last' = Result("ok", call.own))
    \/ rc = "EAGAIN" /\ chans' = chans /\ last' = last /\ GoesTo("select")
    \/ /\ rc = "FAIL" /\ chans' = (IF Opens THEN chans \ {call.c} ELSE chans)
       /\ Finishes(Step.fail) /\ (last' = last \/ last' = Result("fail", 0))

\* Writing a packet of a request.
LEMMA WritesRequestEffect ==
    ASSUME InCall, NetOK, WritesRequest
    PROVE  /\ call.op \in Requests /\ call.at = "run" /\ saved[MySlot] # "idle" /\ Step.do = "write"
           /\ Shape(call.op, saved[MySlot], Step)
           /\ UNCHANGED <<brigade, inbound, add, disc, lst, nextChannel, crashed, late>>
           /\ \E rc : Sent(Step.kind, call.c, rc) /\ Writes1(rc)
<1> USE DEF InCall
<1>1. call.op \in Requests /\ call.at = "run" /\ saved[MySlot] # "idle" /\ Step.do = "write" /\ call.c \in Nat
  BY OpFacts DEF WritesRequest
<1>2. /\ Shape(call.op, saved[MySlot], Step)
      /\ Step.fail \in States(call.op) \cup {"idle"}
      /\ Step.fail = "idle" \/ (call.op = "password" /\ MySlot[1] \in Left)
  BY <1>1, FailState
<1>3. Step.ok.to \in States(call.op) /\ Step.ok.rc \in {"go", "ok"} /\ (Step.ok.rc = "ok" => call.op = "ptySize")
  BY <1>1, <1>2 DEF Shape
<1>4. UNCHANGED <<brigade, inbound, add, disc, lst, nextChannel, crashed, late>>
  BY DEF WritesRequest
<1>5. PICK rc \in {"NONE", "EAGAIN", "FAIL"} :
        /\ Send(Step.kind, call.c, rc)
        /\ saved' = [saved EXCEPT ![MySlot] =
               CASE rc = "NONE" -> Step.ok.to [] rc = "EAGAIN" -> @ [] OTHER -> Step.fail]
        /\ CASE rc = "NONE" /\ Step.ok.rc = "go" ->
                  /\ call' = [call EXCEPT !.own = IF disc THEN 0 ELSE peer'.asked]
                  /\ UNCHANGED <<chans, eagain, last>>
             [] rc = "NONE" /\ Step.ok.rc # "go" ->
                  Returns(Step.ok.rc, call.own, eagain) /\ UNCHANGED chans
             [] rc = "EAGAIN" -> Again /\ UNCHANGED <<chans, last>>
             [] OTHER -> Returns("fail", 0, FALSE) /\ Drop
  BY DEF WritesRequest
<1>6. Sent(Step.kind, call.c, rc)
  BY <1>1, <1>5, SendFacts DEF OthersOK
<1>7. CASE rc = "NONE" /\ Step.ok.rc = "go"
  <2>1. Saves(Step.ok.to) /\ chans' = chans /\ last' = last
    BY <1>5, <1>7 DEF Saves
  <2> DEFINE n == IF disc THEN 0 ELSE peer'.asked
  <2>2. call' = [call EXCEPT !.own = n]
    BY <1>5, <1>7
  <2> HIDE DEF n
  <2>3. HasCall(call.op, call.c, "run", n)
    BY <1>1, <2>2, CallFields, Zenon
  <2> QED
    BY <1>1, <1>2, <1>3, <1>4, <1>6, <1>7, <2>1, <2>3 DEF Writes1, Advances, n
<1>8. CASE rc = "NONE" /\ Step.ok.rc # "go"
  <2>1. Saves(Step.ok.to) /\ chans' = chans /\ Returns("ok", call.own, eagain)
    BY <1>3, <1>5, <1>8 DEF Saves
  <2>2. Returned /\ (last' = last \/ last' = Result("ok", call.own))
    BY <2>1, ReturnFacts
  <2>3. call.op = "ptySize" /\ MySlot[1] \in Left
    BY <1>3, <1>8 DEF MySlot, Slot, Left
  <2> QED
    BY <1>1, <1>2, <1>3, <1>4, <1>6, <1>8, <2>1, <2>2, <2>3 DEF Writes1, Finishes
<1>9. CASE rc = "EAGAIN"
  <2>1. saved' = saved /\ Again /\ chans' = chans /\ last' = last
    BY <1>5, <1>9 DEF SavedOK
  <2>2. GoesTo("select")
    BY <2>1, AgainFacts DEF GoesTo
  <2> QED
    BY <1>1, <1>2, <1>4, <1>6, <1>9, <2>1, <2>2 DEF Writes1
<1>10. CASE rc = "FAIL"
  <2>1. Saves(Step.fail) /\ Drop /\ Returns("fail", 0, FALSE)
    BY <1>5, <1>10 DEF Saves
  <2>2. Returned /\ (last' = last \/ last' = Result("fail", 0))
    BY <2>1, ReturnFacts
  <2> QED
    BY <1>1, <1>2, <1>4, <1>6, <1>10, <2>1, <2>2 DEF Writes1, Finishes, Drop
<1> QED
  BY <1>5, <1>7, <1>8, <1>9, <1>10

\* A change of the size called again in the state it left.
LEMMA RefusesPtySizeEffect ==
    ASSUME InCall, RefusesPtySize
    PROVE  call.op \in Requests /\ saved[MySlot] # "idle" /\ Step.do = "refuse" /\ Finishes("idle")
<1> USE DEF InCall
<1>1. call.op \in Requests /\ saved[MySlot] # "idle" /\ Step.do = "refuse"
  BY OpFacts DEF RefusesPtySize
<1>2. Shape(call.op, saved[MySlot], Step)
  BY <1>1, StepFacts
<1>3. Step.fail = "idle"
  <2> SUFFICES ASSUME call.op = "password" PROVE FALSE
    BY <1>2 DEF Shape
  <2>1. saved[MySlot] \in {"created", "sent", "sent1", "sent2"} /\ Step = Password[saved[MySlot]]
    <3>1. saved[MySlot] \in States("password") \cup {"idle"}
      BY <1>1, StepFacts
    <3> QED
      BY <1>1, <3>1 DEF Step, Program, States
  <2>2. /\ Password["created"].do = "write" /\ Password["sent"].do = "require"
        /\ Password["sent1"].do = "callback" /\ Password["sent2"].do = "write"
    <3>1. PasswordAnswer.do = "require" /\ AsksNewPassword.do = "callback" /\ SendsNewPassword.do = "write"
      BY DEF PasswordAnswer, VerdictOr, Requires, AsksNewPassword, Asks, SendsNewPassword, Writes
    <3> QED
      BY <3>1 DEF Password, Writes
  <2> QED
    BY <1>1, <2>1, <2>2
<1>4. Saves("idle") /\ Returns("fail", 0, eagain)
  BY <1>3 DEF RefusesPtySize, Saves
<1>5. Returned
  BY <1>4, ReturnFacts
<1> QED
  BY <1>1, <1>4, <1>5 DEF Finishes

\* Asking the application.
LEMMA CallsBackEffect ==
    ASSUME InCall, CallsBack
    PROVE  /\ call.op \in Requests /\ saved[MySlot] # "idle" /\ Step.do = "callback"
           /\ \/ Advances(Step.ok.to, call.own)
              \/ Finishes(Step.fail)
              \/ Finishes("idle")
<1> USE DEF InCall
<1>1. call.op \in Requests /\ call.at = "run" /\ saved[MySlot] # "idle" /\ Step.do = "callback"
  BY OpFacts DEF CallsBack
<1>2. /\ Shape(call.op, saved[MySlot], Step)
      /\ Step.fail \in States(call.op) \cup {"idle"}
      /\ Step.fail = "idle" \/ (call.op = "password" /\ MySlot[1] \in Left)
  BY <1>1, FailState
<1>3. Step.ok.to \in States(call.op)
  BY <1>1, <1>2 DEF Shape
<1>4. CASE saved' = [saved EXCEPT ![MySlot] = Step.ok.to] /\ call' = call
  BY <1>1, <1>3, <1>4, CallStays DEF Advances, Saves
<1>5. CASE saved' = [saved EXCEPT ![MySlot] = Step.fail] /\ Returns("fail", 0, FALSE)
  BY <1>1, <1>2, <1>5, ReturnFacts DEF Finishes, Saves
<1>6. CASE saved' = [saved EXCEPT ![MySlot] = "idle"] /\ Returns("fail", 0, FALSE)
  BY <1>1, <1>6, ReturnFacts DEF Finishes, Saves
<1> QED
  BY <1>1, <1>4, <1>5, <1>6 DEF CallsBack

Awaiting == call.op \in Requests /\ saved[MySlot] # "idle" /\ Step.do = "require"

\* An answer is taken, and the function goes on or returns.
NewListener == [NoListener EXCEPT !.on = TRUE, !.cancelled = lst.cancelled]
Takes1(i) ==
    /\ Awaiting /\ Shape(call.op, saved[MySlot], Step) /\ Fits(brigade[i])
    /\ TakesOut(i)
    /\ UNCHANGED <<late, nextChannel, crashed>>
    /\ lst' = IF brigade[i].type = "requestOk" THEN NewListener ELSE lst
    /\ \/ /\ Step.on[brigade[i].type].rc = "go" /\ chans' = chans /\ last' = last
          /\ Advances(Step.on[brigade[i].type].to, call.own)
       \/ /\ Step.on[brigade[i].type].rc \in {"ok", "denied"}
          /\ Finishes(Step.on[brigade[i].type].to)
          /\ chans' = IF Step.on[brigade[i].type].rc = "denied" /\ Opens THEN chans \ {call.c} ELSE chans
          /\ last' = last \/ last' = Result(Step.on[brigade[i].type].rc, brigade[i].id)
          /\ Step.on[brigade[i].type].rc = "ok" => call' = Idle

\* Taking an answer from the brigade.
LEMMA TakesEffect ==
    ASSUME InCall, Awaiting, NEW i \in DOMAIN brigade, Fits(brigade[i]), Takes(brigade[i]),
           brigade' = RemoveAt(brigade, i),
           UNCHANGED <<net, late, nextChannel, crashed, peer>>
    PROVE  Takes1(i)
<1> USE DEF InCall
<1> DEFINE p == brigade[i]
           end == Step.on[p.type]
<1>1. Shape(call.op, saved[MySlot], Step)
  BY StepFacts DEF Awaiting
<1>2. p.type \in Range(Step.types)
  BY DEF Fits
<1>3. /\ end.to \in States(call.op) \cup {"idle"} /\ end.rc \in {"go", "ok", "denied"}
      /\ end.rc = "go" => end.to \in States(call.op)
      /\ end.rc # "go" => end.to = "idle" \/ call.op = "x11Req"
  BY <1>1, <1>2 DEF Shape, Awaiting
<1>4. call.op = "x11Req" => MySlot[1] \in Left
  BY DEF MySlot, Slot, Left
<1>5. /\ Saves(end.to) /\ auth' = (auth \/ p.type = "authOk")
      /\ lst' = IF p.type = "requestOk" THEN NewListener ELSE lst
      /\ end.rc # "denied" => chans' = chans
      /\ end.rc = "denied" => Drop
      /\ end.rc = "go" => call' = [call EXCEPT !.at = "run"] /\ UNCHANGED last
      /\ end.rc # "go" => \E err : Returns(end.rc, p.id, err)
  BY DEF Takes, Saves, Authenticates, NewListener
<1> HIDE DEF end, p
<1>6. TakesOut(i)
  BY <1>5 DEF TakesOut, net, p
<1>7. CASE end.rc = "go"
  <2>1. Moved("run") /\ last' = last /\ chans' = chans
    BY <1>5, <1>7 DEF Moved
  <2>2. HasCall(call.op, call.c, "run", call.own)
    BY <2>1, CallFields, Zenon
  <2> QED
    BY <1>1, <1>3, <1>5, <1>6, <1>7, <2>1, <2>2 DEF Takes1, Advances, end, p
<1>8. CASE end.rc \in {"ok", "denied"}
  <2>1. PICK err : Returns(end.rc, p.id, err)
    BY <1>5, <1>8
  <2>2. Returned /\ (last' = last \/ last' = Result(end.rc, p.id)) /\ (end.rc = "ok" => call' = Idle)
    BY <2>1, ReturnFacts
  <2>3. Finishes(end.to)
    BY <1>3, <1>4, <1>5, <1>8, <2>2 DEF Finishes
  <2>4. chans' = IF end.rc = "denied" /\ Opens THEN chans \ {call.c} ELSE chans
    BY <1>5, <1>8 DEF Drop
  <2> QED
    BY <1>1, <1>5, <1>6, <1>8, <2>2, <2>3, <2>4 DEF Takes1, end, p
<1> QED
  BY <1>3, <1>7, <1>8

\* No answer is taken, and the function fails.
Fails1 ==
    /\ Awaiting /\ Shape(call.op, saved[MySlot], Step)
    /\ Quiet /\ auth' = auth /\ UNCHANGED <<lst, nextChannel, crashed>>
    /\ Finishes("idle")
    /\ chans' = (IF Opens THEN chans \ {call.c} ELSE chans)
    /\ last' = last \/ last' = Result("fail", 0)

GivesUp1 == Fails1 /\ late' = late \cup {<<Sort(call.op), IF ByChannel(Step.types) THEN call.c ELSE 0>>}

\* A request that gets no answer.
LEMMA FailsEffect ==
    ASSUME InCall, Awaiting, RequiresFails, UNCHANGED <<brigade, net, lst, nextChannel, auth, crashed, peer>>
    PROVE  Fails1
<1> USE DEF InCall
<1>1. Shape(call.op, saved[MySlot], Step)
  BY StepFacts DEF Awaiting
<1>2. Step.fail = "idle"
  <2> SUFFICES ASSUME call.op = "password", Step.fail # "idle" PROVE FALSE
    BY <1>1 DEF Shape
  <2>1. saved[MySlot] \in {"created", "sent", "sent1", "sent2"} /\ Step = Password[saved[MySlot]]
    <3>1. saved[MySlot] \in States("password") \cup {"idle"}
      BY StepFacts DEF Awaiting
    <3> QED
      BY <3>1 DEF Step, Program, States, Awaiting
  <2>2. /\ Password["created"].do = "write" /\ Password["sent"].fail = "idle"
        /\ Password["sent1"].do = "callback" /\ Password["sent2"].do = "write"
    <3>1. PasswordAnswer.fail = "idle" /\ AsksNewPassword.do = "callback" /\ SendsNewPassword.do = "write"
      BY DEF PasswordAnswer, VerdictOr, Requires, AsksNewPassword, Asks, SendsNewPassword, Writes
    <3> QED
      BY <3>1 DEF Password, Writes
  <2> QED
    BY <2>1, <2>2 DEF Awaiting
<1>3. Saves("idle") /\ Drop /\ \E err : Returns("fail", 0, err)
  BY <1>2 DEF RequiresFails, Saves
<1>4. Returned /\ (last' = last \/ last' = Result("fail", 0))
  BY <1>3, ReturnFacts
<1>5. Finishes("idle")
  BY <1>3, <1>4 DEF Finishes
<1>6. Quiet
  BY DEF Quiet, net
<1>7. chans' = IF Opens THEN chans \ {call.c} ELSE chans
  BY <1>3 DEF Drop
<1> QED
  BY <1>1, <1>4, <1>5, <1>6, <1>7 DEF Fails1

\* A request given up while its answer may come.
LEMMA GivesUpEffect ==
    ASSUME InCall, Awaiting, GivesUp, UNCHANGED <<brigade, net, lst, nextChannel, auth, crashed, peer>>
    PROVE  GivesUp1
<1>1. Fails1
  BY FailsEffect DEF GivesUp
<1>2. Step.types[1] = Sort(call.op)
  BY <1>1 DEF Fails1, Shape, Awaiting
<1> QED
  BY <1>1, <1>2 DEF GivesUp, GivesUp1

\* Looking for the answer in the brigade before reading.
LEMMA AsksBrigadeEffect ==
    ASSUME InCall, NetOK, AsksBrigade
    PROVE  \/ \E i : Takes1(i)
           \/ /\ Awaiting /\ GoesTo("read") /\ (\A j \in DOMAIN brigade : ~Fits(brigade[j]))
              /\ Quiet /\ UNCHANGED <<lst, chans, nextChannel, crashed, late, last, auth>>
<1> USE DEF InCall
<1> DEFINE i == PacketAskv(Step.types, call.c)
<1>1. Awaiting
  BY OpFacts DEF AsksBrigade, AwaitsAnswer, Awaiting
<1>2. UNCHANGED <<net, nextChannel, x11cb, crashed, peerVars, counters>>
  BY DEF AsksBrigade
<1>3. /\ i = 0 => \A j \in DOMAIN brigade : ~Fits(brigade[j])
      /\ i # 0 => i \in DOMAIN brigade /\ Fits(brigade[i])
  BY <1>1, PacketAskvFlow DEF Awaiting
<1>4. CASE i # 0
  <2>1. Takes(brigade[i]) /\ brigade' = RemoveAt(brigade, i)
    BY <1>4 DEF AsksBrigade
  <2> HIDE DEF i
  <2>2. Takes1(i)
    BY <1>1, <1>2, <1>3, <1>4, <2>1, TakesEffect DEF peerVars
  <2> QED
    BY <2>2
<1>5. CASE i = 0
  <2>1. Moved("read") /\ UNCHANGED <<saved, brigade, auth, lst, chans, eagain, last>>
    BY <1>5 DEF AsksBrigade, Moved
  <2>2. GoesTo("read")
    BY <2>1, CallFields, Zenon DEF GoesTo
  <2>3. Quiet
    BY <1>2, <2>1 DEF Quiet, net, peerVars
  <2> QED
    BY <1>1, <1>2, <1>3, <1>5, <2>1, <2>2, <2>3 DEF peerVars
<1> QED
  BY <1>4, <1>5

\* A packet of the right type was read: it matches, or the request is given up.
LEMMA TakesAnswerEffect ==
    ASSUME InCall, NetOK, TakesAnswer
    PROVE  GivesUp1 \/ \E i : Takes1(i)
<1> USE DEF InCall
<1> DEFINE i == PacketAskv(Step.types, call.c)
<1>1. Awaiting
  BY OpFacts DEF TakesAnswer, Running, CallOK, Awaiting
<1>2. UNCHANGED <<net, nextChannel, x11cb, crashed, peer, counters>>
  BY DEF TakesAnswer
<1>3. i # 0 => i \in DOMAIN brigade /\ Fits(brigade[i])
  BY <1>1, PacketAskvFlow DEF Awaiting
<1>4. CASE i # 0
  <2>1. Takes(brigade[i]) /\ brigade' = RemoveAt(brigade, i) /\ late' = late
    BY <1>4 DEF TakesAnswer
  <2> HIDE DEF i
  <2>2. Takes1(i)
    BY <1>1, <1>2, <1>3, <1>4, <2>1, TakesEffect
  <2> QED
    BY <2>2
<1>5. CASE i = 0
  <2>1. GivesUp /\ UNCHANGED <<brigade, auth, lst>>
    BY <1>5 DEF TakesAnswer
  <2> QED
    BY <1>1, <1>2, <2>1, GivesUpEffect
<1> QED
  BY <1>4, <1>5

\* The connection was lost while waiting.
LEMMA AnswerFailsEffect ==
    ASSUME InCall, AnswerFails
    PROVE  Fails1 /\ call.at = "fails" /\ late' = late
<1>1. Awaiting /\ call.at = "fails"
  BY OpFacts DEF AnswerFails, Running, CallOK, Awaiting, InCall
<1>2. RequiresFails /\ UNCHANGED <<brigade, net, lst, nextChannel, auth, x11cb, crashed, peerVars, counters>>
  BY DEF AnswerFails
<1> QED
  BY <1>1, <1>2, FailsEffect DEF peerVars

\* The time to wait was over.
LEMMA AnswerTimesOutEffect ==
    ASSUME InCall, AnswerTimesOut
    PROVE  GivesUp1
<1>1. Awaiting
  BY OpFacts DEF AnswerTimesOut, Waiting, Running, CallOK, Awaiting, InCall
<1>2. GivesUp /\ UNCHANGED <<brigade, net, lst, nextChannel, auth, x11cb, crashed, peer, calls>>
  BY DEF AnswerTimesOut
<1> QED
  BY <1>1, <1>2, GivesUpEffect

\* What a wait for an answer has read.
Listened(rc, x) ==
    /\ x \in {"select", "match", "fails", "read"}
    /\ x = "match" => rc \in Range(Step.types)
    /\ x = "fails" => rc \in {"zero", "FAIL"}
    /\ x = "read" => rc \notin Range(Step.types)

\* Reading while waiting for an answer.
LEMMA ReadsAnswerEffect ==
    ASSUME InCall, NetOK, ListenOK, ChansOK, ReadsAnswer
    PROVE  /\ Awaiting /\ call.at = "read" /\ UNCHANGED <<late, last, auth>>
           /\ \E rc, x : Reads(rc) /\ GoesTo(x) /\ Listened(rc, x)
<1> USE DEF InCall
<1>1. Awaiting /\ call.at = "read" /\ UNCHANGED <<late, last, auth>>
  BY OpFacts DEF ReadsAnswer, Waiting, Running, CallOK, Awaiting
<1>2. PICK rc : /\ TransportRead(rc)
                /\ CASE rc = "EAGAIN" -> Again /\ UNCHANGED saved
                     [] rc \in Range(Step.types) ->
                          /\ call' = [call EXCEPT !.at = "match"]
                          /\ UNCHANGED <<saved, eagain>>
                     [] rc \in {"zero", "FAIL"} ->
                          /\ call' = [call EXCEPT !.at = "fails"]
                          /\ UNCHANGED <<saved, eagain>>
                     [] OTHER -> UNCHANGED <<saved, call, eagain>>
  BY DEF ReadsAnswer
<1>3. Reads(rc)
  BY <1>2, ReadFacts DEF Reads
<1>4. Range(Step.types) \subseteq AnswerTypes
  BY StepFacts, <1>1 DEF Awaiting, Shape, Group, AnswerTypes
<1>5. "EAGAIN" \notin Range(Step.types) /\ "zero" \notin Range(Step.types) /\ "FAIL" \notin Range(Step.types)
  BY <1>4 DEF AnswerTypes
<1>6. CASE rc = "EAGAIN"
  <2>1. Again /\ saved' = saved
    BY ONLY <1>2, <1>5, <1>6
  <2>2. HasCall(call.op, call.c, "select", call.own)
    BY <2>1, AgainFacts
  <2>3. GoesTo("select")
    BY <2>1, <2>2 DEF GoesTo
  <2> QED
    BY <1>1, <1>3, <1>6, <2>3 DEF Listened
<1>7. CASE rc \in Range(Step.types)
  <2>1. Moved("match") /\ saved' = saved
    BY <1>2, <1>5, <1>7 DEF Moved
  <2>2. GoesTo("match")
    BY <2>1, CallFields, Zenon DEF GoesTo
  <2> QED
    BY <1>1, <1>3, <1>7, <2>2 DEF Listened
<1>8. CASE rc \in {"zero", "FAIL"}
  <2>1. Moved("fails") /\ saved' = saved
    BY <1>2, <1>5, <1>8 DEF Moved
  <2>2. GoesTo("fails")
    BY <2>1, CallFields, Zenon DEF GoesTo
  <2> QED
    BY <1>1, <1>3, <1>8, <2>2 DEF Listened
<1>9. CASE rc \notin {"EAGAIN", "zero", "FAIL"} /\ rc \notin Range(Step.types)
  <2>1. call' = call /\ saved' = saved
    BY <1>2, <1>9
  <2>2. GoesTo("read")
    BY <1>1, <2>1, CallStays DEF GoesTo
  <2> QED
    BY <1>1, <1>3, <1>9, <2>2 DEF Listened
<1> QED
  BY <1>6, <1>7, <1>8, <1>9

\* The listener loses the first connection of its queue.
Shrinks(n) ==
    /\ lst' \in Listeners
    /\ lst'.on = lst.on /\ lst'.cancelled = lst.cancelled
    /\ lst'.size = lst.size - n /\ lst'.queue = Tail(lst.queue)

\* The first connection leaves the queue.
LEMMA ShrinksFacts ==
    ASSUME lst \in Listeners, lst.queue # <<>>
    PROVE  /\ lst' = [lst EXCEPT !.queue = Tail(@), !.size = @ - 1] => Shrinks(1)
           /\ lst' = [lst EXCEPT !.queue = Tail(lst.queue)] => Shrinks(0)
           /\ Head(lst.queue) \in Nat
<1>1. /\ DOMAIN lst = {"on", "queue", "size", "cancelled"}
      /\ lst.on \in BOOLEAN /\ lst.queue \in Seq(Nat) /\ lst.size \in Int /\ lst.cancelled \in BOOLEAN
  BY DEF Listeners
<1>2. Tail(lst.queue) \in Seq(Nat) /\ Head(lst.queue) \in Nat
  BY <1>1, TailFacts
<1>3. ASSUME lst' = [lst EXCEPT !.queue = Tail(@), !.size = @ - 1] PROVE Shrinks(1)
  <2>1. lst' = [on |-> lst.on, queue |-> Tail(lst.queue), size |-> lst.size - 1, cancelled |-> lst.cancelled]
    BY <1>1, <1>3
  <2> QED
    BY <1>1, <1>2, <2>1 DEF Shrinks, Listeners
<1>4. ASSUME lst' = [lst EXCEPT !.queue = Tail(lst.queue)] PROVE Shrinks(0)
  <2>1. lst' = [on |-> lst.on, queue |-> Tail(lst.queue), size |-> lst.size, cancelled |-> lst.cancelled]
    BY <1>1, <1>4
  <2>2. lst.size - 0 = lst.size
    BY <1>1
  <2> QED
    BY <1>1, <1>2, <2>1, <2>2 DEF Shrinks, Listeners
<1> QED
  BY <1>2, <1>3, <1>4, Zenon

\* Reading until nothing has come, for an accept.
LEMMA ForwardAcceptEffect ==
    ASSUME InCall, NetOK, ListenOK, ChansOK, ForwardAccept
    PROVE  /\ call.op = "accept" /\ UNCHANGED <<late, last, auth>>
           /\ \E rc, x : Reads(rc) /\ GoesTo(x) /\ x \in {"run", "EAGAIN", "zero", "FAIL"}
<1> USE DEF InCall
<1>1. call.op = "accept" /\ call.at = "run" /\ UNCHANGED <<late, last, auth>> /\ saved' = saved
  BY DEF ForwardAccept, Running
<1>2. PICK rc : /\ TransportRead(rc)
                /\ call' = IF rc \in {"EAGAIN", "zero", "FAIL"} THEN [call EXCEPT !.at = rc] ELSE call
  BY DEF ForwardAccept
<1>3. Reads(rc)
  BY <1>2, ReadFacts DEF Reads
<1>4. CASE rc \in {"EAGAIN", "zero", "FAIL"}
  <2>1. Moved(rc)
    BY <1>2, <1>4 DEF Moved
  <2>2. HasCall(call.op, call.c, rc, call.own)
    BY <2>1, CallFields, Zenon
  <2> QED
    BY <1>1, <1>3, <1>4, <2>2 DEF GoesTo
<1>5. CASE rc \notin {"EAGAIN", "zero", "FAIL"}
  <2>1. HasCall(call.op, call.c, "run", call.own)
    BY <1>1, <1>2, <1>5, CallStays
  <2> QED
    BY <1>1, <1>3, <2>1 DEF GoesTo
<1> QED
  BY <1>4, <1>5

\* The first connection in the queue becomes a channel, or the accept waits or fails.
LEMMA AcceptEndsEffect ==
    ASSUME InCall, ListenOK, AcceptEnds
    PROVE  /\ call.op = "accept" /\ Quiet /\ saved' = saved
           /\ UNCHANGED <<late, nextChannel, crashed, auth>>
           /\ last' = last \/ \E rc \in {"ok", "fail"} : last' = Result(rc, 0)
           /\ \/ lst.queue # <<>> /\ chans' = chans \cup {Head(lst.queue)} /\ Shrinks(1) /\ Returned
              \/ /\ UNCHANGED <<chans, lst>>
                 /\ \/ GoesTo("select") /\ last' = last
                    \/ Returned /\ (last' = last \/ last' = Result("fail", 0))
<1> USE DEF InCall
<1>1. /\ call.op = "accept" /\ UNCHANGED <<saved, brigade, net, nextChannel, auth, x11cb, crashed, peerVars, counters>>
  BY DEF AcceptEnds
<1>2. Quiet /\ UNCHANGED <<late, nextChannel, crashed>>
  BY <1>1 DEF Quiet, net, peerVars
<1>3. CASE /\ lst.queue # <<>> /\ chans' = chans \cup {Head(lst.queue)}
           /\ lst' = [lst EXCEPT !.queue = Tail(@), !.size = @ - 1]
           /\ Returns("ok", 0, eagain)
  <2>1. Shrinks(1)
    BY <1>3, ShrinksFacts, Zenon DEF ListenOK
  <2>2. Returned /\ (last' = last \/ last' = Result("ok", 0))
    BY <1>3, ReturnFacts
  <2> QED
    BY <1>1, <1>2, <1>3, <2>1, <2>2
<1>4. CASE UNCHANGED <<chans, lst>> /\ Again /\ UNCHANGED last
  <2>1. HasCall(call.op, call.c, "select", call.own)
    BY <1>4, AgainFacts
  <2>2. GoesTo("select")
    BY <1>1, <2>1 DEF GoesTo
  <2> QED
    BY <1>1, <1>2, <1>4, <2>2
<1>5. CASE UNCHANGED <<chans, lst>> /\ Returns("fail", 0, FALSE)
  <2>1. Returned /\ (last' = last \/ last' = Result("fail", 0))
    BY <1>5, ReturnFacts
  <2> QED
    BY <1>1, <1>2, <1>5, <2>1
<1> QED
  BY <1>3, <1>4, <1>5 DEF AcceptEnds

\* Telling the server that a port is forwarded no more.
LEMMA CancelStartEffect ==
    ASSUME InCall, NetOK, CancelStart
    PROVE  /\ call.op = "cancel" /\ UNCHANGED <<brigade, inbound, add, disc, lst, chans, nextChannel, crashed, late, auth>>
           /\ last' = last \/ last' = Result("fail", 0)
           /\ \E rc : Sent("cancel", 0, rc)
           /\ \/ \E s \in {"created", "sent"}, x \in {"end", "free", "select"} :
                   /\ Saves(s) /\ HasCall(call.op, call.c, x, call.own)
                   /\ x = "free" => lst.queue # <<>>
              \/ Finishes("idle")
<1> USE DEF InCall
<1>1. call.op = "cancel" /\ UNCHANGED <<brigade, inbound, add, disc, lst, chans, nextChannel, crashed, late, auth>>
  BY DEF CancelStart
<1>2. PICK rc \in {"NONE", "EAGAIN", "FAIL"} :
         /\ Send("cancel", 0, rc)
         /\ saved' = [saved EXCEPT ![<<"cancel", 0>>] =
               CASE rc = "NONE" -> "sent" [] rc = "EAGAIN" -> "created" [] OTHER -> "idle"]
         /\ CASE rc = "NONE" ->
                   /\ call' = [call EXCEPT !.at = IF lst.queue = <<>> THEN "end" ELSE "free"]
                   /\ UNCHANGED <<eagain, last>>
              [] rc = "EAGAIN" -> Again /\ UNCHANGED last
              [] OTHER -> Returns("fail", 0, FALSE)
  BY DEF CancelStart
<1>3. Sent("cancel", 0, rc)
  BY <1>2, SendFacts DEF OthersOK
<1>4. MySlot = <<"cancel", 0>>
  BY <1>1 DEF MySlot, Slot, ChannelOps
<1>5. CASE rc = "NONE"
  <2> DEFINE x == IF lst.queue = <<>> THEN "end" ELSE "free"
  <2>1. Moved(x) /\ Saves("sent") /\ last' = last
    BY <1>2, <1>4, <1>5 DEF Moved, Saves
  <2>2. x \in {"end", "free"} /\ (x = "free" => lst.queue # <<>>)
    OBVIOUS
  <2> HIDE DEF x
  <2>3. HasCall(call.op, call.c, x, call.own)
    BY <2>1, CallFields, Zenon
  <2> QED
    BY <1>1, <1>3, <2>1, <2>2, <2>3
<1>6. CASE rc = "EAGAIN"
  <2>1. HasCall(call.op, call.c, "select", call.own) /\ Saves("created") /\ last' = last
    BY <1>2, <1>4, <1>6, AgainFacts DEF Saves
  <2> QED
    BY <1>1, <1>3, <2>1
<1>7. CASE rc = "FAIL"
  <2>1. Saves("idle") /\ Returns("fail", 0, FALSE)
    BY <1>2, <1>4, <1>7 DEF Saves
  <2>2. Finishes("idle") /\ (last' = last \/ last' = Result("fail", 0))
    BY <2>1, ReturnFacts DEF Finishes
  <2> QED
    BY <1>1, <1>3, <2>2
<1> QED
  BY <1>2, <1>5, <1>6, <1>7

\* The channels in the queue are freed.
FreedTo(more) == Shrinks(0) /\ GoesTo(IF more THEN "free" ELSE "end")

\* One channel of the queue is freed.
LEMMA FreedEffect ==
    ASSUME InCall, ListenOK, lst.queue # <<>>, NEW more, Freed(lst.queue, more), saved' = saved
    PROVE  FreedTo(more)
<1> DEFINE x == IF more THEN "free" ELSE "end"
<1>1. lst' = [lst EXCEPT !.queue = Tail(lst.queue)] /\ Moved(x)
  BY DEF Freed, Moved
<1> HIDE DEF x
<1>2. Shrinks(0)
  BY <1>1, ShrinksFacts, Zenon DEF ListenOK
<1>3. HasCall(call.op, call.c, x, call.own)
  BY <1>1, CallFields, Zenon DEF InCall
<1>4. GoesTo(x)
  BY <1>3 DEF GoesTo
<1> QED
  BY <1>2, <1>4 DEF FreedTo, x

\* The close of a channel in the queue.
LEMMA CancelFreesEffect ==
    ASSUME InCall, NetOK, ListenOK, CancelFrees
    PROVE  /\ call.op = "cancel" /\ call.at = "free" /\ lst.queue # <<>>
           /\ UNCHANGED <<brigade, inbound, add, disc, chans, nextChannel, crashed, late, last, auth>>
           /\ UNCHANGED <<peer, sock>> \/ \E c, rc : c \in Nat /\ Sent("close", c, rc)
           /\ \/ FreedTo(Len(lst.queue) > 1)
              \/ GoesTo("await") /\ call'.more = (Len(lst.queue) > 1) /\ lst' = lst
              \/ GoesTo("free") /\ lst' = lst
<1> USE DEF InCall
<1>1. /\ call.op = "cancel" /\ call.at = "free" /\ lst.queue # <<>> /\ saved' = saved
      /\ UNCHANGED <<brigade, inbound, add, disc, chans, nextChannel, crashed, late, last, auth>>
  BY OpFacts DEF CancelFrees, Running, ListenOK
<1>2. Head(lst.queue) \in Nat
  BY <1>1, ShrinksFacts DEF ListenOK
<1>3. CASE disc /\ Freed(lst.queue, Len(lst.queue) > 1) /\ UNCHANGED <<pend, peer, sock>>
  BY <1>1, <1>3, FreedEffect
<1>4. ASSUME ~disc, NEW rc \in {"NONE", "EAGAIN", "FAIL"}, Send("close", Head(lst.queue), rc),
             CASE rc = "NONE" ->
                         /\ call' = [call EXCEPT !.at = "await", !.more = Len(lst.queue) > 1]
                         /\ UNCHANGED lst
                    [] rc = "EAGAIN" -> UNCHANGED <<call, lst>>
                    [] OTHER -> Freed(lst.queue, Len(lst.queue) > 1)
      PROVE  /\ \E c, r : c \in Nat /\ Sent("close", c, r)
             /\ \/ FreedTo(Len(lst.queue) > 1)
                \/ GoesTo("await") /\ call'.more = (Len(lst.queue) > 1) /\ lst' = lst
                \/ GoesTo("free") /\ lst' = lst
  <2>1. Sent("close", Head(lst.queue), rc)
    BY <1>2, <1>4, SendFacts DEF OthersOK
  <2>2. CASE rc = "NONE"
    <3> DEFINE b == Len(lst.queue) > 1
    <3>1. b \in BOOLEAN /\ call' = [call EXCEPT !.at = "await", !.more = b] /\ lst' = lst
      BY <1>4, <2>2
    <3> HIDE DEF b
    <3>2. HasCall(call.op, call.c, "await", call.own) /\ call'.more = b
      BY <3>1, CallFields, Zenon
    <3> QED
      BY <1>1, <1>2, <2>1, <3>1, <3>2 DEF GoesTo, b
  <2>3. CASE rc = "EAGAIN"
    BY <1>1, <1>2, <1>4, <2>1, <2>3, CallStays DEF GoesTo
  <2>4. CASE rc = "FAIL"
    BY <1>1, <1>2, <1>4, <2>1, <2>4, FreedEffect
  <2> QED
    BY <1>4, <2>2, <2>3, <2>4
<1> QED
  BY <1>1, <1>3, <1>4 DEF CancelFrees

\* Reading after the close of a channel.
LEMMA CancelAwaitsEffect ==
    ASSUME InCall, NetOK, ListenOK, ChansOK, CancelAwaits
    PROVE  /\ call.op = "cancel" /\ call.at = "await" /\ UNCHANGED <<late, last, auth>>
           /\ \E rc, x : Reads(rc) /\ GoesTo(x) /\ call'.more = call.more /\ x \in {"await", "freed"}
<1> USE DEF InCall
<1>1. call.op = "cancel" /\ call.at = "await" /\ UNCHANGED <<late, last, auth>> /\ saved' = saved
  BY OpFacts DEF CancelAwaits, Running
<1>2. PICK rc : /\ TransportRead(rc)
                /\ call' = IF rc \in {"EAGAIN", "zero"} THEN call ELSE [call EXCEPT !.at = "freed"]
  BY DEF CancelAwaits
<1>3. Reads(rc)
  BY <1>2, ReadFacts DEF Reads
<1>4. CASE rc \in {"EAGAIN", "zero"}
  BY <1>1, <1>2, <1>3, <1>4, CallStays DEF GoesTo
<1>5. CASE rc \notin {"EAGAIN", "zero"}
  <2>1. Moved("freed")
    BY <1>2, <1>5 DEF Moved
  <2>2. HasCall(call.op, call.c, "freed", call.own) /\ call'.more = call.more
    BY <2>1, CallFields, Zenon
  <2> QED
    BY <1>1, <1>3, <2>2 DEF GoesTo
<1> QED
  BY <1>4, <1>5

\* The channel that was closed leaves the queue.
LEMMA CancelFreedEffect ==
    ASSUME InCall, ListenOK, CancelFreed
    PROVE  /\ call.op = "cancel" /\ call.at = "freed" /\ Quiet /\ lst.queue # <<>>
           /\ UNCHANGED <<chans, nextChannel, crashed, late, last, auth>>
           /\ FreedTo(call.more)
<1> USE DEF InCall
<1>1. /\ call.op = "cancel" /\ call.at = "freed" /\ saved' = saved /\ lst.queue # <<>>
      /\ UNCHANGED <<brigade, net, chans, nextChannel, auth, crashed, peerVars, last>>
  BY OpFacts DEF CancelFreed, Running, ListenOK
<1>2. FreedTo(call.more)
  BY <1>1, FreedEffect DEF CancelFreed
<1> QED
  BY <1>1, <1>2 DEF Quiet, net, peerVars

\* The listener goes.
LEMMA CancelEndsEffect ==
    ASSUME InCall, CancelEnds
    PROVE  /\ call.op = "cancel" /\ Quiet /\ UNCHANGED <<chans, nextChannel, crashed, late, auth>>
           /\ lst' = [NoListener EXCEPT !.cancelled = TRUE]
           /\ Finishes("idle") /\ (last' = last \/ last' = Result("ok", 0))
<1> USE DEF InCall
<1>1. /\ call.op = "cancel" /\ lst' = [NoListener EXCEPT !.cancelled = TRUE]
      /\ UNCHANGED <<brigade, net, chans, nextChannel, auth, crashed, peerVars>>
      /\ saved' = [saved EXCEPT ![<<"cancel", 0>>] = "idle"] /\ Returns("ok", 0, eagain)
  BY OpFacts DEF CancelEnds, Running
<1>2. MySlot = <<"cancel", 0>>
  BY <1>1 DEF MySlot, Slot, ChannelOps
<1>3. Returned /\ (last' = last \/ last' = Result("ok", 0))
  BY <1>1, ReturnFacts
<1> QED
  BY <1>1, <1>2, <1>3 DEF Quiet, net, peerVars, Finishes, Saves

-----------------------------------------------------------------------------
(***************************************************************************)
(* The steps, by what they do to the call.                                 *)
(***************************************************************************)
\* A call begins.
Started ==
    /\ call = Idle /\ saved' = saved /\ last' = NoResult /\ ~crashed
    /\ Quiet /\ UNCHANGED <<lst, chans, nextChannel, late, auth>>
    /\ call'.op \in Ops /\ call'.own = 0 /\ call'.slept = FALSE /\ call'.more = FALSE /\ call'.at = "run"
    /\ call' \in [op : Ops, c : Nat, at : {"run"}, own : {0}, slept : BOOLEAN, more : BOOLEAN]
    /\ call'.op \in ChannelOps => call'.c \in ReqChans
    /\ call'.op \notin ChannelOps => call'.c = 0
    /\ call'.op = "listen" => ~lst.on

\* Nothing else changes.
Alone == Quiet /\ UNCHANGED <<lst, chans, nextChannel, crashed, late, auth>>

\* It goes to another place.
Turned ==
    /\ call.op \in Called /\ call.at \notin {"free", "await", "freed", "end"}
    /\ Alone /\ last' = last
    /\ \/ GoesTo("run")
       \/ GoesTo("select") /\ call.op = "accept"
       \/ GoesTo("read") /\ Awaiting /\ (\A j \in DOMAIN brigade : ~Fits(brigade[j]))

\* It has its packet built, and an open its channel.
Begun ==
    /\ call.op \in Requests /\ saved[MySlot] = "idle" /\ Saves("created") /\ "created" \in States(call.op)
    /\ Quiet /\ UNCHANGED <<lst, crashed, late, auth, last>>
    /\ ~Opens => HasCall(call.op, call.c, "run", call.own) /\ chans' = chans /\ nextChannel' = nextChannel
    /\ Opens => /\ HasCall(call.op, nextChannel, "run", call.own)
                /\ chans' = chans \cup {nextChannel} /\ nextChannel' = nextChannel + 1

\* It goes on or returns without a packet.
Skipped ==
    /\ Alone
    /\ \/ saved' = saved /\ Returned /\ (call.op = "accept" \/ (call.op \in AuthOps /\ saved[MySlot] = "idle"))
       \/ /\ call.op \in Requests /\ saved[MySlot] # "idle" /\ Step.do \in {"callback", "refuse"}
          /\ (\E s : Advances(s, call.own)) \/ (\E s : Finishes(s))
    /\ last' = last \/ last' = Result("fail", 0)

\* It writes a request.
Wrote ==
    /\ call.op \in Requests /\ saved[MySlot] # "idle" /\ Step.do = "write"
    /\ Shape(call.op, saved[MySlot], Step)
    /\ UNCHANGED <<brigade, inbound, add, disc, lst, nextChannel, crashed, late, auth>>
    /\ \E rc : Sent(Step.kind, call.c, rc) /\ Writes1(rc)

\* It fails as the connection is gone.
Failed1 == Fails1 /\ call.at = "fails" /\ late' = late

\* It has read something.
Heard ==
    /\ UNCHANGED <<late, last, auth>>
    /\ \E rc, x :
         /\ Reads(rc) /\ GoesTo(x)
         /\ \/ Awaiting /\ call.at = "read" /\ Listened(rc, x)
            \/ call.op = "accept" /\ x \in {"run", "EAGAIN", "zero", "FAIL"}
            \/ call.op = "cancel" /\ call.at = "await" /\ x \in {"await", "freed"} /\ call'.more = call.more

\* A forwarded connection is accepted.
Accepted1 ==
    /\ call.op = "accept" /\ Quiet /\ saved' = saved /\ UNCHANGED <<late, nextChannel, crashed, auth>>
    /\ lst.queue # <<>> /\ chans' = chans \cup {Head(lst.queue)} /\ Shrinks(1) /\ Returned
    /\ last' = last \/ \E rc \in {"ok", "fail"} : last' = Result(rc, 0)

\* A listener is cancelled.
CancelSent ==
    /\ call.op = "cancel" /\ call.at = "run"
    /\ UNCHANGED <<brigade, inbound, add, disc, lst, chans, nextChannel, crashed, late, auth>>
    /\ last' = last \/ last' = Result("fail", 0)
    /\ \E rc : Sent("cancel", 0, rc)
    /\ \/ \E s \in {"created", "sent"}, x \in {"end", "free", "select"} :
            /\ Saves(s) /\ HasCall(call.op, call.c, x, call.own)
            /\ x = "free" => lst.queue # <<>>
       \/ Finishes("idle")

Freed1 ==
    /\ call.op = "cancel" /\ call.at \in {"free", "freed"} /\ lst.queue # <<>>
    /\ UNCHANGED <<brigade, inbound, add, disc, chans, nextChannel, crashed, late, last, auth>>
    /\ UNCHANGED <<peer, sock>> \/ \E c, rc : c \in Nat /\ Sent("close", c, rc)
    /\ \/ \E more : FreedTo(more) /\ (more => Len(lst.queue) > 1)
       \/ GoesTo("await") /\ call'.more = (Len(lst.queue) > 1) /\ lst' = lst
       \/ GoesTo("free") /\ lst' = lst

Cancelled1 ==
    /\ call.op = "cancel" /\ Quiet /\ UNCHANGED <<chans, nextChannel, crashed, late, auth>>
    /\ lst' = [NoListener EXCEPT !.cancelled = TRUE]
    /\ Finishes("idle") /\ (last' = last \/ last' = Result("ok", 0))

\* The server, or the connection.
Served ==
    /\ UNCHANGED <<saved, call, lst, chans, nextChannel, crashed, late, last, auth>>
    /\ call.op # "none"
    /\ (\E q, t : Replied(q, t)) \/ (\E kind : Unasked(kind)) \/ Broken

Happens ==
    \/ Started \/ Turned \/ Begun \/ Skipped \/ Wrote \/ (\E i : Takes1(i)) \/ GivesUp1 \/ Failed1
    \/ Heard \/ Accepted1 \/ CancelSent \/ Freed1 \/ Cancelled1 \/ Served

\* Every call is a start.
LEMMA CallHappens ==
    ASSUME Types, NEW op \in Ops, NEW c \in ReqChans, Call(op, c)
    PROVE  Started
<1>1. c \in Nat
  BY RequestsAssumption
<1>2. /\ call = Idle /\ saved' = saved /\ last' = NoResult /\ ~crashed
      /\ UNCHANGED <<brigade, net, lst, chans, nextChannel, auth, peerVars>>
      /\ call' = [Idle EXCEPT !.op = op, !.c = c, !.at = "run"]
      /\ (op \notin ChannelOps => c = 0) /\ (op = "listen" => ~lst.on)
  BY DEF Call
<1>3. call' = [op |-> op, c |-> c, at |-> "run", own |-> 0, slept |-> FALSE, more |-> FALSE]
  BY <1>2 DEF Idle
<1>4. Quiet /\ late' = late
  BY <1>2 DEF Quiet, net, peerVars
<1>5. /\ call'.op = op /\ call'.own = 0 /\ call'.slept = FALSE /\ call'.more = FALSE /\ call'.at = "run"
      /\ call'.c = c
      /\ call' \in [op : Ops, c : Nat, at : {"run"}, own : {0}, slept : BOOLEAN, more : BOOLEAN]
  BY <1>1, <1>3
<1> QED
  BY <1>2, <1>4, <1>5 DEF Started

\* What the steps of a request before its answer do.
LEMMA RequestHappens ==
    ASSUME Types,
           Wake \/ KeyFileFails \/ Builds \/ WritesRequest \/ RefusesPtySize \/ CallsBack
    PROVE  Turned \/ Begun \/ Skipped \/ Wrote
<1> USE DEF Types
<1>0. InCall
  BY DEF InCall
<1>1. CASE Wake
  <2>1. Alone /\ last' = last
    BY <1>1 DEF Wake, Alone, Quiet, net, peerVars
  <2>2. call.op \in Called /\ GoesTo("run")
    BY <1>0, <1>1, WakeEffect
  <2>3. call.at = "select"
    BY <1>1 DEF Wake, Running
  <2> QED
    BY <2>1, <2>2, <2>3 DEF Turned
<1>2. CASE KeyFileFails
  <2>1. Alone /\ Returns("fail", 0, FALSE)
    BY <1>2 DEF KeyFileFails, Alone, Quiet, net, peerVars
  <2>2. call.op \in AuthOps /\ saved' = saved /\ saved[MySlot] = "idle" /\ Returned
    BY <1>0, <1>2, KeyFileFailsEffect
  <2>3. last' = last \/ last' = Result("fail", 0)
    BY <2>1, ReturnFacts
  <2> QED
    BY <2>1, <2>2, <2>3 DEF Skipped
<1>3. CASE Builds
  <2>1. Quiet /\ UNCHANGED <<lst, crashed, late, auth, last>>
    BY <1>3 DEF Builds, Quiet, net, peerVars
  <2>2. /\ call.op \in Requests /\ saved[MySlot] = "idle" /\ Saves("created") /\ "created" \in States(call.op)
        /\ ~Opens => HasCall(call.op, call.c, "run", call.own) /\ chans' = chans /\ nextChannel' = nextChannel
        /\ Opens => /\ HasCall(call.op, nextChannel, "run", call.own)
                    /\ chans' = chans \cup {nextChannel} /\ nextChannel' = nextChannel + 1
    BY <1>0, <1>3, BuildsEffect
  <2> QED
    BY <2>1, <2>2, Zenon DEF Begun
<1>4. CASE WritesRequest
  <2>1. auth' = auth
    BY <1>4 DEF WritesRequest
  <2>2. /\ call.op \in Requests /\ call.at = "run" /\ saved[MySlot] # "idle" /\ Step.do = "write"
        /\ Shape(call.op, saved[MySlot], Step)
        /\ UNCHANGED <<brigade, inbound, add, disc, lst, nextChannel, crashed, late>>
        /\ \E rc : Sent(Step.kind, call.c, rc) /\ Writes1(rc)
    BY <1>0, <1>4, WritesRequestEffect
  <2> QED
    BY <2>1, <2>2 DEF Wrote
<1>5. CASE RefusesPtySize
  <2>1. Alone /\ Returns("fail", 0, eagain)
    BY <1>5 DEF RefusesPtySize, Alone, Quiet, net, peerVars
  <2>2. call.op \in Requests /\ saved[MySlot] # "idle" /\ Step.do = "refuse" /\ Finishes("idle")
    BY <1>0, <1>5, RefusesPtySizeEffect
  <2>3. last' = last \/ last' = Result("fail", 0)
    BY <2>1, ReturnFacts
  <2> QED
    BY <2>1, <2>2, <2>3 DEF Skipped
<1>6. CASE CallsBack
  <2>1. Alone /\ (last' = last \/ Returns("fail", 0, FALSE))
    BY <1>6 DEF CallsBack, Alone, Quiet, net, peerVars
  <2>2. /\ call.op \in Requests /\ saved[MySlot] # "idle" /\ Step.do = "callback"
        /\ \/ Advances(Step.ok.to, call.own)
           \/ Finishes(Step.fail)
           \/ Finishes("idle")
    BY <1>0, <1>6, CallsBackEffect
  <2>3. last' = last \/ last' = Result("fail", 0)
    BY <2>1, ReturnFacts
  <2> QED
    BY <2>1, <2>2, <2>3, Zenon DEF Skipped
<1> QED
  BY <1>1, <1>2, <1>3, <1>4, <1>5, <1>6

\* What the steps that wait for an answer do.
LEMMA AnswerHappens ==
    ASSUME Types, AsksBrigade \/ ReadsAnswer \/ TakesAnswer \/ AnswerFails \/ AnswerTimesOut
    PROVE  Turned \/ (\E i : Takes1(i)) \/ GivesUp1 \/ Failed1 \/ Heard
<1> USE DEF Types
<1>0. InCall
  BY DEF InCall
<1>1. CASE AsksBrigade
  <2>1. \/ \E i : Takes1(i)
        \/ /\ Awaiting /\ GoesTo("read") /\ (\A j \in DOMAIN brigade : ~Fits(brigade[j]))
           /\ Quiet /\ UNCHANGED <<lst, chans, nextChannel, crashed, late, last, auth>>
    BY <1>0, <1>1, AsksBrigadeEffect
  <2>2. Awaiting => call.op \in Called /\ call.at \notin {"free", "await", "freed", "end"}
    BY OpFacts DEF Awaiting, Called, Requests, ChannelOps, AuthOps
  <2> QED
    BY <2>1, <2>2 DEF Turned, Alone
<1>2. CASE ReadsAnswer
  BY <1>0, <1>2, ReadsAnswerEffect DEF Heard
<1>3. CASE TakesAnswer
  BY <1>0, <1>3, TakesAnswerEffect
<1>4. CASE AnswerFails
  BY <1>0, <1>4, AnswerFailsEffect DEF Failed1
<1>5. CASE AnswerTimesOut
  BY <1>0, <1>5, AnswerTimesOutEffect
<1> QED
  BY <1>1, <1>2, <1>3, <1>4, <1>5

\* What the steps of accept and cancel do.
LEMMA ForwardHappens ==
    ASSUME Types,
           ForwardAccept \/ AcceptEnds \/ CancelStart \/ CancelFrees \/ CancelAwaits \/ CancelFreed \/ CancelEnds
    PROVE  Turned \/ Skipped \/ Heard \/ Accepted1 \/ CancelSent \/ Freed1 \/ Cancelled1
<1> USE DEF Types
<1>0. InCall
  BY DEF InCall
<1>1. CASE ForwardAccept
  BY <1>0, <1>1, ForwardAcceptEffect DEF Heard
<1>2. CASE AcceptEnds
  <2>1. /\ call.op = "accept" /\ Quiet /\ saved' = saved
        /\ UNCHANGED <<late, nextChannel, crashed, auth>>
        /\ last' = last \/ \E rc \in {"ok", "fail"} : last' = Result(rc, 0)
        /\ \/ lst.queue # <<>> /\ chans' = chans \cup {Head(lst.queue)} /\ Shrinks(1) /\ Returned
           \/ /\ UNCHANGED <<chans, lst>>
              /\ \/ GoesTo("select") /\ last' = last
                 \/ Returned /\ (last' = last \/ last' = Result("fail", 0))
    BY <1>0, <1>2, AcceptEndsEffect
  <2>2. call.op \in Called /\ call.at \notin {"free", "await", "freed", "end"}
    BY <2>1, OpFacts DEF Called
  <2> QED
    BY <2>1, <2>2 DEF Accepted1, Turned, Skipped, Alone
<1>3. CASE CancelStart
  <2>1. call.at = "run"
    BY <1>3 DEF CancelStart, Running
  <2> QED
    BY <1>0, <1>3, <2>1, CancelStartEffect, Zenon DEF CancelSent
<1>4. CASE CancelFrees
  <2>1. /\ call.op = "cancel" /\ call.at = "free" /\ lst.queue # <<>>
        /\ UNCHANGED <<brigade, inbound, add, disc, chans, nextChannel, crashed, late, last, auth>>
        /\ UNCHANGED <<peer, sock>> \/ \E c, rc : c \in Nat /\ Sent("close", c, rc)
        /\ \/ FreedTo(Len(lst.queue) > 1)
           \/ GoesTo("await") /\ call'.more = (Len(lst.queue) > 1) /\ lst' = lst
           \/ GoesTo("free") /\ lst' = lst
    BY <1>0, <1>4, CancelFreesEffect
  <2> DEFINE b == Len(lst.queue) > 1
  <2>2. b => Len(lst.queue) > 1
    OBVIOUS
  <2> HIDE DEF b
  <2>3. FreedTo(b) => \E more : FreedTo(more) /\ (more => Len(lst.queue) > 1)
    BY <2>2, Zenon
  <2>4. FreedTo(Len(lst.queue) > 1) => \E more : FreedTo(more) /\ (more => Len(lst.queue) > 1)
    BY <2>3 DEF b
  <2> QED
    BY ONLY <2>1, <2>4 DEF Freed1
<1>5. CASE CancelAwaits
  BY <1>0, <1>5, CancelAwaitsEffect DEF Heard
<1>6. CASE CancelFreed
  <2>1. /\ call.op = "cancel" /\ call.at = "freed" /\ Quiet /\ lst.queue # <<>>
        /\ UNCHANGED <<chans, nextChannel, crashed, late, last, auth>>
        /\ FreedTo(call.more)
    BY <1>0, <1>6, CancelFreedEffect
  <2>2. call.more => Len(lst.queue) > 1
    BY <2>1 DEF ListenOK
  <2> QED
    BY <2>1, <2>2 DEF Freed1, Quiet
<1>7. CASE CancelEnds
  BY <1>0, <1>7, CancelEndsEffect DEF Cancelled1
<1> QED
  BY <1>1, <1>2, <1>3, <1>4, <1>5, <1>6, <1>7

\* What the server does.
LEMMA ServerHappens ==
    ASSUME Types, ServerAnswers \/ ConnectionBreaks \/ \E kind \in Kinds : ServerSends(kind)
    PROVE  Served
<1> USE DEF Types
<1>1. CASE ServerAnswers
  <2>1. UNCHANGED <<saved, call, lst, chans, nextChannel, crashed, late, last, auth>> /\ call.op # "none"
    BY <1>1, Zenon DEF ServerAnswers
  <2>2. \E q, t : Replied(q, t)
    BY <1>1, ServerAnswersFlow
  <2> QED
    BY <2>1, <2>2 DEF Served
<1>2. CASE ConnectionBreaks
  <2>1. UNCHANGED <<saved, call, lst, chans, nextChannel, crashed, late, last, auth>> /\ call.op # "none"
    BY <1>2 DEF ConnectionBreaks
  <2>2. Broken
    BY <1>2, BreaksFlow
  <2> QED
    BY <2>1, <2>2 DEF Served
<1>3. ASSUME NEW kind \in Kinds, ServerSends(kind) PROVE Served
  <2>1. UNCHANGED <<saved, call, lst, chans, nextChannel, crashed, late, last, auth>> /\ call.op # "none"
    BY <1>3 DEF ServerSends, peerVars
  <2>2. Unasked(kind)
    BY <1>3, ServerSendsFlow
  <2> QED
    BY <2>1, <2>2 DEF Served
<1> QED
  BY <1>1, <1>2, <1>3

\* Every step is one of these.
LEMMA NextHappens ==
    ASSUME Types, Next
    PROVE  Happens
BY CallHappens, RequestHappens, AnswerHappens, ForwardHappens, ServerHappens DEF Next, Library, Happens

\* A function that goes to another place.
LEMMA GoesControl ==
    ASSUME SavedOK, CallOK, call.op \in Called, NEW x, GoesTo(x), x \in Places(call.op),
           x \in {"read", "match", "fails"} => Awaiting
    PROVE  SavedOK' /\ CallOK'
<1>1. HasCall(call.op, call.c, x, call.own) /\ saved' = saved
  BY DEF GoesTo
<1>2. call.c \in Nat /\ call.own \in Nat
  BY OpFacts
<1>3. call.op \notin Requests => call.own = 0
  BY DEF CallOK
<1> QED
  BY <1>1, <1>2, <1>3, ControlMoves DEF Awaiting

\* A function that goes on in another state.
LEMMA AdvancesControl ==
    ASSUME SavedOK, CallOK, call.op \in Requests, NEW s, NEW n \in Nat, Advances(s, n)
    PROVE  SavedOK' /\ CallOK'
<1>1. HasCall(call.op, call.c, "run", n) /\ Saves(s) /\ s \in States(call.op)
  BY DEF Advances
<1>2. call.c \in Nat /\ call.op \in Called /\ call.op # "accept" /\ "run" \in Places(call.op)
  BY OpFacts DEF Called, Places, Requests, ChannelOps, AuthOps
<1> QED
  BY <1>1, <1>2, ControlMoves

\* A function that returns.
LEMMA FinishesControl ==
    ASSUME SavedOK, CallOK, call.op \in Requests \cup {"cancel"}, NEW s, Finishes(s)
    PROVE  SavedOK' /\ CallOK'
<1>1. /\ s \in States(call.op) \cup {"idle"} /\ (s = "idle" \/ MySlot[1] \in Left)
      /\ Saves(s) /\ Returned
  BY DEF Finishes
<1>2. call.op \in Called /\ call.op # "accept"
  BY DEF Called, Requests, ChannelOps, AuthOps
<1> QED
  BY <1>1, <1>2, ControlReturns

\* The functions and their saved states.
LEMMA ControlStep ==
    ASSUME Types, Next
    PROVE  SavedOK' /\ CallOK'
<1> USE DEF Types
<1>1. CASE Started
  <2>1. /\ saved' = saved /\ call.op = "none"
        /\ call' \in [op : Ops, c : Nat, at : {"run"}, own : {0}, slept : BOOLEAN, more : BOOLEAN]
        /\ call'.op \in Ops /\ call'.own = 0 /\ call'.at = "run" /\ call'.c \in Nat
        /\ call'.op \in ChannelOps => call'.c \in ReqChans
        /\ call'.op \notin ChannelOps => call'.c = 0
    BY <1>1, IdleFacts DEF Started
  <2>2. call'.op # "none" /\ "run" \in Places(call'.op)
    BY <2>1, RequestsAssumption DEF Places
  <2>3. call' \in [op : Ops \cup {"none"}, c : Nat, at : Places(call'.op), own : Nat,
                   slept : BOOLEAN, more : BOOLEAN]
    BY <2>1, <2>2
  <2>4. CallOK'
    BY <2>1, <2>2, <2>3 DEF CallOK
  <2>5. \A t \in Slots : t # CallSlot
    BY <2>1 DEF CallSlot, Slots, AuthOps
  <2> QED
    BY <2>1, <2>4, <2>5 DEF SavedOK
<1>2. CASE Turned
  <2>1. "run" \in Places(call.op) /\ ("read" \in Places(call.op) \/ ~Awaiting)
    BY <1>2, OpFacts DEF Places, Turned, Awaiting, Called, Requests, ChannelOps, AuthOps
  <2> QED
    BY <1>2, <2>1, GoesControl DEF Turned, Places, Awaiting, Called, Requests, ChannelOps, AuthOps
<1>3. CASE Begun
  <2>1. /\ call.op \in Requests /\ Saves("created") /\ "created" \in States(call.op)
        /\ \E d : (d = call.c \/ (Opens /\ d = nextChannel)) /\ HasCall(call.op, d, "run", call.own)
    BY <1>3 DEF Begun
  <2>2. /\ call.c \in Nat /\ call.own \in Nat /\ nextChannel \in Nat /\ call.op \in Called /\ call.op # "accept"
        /\ "run" \in Places(call.op)
    BY <2>1, OpFacts DEF ChansOK, Called, Places, Requests, ChannelOps, AuthOps
  <2> QED
    BY <2>1, <2>2, ControlMoves
<1>4. CASE Skipped
  <2>1. ASSUME call.op \in Requests, NEW s, Advances(s, call.own) PROVE SavedOK' /\ CallOK'
    <3>1. call.own \in Nat
      BY OpFacts
    <3> QED
      BY <2>1, <3>1, AdvancesControl
  <2>2. ASSUME call.op \in Requests, NEW s, Finishes(s) PROVE SavedOK' /\ CallOK'
    BY <2>2, FinishesControl
  <2>3. CASE saved' = saved /\ Returned /\ (call.op = "accept" \/ (call.op \in AuthOps /\ saved[MySlot] = "idle"))
    <3>1. call.op \in Called
      BY <2>3 DEF Called, Requests
    <3> QED
      BY <2>3, <3>1, ControlReturns
  <2> QED
    BY <1>4, <2>1, <2>2, <2>3 DEF Skipped
<1>5. CASE Wrote
  <2>0. PICK rc : Sent(Step.kind, call.c, rc) /\ Writes1(rc)
    BY <1>5 DEF Wrote
  <2>1. call.op \in Requests /\ peer'.asked \in Nat
    BY <1>5, <2>0 DEF Wrote, Sent, Peers
  <2>2. ASSUME Advances(Step.ok.to, IF disc THEN 0 ELSE peer'.asked) PROVE SavedOK' /\ CallOK'
    <3> DEFINE n == IF disc THEN 0 ELSE peer'.asked
    <3>1. n \in Nat /\ Advances(Step.ok.to, n)
      BY <2>1, <2>2
    <3> HIDE DEF n
    <3> QED
      BY <2>1, <3>1, AdvancesControl
  <2>3. CASE GoesTo("select")
    <3>1. "select" \in Places(call.op) /\ call.op \in Called
      BY <2>1 DEF Places, Called, Requests, ChannelOps, AuthOps
    <3> QED
      BY <2>3, <3>1, GoesControl
  <2>4. ASSUME NEW s, Finishes(s) PROVE SavedOK' /\ CallOK'
    BY <2>1, <2>4, FinishesControl
  <2> QED
    BY <2>0, <2>2, <2>3, <2>4 DEF Writes1
<1>6. ASSUME NEW i, Takes1(i) PROVE SavedOK' /\ CallOK'
  <2>1. call.op \in Requests /\ call.own \in Nat
    BY <1>6, OpFacts DEF Takes1, Awaiting
  <2>2. ASSUME NEW s, Advances(s, call.own) PROVE SavedOK' /\ CallOK'
    BY <2>1, <2>2, AdvancesControl
  <2>3. ASSUME NEW s, Finishes(s) PROVE SavedOK' /\ CallOK'
    BY <2>1, <2>3, FinishesControl
  <2> QED
    BY <1>6, <2>2, <2>3 DEF Takes1
<1>7. CASE GivesUp1 \/ Failed1
  <2>1. call.op \in Requests /\ Finishes("idle")
    BY <1>7 DEF GivesUp1, Failed1, Fails1, Awaiting
  <2> QED
    BY <2>1, FinishesControl
<1>8. CASE Heard
  <2>1. PICK rc, x :
         /\ GoesTo(x)
         /\ \/ Awaiting /\ call.at = "read" /\ Listened(rc, x)
            \/ call.op = "accept" /\ x \in {"run", "EAGAIN", "zero", "FAIL"}
            \/ call.op = "cancel" /\ call.at = "await" /\ x \in {"await", "freed"} /\ call'.more = call.more
    BY <1>8 DEF Heard
  <2>2. call.op \in Called /\ x \in Places(call.op) /\ (x \in {"read", "match", "fails"} => Awaiting)
    BY <2>1 DEF Called, Places, Awaiting, Listened, Requests, ChannelOps, AuthOps
  <2> QED
    BY <2>1, <2>2, GoesControl
<1>9. CASE Accepted1
  BY <1>9, ControlReturns DEF Accepted1, Called
<1>10. CASE CancelSent
  <2>1. ASSUME NEW s \in {"created", "sent"}, NEW x \in {"end", "free", "select"},
               Saves(s), HasCall(call.op, call.c, x, call.own)
        PROVE  SavedOK' /\ CallOK'
    <3>1. /\ call.op \in Called /\ call.op # "accept" /\ call.c \in Nat /\ call.own \in Nat
          /\ call.op \notin Requests => call.own = 0
      BY <1>10, OpFacts DEF CancelSent, Called, CallOK
    <3>2. s \in States(call.op) /\ x \in Places(call.op) /\ x \notin {"read", "match", "fails"}
      BY <1>10, <2>1 DEF CancelSent, States, Places
    <3> QED
      BY <2>1, <3>1, <3>2, ControlMoves
  <2>2. CASE Finishes("idle")
    BY <1>10, <2>2, FinishesControl DEF CancelSent
  <2> QED
    BY <1>10, <2>1, <2>2 DEF CancelSent
<1>11. CASE Freed1
  <2>1. call.op = "cancel" /\ call.op \in Called
    BY <1>11 DEF Freed1, Called
  <2>2. PICK x \in {"free", "await", "end"} : GoesTo(x)
    BY <1>11 DEF Freed1, FreedTo
  <2>3. x \in Places(call.op) /\ x \notin {"read", "match", "fails"}
    BY <2>1, <2>2 DEF Places
  <2> QED
    BY <2>1, <2>2, <2>3, GoesControl
<1>12. CASE Cancelled1
  BY <1>12, FinishesControl DEF Cancelled1
<1>13. CASE Served
  <2>1. saved' = saved /\ call' = call
    BY <1>13 DEF Served
  <2>2. CallSlot' = CallSlot /\ MySlot' = MySlot /\ Step' = Step
    BY <2>1 DEF CallSlot, MySlot, Step
  <2>3. SavedOK'
    BY <2>1, <2>2 DEF SavedOK
  <2>4. CallOK'
    BY <2>1, <2>2 DEF CallOK
  <2> QED
    BY <2>3, <2>4
<1> QED
  BY <1>1, <1>2, <1>3, <1>4, <1>5, <1>6, <1>7, <1>8, <1>9, <1>10, <1>11, <1>12, <1>13, NextHappens DEF Happens

\* Answers that nobody waits for.
LEMMA LateStep ==
    ASSUME Types, Next
    PROVE  LateOK' /\ late \subseteq late'
<1> USE DEF Types
<1>1. CASE GivesUp1
  <2> DEFINE c == IF ByChannel(Step.types) THEN call.c ELSE 0
  <2>1. Shape(call.op, saved[MySlot], Step) /\ Step.do = "require" /\ late' = late \cup {<<Sort(call.op), c>>}
    BY <1>1 DEF GivesUp1, Fails1, Awaiting
  <2>2. /\ ByChannel(Step.types) <=> Sort(call.op) \in {"success", "openOk"}
        /\ call.c \in Nat /\ Sort(call.op) \in Sorts
    BY <2>1, OpFacts DEF Shape, Sort, Sorts
  <2>3. c \in Nat /\ (Sort(call.op) \in {"requestOk", "authOk"} => c = 0)
    BY <2>2
  <2> HIDE DEF c
  <2> QED
    BY <2>1, <2>2, <2>3 DEF LateOK
<1>2. CASE late' = late
  BY <1>2 DEF LateOK
<1>3. GivesUp1 \/ late' = late
  BY NextHappens DEF Happens, Started, Turned, Alone, Begun, Skipped, Wrote, Takes1, Failed1, Heard,
     Accepted1, CancelSent, Freed1, Cancelled1, Served
<1> QED
  BY <1>1, <1>2, <1>3

\* A number that is not changed by less than it grows.
LEMMA OwnStep ==
    ASSUME Types, OrderInv, OwnInv, Next
    PROVE  OwnInv'
<1> USE DEF Types
<1>1. peer.asked <= peer'.asked /\ peer.asked \in Nat /\ peer'.asked \in Nat /\ call.own \in Nat
  <2>1. Flows /\ disc \in BOOLEAN
    BY NextFlows DEF OthersOK
  <2>2. NetOK' /\ peer.asked <= peer'.asked
    BY <2>1, NetStep, OrderStep, Zenon
  <2>3. \A q \in Peers : q.asked \in Nat
    BY DEF Peers
  <2> QED
    BY <2>2, <2>3, OpFacts DEF NetOK
<1>2. CASE call'.own = call.own
  BY <1>1, <1>2 DEF OwnInv
<1>3. CASE call'.own = 0
  BY <1>1, <1>3 DEF OwnInv
<1>4. CASE call'.own = peer'.asked
  BY <1>1, <1>4 DEF OwnInv
<1>5. Returned => call'.own = 0
  BY IdleFacts DEF Returned, HasCall
<1>6. \A s : Finishes(s) => call'.own = 0
  BY <1>5 DEF Finishes
<1>7. CASE Wrote
  BY <1>2, <1>3, <1>4, <1>6, <1>7 DEF Wrote, Writes1, Advances, GoesTo, HasCall
<1>8. ASSUME NEW i, Takes1(i) PROVE OwnInv'
  BY <1>2, <1>3, <1>6, <1>8 DEF Takes1, Advances, HasCall
<1>9. CASE Started \/ Turned \/ Begun \/ Skipped \/ GivesUp1 \/ Failed1 \/ Heard
  BY <1>2, <1>3, <1>5, <1>6, <1>9 DEF Started, Turned, Begun, Skipped, GivesUp1, Failed1, Fails1, Heard,
     Advances, GoesTo, HasCall
<1>10. CASE Accepted1 \/ CancelSent \/ Freed1 \/ Cancelled1 \/ Served
  BY <1>2, <1>3, <1>5, <1>6, <1>10 DEF Accepted1, CancelSent, Freed1, FreedTo, Cancelled1, Served,
     Advances, GoesTo, HasCall
<1> QED
  BY <1>7, <1>8, <1>9, <1>10, NextHappens DEF Happens

-----------------------------------------------------------------------------
(***************************************************************************)
(* The listener and the channels.                                          *)
(***************************************************************************)
\* The elements of a queue.
LEMMA QueueFacts ==
    ASSUME NEW s \in Seq(Nat)
    PROVE  /\ Len(s) \in Nat /\ Range(s) \subseteq Nat
           /\ s = <<>> <=> Len(s) = 0
           /\ \A n \in Nat : /\ Append(s, n) \in Seq(Nat) /\ Len(Append(s, n)) = Len(s) + 1
                             /\ Range(Append(s, n)) = Range(s) \cup {n}
           /\ s # <<>> => /\ Tail(s) \in Seq(Nat) /\ Len(Tail(s)) = Len(s) - 1
                          /\ Head(s) \in Nat /\ Range(s) = Range(Tail(s)) \cup {Head(s)}
<1>1. Len(s) \in Nat /\ Range(s) \subseteq Nat /\ (s = <<>> <=> Len(s) = 0)
  BY DEF Range
<1>2. ASSUME NEW n \in Nat
      PROVE  /\ Append(s, n) \in Seq(Nat) /\ Len(Append(s, n)) = Len(s) + 1
             /\ Range(Append(s, n)) = Range(s) \cup {n}
  <2> DEFINE r == Append(s, n)
  <2>1. /\ r \in Seq(Nat) /\ Len(r) = Len(s) + 1
        /\ \A k \in DOMAIN s : k \in DOMAIN r /\ r[k] = s[k]
        /\ Len(r) \in DOMAIN r /\ r[Len(r)] = n
        /\ \A k \in DOMAIN r : (k \in DOMAIN s /\ r[k] = s[k]) \/ (k = Len(s) + 1 /\ r[k] = n)
    BY AppendFacts
  <2> HIDE DEF r
  <2>2. Range(r) = Range(s) \cup {n}
    BY <2>1, Zenon DEF Range
  <2> QED
    BY <2>1, <2>2 DEF r
<1>3. ASSUME s # <<>>
      PROVE  /\ Tail(s) \in Seq(Nat) /\ Len(Tail(s)) = Len(s) - 1
             /\ Head(s) \in Nat /\ Range(s) = Range(Tail(s)) \cup {Head(s)}
  <2> DEFINE r == Tail(s)
  <2>1. /\ r \in Seq(Nat) /\ Len(r) = Len(s) - 1 /\ Head(s) = s[1] /\ 1 \in DOMAIN s /\ Head(s) \in Nat
        /\ \A k \in DOMAIN r : k + 1 \in DOMAIN s /\ k + 1 > 1 /\ r[k] = s[k + 1]
        /\ \A k \in DOMAIN s : k # 1 => k - 1 \in DOMAIN r /\ r[k - 1] = s[k]
    BY <1>3, TailFacts
  <2> HIDE DEF r
  <2>2. Range(s) \subseteq Range(r) \cup {Head(s)}
    <3> SUFFICES ASSUME NEW k \in DOMAIN s PROVE s[k] \in Range(r) \cup {Head(s)}
      BY Zenon DEF Range
    <3>1. CASE k = 1
      BY <2>1, <3>1
    <3>2. CASE k # 1
      <4>1. k - 1 \in DOMAIN r /\ r[k - 1] = s[k]
        BY <2>1, <3>2
      <4> QED
        BY <4>1 DEF Range
    <3> QED
      BY <3>1, <3>2
  <2>3. Range(r) \cup {Head(s)} \subseteq Range(s)
    BY <2>1 DEF Range
  <2> QED
    BY <2>1, <2>2, <2>3 DEF r
<1> QED
  BY <1>1, <1>2, <1>3

\* A listener with a field that is changed.
LEMMA ListenerFields ==
    ASSUME NEW a, NEW b, NEW c, NEW d, NEW x
    PROVE  /\ [[on |-> a, queue |-> b, size |-> c, cancelled |-> d] EXCEPT !.cancelled = x] =
              [on |-> a, queue |-> b, size |-> c, cancelled |-> x]
           /\ [[on |-> a, queue |-> b, size |-> c, cancelled |-> d] EXCEPT !.on = x] =
              [on |-> x, queue |-> b, size |-> c, cancelled |-> d]
OBVIOUS

\* A listener that is made, and one that is gone.
LEMMA ListenerFacts ==
    ASSUME lst \in Listeners
    PROVE  /\ lst.on \in BOOLEAN /\ lst.queue \in Seq(Nat) /\ lst.size \in Int /\ lst.cancelled \in BOOLEAN
           /\ NewListener \in Listeners /\ NewListener.on = TRUE /\ NewListener.queue = <<>>
           /\ NewListener.size = 0 /\ NewListener.cancelled = lst.cancelled
           /\ [NoListener EXCEPT !.cancelled = TRUE] \in Listeners
           /\ [NoListener EXCEPT !.cancelled = TRUE].on = FALSE
           /\ [NoListener EXCEPT !.cancelled = TRUE].queue = <<>>
           /\ [NoListener EXCEPT !.cancelled = TRUE].size = 0
           /\ [NoListener EXCEPT !.cancelled = TRUE].cancelled = TRUE
<1>1. lst.on \in BOOLEAN /\ lst.queue \in Seq(Nat) /\ lst.size \in Int /\ lst.cancelled \in BOOLEAN
  BY DEF Listeners
<1>2. NewListener = [on |-> TRUE, queue |-> <<>>, size |-> 0, cancelled |-> lst.cancelled]
  <2> DEFINE f == FALSE
             t == TRUE
  <2>1. /\ NoListener = [on |-> f, queue |-> <<>>, size |-> 0, cancelled |-> f]
        /\ NewListener = [[NoListener EXCEPT !.on = t] EXCEPT !.cancelled = lst.cancelled]
    BY DEF NoListener, NewListener
  <2> HIDE DEF f, t
  <2>2. NewListener = [on |-> t, queue |-> <<>>, size |-> 0, cancelled |-> lst.cancelled]
    BY <2>1, ListenerFields
  <2> QED
    BY <2>2 DEF t
<1>3. [NoListener EXCEPT !.cancelled = TRUE] = [on |-> FALSE, queue |-> <<>>, size |-> 0, cancelled |-> TRUE]
  <2> DEFINE f == FALSE
             t == TRUE
  <2>1. NoListener = [on |-> f, queue |-> <<>>, size |-> 0, cancelled |-> f]
    BY DEF NoListener
  <2> HIDE DEF f, t
  <2>2. [NoListener EXCEPT !.cancelled = t] = [on |-> f, queue |-> <<>>, size |-> 0, cancelled |-> t]
    BY <2>1, ListenerFields
  <2> QED
    BY <2>2 DEF f, t
<1>4. <<>> \in Seq(Nat)
  OBVIOUS
<1>5. /\ NewListener \in Listeners /\ NewListener.on = TRUE /\ NewListener.queue = <<>>
      /\ NewListener.size = 0 /\ NewListener.cancelled = lst.cancelled
  BY <1>1, <1>2, <1>4 DEF Listeners
<1>6. /\ [NoListener EXCEPT !.cancelled = TRUE] \in Listeners
      /\ [NoListener EXCEPT !.cancelled = TRUE].on = FALSE
      /\ [NoListener EXCEPT !.cancelled = TRUE].queue = <<>>
      /\ [NoListener EXCEPT !.cancelled = TRUE].size = 0
      /\ [NoListener EXCEPT !.cancelled = TRUE].cancelled = TRUE
  <2> DEFINE n == [on |-> FALSE, queue |-> <<>>, size |-> 0, cancelled |-> TRUE]
  <2>1. n \in Listeners /\ n.on = FALSE /\ n.queue = <<>> /\ n.size = 0 /\ n.cancelled = TRUE
    BY <1>4 DEF Listeners
  <2> QED
    BY <1>3, <2>1
<1> QED
  BY <1>1, <1>5, <1>6

\* What a read does to the channels.
LEMMA ReadChans ==
    ASSUME NEW rc, Reads(rc)
    PROVE  \/ UNCHANGED <<lst, chans, nextChannel>>
           \/ UNCHANGED <<lst, chans>> /\ nextChannel' = nextChannel + 1
           \/ lst' = lst /\ chans' = chans \cup {nextChannel} /\ nextChannel' = nextChannel + 1
           \/ /\ lst.on /\ (QueueMax # 0 => lst.size < QueueMax)
              /\ chans' = chans /\ Grows(nextChannel) /\ nextChannel' = nextChannel + 1
<1>1. CASE Stalls(rc) \/ Gets(rc)
  BY <1>1 DEF Stalls, Gets
<1>2. CASE Meets(rc)
  <2>1. PICK type \in {"forward", "x11"}, confirm \in BOOLEAN, id \in Nat, w \in {"NONE", "EAGAIN", "FAIL"} :
          Connected(type, confirm, id, w, rc)
    BY <1>2 DEF Meets
  <2>2. /\ ~Resumed /\ confirm =>
             /\ id = nextChannel /\ nextChannel' = id + 1
             /\ type = "forward" => lst.on /\ (QueueMax # 0 => lst.size < QueueMax)
        /\ Resumed \/ ~confirm => nextChannel' = nextChannel
        /\ w = "NONE" /\ confirm /\ ~Resumed /\ type = "x11" => chans' = chans \cup {id} /\ lst' = lst
        /\ w = "NONE" /\ confirm /\ ~Resumed /\ type = "forward" => chans' = chans /\ Grows(id)
        /\ w # "NONE" \/ ~confirm \/ Resumed => chans' = chans /\ lst' = lst
    BY <2>1 DEF Connected
  <2> QED
    BY <2>1, <2>2
<1> QED
  BY <1>1, <1>2 DEF Reads

\* The channels and their numbers.
LEMMA ChansStep ==
    ASSUME Types, Next
    PROVE  ChansOK' /\ nextChannel <= nextChannel'
<1> USE DEF Types
<1>1. /\ chans \subseteq Nat /\ nextChannel \in Nat /\ lst \in Listeners /\ lst.queue \in Seq(Nat)
      /\ \A c \in chans \cup Range(lst.queue) : c < nextChannel
      /\ Range(lst.queue) \subseteq Nat
  BY ListenerFacts, QueueFacts DEF ChansOK, ListenOK
<1>2. ASSUME chans' \subseteq chans \cup Range(lst.queue), Range(lst'.queue) \subseteq Range(lst.queue),
             nextChannel' \in {nextChannel, nextChannel + 1}
      PROVE  ChansOK' /\ nextChannel <= nextChannel'
  <2>1. chans' \subseteq Nat /\ nextChannel' \in Nat /\ nextChannel <= nextChannel'
    BY <1>1, <1>2
  <2>2. ASSUME NEW c \in chans' \cup Range(lst'.queue) PROVE c < nextChannel'
    BY <1>1, <1>2, <2>2
  <2> QED
    BY <2>1, <2>2 DEF ChansOK
<1>3. ASSUME chans' \cup Range(lst'.queue) \subseteq chans \cup Range(lst.queue) \cup {nextChannel},
             nextChannel' = nextChannel + 1
      PROVE  ChansOK' /\ nextChannel <= nextChannel'
  <2>1. nextChannel' \in Nat /\ nextChannel <= nextChannel'
    BY <1>1, <1>3
  <2>2. ASSUME NEW c \in chans' \cup Range(lst'.queue) PROVE c \in Nat /\ c < nextChannel'
    <3>1. c \in chans \cup Range(lst.queue) \cup {nextChannel}
      BY <1>3
    <3>2. CASE c = nextChannel
      BY <1>1, <1>3, <3>2
    <3>3. CASE c \in chans \cup Range(lst.queue)
      <4>1. c \in Nat /\ c < nextChannel
        BY <1>1, <3>3
      <4> QED
        BY <1>1, <1>3, <4>1
    <3> QED
      BY <3>1, <3>2, <3>3
  <2> QED
    BY <2>1, <2>2 DEF ChansOK
<1>4. CASE UNCHANGED <<lst, chans, nextChannel>>
  BY <1>2, <1>4
<1>5. Range(<<>>) = {}
  BY DEF Range
<1>6. CASE Begun
  BY <1>3, <1>2, <1>6 DEF Begun
<1>7. CASE Wrote
  <2>1. chans' \subseteq chans /\ lst' = lst /\ nextChannel' = nextChannel
    BY <1>7 DEF Wrote, Writes1
  <2> QED
    BY <1>2, <2>1
<1>8. ASSUME NEW i, Takes1(i) PROVE ChansOK' /\ nextChannel <= nextChannel'
  <2>1. chans' \subseteq chans /\ (lst' = lst \/ lst' = NewListener) /\ nextChannel' = nextChannel
    BY <1>8 DEF Takes1
  <2>2. Range(lst'.queue) \subseteq Range(lst.queue)
    BY <1>1, <1>5, <2>1, ListenerFacts
  <2> QED
    BY <1>2, <2>1, <2>2
<1>9. CASE GivesUp1 \/ Failed1
  <2>1. chans' \subseteq chans /\ lst' = lst /\ nextChannel' = nextChannel
    BY <1>9 DEF GivesUp1, Failed1, Fails1
  <2> QED
    BY <1>2, <2>1
<1>10. CASE Heard
  <2>1. PICK rc : Reads(rc)
    BY <1>10 DEF Heard
  <2>2. CASE UNCHANGED <<lst, chans>> /\ nextChannel' = nextChannel + 1
    BY <1>2, <2>2
  <2>3. CASE lst' = lst /\ chans' = chans \cup {nextChannel} /\ nextChannel' = nextChannel + 1
    BY <1>3, <2>3
  <2>4. CASE chans' = chans /\ Grows(nextChannel) /\ nextChannel' = nextChannel + 1
    <3>1. Range(lst'.queue) = Range(lst.queue) \cup {nextChannel}
      BY <1>1, <2>4, QueueFacts DEF Grows
    <3> QED
      BY <1>3, <2>4, <3>1
  <2> QED
    BY <1>4, <2>1, <2>2, <2>3, <2>4, ReadChans
<1>11. CASE Accepted1
  <2>1. /\ chans' = chans \cup {Head(lst.queue)} /\ nextChannel' = nextChannel /\ lst.queue # <<>>
        /\ lst'.queue = Tail(lst.queue)
    BY <1>11 DEF Accepted1, Shrinks
  <2>2. Range(lst.queue) = Range(Tail(lst.queue)) \cup {Head(lst.queue)}
    BY <1>1, <2>1, QueueFacts
  <2> QED
    BY <1>2, <2>1, <2>2
<1>12. CASE Freed1
  <2>1. /\ chans' = chans /\ nextChannel' = nextChannel /\ lst.queue # <<>>
        /\ lst' = lst \/ lst'.queue = Tail(lst.queue)
    BY <1>12 DEF Freed1, FreedTo, Shrinks
  <2>2. Range(lst.queue) = Range(Tail(lst.queue)) \cup {Head(lst.queue)}
    BY <1>1, <2>1, QueueFacts
  <2> QED
    BY <1>2, <2>1, <2>2
<1>13. CASE Cancelled1
  <2>1. chans' = chans /\ nextChannel' = nextChannel /\ lst' = [NoListener EXCEPT !.cancelled = TRUE]
    BY <1>13 DEF Cancelled1
  <2>2. Range(lst'.queue) \subseteq Range(lst.queue)
    BY <1>1, <1>5, <2>1, ListenerFacts
  <2> QED
    BY <1>2, <2>1, <2>2
<1> QED
  BY <1>4, <1>6, <1>7, <1>8, <1>9, <1>10, <1>11, <1>12, <1>13, NextHappens
  DEF Happens, Started, Turned, Alone, Skipped, CancelSent, Served

\* What does not touch the listener.
LEMMA ListenKept ==
    ASSUME CallOK, CallOK', ListenOK, lst' = lst, call.at \notin {"free", "await", "freed", "end"},
           call'.op = "listen" => ~lst.on,
           call'.at \in {"free", "await", "freed"} => lst.queue # <<>>,
           call'.at \notin {"await", "freed"}
    PROVE  ListenOK'
BY DEF ListenOK, Freeing

\* The place a call returns to.
LEMMA ReturnPlace ==
    ASSUME CallOK, Returned
    PROVE  call'.at \in {"idle", "select"} /\ call'.op \in {"none", call.op} /\ call'.op # "cancel"
<1>1. call'.at \in {"idle", "select"} /\ call'.op \in {"none", call.op}
  BY IdleFacts DEF Returned, HasCall
<1>2. call'.op # "cancel"
  BY IdleFacts DEF Returned, HasCall, PointerOps
<1> QED
  BY <1>1, <1>2

\* The listener and its queue.
LEMMA ListenStep ==
    ASSUME Types, Next
    PROVE  ListenOK'
<1> USE DEF Types
<1>0. /\ CallOK' /\ lst \in Listeners /\ lst.queue \in Seq(Nat) /\ lst.size \in Int
      /\ Len(lst.queue) \in Nat /\ nextChannel \in Nat
  BY ControlStep, ListenerFacts, QueueFacts DEF ListenOK, ChansOK
<1>1. CASE Started
  <2>1. call.at = "idle" /\ call'.at = "run" /\ lst' = lst /\ (call'.op = "listen" => ~lst.on)
    BY <1>1, IdleFacts DEF Started
  <2> QED
    BY <1>0, <2>1, ListenKept
<1>2. CASE Turned
  <2>1. /\ lst' = lst /\ call'.op = call.op /\ call'.at \in {"run", "select", "read"}
        /\ call.at \notin {"free", "await", "freed", "end"}
    BY <1>2 DEF Turned, Alone, GoesTo, HasCall
  <2>2. call'.op = "listen" => ~lst.on
    BY <2>1 DEF ListenOK
  <2> QED
    BY <1>0, <2>1, <2>2, ListenKept
<1>3. \A s : Finishes(s) => /\ call'.at \in {"idle", "select"} /\ call'.op \in {"none", call.op}
                            /\ call'.op # "cancel"
  BY ReturnPlace DEF Finishes
<1>4. ASSUME lst' = lst, call.op \in Requests \cup {"accept"}, call'.op \in {"none", call.op},
             call'.at \notin {"free", "await", "freed", "end"}
      PROVE  ListenOK'
  <2>1. call.at \notin {"free", "await", "freed", "end"}
    BY <1>4, OpFacts DEF Requests, ChannelOps, AuthOps
  <2>2. call'.op = "listen" => ~lst.on
    BY <1>4 DEF ListenOK
  <2> QED
    BY <1>0, <1>4, <2>1, <2>2, ListenKept
<1>5. CASE Begun
  BY <1>4, <1>5 DEF Begun, HasCall
<1>6. CASE Skipped
  <2>1. lst' = lst /\ call.op \in Requests \cup {"accept"}
    BY <1>6 DEF Skipped, Alone, Requests
  <2>2. call'.op \in {"none", call.op} /\ call'.at \in {"idle", "select", "run"}
    BY <1>3, <1>6, ReturnPlace DEF Skipped, Advances, HasCall
  <2> QED
    BY <1>4, <2>1, <2>2
<1>7. CASE Wrote
  <2>1. lst' = lst /\ call.op \in Requests
    BY <1>7 DEF Wrote
  <2>2. call'.op \in {"none", call.op} /\ call'.at \in {"idle", "select", "run"}
    BY <1>3, <1>7 DEF Wrote, Writes1, Advances, GoesTo, HasCall
  <2> QED
    BY <1>4, <2>1, <2>2
<1>8. ASSUME NEW i, Takes1(i) PROVE ListenOK'
  <2>1. /\ call.op \in Requests /\ Shape(call.op, saved[MySlot], Step) /\ Step.do = "require"
        /\ brigade[i].type \in Range(Step.types)
    BY <1>8 DEF Takes1, Awaiting, Fits
  <2>2. call'.op \in {"none", call.op} /\ call'.at \in {"idle", "select", "run"}
    BY <1>3, <1>8 DEF Takes1, Advances, HasCall
  <2>3. CASE brigade[i].type # "requestOk"
    BY <1>4, <1>8, <2>1, <2>2, <2>3 DEF Takes1
  <2>4. CASE brigade[i].type = "requestOk"
    <3>1. Step.on[brigade[i].type].rc = "ok"
      BY <2>1, <2>4 DEF Shape
    <3>2. call' = Idle /\ lst' = NewListener
      BY <1>8, <2>4, <3>1 DEF Takes1
    <3>3. Len(<<>>) = 0
      OBVIOUS
    <3>4. QueueMax \in Nat
      BY RequestsAssumption
    <3> QED
      BY <1>0, <3>2, <3>3, <3>4, IdleFacts, ListenerFacts DEF ListenOK
  <2> QED
    BY <2>3, <2>4
<1>9. CASE GivesUp1 \/ Failed1
  <2>1. lst' = lst /\ call.op \in Requests /\ Finishes("idle")
    BY <1>9 DEF GivesUp1, Failed1, Fails1, Awaiting
  <2> QED
    BY <1>3, <1>4, <2>1
<1>10. CASE Heard
  <2>1. PICK rc, x :
         /\ Reads(rc) /\ GoesTo(x)
         /\ \/ Awaiting /\ call.at = "read" /\ Listened(rc, x)
            \/ call.op = "accept" /\ x \in {"run", "EAGAIN", "zero", "FAIL"}
            \/ call.op = "cancel" /\ call.at = "await" /\ x \in {"await", "freed"} /\ call'.more = call.more
    BY <1>10 DEF Heard
  <2>2. call'.op = call.op /\ call'.at = x
    BY <2>1 DEF GoesTo, HasCall
  <2>3. \/ /\ call.at \notin {"free", "await", "freed", "end"} /\ x \notin {"free", "await", "freed", "end"}
        \/ call.op = "cancel" /\ call.at = "await" /\ x \in {"await", "freed"} /\ call'.more = call.more
    BY <2>1, OpFacts DEF Awaiting, Listened, Requests, ChannelOps, AuthOps
  <2>4. CASE lst' = lst
    BY <1>0, <2>2, <2>3, <2>4 DEF ListenOK, Freeing
  <2>5. CASE lst.on /\ (QueueMax # 0 => lst.size < QueueMax) /\ Grows(nextChannel)
    <3>1. /\ lst' \in Listeners /\ lst'.on = TRUE /\ lst'.size = lst.size + 1
          /\ lst'.queue = Append(lst.queue, nextChannel)
      BY <1>0, <2>5, ListenerFacts DEF Grows
    <3>2. Len(lst'.queue) = Len(lst.queue) + 1 /\ lst'.queue # <<>>
      <4> DEFINE r == Append(lst.queue, nextChannel)
      <4>1. r \in Seq(Nat) /\ Len(r) = Len(lst.queue) + 1
        BY <1>0, QueueFacts
      <4> HIDE DEF r
      <4>2. r = <<>> <=> Len(r) = 0
        BY <4>1, QueueFacts
      <4>3. r # <<>>
        BY ONLY <1>0, <4>1, <4>2
      <4> QED
        BY <3>1, <4>1, <4>3 DEF r
    <3>3. QueueMax # 0 => lst'.size <= QueueMax
      BY <1>0, <2>5, <3>1, RequestsAssumption
    <3>4. call'.op = "listen" => ~lst'.on
      BY <2>2, <2>5 DEF ListenOK
    <3>5. lst'.size = Len(lst'.queue) \/ (Freeing' /\ lst'.size >= Len(lst'.queue))
      BY <1>0, <2>2, <2>3, <3>1, <3>2 DEF ListenOK, Freeing
    <3>6. call'.at \in {"await", "freed"} /\ call'.more => Len(lst'.queue) > 1
      <4>1. call'.at \in {"await", "freed"} /\ call'.more => Len(lst.queue) > 1
        BY <2>2, <2>3 DEF ListenOK
      <4> QED
        BY ONLY <1>0, <3>2, <4>1
    <3> QED
      BY <3>1, <3>2, <3>3, <3>4, <3>5, <3>6 DEF ListenOK
  <2> QED
    BY <2>1, <2>4, <2>5, ReadChans
<1>11. CASE Accepted1
  <2>1. /\ call.op = "accept" /\ lst.queue # <<>> /\ Shrinks(1) /\ Returned
    BY <1>11 DEF Accepted1
  <2>2. call.at \notin {"free", "await", "freed", "end"} /\ ~Freeing
    BY <2>1, OpFacts DEF Freeing
  <2>3. call'.at \in {"idle", "select"} /\ call'.op # "listen"
    BY <2>1, ReturnPlace
  <2>4. /\ lst' \in Listeners /\ lst'.on = lst.on /\ lst'.size = lst.size - 1 /\ lst'.queue = Tail(lst.queue)
        /\ Len(lst'.queue) = Len(lst.queue) - 1
    BY <1>0, <2>1, QueueFacts DEF Shrinks
  <2>5. lst'.size = Len(lst'.queue) /\ (QueueMax # 0 => lst'.size <= QueueMax)
    BY <1>0, <2>2, <2>4, RequestsAssumption DEF ListenOK
  <2>6. ~lst'.on => lst'.queue = <<>>
    BY <2>1, <2>4 DEF ListenOK
  <2> QED
    BY <2>3, <2>4, <2>5, <2>6 DEF ListenOK
<1>12. CASE CancelSent
  <2>1. lst' = lst /\ call.at = "run" /\ call.op = "cancel"
    BY <1>12 DEF CancelSent
  <2>2. /\ call'.op \in {"none", "cancel"} /\ call'.at \in {"idle", "end", "free", "select"}
        /\ call'.at = "free" => lst.queue # <<>>
    BY <1>3, <1>12, <2>1 DEF CancelSent, HasCall
  <2> QED
    BY <1>0, <2>1, <2>2, ListenKept
<1>13. CASE Freed1
  <2>1. /\ call.op = "cancel" /\ call.at \in {"free", "freed"} /\ lst.queue # <<>>
        /\ \/ \E more : FreedTo(more) /\ (more => Len(lst.queue) > 1)
           \/ GoesTo("await") /\ call'.more = (Len(lst.queue) > 1) /\ lst' = lst
           \/ GoesTo("free") /\ lst' = lst
    BY <1>13 DEF Freed1
  <2>2. lst.size >= Len(lst.queue)
    BY <1>0 DEF ListenOK
  <2>3. CASE lst' = lst /\ GoesTo("free")
    <3>1. call'.op = "cancel" /\ call'.at = "free"
      BY <2>1, <2>3 DEF GoesTo, HasCall
    <3> QED
      BY <1>0, <2>1, <2>2, <2>3, <3>1 DEF ListenOK, Freeing
  <2>4. CASE lst' = lst /\ GoesTo("await") /\ call'.more = (Len(lst.queue) > 1)
    <3>1. call'.op = "cancel" /\ call'.at = "await" /\ (call'.more => Len(lst.queue) > 1)
      BY <2>1, <2>4 DEF GoesTo, HasCall
    <3> QED
      BY <1>0, <2>1, <2>2, <2>4, <3>1 DEF ListenOK, Freeing
  <2>5. ASSUME NEW more, FreedTo(more), more => Len(lst.queue) > 1 PROVE ListenOK'
    <3>1. /\ lst' \in Listeners /\ lst'.on = lst.on /\ lst'.size = lst.size - 0 /\ lst'.queue = Tail(lst.queue)
          /\ Len(lst'.queue) = Len(lst.queue) - 1 /\ (lst'.queue = <<>> <=> Len(lst'.queue) = 0)
      BY <1>0, <2>1, <2>5, QueueFacts DEF FreedTo, Shrinks
    <3>2. call'.op = "cancel" /\ call'.at \in {"free", "end"} /\ (call'.at = "free" => Len(lst.queue) > 1)
      BY <2>1, <2>5 DEF FreedTo, GoesTo, HasCall
    <3>3. lst'.size >= Len(lst'.queue) /\ lst'.size = lst.size
      BY <1>0, <2>2, <3>1
    <3>4. ~lst'.on => lst'.queue = <<>>
      BY <2>1, <3>1 DEF ListenOK
    <3>5. call'.at = "free" => lst'.queue # <<>>
      <4> SUFFICES ASSUME call'.at = "free", lst'.queue = <<>> PROVE FALSE
        OBVIOUS
      <4>1. Len(lst'.queue) = 0
        BY <3>1, Zenon
      <4>2. Len(lst.queue) > 1
        BY <3>2
      <4>3. Len(lst'.queue) = Len(lst.queue) - 1 /\ Len(lst.queue) \in Nat
        BY <1>0, <3>1
      <4> DEFINE k == Len(lst.queue)
                 m == Len(lst'.queue)
      <4> HIDE DEF k, m
      <4>4. m = 0 /\ k > 1 /\ m = k - 1 /\ k \in Nat
        BY <4>1, <4>2, <4>3 DEF k, m
      <4> QED
        BY ONLY <4>4
    <3> QED
      BY <3>1, <3>2, <3>3, <3>4, <3>5 DEF ListenOK, Freeing
  <2> QED
    BY <2>1, <2>3, <2>4, <2>5
<1>14. CASE Cancelled1
  <2>1. lst' = [NoListener EXCEPT !.cancelled = TRUE] /\ call'.at \in {"idle", "select"}
    BY <1>3, <1>14 DEF Cancelled1
  <2>2. Len(<<>>) = 0 /\ QueueMax \in Nat
    BY RequestsAssumption
  <2>3. lst' \in Listeners /\ lst'.on = FALSE /\ lst'.queue = <<>> /\ lst'.size = 0
    BY <1>0, <2>1, ListenerFacts
  <2> QED
    BY ONLY <2>1, <2>2, <2>3 DEF ListenOK
<1>15. CASE Served
  BY <1>15 DEF Served, ListenOK, Freeing
<1> QED
  BY <1>1, <1>2, <1>5, <1>6, <1>7, <1>8, <1>9, <1>10, <1>11, <1>12, <1>13, <1>14, <1>15, NextHappens DEF Happens

-----------------------------------------------------------------------------
(***************************************************************************)
(* The flags and the counters.                                             *)
(***************************************************************************)
\* The flags of the session.
LEMMA FlagsStep ==
    ASSUME Types, Next
    PROVE  auth' \in BOOLEAN /\ disc' \in BOOLEAN /\ crashed' \in BOOLEAN
<1> USE DEF Types
<1>0. auth \in BOOLEAN /\ disc \in BOOLEAN /\ crashed \in BOOLEAN
  BY DEF OthersOK
<1>1. Flows /\ Happens
  BY NextFlows, NextHappens
<1>2. auth' \in BOOLEAN
  <2>1. CASE auth' = auth
    BY <1>0, <2>1
  <2>2. ASSUME NEW i, TakesOut(i) PROVE auth' \in BOOLEAN
    <3>1. auth' = (auth \/ brigade[i].type = "authOk")
      BY <2>2 DEF TakesOut
    <3> QED
      BY <1>0, <3>1, Zenon
  <2> QED
    BY <1>1, <2>1, <2>2 DEF Flows
<1>3. disc' \in BOOLEAN
  <2>1. CASE disc' = disc
    BY <1>0, <2>1
  <2>2. ASSUME NEW rc, Gets(rc) PROVE disc' \in BOOLEAN
    BY <2>2, Zenon DEF Gets
  <2> QED
    BY <1>1, <2>1, <2>2 DEF Flows, Quiet, Sends, Reads, Stalls, Meets, TakesOut, Replied, Unasked, Broken
<1>4. crashed' \in BOOLEAN
  <2>1. CASE crashed' = crashed
    BY <1>0, <2>1
  <2>2. ASSUME NEW rc, Meets(rc) PROVE crashed' \in BOOLEAN
    BY <2>2 DEF Meets, Connected
  <2>3. ASSUME NEW op \in Ops, NEW c \in ReqChans, Call(op, c) PROVE crashed' \in BOOLEAN
    BY <2>3, Zenon DEF Call
  <2>4. CASE Heard
    BY <2>1, <2>2, <2>4 DEF Heard, Reads, Stalls, Gets
  <2>5. Started => \E op \in Ops, c \in ReqChans : Call(op, c)
    <3>1. \/ \E op \in Ops, c \in ReqChans : Call(op, c)
          \/ Library \/ AnswerTimesOut \/ ServerAnswers \/ ConnectionBreaks
          \/ \E kind \in Kinds : ServerSends(kind)
      BY DEF Next
    <3>2. call = Idle => ~Library /\ ~AnswerTimesOut
      <4>1. call.op = "none" => ~Running("run") /\ ~InProgram /\ \A x : ~Running(x)
        BY DEF InProgram, Running
      <4>2. call.op = "none" => ~(Wake \/ KeyFileFails \/ Builds \/ WritesRequest \/ RefusesPtySize \/ CallsBack)
        BY <4>1, Zenon DEF Wake, KeyFileFails, Builds, WritesRequest, RefusesPtySize, CallsBack
      <4>3. call.op = "none" => ~(AsksBrigade \/ ReadsAnswer \/ TakesAnswer \/ AnswerFails \/ AnswerTimesOut)
        BY <4>1, Zenon DEF AsksBrigade, AwaitsAnswer, ReadsAnswer, TakesAnswer, AnswerFails, AnswerTimesOut, Waiting
      <4>4. call.op = "none" => ~(ForwardAccept \/ AcceptEnds \/ CancelStart \/ CancelFrees)
        BY <4>1, Zenon DEF ForwardAccept, AcceptEnds, CancelStart, CancelFrees
      <4>5. call.op = "none" => ~(CancelAwaits \/ CancelFreed \/ CancelEnds)
        BY <4>1, Zenon DEF CancelAwaits, CancelFreed, CancelEnds
      <4> QED
        BY <4>2, <4>3, <4>4, <4>5, IdleFacts DEF Library
    <3>3. call = Idle => ~ServerAnswers /\ ~ConnectionBreaks /\ \A kind \in Kinds : ~ServerSends(kind)
      BY IdleFacts, ServerHappens DEF Served
    <3> QED
      BY <3>1, <3>2, <3>3 DEF Started
  <2> QED
    BY <1>1, <2>1, <2>3, <2>4, <2>5 DEF Happens, Turned, Alone, Begun, Skipped, Wrote, Takes1, Failed1, GivesUp1,
       Fails1, Accepted1, CancelSent, Freed1, Cancelled1, Served
<1> QED
  BY <1>2, <1>3, <1>4

\* A return leaves a truth value in eagain.
LEMMA ErrorStep ==
    ASSUME Types, Next
    PROVE  eagain' \in BOOLEAN
<1> USE DEF Types
<1>0. eagain \in BOOLEAN
  BY DEF OthersOK
<1>1. ASSUME NEW rc, NEW of, NEW err \in BOOLEAN, Returns(rc, of, err) PROVE eagain' \in BOOLEAN
  BY <1>1 DEF Returns
<1>2. ASSUME Again PROVE eagain' \in BOOLEAN
  BY <1>0, <1>2, Zenon DEF Again
<1>3. CASE eagain' = eagain
  BY <1>0, <1>3
<1>4. CASE KeyFileFails \/ CallsBack \/ RefusesPtySize \/ CancelStart \/ CancelEnds \/ AcceptEnds
  BY <1>0, <1>1, <1>2, <1>4 DEF KeyFileFails, CallsBack, RefusesPtySize, CancelStart, CancelEnds, AcceptEnds
<1>5. CASE WritesRequest
  <2>1. PICK rc \in {"NONE", "EAGAIN", "FAIL"} :
          CASE rc = "NONE" /\ Step.ok.rc = "go" ->
                   /\ call' = [call EXCEPT !.own = IF disc THEN 0 ELSE peer'.asked]
                   /\ UNCHANGED <<chans, eagain, last>>
              [] rc = "NONE" /\ Step.ok.rc # "go" ->
                   Returns(Step.ok.rc, call.own, eagain) /\ UNCHANGED chans
              [] rc = "EAGAIN" -> Again /\ UNCHANGED <<chans, last>>
              [] OTHER -> Returns("fail", 0, FALSE) /\ Drop
    BY <1>5 DEF WritesRequest
  <2>2. CASE rc = "NONE" /\ Step.ok.rc = "go"
    BY <1>3, <2>1, <2>2
  <2>3. CASE rc = "NONE" /\ Step.ok.rc # "go"
    BY <1>0, <1>1, <2>1, <2>3
  <2>4. CASE rc = "EAGAIN"
    BY <1>2, <2>1, <2>4
  <2>5. CASE rc = "FAIL"
    BY <1>1, <2>1, <2>5
  <2> QED
    BY <2>1, <2>2, <2>3, <2>4, <2>5
<1>6. ASSUME RequiresFails PROVE eagain' \in BOOLEAN
  <2>1. eagain' = (eagain /\ call.op \notin Reports)
    BY <1>6 DEF RequiresFails, Returns
  <2> QED
    BY <1>0, <2>1, Zenon
<1>7. ASSUME NEW p, Takes(p) PROVE eagain' \in BOOLEAN
  <2> DEFINE end == Step.on[p.type]
             err == CASE call.op = "list" -> eagain /\ p.type = "authFail"
                      [] end.rc = "denied" -> FALSE
                      [] OTHER -> eagain
  <2>1. CASE end.rc = "go"
    BY <1>3, <1>7, <2>1 DEF Takes
  <2>2. CASE end.rc # "go"
    <3>1. eagain' = err
      BY <1>7, <2>2 DEF Takes, Returns
    <3>2. err \in BOOLEAN
      <4>1. CASE call.op = "list" /\ end.rc # "denied"
        <5>1. err = (eagain /\ p.type = "authFail")
          BY <4>1
        <5> QED
          BY <1>0, <5>1, Zenon
      <4>2. CASE call.op # "list"
        BY <1>0, <4>2
      <4>3. CASE call.op = "list" /\ end.rc = "denied"
        <5>1. err \in {eagain /\ p.type = "authFail", FALSE}
          BY <4>3
        <5> QED
          BY <1>0, <5>1, Zenon
      <4> QED
        BY <4>1, <4>2, <4>3
    <3> QED
      BY <3>1, <3>2
  <2> QED
    BY <2>1, <2>2
<1>8. CASE AsksBrigade \/ TakesAnswer
  BY <1>3, <1>6, <1>7, <1>8 DEF AsksBrigade, TakesAnswer, GivesUp
<1>9. CASE AnswerFails \/ AnswerTimesOut
  BY <1>6, <1>9 DEF AnswerFails, AnswerTimesOut, GivesUp
<1>10. CASE ReadsAnswer
  BY <1>2, <1>3, <1>10 DEF ReadsAnswer
<1>11. CASE Wake \/ Builds \/ ForwardAccept \/ CancelFrees \/ CancelAwaits \/ CancelFreed
  BY <1>3, <1>11 DEF Wake, Builds, ForwardAccept, CancelFrees, CancelAwaits, CancelFreed
<1>12. CASE ServerAnswers \/ ConnectionBreaks \/ \E kind \in Kinds : ServerSends(kind)
  <2>1. ServerAnswers => eagain' = eagain
    BY Zenon DEF ServerAnswers
  <2> QED
    BY <1>3, <1>12, <2>1 DEF ConnectionBreaks, ServerSends
<1>13. ASSUME NEW op \in Ops, NEW c \in ReqChans, Call(op, c) PROVE eagain' \in BOOLEAN
  BY <1>3, <1>13 DEF Call
<1> QED
  BY <1>4, <1>5, <1>8, <1>9, <1>10, <1>11, <1>12, <1>13 DEF Next, Library

\* The bounds of the model.
LEMMA CountersStep ==
    ASSUME Types, Next
    PROVE  /\ x11cb' \in BOOLEAN
           /\ packets' \in 0..MaxPackets /\ calls' \in 0..MaxCalls /\ timeouts' \in 0..MaxTimeouts
<1> USE DEF Types
<1>0. /\ x11cb \in BOOLEAN
      /\ packets \in 0..MaxPackets /\ calls \in 0..MaxCalls /\ timeouts \in 0..MaxTimeouts
      /\ MaxPackets \in Nat /\ MaxCalls \in Nat /\ MaxTimeouts \in Nat
  BY RequestsAssumption DEF OthersOK
<1>1. /\ x11cb' = x11cb
      /\ packets' = packets \/ (packets < MaxPackets /\ packets' = packets + 1)
      /\ calls' = calls \/ (calls < MaxCalls /\ calls' = calls + 1)
      /\ timeouts' = timeouts \/ (timeouts < MaxTimeouts /\ timeouts' = timeouts + 1)
  <2>1. CASE Wake \/ KeyFileFails \/ Builds \/ WritesRequest \/ RefusesPtySize \/ CallsBack
    BY <2>1 DEF Wake, KeyFileFails, Builds, WritesRequest, RefusesPtySize, CallsBack, net, counters
  <2>2. CASE AsksBrigade \/ ReadsAnswer \/ TakesAnswer \/ AnswerFails \/ AnswerTimesOut
    BY <2>2 DEF AsksBrigade, ReadsAnswer, TakesAnswer, AnswerFails, AnswerTimesOut, net, counters
  <2>3. CASE ForwardAccept \/ AcceptEnds \/ CancelStart \/ CancelFrees \/ CancelAwaits \/ CancelFreed \/ CancelEnds
    BY <2>3 DEF ForwardAccept, AcceptEnds, CancelStart, CancelFrees, CancelAwaits, CancelFreed, CancelEnds, net,
       counters
  <2>4. CASE ServerAnswers \/ ConnectionBreaks \/ \E kind \in Kinds : ServerSends(kind)
    <3>1. ServerAnswers => UNCHANGED <<x11cb, packets, counters>>
      BY Zenon DEF ServerAnswers
    <3> QED
      BY <2>4, <3>1 DEF ConnectionBreaks, ServerSends, counters
  <2>5. ASSUME NEW op \in Ops, NEW c \in ReqChans, Call(op, c)
        PROVE  x11cb' = x11cb /\ packets' = packets /\ timeouts' = timeouts /\ calls < MaxCalls /\ calls' = calls + 1
    BY <2>5 DEF Call, net
  <2> QED
    BY <2>1, <2>2, <2>3, <2>4, <2>5 DEF Next, Library
<1> QED
  BY <1>0, <1>1

\* The types are kept.
LEMMA TypesStep ==
    ASSUME Types, Next
    PROVE  Types'
<1>1. Flows /\ NetOK /\ disc \in BOOLEAN
  BY NextFlows DEF Types, OthersOK
<1>2. NetOK'
  BY <1>1, NetStep
<1>3. OthersOK'
  BY FlagsStep, ErrorStep, CountersStep DEF OthersOK
<1> QED
  BY <1>2, <1>3, ControlStep, LateStep, ListenStep, ChansStep DEF Types

-----------------------------------------------------------------------------
(***************************************************************************)
(* The answers that are still to be taken.                                 *)
(***************************************************************************)
\* An answer that may yet be found in the brigade.
Pending(t, c, n) ==
    \/ \E i \in DOMAIN brigade : brigade[i].type = t /\ brigade[i].c = c /\ brigade[i].id = n
    \/ /\ ~disc /\ t \in AnswerTypes
       /\ \E i \in DOMAIN inbound : inbound[i].type = t /\ inbound[i].c = c /\ inbound[i].id = n
    \/ /\ ~disc
       /\ \E i \in DOMAIN peer.asks :
            /\ peer.asks[i].kind # "close" /\ t \in Answers(peer.asks[i].kind)
            /\ peer.asks[i].c = c /\ peer.asks[i].id = n

\* Nothing new is pending after a step that sends no request.
LEMMA PendingQuiet ==
    ASSUME NEW t, NEW c, NEW n, Pending(t, c, n)', UNCHANGED <<brigade, inbound, disc>>, peer'.asks = peer.asks
    PROVE  Pending(t, c, n)
BY DEF Pending

\* A packet that is read.
LEMMA PendingGets ==
    ASSUME NetOK, disc \in BOOLEAN, NEW rc, Gets(rc), NEW t, NEW c, NEW n, Pending(t, c, n)'
    PROVE  Pending(t, c, n)
<1>1. /\ ~disc /\ inbound # <<>> /\ inbound' = Tail(inbound) /\ peer' = peer
  BY DEF Gets
<1>2. /\ Head(inbound) = inbound[1] /\ 1 \in DOMAIN inbound
      /\ \A k \in DOMAIN inbound' : k + 1 \in DOMAIN inbound /\ inbound'[k] = inbound[k + 1]
  BY <1>1, TailFacts DEF NetOK
<1>3. CASE \E i \in DOMAIN brigade' : brigade'[i].type = t /\ brigade'[i].c = c /\ brigade'[i].id = n
  <2>1. PICK i \in DOMAIN brigade' : brigade'[i].type = t /\ brigade'[i].c = c /\ brigade'[i].id = n
    BY <1>3
  <2>2. CASE brigade' = brigade
    BY <2>1, <2>2 DEF Pending
  <2>3. CASE brigade' = Append(brigade, Head(inbound)) /\ Head(inbound) \in Answer
    <3>1. (i \in DOMAIN brigade /\ brigade'[i] = brigade[i]) \/ brigade'[i] = Head(inbound)
      BY <2>1, <2>3, AppendFacts DEF NetOK
    <3>2. brigade'[i] = Head(inbound) => t \in AnswerTypes
      BY <2>1, <2>3 DEF Answer
    <3> QED
      BY <1>1, <1>2, <2>1, <3>1, <3>2 DEF Pending
  <2> QED
    BY <2>2, <2>3, GetsFacts
<1>4. CASE /\ t \in AnswerTypes
           /\ \E i \in DOMAIN inbound' : inbound'[i].type = t /\ inbound'[i].c = c /\ inbound'[i].id = n
  BY <1>1, <1>2, <1>4 DEF Pending
<1>5. CASE \E i \in DOMAIN peer'.asks :
             /\ peer'.asks[i].kind # "close" /\ t \in Answers(peer'.asks[i].kind)
             /\ peer'.asks[i].c = c /\ peer'.asks[i].id = n
  BY <1>1, <1>5 DEF Pending
<1> QED
  BY <1>3, <1>4, <1>5 DEF Pending

\* A connection that is met.
LEMMA PendingMeets ==
    ASSUME NetOK, disc \in BOOLEAN, NEW rc, Meets(rc), NEW t, NEW c, NEW n, Pending(t, c, n)'
    PROVE  Pending(t, c, n)
<1>1. PICK kind \in {"confirm", "refuse"} : \E d, w : Sent(kind, d, w)
  BY DEF Meets, Connected
<1>2. Answers(kind) = {}
  BY <1>1 DEF Answers
<1>3. peer'.asks = peer.asks
  BY <1>1, <1>2 DEF Sent
<1>4. CASE inbound' = inbound
  BY <1>3, <1>4, PendingQuiet DEF Meets
<1>5. CASE ~disc /\ inbound # <<>> /\ inbound' = Tail(inbound)
  <2>1. \A k \in DOMAIN inbound' : k + 1 \in DOMAIN inbound /\ inbound'[k] = inbound[k + 1]
    BY <1>5, TailFacts DEF NetOK
  <2>2. brigade' = brigade /\ disc' = disc
    BY DEF Meets
  <2> QED
    BY <1>3, <1>5, <2>1, <2>2 DEF Pending
<1> QED
  BY <1>4, <1>5 DEF Meets

\* A question that is answered.
LEMMA PendingReplied ==
    ASSUME NetOK, disc \in BOOLEAN, NEW q, NEW u, Replied(q, u), NEW t, NEW c, NEW n, Pending(t, c, n)'
    PROVE  Pending(t, c, n)
<1>1. /\ brigade' = brigade /\ disc' = disc /\ ~disc /\ peer.asks # <<>> /\ q = Head(peer.asks)
      /\ u \in Answers(q.kind) /\ peer'.asks = Tail(peer.asks)
      /\ [type |-> u, c |-> q.c, id |-> q.id] \in Packet
      /\ inbound' = Append(inbound, [type |-> u, c |-> q.c, id |-> q.id])
  BY DEF Replied
<1>2. peer.asks \in Seq(Asked)
  BY PeerFields DEF NetOK
<1>3. /\ q = peer.asks[1] /\ 1 \in DOMAIN peer.asks
      /\ \A k \in DOMAIN peer'.asks : k + 1 \in DOMAIN peer.asks /\ peer'.asks[k] = peer.asks[k + 1]
  BY <1>1, <1>2, TailFacts
<1>4. \A k \in DOMAIN inbound' : (k \in DOMAIN inbound /\ inbound'[k] = inbound[k])
        \/ inbound'[k] = [type |-> u, c |-> q.c, id |-> q.id]
  BY <1>1, AppendFacts DEF NetOK
<1>5. u \in AnswerTypes => q.kind # "close"
  BY <1>1 DEF Answers, AnswerTypes
<1>6. CASE /\ t \in AnswerTypes
           /\ \E i \in DOMAIN inbound' : inbound'[i].type = t /\ inbound'[i].c = c /\ inbound'[i].id = n
  <2>1. PICK i \in DOMAIN inbound' : inbound'[i].type = t /\ inbound'[i].c = c /\ inbound'[i].id = n
    BY <1>6
  <2>2. CASE i \in DOMAIN inbound /\ inbound'[i] = inbound[i]
    BY <1>1, <1>6, <2>1, <2>2 DEF Pending
  <2>3. CASE inbound'[i] = [type |-> u, c |-> q.c, id |-> q.id]
    <3>1. t = u /\ c = q.c /\ n = q.id
      BY <2>1, <2>3
    <3> QED
      BY <1>1, <1>3, <1>5, <1>6, <3>1 DEF Pending
  <2> QED
    BY <1>4, <2>1, <2>2, <2>3
<1>7. CASE \E i \in DOMAIN peer'.asks :
             /\ peer'.asks[i].kind # "close" /\ t \in Answers(peer'.asks[i].kind)
             /\ peer'.asks[i].c = c /\ peer'.asks[i].id = n
  BY <1>1, <1>3, <1>7 DEF Pending
<1>8. CASE \E i \in DOMAIN brigade' : brigade'[i].type = t /\ brigade'[i].c = c /\ brigade'[i].id = n
  BY <1>1, <1>8 DEF Pending
<1> QED
  BY <1>6, <1>7, <1>8 DEF Pending

\* A step that sends no request and takes no answer.
LEMMA PendingKept ==
    ASSUME NetOK, disc \in BOOLEAN,
           \/ Quiet \/ (\E rc : Reads(rc)) \/ (\E q, u : Replied(q, u)) \/ (\E kind : Unasked(kind)) \/ Broken,
           NEW t, NEW c, NEW n, Pending(t, c, n)'
    PROVE  Pending(t, c, n)
<1>1. CASE Quiet
  BY <1>1, PendingQuiet DEF Quiet
<1>2. ASSUME NEW rc, Reads(rc) PROVE Pending(t, c, n)
  <2>1. Stalls(rc) => UNCHANGED <<brigade, inbound, disc>> /\ peer'.asks = peer.asks
    BY DEF Stalls
  <2> QED
    BY <1>2, <2>1, PendingQuiet, PendingMeets, PendingGets DEF Reads
<1>3. ASSUME NEW q, NEW u, Replied(q, u) PROVE Pending(t, c, n)
  BY <1>3, PendingReplied
<1>4. ASSUME NEW kind, Unasked(kind) PROVE Pending(t, c, n)
  <2>1. /\ UNCHANGED <<brigade, disc, peer>> /\ kind \notin AnswerTypes
        /\ [type |-> kind, c |-> 0, id |-> 0] \in Packet
        /\ inbound' = Append(inbound, [type |-> kind, c |-> 0, id |-> 0])
    BY <1>4 DEF Unasked, AnswerTypes
  <2>2. \A k \in DOMAIN inbound' : (k \in DOMAIN inbound /\ inbound'[k] = inbound[k])
          \/ inbound'[k] = [type |-> kind, c |-> 0, id |-> 0]
    BY <2>1, AppendFacts DEF NetOK
  <2>3. \A k \in DOMAIN inbound' : inbound'[k].type \in AnswerTypes => k \in DOMAIN inbound /\ inbound'[k] = inbound[k]
    BY <2>1, <2>2
  <2> QED
    BY <2>1, <2>3 DEF Pending
<1>5. CASE Broken
  BY <1>5 DEF Broken, Pending
<1> QED
  BY <1>1, <1>2, <1>3, <1>4, <1>5

\* A packet that is sent may ask for answers.
LEMMA PendingSent ==
    ASSUME NetOK, disc \in BOOLEAN, NEW kind, NEW d \in Nat, NEW rc, Sent(kind, d, rc),
           UNCHANGED <<brigade, inbound, disc>>,
           NEW t, NEW c, NEW n, Pending(t, c, n)'
    PROVE  \/ Pending(t, c, n)
           \/ /\ rc = "NONE" /\ ~disc /\ kind # "close"
              /\ t \in Answers(kind) /\ c = d /\ n = peer'.asked
<1>1. CASE peer'.asks = peer.asks
  BY <1>1, PendingQuiet
<1>2. CASE /\ rc = "NONE" /\ ~disc /\ peer'.asked = peer.asked + 1
           /\ peer'.asks = Append(peer.asks, [kind |-> kind, c |-> d, id |-> peer.asked + 1])
           /\ [kind |-> kind, c |-> d, id |-> peer.asked + 1] \in Asked
  <2>1. peer.asks \in Seq(Asked)
    BY PeerFields DEF NetOK
  <2>2. \A k \in DOMAIN peer'.asks : (k \in DOMAIN peer.asks /\ peer'.asks[k] = peer.asks[k])
          \/ peer'.asks[k] = [kind |-> kind, c |-> d, id |-> peer'.asked]
    BY <1>2, <2>1, AppendFacts
  <2>3. CASE \E i \in DOMAIN peer'.asks :
               /\ peer'.asks[i].kind # "close" /\ t \in Answers(peer'.asks[i].kind)
               /\ peer'.asks[i].c = c /\ peer'.asks[i].id = n
    <3>1. PICK i \in DOMAIN peer'.asks :
               /\ peer'.asks[i].kind # "close" /\ t \in Answers(peer'.asks[i].kind)
               /\ peer'.asks[i].c = c /\ peer'.asks[i].id = n
      BY <2>3
    <3>2. CASE i \in DOMAIN peer.asks /\ peer'.asks[i] = peer.asks[i]
      BY <1>2, <3>1, <3>2 DEF Pending
    <3>3. CASE peer'.asks[i] = [kind |-> kind, c |-> d, id |-> peer'.asked]
      BY <1>2, <3>1, <3>3
    <3> QED
      BY <2>2, <3>1, <3>2, <3>3
  <2> QED
    BY <2>3 DEF Pending
<1> QED
  BY <1>1, <1>2 DEF Sent

\* The answer that is taken is the only one with its number.
LEMMA PendingTaken ==
    ASSUME NetOK, OrderInv, NEW i, TakesOut(i), disc' = disc, NEW t, NEW c, NEW n, Pending(t, c, n)'
    PROVE  Pending(t, c, n) /\ n # brigade[i].id
<1>1. /\ brigade \in Seq(Answer) /\ i \in DOMAIN brigade /\ brigade' = RemoveAt(brigade, i)
      /\ inbound' = inbound /\ peer' = peer /\ disc' = disc
  BY DEF TakesOut, NetOK
<1>2. /\ \A k \in DOMAIN brigade' : Skip(i, k) \in DOMAIN brigade /\ Skip(i, k) # i
                                    /\ brigade'[k] = brigade[Skip(i, k)]
  BY <1>1, RemoveFacts
<1>3. \A k \in DOMAIN brigade : k \in Nat /\ brigade[k].id \in Nat \ {0}
  <2>1. \A k \in DOMAIN brigade : k \in Nat /\ brigade[k] \in Answer
    BY <1>1
  <2> QED
    BY <2>1 DEF Answer
<1>4. /\ \A k \in DOMAIN inbound : inbound[k].type \in AnswerTypes => inbound[k].id # 0
      /\ \A k \in DOMAIN inbound : inbound[k].id \in Nat
      /\ \A k \in DOMAIN peer.asks : peer.asks[k].id \in Nat \ {0}
  <2>1. \A k \in DOMAIN inbound : inbound[k] \in Packet
    BY DEF NetOK
  <2>2. peer.asks \in Seq(Asked)
    BY PeerFields DEF NetOK
  <2>3. \A k \in DOMAIN peer.asks : peer.asks[k] \in Asked
    BY <2>2
  <2> QED
    BY <2>1, <2>3 DEF Packet, Asked, NetOK
<1>5. CASE \E k \in DOMAIN brigade' : brigade'[k].type = t /\ brigade'[k].c = c /\ brigade'[k].id = n
  <2>1. PICK j \in DOMAIN brigade : j # i /\ brigade[j].type = t /\ brigade[j].c = c /\ brigade[j].id = n
    BY <1>2, <1>5
  <2>2. brigade[j].id # brigade[i].id
    <3>1. \A a, b \in DOMAIN brigade : a < b => brigade[a].id < brigade[b].id
      BY <1>3 DEF OrderInv, Rises
    <3>2. i < j \/ j < i
      BY <1>1, <1>3, <2>1
    <3> QED
      BY <1>1, <1>3, <2>1, <3>1, <3>2
  <2> QED
    BY <2>1, <2>2 DEF Pending
<1>6. CASE /\ ~disc /\ t \in AnswerTypes
           /\ \E k \in DOMAIN inbound : inbound[k].type = t /\ inbound[k].c = c /\ inbound[k].id = n
  <2>1. PICK k \in DOMAIN inbound : inbound[k].type = t /\ inbound[k].c = c /\ inbound[k].id = n
    BY <1>6
  <2>2. brigade[i].id < inbound[k].id
    BY <1>1, <1>4, <1>6, <2>1 DEF OrderInv, Below
  <2> QED
    BY <1>1, <1>3, <1>4, <1>6, <2>1, <2>2 DEF Pending
<1>7. CASE /\ ~disc
           /\ \E k \in DOMAIN peer.asks :
                /\ peer.asks[k].kind # "close" /\ t \in Answers(peer.asks[k].kind)
                /\ peer.asks[k].c = c /\ peer.asks[k].id = n
  <2>1. PICK k \in DOMAIN peer.asks :
                /\ peer.asks[k].kind # "close" /\ t \in Answers(peer.asks[k].kind)
                /\ peer.asks[k].c = c /\ peer.asks[k].id = n
    BY <1>7
  <2>2. brigade[i].id < peer.asks[k].id
    BY <1>1, <1>4, <2>1 DEF OrderInv, Below
  <2> QED
    BY <1>1, <1>3, <1>4, <1>7, <2>1, <2>2 DEF Pending
<1> QED
  BY <1>1, <1>5, <1>6, <1>7 DEF Pending

\* Every answer is waited for, or was given up.
KnownInv == \A t, c, n : Pending(t, c, n) => Known(t, c, n)

\* Whatever is on its way is known.
LEMMA KnownBefore ==
    ASSUME NetOK, AnswersInv
    PROVE  KnownInv
BY DEF AnswersInv, BrigadeKnown, InboundKnown, AsksKnown, KnownInv, Pending

\* And the other way round.
LEMMA KnownAfter ==
    ASSUME KnownInv', NoneFits', AtEnd'
    PROVE  AnswersInv'
<1>1. BrigadeKnown'
  BY DEF BrigadeKnown, KnownInv, Pending
<1>2. ASSUME ~disc' PROVE InboundKnown' /\ AsksKnown'
  <2>1. InboundKnown'
    BY <1>2 DEF InboundKnown, KnownInv, Pending
  <2>2. AsksKnown'
    BY <1>2 DEF AsksKnown, KnownInv, Pending
  <2> QED
    BY <2>1, <2>2
<1> QED
  BY <1>1, <1>2 DEF AnswersInv

\* A call that still waits.
LEMMA OwnerKept ==
    ASSUME call'.op = call.op, call'.c = call.c, call'.own = call.own, saved' = saved,
           NEW t, NEW c, NEW n, Owner(t, c, n)
    PROVE  Owner(t, c, n)'
<1>1. MySlot' = MySlot /\ Step' = Step
  BY DEF MySlot, Step
<1> QED
  BY <1>1 DEF Owner

\* The answers of the sorts are different.
LEMMA GroupsDiffer ==
    ASSUME NEW a \in Sorts, NEW b \in Sorts, NEW t, t \in Group(a), t \in Group(b)
    PROVE  a = b
BY DEF Sorts, Group

\* What the call that waits for an answer gives up.
LEMMA OwnerGroup ==
    ASSUME SavedOK, CallOK, NEW t, NEW c, NEW n, Owner(t, c, n)
    PROVE  /\ Awaiting /\ Sort(call.op) \in Sorts /\ t \in Group(Sort(call.op)) /\ c = call.c /\ n = call.own
           /\ c = IF ByChannel(Step.types) THEN call.c ELSE 0
           /\ ~ByChannel(Step.types) => Sort(call.op) \in {"requestOk", "authOk"}
<1>1. Awaiting /\ Shape(call.op, saved[MySlot], Step) /\ t \in Range(Step.types) /\ c = call.c /\ n = call.own
  BY StepFacts DEF Owner, Awaiting
<1>2. /\ Range(Step.types) \subseteq Group(Sort(call.op))
      /\ ByChannel(Step.types) <=> Sort(call.op) \in {"success", "openOk"}
  BY <1>1 DEF Shape, Awaiting
<1>3. Sort(call.op) \in Sorts
  BY DEF Sort, Sorts
<1>4. Sort(call.op) \notin {"success", "openOk"} => call.c = 0
  <2>1. call.op \in ChannelOps => call.op \notin {"open", "direct", "listen"}
    BY DEF ChannelOps
  <2>2. call.op \notin ChannelOps \cup {"open", "direct"} => call.c = 0
    BY DEF CallOK
  <2> QED
    BY <2>1, <2>2 DEF Sort
<1> QED
  BY <1>1, <1>2, <1>3, <1>4 DEF Sorts

\* What is given up stays so.
LEMMA GivenUpKept ==
    ASSUME late \subseteq late', NEW t, NEW c, GivenUp(t, c)
    PROVE  GivenUp(t, c)'
BY DEF GivenUp

\* The request that is sent waits for its answers.
LEMMA KnownWrote ==
    ASSUME Types, KnownInv, Wrote
    PROVE  KnownInv'
<1> USE DEF Types
<1>1. /\ call.op \in Requests /\ saved[MySlot] # "idle" /\ Step.do = "write"
      /\ Shape(call.op, saved[MySlot], Step)
      /\ UNCHANGED <<brigade, inbound, disc, late>>
  BY DEF Wrote
<1>2. PICK rc : Sent(Step.kind, call.c, rc) /\ Writes1(rc)
  BY DEF Wrote
<1>3. call.c \in Nat /\ disc \in BOOLEAN
  BY OpFacts DEF OthersOK
<1> SUFFICES ASSUME NEW t, NEW c, NEW n, Pending(t, c, n)'
             PROVE  Known(t, c, n)'
  BY DEF KnownInv
<1>4. CASE Pending(t, c, n)
  <2>1. ~Owner(t, c, n)
    BY <1>1 DEF Owner
  <2> QED
    BY <1>1, <1>4, <2>1, GivenUpKept DEF KnownInv, Known
<1>5. CASE rc = "NONE" /\ ~disc /\ t \in Answers(Step.kind) /\ c = call.c /\ n = peer'.asked
  <2>1. Step.ok.rc = "go" /\ Advances(Step.ok.to, peer'.asked)
    BY <1>1, <1>2, <1>5 DEF Shape, Writes1
  <2>2. /\ call'.op = call.op /\ call'.c = call.c /\ call'.own = peer'.asked
        /\ Step.ok.to \in States(call.op) /\ Saves(Step.ok.to)
    BY <2>1 DEF Advances, HasCall
  <2>3. saved'[MySlot] = Step.ok.to
    BY <1>1, <2>2, SavedFacts
  <2>4. MySlot' = MySlot /\ Step' = Program(call.op)[Step.ok.to]
    BY <2>2, <2>3 DEF MySlot, Step
  <2>5. Step'.do = "require" /\ t \in Range(Step'.types)
    BY <1>1, <1>5, <2>1, <2>4 DEF Shape
  <2>6. Step.ok.to # "idle"
    BY <2>2 DEF States
  <2>7. Owner(t, c, n)'
    BY <1>1, <1>5, <2>2, <2>3, <2>4, <2>5, <2>6 DEF Owner
  <2> QED
    BY <2>7 DEF Known
<1> QED
  BY <1>1, <1>2, <1>3, <1>4, <1>5, PendingSent

\* The answer that is taken is that of the call, or one that was given up: then its own is.
LEMMA KnownTaken ==
    ASSUME Types, OrderInv, KnownInv, NEW i, Takes1(i), disc' = disc
    PROVE  KnownInv'
<1> USE DEF Types
<1>1. /\ Shape(call.op, saved[MySlot], Step) /\ Awaiting /\ TakesOut(i) /\ late' = late /\ Fits(brigade[i])
      /\ i \in DOMAIN brigade
  BY DEF Takes1, TakesOut
<1> SUFFICES ASSUME NEW t, NEW c, NEW n, Pending(t, c, n)'
             PROVE  GivenUp(t, c)
  BY <1>1, GivenUpKept DEF KnownInv, Known
<1>2. Pending(t, c, n) /\ n # brigade[i].id
  BY <1>1, PendingTaken
<1>3. Pending(brigade[i].type, brigade[i].c, brigade[i].id)
  BY <1>1 DEF Pending
<1>4. CASE Owner(t, c, n)
  <2>1. /\ Sort(call.op) \in Sorts /\ t \in Group(Sort(call.op)) /\ n = call.own
        /\ c = call.c /\ c = IF ByChannel(Step.types) THEN call.c ELSE 0
        /\ ~ByChannel(Step.types) => Sort(call.op) \in {"requestOk", "authOk"}
    BY <1>4, OwnerGroup
  <2>2. ~Owner(brigade[i].type, brigade[i].c, brigade[i].id)
    BY <1>2, <2>1 DEF Owner
  <2>3. PICK l \in late : brigade[i].type \in Group(l[1]) /\ brigade[i].c = l[2]
    BY <1>3, <2>2 DEF KnownInv, Known, GivenUp
  <2>4. l \in Sorts \X Nat /\ (l[1] \in {"requestOk", "authOk"} => l[2] = 0)
    BY <2>3 DEF LateOK
  <2>5. brigade[i].type \in Group(Sort(call.op)) /\ (ByChannel(Step.types) => brigade[i].c = call.c)
    BY <1>1 DEF Fits, Shape, Awaiting
  <2>6. l[1] = Sort(call.op)
    BY <2>1, <2>3, <2>4, <2>5, GroupsDiffer
  <2>7. c = l[2]
    BY <2>1, <2>3, <2>4, <2>5, <2>6
  <2> QED
    BY <2>1, <2>3, <2>6, <2>7 DEF GivenUp
<1> QED
  BY <1>2, <1>4 DEF KnownInv, Known

\* A request that is given up.
LEMMA KnownGivenUp ==
    ASSUME Types, KnownInv, GivesUp1
    PROVE  KnownInv'
<1> USE DEF Types
<1> DEFINE d == IF ByChannel(Step.types) THEN call.c ELSE 0
<1>1. Quiet /\ late' = late \cup {<<Sort(call.op), d>>}
  BY DEF GivesUp1, Fails1
<1> SUFFICES ASSUME NEW t, NEW c, NEW n, Pending(t, c, n)'
             PROVE  GivenUp(t, c)'
  BY DEF KnownInv, Known
<1>2. Pending(t, c, n)
  BY <1>1, PendingKept DEF OthersOK
<1>3. CASE Owner(t, c, n)
  <2>1. t \in Group(Sort(call.op)) /\ c = d
    BY <1>3, OwnerGroup
  <2> HIDE DEF d
  <2>2. <<Sort(call.op), d>> \in late'
    BY <1>1
  <2> QED
    BY <2>1, <2>2 DEF GivenUp
<1>4. CASE GivenUp(t, c)
  BY <1>1, <1>4, GivenUpKept
<1> QED
  BY <1>2, <1>3, <1>4 DEF KnownInv, Known

\* A call that fails as the connection is gone leaves nothing to come.
LEMMA KnownFailed ==
    ASSUME Types, KnownInv, NoneFits, AtEnd, Failed1
    PROVE  KnownInv'
<1> USE DEF Types
<1>1. Quiet /\ late' = late /\ call.at = "fails"
  BY DEF Failed1, Fails1
<1> SUFFICES ASSUME NEW t, NEW c, NEW n, Pending(t, c, n)'
             PROVE  GivenUp(t, c)
  BY <1>1, GivenUpKept DEF KnownInv, Known
<1>2. Pending(t, c, n)
  BY <1>1, PendingKept DEF OthersOK
<1>3. ASSUME Owner(t, c, n) PROVE FALSE
  <2>1. t \in Range(Step.types) /\ c = call.c
    BY <1>3 DEF Owner
  <2>2. ASSUME NEW i \in DOMAIN brigade, brigade[i].type = t, brigade[i].c = c PROVE FALSE
    <3>1. Fits(brigade[i])
      BY <2>1, <2>2 DEF Fits
    <3> QED
      BY <1>1, <3>1 DEF NoneFits
  <2>3. ~disc => inbound = <<>> /\ peer.asks = <<>>
    BY <1>1 DEF AtEnd, NetOK
  <2> QED
    BY <1>2, <2>2, <2>3 DEF Pending
<1> QED
  BY <1>2, <1>3 DEF KnownInv, Known

\* A step that neither sends a request nor takes an answer, and after which the call
\* waits as before, or did not wait.
LEMMA KnownMoves ==
    ASSUME KnownInv, late' = late,
           \A t, c, n : Pending(t, c, n)' => Pending(t, c, n),
           \/ call'.op = call.op /\ call'.c = call.c /\ call'.own = call.own /\ saved' = saved
           \/ ~Awaiting
    PROVE  KnownInv'
<1> SUFFICES ASSUME NEW t, NEW c, NEW n, Pending(t, c, n)'
             PROVE  Known(t, c, n)'
  BY DEF KnownInv
<1>1. Known(t, c, n)
  BY DEF KnownInv
<1>2. CASE Owner(t, c, n)
  <2>1. Awaiting
    BY <1>2 DEF Owner, Awaiting
  <2> QED
    BY <1>2, <2>1, OwnerKept DEF Known
<1>3. CASE GivenUp(t, c)
  BY <1>3, GivenUpKept DEF Known
<1> QED
  BY <1>1, <1>2, <1>3 DEF Known

\* Every answer on its way is waited for by the call that asked for it, or was given up.
LEMMA KnownStep ==
    ASSUME Types, OrderInv, AnswersInv, Next
    PROVE  KnownInv'
<1> USE DEF Types
<1>1. KnownInv /\ NoneFits /\ AtEnd /\ disc \in BOOLEAN
  BY KnownBefore DEF AnswersInv, OthersOK
<1>2. ASSUME Quiet \/ (\E rc : Reads(rc)) \/ (\E q, u : Replied(q, u)) \/ (\E kind : Unasked(kind)) \/ Broken
      PROVE  \A t, c, n : Pending(t, c, n)' => Pending(t, c, n)
  BY <1>1, <1>2, PendingKept
<1>3. CASE Started
  <2>1. ~Awaiting
    BY <1>3, IdleFacts DEF Started, Awaiting, Requests, ChannelOps, AuthOps
  <2> QED
    BY <1>1, <1>2, <1>3, <2>1, KnownMoves DEF Started
<1>4. CASE Turned
  <2>1. call'.op = call.op /\ call'.c = call.c /\ call'.own = call.own /\ saved' = saved
    BY <1>4 DEF Turned, GoesTo, HasCall
  <2> QED
    BY <1>1, <1>2, <1>4, <2>1, KnownMoves DEF Turned, Alone
<1>5. CASE Begun
  <2>1. ~Awaiting
    BY <1>5 DEF Begun, Awaiting
  <2> QED
    BY <1>1, <1>2, <1>5, <2>1, KnownMoves DEF Begun
<1>6. CASE Skipped
  <2>1. ~Awaiting
    BY <1>6 DEF Skipped, Awaiting, Requests, ChannelOps, AuthOps
  <2> QED
    BY <1>1, <1>2, <1>6, <2>1, KnownMoves DEF Skipped, Alone
<1>7. CASE Wrote
  BY <1>1, <1>7, KnownWrote
<1>8. ASSUME NEW i, Takes1(i) PROVE KnownInv'
  <2>1. disc' = disc
    BY <1>8 DEF Takes1, TakesOut
  <2> QED
    BY <1>1, <1>8, <2>1, KnownTaken
<1>9. CASE GivesUp1
  BY <1>1, <1>9, KnownGivenUp
<1>10. CASE Failed1
  BY <1>1, <1>10, KnownFailed
<1>11. CASE Heard
  <2>1. call'.op = call.op /\ call'.c = call.c /\ call'.own = call.own /\ saved' = saved
    BY <1>11 DEF Heard, GoesTo, HasCall
  <2>2. late' = late /\ \E rc : Reads(rc)
    BY <1>11 DEF Heard
  <2> QED
    BY <1>1, <1>2, <2>1, <2>2, KnownMoves
<1>12. CASE Accepted1 \/ Cancelled1
  <2>1. ~Awaiting
    BY <1>12 DEF Accepted1, Cancelled1, Awaiting, Requests, ChannelOps, AuthOps
  <2> QED
    BY <1>1, <1>2, <1>12, <2>1, KnownMoves DEF Accepted1, Cancelled1
<1>13. CASE CancelSent \/ Freed1
  <2>1. ~Awaiting /\ late' = late /\ UNCHANGED <<brigade, inbound, disc>>
    BY <1>13 DEF CancelSent, Freed1, Awaiting, Requests, ChannelOps, AuthOps
  <2>2. ASSUME NEW kind \in {"cancel", "close"}, NEW d \in Nat, NEW rc, Sent(kind, d, rc),
               NEW t, NEW c, NEW n, Pending(t, c, n)'
        PROVE  Pending(t, c, n)
    <3>1. kind # "close" => Answers(kind) = {}
      BY <2>2 DEF Answers
    <3> QED
      BY <1>1, <2>1, <2>2, <3>1, PendingSent
  <2>3. ASSUME UNCHANGED <<peer, sock>> PROVE \A t, c, n : Pending(t, c, n)' => Pending(t, c, n)
    BY <2>1, <2>3, PendingQuiet
  <2>4. UNCHANGED <<peer, sock>> \/ \E kind \in {"cancel", "close"}, d \in Nat : \E rc : Sent(kind, d, rc)
    BY <1>13, Zenon DEF CancelSent, Freed1
  <2>5. \A t, c, n : Pending(t, c, n)' => Pending(t, c, n)
    BY <2>2, <2>3, <2>4
  <2> QED
    BY <1>1, <2>1, <2>5, KnownMoves
<1>14. CASE Served
  <2>1. call' = call /\ saved' = saved /\ late' = late
    BY <1>14 DEF Served
  <2>2. \A t, c, n : Pending(t, c, n)' => Pending(t, c, n)
    BY <1>2, <1>14 DEF Served
  <2> QED
    BY <1>1, <2>1, <2>2, KnownMoves
<1> QED
  BY <1>3, <1>4, <1>5, <1>6, <1>7, <1>8, <1>9, <1>10, <1>11, <1>12, <1>13, <1>14, NextHappens DEF Happens

\* A call that has returned, begun or written reads nothing.
LEMMA AtPlaces ==
    ASSUME Types, Next
    PROVE  \/ call'.at \notin {"read", "fails"}
           \/ /\ GoesTo("read") /\ Quiet /\ Awaiting /\ (\A j \in DOMAIN brigade : ~Fits(brigade[j]))
           \/ /\ Awaiting /\ call.at = "read"
              /\ \E rc, x : Reads(rc) /\ GoesTo(x) /\ Listened(rc, x)
           \/ Served
<1> USE DEF Types
<1>1. Returned => call'.at \notin {"read", "fails"}
  BY IdleFacts DEF Returned, HasCall
<1>2. \A s, n : Advances(s, n) => call'.at \notin {"read", "fails"}
  BY DEF Advances, HasCall
<1>3. \A s : Finishes(s) => call'.at \notin {"read", "fails"}
  BY <1>1 DEF Finishes
<1>4. CASE Started \/ Begun
  BY <1>4 DEF Started, Begun, HasCall
<1>5. CASE Turned
  BY <1>5 DEF Turned, Alone, GoesTo, HasCall
<1>6. CASE Skipped
  BY <1>1, <1>2, <1>3, <1>6 DEF Skipped
<1>7. CASE Wrote
  BY <1>2, <1>3, <1>7 DEF Wrote, Writes1, GoesTo, HasCall
<1>8. ASSUME NEW i, Takes1(i) PROVE call'.at \notin {"read", "fails"}
  BY <1>2, <1>3, <1>8 DEF Takes1
<1>9. CASE GivesUp1 \/ Failed1
  BY <1>3, <1>9 DEF GivesUp1, Failed1, Fails1
<1>10. CASE Heard
  BY <1>10 DEF Heard, GoesTo, HasCall
<1>11. CASE Accepted1 \/ CancelSent \/ Cancelled1
  BY <1>1, <1>3, <1>11 DEF Accepted1, CancelSent, Cancelled1, HasCall
<1>12. CASE Freed1
  BY <1>12 DEF Freed1, FreedTo, GoesTo, HasCall
<1> QED
  BY <1>4, <1>5, <1>6, <1>7, <1>8, <1>9, <1>10, <1>11, <1>12, NextHappens DEF Happens

\* A step that writes nothing leaves the half-sent packet to whom it belongs.
LEMMA HalfKept ==
    ASSUME HalfInv, UNCHANGED <<pend, add>>, nextChannel' # 0, Stands' => Stands,
           \A kind, c : Writing(kind, c) => Writing(kind, c)'
    PROVE  HalfInv'
<1>1. Resumed' <=> Resumed
  BY DEF Resumed
<1>2. Stands' /\ Resumed' => pend' = <<IF add'.c # 0 THEN "confirm" ELSE "refuse", add'.c>>
  BY <1>1 DEF HalfInv
<1>3. Stands' /\ ~Resumed' => pend' = NoPacket \/ \E kind, c : Writing(kind, c)' /\ pend' = <<kind, c>>
  BY <1>1 DEF HalfInv
<1> QED
  BY <1>2, <1>3 DEF HalfInv

\* A packet that is written is the one that was half sent, if any was.
LEMMA HalfSends ==
    ASSUME HalfInv, NEW kind, NEW c, NEW rc, Sent(kind, c, rc), UNCHANGED <<add, disc, nextChannel>>,
           kind \notin {"confirm", "refuse"},
           \A k, d : Writing(k, d) => k = kind /\ d = c,
           rc = "EAGAIN" => Writing(kind, c)'
    PROVE  HalfInv'
<1>1. Stands' => Stands
  BY DEF Stands, Sent
<1>2. (Resumed' <=> Resumed) /\ nextChannel' # 0
  BY DEF Resumed, HalfInv
<1>3. Stands /\ ~Resumed => pend \in {NoPacket, <<kind, c>>}
  BY DEF HalfInv
<1>4. Stands /\ Resumed => pend \notin {NoPacket, <<kind, c>>}
  <2>1. Stands /\ Resumed => \E k \in {"confirm", "refuse"} : pend = <<k, add.c>>
    BY DEF HalfInv
  <2>2. \A k \in {"confirm", "refuse"} : \A d : <<k, d>> # NoPacket /\ <<k, d>> # <<kind, c>>
    <3>1. \A a, b : <<a, b>>[1] = a
      OBVIOUS
    <3>2. "confirm" # "" /\ "refuse" # "" /\ "confirm" # kind /\ "refuse" # kind
      <4>1. "confirm" # kind /\ "refuse" # kind
        OBVIOUS
      <4>2. "confirm" # "" /\ "refuse" # ""
        OBVIOUS
      <4> QED
        BY <4>1, <4>2
    <3> QED
      BY <3>1, <3>2, Zenon DEF NoPacket
  <2> QED
    BY <2>1, <2>2, Zenon
<1>5. CASE rc = "FAIL"
  BY <1>1, <1>2, <1>3, <1>5 DEF Sent, HalfInv, Stands
<1>6. CASE rc # "FAIL"
  <2>1. Stands' => ~Resumed'
    BY <1>1, <1>2, <1>4, <1>6 DEF Sent
  <2>2. pend' = NoPacket \/ (Writing(kind, c)' /\ pend' = <<kind, c>>)
    BY <1>6 DEF Sent
  <2> QED
    BY <1>2, <2>1, <2>2 DEF HalfInv
<1> QED
  BY <1>5, <1>6

\* A call that reads has written all of its packet.  A read that fails has met the end of
\* the connection, for the packet it writes is the one that was half sent.
LEMMA HalfRead ==
    ASSUME Types, HalfInv, NEW rc, Reads(rc), \A kind, c : ~Writing(kind, c)
    PROVE  HalfInv' /\ (rc = "FAIL" => ~Stands')
<1> USE DEF Types
<1>1. Stalls(rc) \/ Meets(rc) \/ Gets(rc)
  BY DEF Reads
<1>2. Stands /\ ~Resumed => pend = NoPacket
  BY DEF HalfInv
<1>3. CASE Stalls(rc)
  <2>1. UNCHANGED <<pend, add, sock, disc, nextChannel>> /\ (rc = "FAIL" => ~Stands)
    BY <1>3 DEF Stalls, Stands
  <2> QED
    BY <1>2, <2>1 DEF HalfInv, Stands, Resumed
<1>4. CASE Gets(rc)
  <2>1. UNCHANGED <<pend, add, sock, nextChannel>> /\ ~disc /\ (rc = "FAIL" => disc')
    <3>1. Head(inbound) \in Packet
      BY <1>4, GetsFacts
    <3>2. Head(inbound).type # "FAIL"
      BY <3>1 DEF Packet, AnswerTypes
    <3> QED
      BY <1>4, <3>2 DEF Gets
  <2> QED
    BY <1>2, <2>1 DEF HalfInv, Stands, Resumed
<1>5. CASE Meets(rc)
  <2>1. PICK type \in {"forward", "x11"}, confirm \in BOOLEAN, id \in Nat, w \in {"NONE", "EAGAIN", "FAIL"} :
          Connected(type, confirm, id, w, rc)
    BY <1>5 DEF Meets
  <2> DEFINE kind == IF confirm THEN "confirm" ELSE "refuse"
  <2>2. Sent(kind, id, w) /\ disc' = disc
    BY <1>5, <2>1 DEF Connected, Meets
  <2>3. /\ add' = IF w = "EAGAIN" THEN [type |-> type, c |-> id, id |-> 0] ELSE NoAdd
        /\ confirm <=> id # 0
        /\ Resumed => id = add.c
        /\ rc = "FAIL" => w = "FAIL"
    BY <2>1 DEF Connected, HalfInv
  <2>4. nextChannel' # 0
    BY <2>1 DEF Connected, HalfInv
  <2>5. kind = IF id # 0 THEN "confirm" ELSE "refuse"
    BY <2>3
  <2> HIDE DEF kind
  <2>6. Stands' => Stands
    BY <2>2 DEF Sent, Stands
  <2>7. Stands => pend \in {NoPacket, <<kind, id>>}
    BY <1>2, <2>3, <2>5 DEF HalfInv
  <2>8. w = "FAIL" => ~Stands /\ ~Stands'
    BY <2>2, <2>6, <2>7 DEF Sent, Stands
  <2>9. CASE w = "NONE"
    BY <2>2, <2>3, <2>4, <2>9 DEF Sent, HalfInv, Resumed
  <2>10. CASE w = "EAGAIN"
    <3>1. add'.c = id /\ add'.type # "none" /\ pend' = <<kind, id>>
      BY <2>1, <2>2, <2>3, <2>10 DEF Sent
    <3>2. Resumed'
      BY <3>1 DEF Resumed, NoAdd
    <3> QED
      BY <2>3, <2>4, <2>5, <2>10, <3>1, <3>2 DEF HalfInv
  <2>11. CASE w = "FAIL"
    BY <2>3, <2>4, <2>8, <2>11 DEF HalfInv
  <2> QED
    BY <2>3, <2>8, <2>9, <2>10, <2>11
<1> QED
  BY <1>1, <1>3, <1>4, <1>5

\* Only a request at a place where it writes, and a listener that is cancelled, have a
\* packet to write.
LEMMA NothingToWrite ==
    ASSUME CallOK,
           \/ call.op \in {"none", "accept"}
           \/ call.op \in Requests /\ (saved[MySlot] = "idle" \/ Step.do # "write")
           \/ call.at \in {"read", "match", "fails", "await", "freed", "end"}
    PROVE  \A kind, c : ~Writing(kind, c)
<1>1. Requests \cap {"none", "accept", "cancel"} = {}
  BY DEF Requests, ChannelOps, AuthOps
<1>2. call.at \in {"read", "match", "fails"} => Step.do = "require"
  BY DEF CallOK
<1>3. call.at \in {"await", "freed", "end"} => call.op = "cancel"
  BY OpFacts
<1> QED
  BY <1>1, <1>2, <1>3 DEF Writing

\* Steps that neither read nor write.
LEMMA HalfIdles ==
    ASSUME Types, HalfInv, Next,
           \/ \E op \in Ops, c \in ReqChans : Call(op, c)
           \/ Wake \/ KeyFileFails \/ Builds \/ RefusesPtySize \/ CallsBack \/ AsksBrigade
           \/ TakesAnswer \/ AnswerFails \/ AnswerTimesOut \/ AcceptEnds \/ CancelFreed \/ CancelEnds
    PROVE  HalfInv'
<1> USE DEF Types
<1>1. call.op = "none" => \A kind, c : ~Writing(kind, c)
  BY NothingToWrite
<1>2. ASSUME NEW op \in Ops, NEW c \in ReqChans, Call(op, c) PROVE HalfInv'
  <2>0. call = Idle /\ UNCHANGED <<net, nextChannel>>
    BY <1>2, Zenon DEF Call
  <2>1. \A k, d : ~Writing(k, d)
    BY <1>1, <2>0, IdleFacts
  <2>2. UNCHANGED <<pend, add, sock, disc, nextChannel>>
    BY <2>0 DEF net
  <2> QED
    BY <2>1, <2>2, HalfKept DEF HalfInv, Stands
<1>3. CASE Wake
  <2>1. GoesTo("run") /\ call.at = "select"
    BY <1>3, WakeEffect DEF Wake, Running, InCall
  <2>2. UNCHANGED <<pend, add, sock, disc, nextChannel, saved, lst>>
    BY <1>3 DEF Wake, net
  <2>3. MySlot' = MySlot /\ call'.op = call.op /\ call'.c = call.c /\ call'.at = "run"
    BY <2>1 DEF GoesTo, HasCall, MySlot
  <2>4. Step' = Step
    BY <2>2, <2>3 DEF Step
  <2>5. \A k, d : Writing(k, d) => Writing(k, d)'
    BY <2>1, <2>2, <2>3, <2>4 DEF Writing
  <2> QED
    BY <2>2, <2>5, HalfKept DEF HalfInv, Stands
<1>4. CASE Builds
  <2>1. call.op \in Requests /\ saved[MySlot] = "idle"
    BY <1>4, OpFacts DEF Builds
  <2>2. nextChannel' # 0
    <3>1. nextChannel \in Nat /\ NextId = nextChannel
      BY NextIdIs DEF ChansOK
    <3> QED
      BY <1>4, <3>1 DEF Builds, HalfInv
  <2>3. UNCHANGED <<pend, add, sock, disc>>
    BY <1>4 DEF Builds, net
  <2> QED
    BY <2>1, <2>2, <2>3, HalfKept, NothingToWrite DEF Stands
<1>5. CASE KeyFileFails \/ RefusesPtySize \/ CallsBack \/ AsksBrigade
  <2>1. call.op \in Requests /\ (saved[MySlot] = "idle" \/ Step.do # "write")
    BY <1>5, OpFacts DEF KeyFileFails, RefusesPtySize, CallsBack, AsksBrigade, AwaitsAnswer
  <2>2. UNCHANGED <<pend, add, sock, disc, nextChannel>>
    BY <1>5 DEF KeyFileFails, RefusesPtySize, CallsBack, AsksBrigade, net
  <2> QED
    BY <2>1, <2>2, HalfKept, NothingToWrite DEF HalfInv, Stands
<1>6. CASE TakesAnswer \/ AnswerFails \/ AnswerTimesOut \/ CancelFreed \/ CancelEnds
  <2>1. call.at \in {"read", "match", "fails", "await", "freed", "end"}
    BY <1>6 DEF TakesAnswer, AnswerFails, AnswerTimesOut, CancelFreed, CancelEnds, Waiting, Running
  <2>2. UNCHANGED <<pend, add, sock, disc, nextChannel>>
    BY <1>6 DEF TakesAnswer, AnswerFails, AnswerTimesOut, CancelFreed, CancelEnds, net
  <2> QED
    BY <2>1, <2>2, HalfKept, NothingToWrite DEF HalfInv, Stands
<1>7. CASE AcceptEnds
  <2>1. call.op = "accept"
    BY <1>7 DEF AcceptEnds
  <2>2. UNCHANGED <<pend, add, sock, disc, nextChannel>>
    BY <1>7 DEF AcceptEnds, net
  <2> QED
    BY <2>1, <2>2, HalfKept, NothingToWrite DEF HalfInv, Stands
<1> QED
  BY <1>2, <1>3, <1>4, <1>5, <1>6, <1>7

\* Steps of a call that write.
LEMMA HalfWrites ==
    ASSUME Types, HalfInv, WritesRequest \/ CancelStart \/ CancelFrees
    PROVE  HalfInv'
<1> USE DEF Types
<1>1. Requests \cap {"none", "accept", "cancel"} = {}
  BY DEF Requests, ChannelOps, AuthOps
<1>2. CASE WritesRequest
  <2>1. /\ call.op \in Requests /\ saved[MySlot] # "idle" /\ Step.do = "write"
        /\ Shape(call.op, saved[MySlot], Step)
        /\ UNCHANGED <<add, disc, nextChannel>>
        /\ \E rc : Sent(Step.kind, call.c, rc) /\ Writes1(rc)
    BY <1>2, WritesRequestEffect DEF InCall
  <2>2. PICK rc : Sent(Step.kind, call.c, rc) /\ Writes1(rc)
    BY <2>1
  <2>3. Step.kind \notin {"confirm", "refuse"}
    BY <2>1 DEF Shape
  <2>4. \A k, d : Writing(k, d) => k = Step.kind /\ d = call.c
    BY <1>1, <2>1 DEF Writing
  <2>5. ASSUME rc = "EAGAIN" PROVE \A k, d : k = Step.kind /\ d = call.c => Writing(k, d)'
    <3>1. GoesTo("select")
      BY <2>2, <2>5 DEF Writes1
    <3>2. MySlot' = MySlot /\ call'.op = call.op /\ call'.c = call.c /\ saved' = saved
      BY <3>1 DEF GoesTo, HasCall, MySlot
    <3>3. Step' = Step
      BY <3>2 DEF Step
    <3> QED
      BY <2>1, <3>2, <3>3 DEF Writing
  <2> QED
    BY <2>1, <2>2, <2>3, <2>4, <2>5, HalfSends
<1>3. CASE CancelStart
  <2>1. PICK rc \in {"NONE", "EAGAIN", "FAIL"} :
          Send("cancel", 0, rc) /\ (rc = "EAGAIN" => Again)
    BY <1>3 DEF CancelStart
  <2>2. Sent("cancel", 0, rc) /\ UNCHANGED <<add, disc, nextChannel>> /\ call.op = "cancel" /\ call.at = "run"
    BY <1>3, <2>1, SendFacts DEF CancelStart, Running, OthersOK
  <2>3. \A k, d : Writing(k, d) => k = "cancel" /\ d = 0
    BY <1>1, <2>2 DEF Writing
  <2>4. rc = "EAGAIN" => Writing("cancel", 0)'
    <3>1. ASSUME Again PROVE call'.op = "cancel" /\ call'.at = "select"
      BY <2>2, <3>1, AgainFacts DEF HasCall
    <3> QED
      BY <2>1, <3>1 DEF Writing
  <2> QED
    BY <2>2, <2>3, <2>4, HalfSends
<1>4. CASE CancelFrees
  <2>1. call.op = "cancel" /\ call.at = "free" /\ UNCHANGED <<add, disc, nextChannel>>
    BY <1>4, OpFacts DEF CancelFrees, Running
  <2>2. CASE disc
    BY <2>1, <2>2 DEF HalfInv, Stands
  <2>3. CASE ~disc
    <3>1. PICK rc \in {"NONE", "EAGAIN", "FAIL"} :
            Send("close", Head(lst.queue), rc) /\ (rc = "EAGAIN" => UNCHANGED <<call, lst>>)
      BY <1>4, <2>3 DEF CancelFrees
    <3>2. Head(lst.queue) \in Nat
      BY <2>1 DEF ListenOK, Listeners
    <3>3. Sent("close", Head(lst.queue), rc)
      BY <3>1, <3>2, SendFacts DEF OthersOK
    <3>4. \A k, d : Writing(k, d) => k = "close" /\ d = Head(lst.queue)
      BY <1>1, <2>1 DEF Writing
    <3>5. ASSUME rc = "EAGAIN" PROVE \A k, d : k = "close" /\ d = Head(lst.queue) => Writing(k, d)'
      BY <2>1, <3>1, <3>5 DEF Writing
    <3> QED
      BY <2>1, <3>3, <3>4, <3>5, HalfSends
  <2> QED
    BY <2>2, <2>3
<1> QED
  BY <1>2, <1>3, <1>4

\* Every step keeps the half-sent packet with whom it belongs to.
LEMMA HalfStep ==
    ASSUME Types, HalfInv, Next
    PROVE  HalfInv'
<1> USE DEF Types
<1>1. ASSUME NEW rc, TransportRead(rc), ReadsAnswer \/ ForwardAccept \/ CancelAwaits PROVE HalfInv'
  <2>1. call.op = "accept" \/ call.at \in {"read", "await"}
    BY <1>1 DEF ReadsAnswer, ForwardAccept, CancelAwaits, Waiting, Running
  <2>2. Reads(rc)
    BY <1>1, ReadFacts DEF Reads
  <2> QED
    BY <2>1, <2>2, HalfRead, NothingToWrite
<1>2. CASE ReadsAnswer \/ ForwardAccept \/ CancelAwaits
  BY <1>1, <1>2 DEF ReadsAnswer, ForwardAccept, CancelAwaits
<1>3. CASE ServerAnswers \/ \E kind \in Kinds : ServerSends(kind)
  <2>1. UNCHANGED <<pend, add, disc, nextChannel, saved, call, lst, sock>>
    <3>1. CASE ServerAnswers
      BY <3>1, Zenon DEF ServerAnswers
    <3>2. ASSUME NEW kind \in Kinds, ServerSends(kind)
          PROVE  UNCHANGED <<pend, add, disc, nextChannel, saved, call, lst, sock>>
      BY <3>2, Zenon DEF ServerSends
    <3> QED
      BY <1>3, <3>1, <3>2
  <2>2. MySlot' = MySlot
    BY <2>1 DEF MySlot
  <2>3. Step' = Step
    BY <2>1, <2>2 DEF Step
  <2>4. \A k, d : Writing(k, d) => Writing(k, d)'
    BY <2>1, <2>2, <2>3 DEF Writing
  <2> QED
    BY <2>1, <2>4, HalfKept DEF HalfInv, Stands
<1>4. CASE ConnectionBreaks
  BY <1>4 DEF ConnectionBreaks, HalfInv, Stands
<1> QED
  BY <1>2, <1>3, <1>4, HalfIdles, HalfWrites DEF Next, Library

\* A call that reads on has not been sent what it waits for, and one that fails has no
\* connection.
LEMMA ReadingStep ==
    ASSUME Types, AnswersInv, HalfInv, Next
    PROVE  NoneFits' /\ AtEnd'
<1> USE DEF Types
<1>1. CASE call'.at \notin {"read", "fails"}
  BY <1>1 DEF NoneFits, AtEnd
<1>3. CASE GoesTo("read") /\ Quiet /\ (\A j \in DOMAIN brigade : ~Fits(brigade[j]))
  <2>1. call'.at = "read" /\ brigade' = brigade /\ Step' = Step /\ call'.c = call.c
    BY <1>3 DEF GoesTo, HasCall, Quiet, Step, MySlot
  <2> QED
    BY <1>3, <2>1 DEF NoneFits, AtEnd, Fits
<1>4. CASE /\ Awaiting /\ call.at = "read"
           /\ \E rc, x : Reads(rc) /\ GoesTo(x) /\ Listened(rc, x)
  <2>1. PICK rc, x : Reads(rc) /\ GoesTo(x) /\ Listened(rc, x)
    BY <1>4
  <2>2. \A j \in DOMAIN brigade : ~Fits(brigade[j])
    BY <1>4 DEF AnswersInv, NoneFits
  <2>3. call'.at = x /\ Step' = Step /\ call'.c = call.c
    BY <2>1 DEF GoesTo, HasCall, Step, MySlot
  <2>4. ASSUME x \in {"read", "fails"}, brigade' = brigade PROVE NoneFits'
    BY <2>2, <2>3, <2>4 DEF NoneFits, Fits
  <2>5. CASE Stalls(rc)
    <3>1. brigade' = brigade /\ disc' = disc /\ sock' = sock
      BY <2>5 DEF Stalls
    <3>2. x = "fails" => disc \/ sock = "broken"
      BY <2>1, <2>5 DEF Stalls, Listened
    <3> QED
      BY <2>3, <2>4, <3>1, <3>2 DEF NoneFits, AtEnd
  <2>6. CASE Meets(rc)
    <3>1. brigade' = brigade /\ rc # "zero"
      BY <2>6 DEF Meets, Connected, Sent
    <3>2. rc = "FAIL" => disc' \/ sock' = "broken"
      <4>1. \A kind, c : ~Writing(kind, c)
        BY <1>4, NothingToWrite
      <4>2. rc = "FAIL" => ~Stands'
        BY <2>1, <4>1, HalfRead
      <4> QED
        BY <4>2 DEF Stands
    <3>3. x = "fails" => rc = "FAIL"
      BY <2>1, <3>1 DEF Listened
    <3> QED
      BY <2>3, <2>4, <3>1, <3>2, <3>3 DEF NoneFits, AtEnd
  <2>7. CASE Gets(rc)
    <3>1. Head(inbound) \in Packet /\ rc = (IF Head(inbound).type = "disconnect" THEN "FAIL" ELSE Head(inbound).type)
          /\ disc' = (Head(inbound).type = "disconnect")
      BY <2>7, GetsFacts DEF Gets
    <3>2. x = "fails" => Head(inbound).type = "disconnect"
      BY <2>1, <3>1 DEF Listened, Packet, AnswerTypes
    <3>3. AtEnd'
      BY <2>3, <3>1, <3>2 DEF AtEnd
    <3>4. CASE brigade' = brigade
      BY <2>3, <2>4, <3>3, <3>4 DEF NoneFits
    <3>5. CASE /\ brigade' = Append(brigade, Head(inbound)) /\ Head(inbound) \in Answer
               /\ Head(inbound).type \in AnswerTypes
      <4>1. Head(inbound).type # "disconnect" /\ x # "fails" /\ rc = Head(inbound).type
        BY <3>1, <3>2, <3>5 DEF AnswerTypes
      <4>2. x = "read" => Head(inbound).type \notin Range(Step.types)
        BY <2>1, <4>1 DEF Listened
      <4>3. \A k \in DOMAIN brigade' : (k \in DOMAIN brigade /\ brigade'[k] = brigade[k]) \/ brigade'[k] = Head(inbound)
        BY <3>5, AppendFacts DEF NetOK
      <4>4. NoneFits'
        BY <2>2, <2>3, <4>1, <4>2, <4>3 DEF NoneFits, Fits
      <4> QED
        BY <3>3, <4>4
    <3> QED
      BY <2>7, <3>4, <3>5, GetsFacts
  <2> QED
    BY <2>1, <2>5, <2>6, <2>7 DEF Reads
<1>5. CASE Served
  <2>1. brigade' = brigade /\ call' = call /\ saved' = saved
    BY <1>5 DEF Served, Replied, Unasked, Broken
  <2>2. disc' = disc /\ (sock' = sock \/ sock' = "broken")
    BY <1>5 DEF Served, Replied, Unasked, Broken
  <2>4. AtEnd'
    BY <2>1, <2>2 DEF AnswersInv, AtEnd
  <2>5. NoneFits'
    BY <2>1 DEF AnswersInv, NoneFits, Fits, Step, MySlot
  <2> QED
    BY <2>4, <2>5
<1> QED
  BY <1>1, <1>3, <1>4, <1>5, AtPlaces

\* Every step keeps the answers known.
LEMMA AnswersStep ==
    ASSUME Types, OrderInv, AnswersInv, HalfInv, Next
    PROVE  AnswersInv'
BY KnownStep, ReadingStep, KnownAfter

-----------------------------------------------------------------------------
(***************************************************************************)
(* The results.                                                            *)
(***************************************************************************)
\* An answer that is taken by a call it was not meant for was given up before.
LEMMA TakenLate ==
    ASSUME Types, AnswersInv, NEW i, Takes1(i), brigade[i].id # call.own
    PROVE  <<Sort(call.op), call.c>> \in late
<1> USE DEF Types
<1>1. /\ Shape(call.op, saved[MySlot], Step) /\ Awaiting /\ Fits(brigade[i]) /\ i \in DOMAIN brigade
  BY DEF Takes1, TakesOut
<1>2. /\ brigade[i].type \in Group(Sort(call.op)) /\ (ByChannel(Step.types) => brigade[i].c = call.c)
      /\ ByChannel(Step.types) <=> Sort(call.op) \in {"success", "openOk"}
  BY <1>1 DEF Fits, Shape, Awaiting
<1>3. ~Owner(brigade[i].type, brigade[i].c, brigade[i].id)
  BY DEF Owner
<1>4. PICK l \in late : brigade[i].type \in Group(l[1]) /\ brigade[i].c = l[2]
  BY <1>1, <1>3 DEF AnswersInv, BrigadeKnown, Known, GivenUp
<1>5. l \in Sorts \X Nat /\ (l[1] \in {"requestOk", "authOk"} => l[2] = 0)
  BY <1>4 DEF LateOK
<1>6. Sort(call.op) \in Sorts
  BY DEF Sort, Sorts
<1>7. l[1] = Sort(call.op)
  BY <1>2, <1>4, <1>5, <1>6, GroupsDiffer
<1>8. Sort(call.op) \notin {"success", "openOk"} => call.c = 0
  <2>1. call.op \in ChannelOps => call.op \notin {"open", "direct", "listen"}
    BY DEF ChannelOps
  <2>2. call.op \notin ChannelOps \cup {"open", "direct"} => call.c = 0
    BY DEF CallOK
  <2> QED
    BY <2>1, <2>2 DEF Sort
<1>9. l[2] = call.c
  BY <1>2, <1>4, <1>5, <1>6, <1>7, <1>8 DEF Sorts
<1>10. l = <<l[1], l[2]>>
  BY <1>5
<1> QED
  BY <1>4, <1>7, <1>9, <1>10

\* A result is that of the call's own request, or of one that was given up.
LEMMA ResultStep ==
    ASSUME Types, AnswersInv, AnswersAreOwn, Next
    PROVE  AnswersAreOwn'
<1>1. late \subseteq late'
  BY LateStep
<1>2. CASE last' = last
  BY <1>1, <1>2 DEF AnswersAreOwn
<1>3. CASE last' = NoResult
  BY <1>3 DEF AnswersAreOwn, NoResult
<1>4. ASSUME NEW of, last' = Result("fail", of) PROVE AnswersAreOwn'
  BY <1>4 DEF AnswersAreOwn, Result
<1>5. ASSUME NEW rc, NEW of \in {0, call.own}, last' = Result(rc, of) PROVE AnswersAreOwn'
  BY <1>5 DEF AnswersAreOwn, Result
<1>6. ASSUME NEW i, Takes1(i) PROVE AnswersAreOwn'
  <2>1. CASE brigade[i].id = call.own
    BY <1>2, <1>5, <1>6, <2>1 DEF Takes1
  <2>2. CASE brigade[i].id # call.own
    <3>1. <<Sort(call.op), call.c>> \in late'
      BY <1>1, <1>6, <2>2, TakenLate
    <3>2. last' = last \/ \E rc : last' = Result(rc, brigade[i].id)
      BY <1>6 DEF Takes1
    <3> QED
      BY <1>2, <3>1, <3>2 DEF AnswersAreOwn, Result
  <2> QED
    BY <2>1, <2>2
<1>7. CASE Started \/ Turned \/ Begun \/ Skipped
  BY <1>2, <1>3, <1>4, <1>7 DEF Started, Turned, Begun, Skipped
<1>8. CASE Wrote
  BY <1>2, <1>4, <1>5, <1>8 DEF Wrote, Writes1
<1>9. CASE GivesUp1 \/ Failed1
  BY <1>2, <1>4, <1>9 DEF GivesUp1, Failed1, Fails1
<1>10. CASE Heard \/ Accepted1 \/ CancelSent \/ Freed1 \/ Cancelled1 \/ Served
  BY <1>2, <1>4, <1>5, <1>10 DEF Heard, Accepted1, CancelSent, Freed1, Cancelled1, Served
<1> QED
  BY <1>6, <1>7, <1>8, <1>9, <1>10, NextHappens DEF Happens

-----------------------------------------------------------------------------
(***************************************************************************)
(* The channels that are open.                                             *)
(***************************************************************************)
\* The elements of a sequence that grows or shrinks.
LEMMA SeqRange ==
    ASSUME NEW S, NEW s \in Seq(S)
    PROVE  /\ Range(s) \subseteq S
           /\ \A e \in S : Range(Append(s, e)) = Range(s) \cup {e}
           /\ s # <<>> => /\ Head(s) \in Range(s) /\ Range(Tail(s)) \subseteq Range(s)
           /\ \A i \in DOMAIN s : s[i] \in Range(s) /\ Range(RemoveAt(s, i)) \subseteq Range(s)
<1>1. Range(s) \subseteq S
  BY DEF Range
<1>2. ASSUME NEW e \in S PROVE Range(Append(s, e)) = Range(s) \cup {e}
  <2> DEFINE r == Append(s, e)
  <2>1. /\ \A k \in DOMAIN s : k \in DOMAIN r /\ r[k] = s[k]
        /\ Len(r) \in DOMAIN r /\ r[Len(r)] = e
        /\ \A k \in DOMAIN r : (k \in DOMAIN s /\ r[k] = s[k]) \/ (k = Len(s) + 1 /\ r[k] = e)
    BY AppendFacts
  <2> HIDE DEF r
  <2>2. Range(r) = Range(s) \cup {e}
    BY <2>1, Zenon DEF Range
  <2> QED
    BY <2>2 DEF r
<1>3. ASSUME s # <<>> PROVE Head(s) \in Range(s) /\ Range(Tail(s)) \subseteq Range(s)
  <2> DEFINE r == Tail(s)
  <2>1. /\ Head(s) = s[1] /\ 1 \in DOMAIN s
        /\ \A k \in DOMAIN r : k + 1 \in DOMAIN s /\ r[k] = s[k + 1]
    BY <1>3, TailFacts
  <2> HIDE DEF r
  <2>2. Range(r) \subseteq Range(s)
    BY <2>1 DEF Range
  <2> QED
    BY <2>1, <2>2 DEF r, Range
<1>4. ASSUME NEW i \in DOMAIN s PROVE s[i] \in Range(s) /\ Range(RemoveAt(s, i)) \subseteq Range(s)
  <2> DEFINE r == RemoveAt(s, i)
  <2>1. \A k \in DOMAIN r : Skip(i, k) \in DOMAIN s /\ r[k] = s[Skip(i, k)]
    BY RemoveFacts
  <2> HIDE DEF r
  <2>2. Range(r) \subseteq Range(s)
    BY <2>1 DEF Range
  <2> QED
    BY <2>2 DEF r, Range
<1> QED
  BY <1>1, <1>2, <1>3, <1>4

\* The packets on their way and what is asked, and where they come from.
LEMMA ReadPackets ==
    ASSUME NetOK, NEW rc, Reads(rc)
    PROVE  Packets' \subseteq Packets /\ peer'.asks = peer.asks
<1>0. brigade \in Seq(Answer) /\ inbound \in Seq(Packet)
  BY DEF NetOK
<1>1. CASE Stalls(rc)
  BY <1>1 DEF Stalls, Packets
<1>2. CASE Meets(rc)
  <2>1. PICK kind \in {"confirm", "refuse"} : \E d, w : Sent(kind, d, w)
    BY <1>2 DEF Meets, Connected
  <2>2. Answers(kind) = {}
    BY <2>1 DEF Answers
  <2>3. peer'.asks = peer.asks
    BY <2>1, <2>2 DEF Sent
  <2>4. brigade' = brigade /\ Range(inbound') \subseteq Range(inbound)
    BY <1>0, <1>2, SeqRange DEF Meets
  <2> QED
    BY <2>3, <2>4 DEF Packets
<1>3. CASE Gets(rc)
  <2>1. inbound # <<>> /\ inbound' = Tail(inbound) /\ peer' = peer
    BY <1>3 DEF Gets
  <2>2. Head(inbound) \in Range(inbound) /\ Range(inbound') \subseteq Range(inbound)
    BY <1>0, <2>1, SeqRange
  <2>3. Range(brigade') \subseteq Range(brigade) \cup {Head(inbound)}
    <3>1. CASE brigade' = brigade
      BY <3>1
    <3>2. CASE brigade' = Append(brigade, Head(inbound)) /\ Head(inbound) \in Answer
      BY <1>0, <3>2, SeqRange
    <3> QED
      BY <1>3, <3>1, <3>2, GetsFacts
  <2> QED
    BY <2>1, <2>2, <2>3 DEF Packets
<1> QED
  BY <1>1, <1>2, <1>3 DEF Reads

\* An answer of the server adds one packet, and asks nothing new.
LEMMA RepliedPackets ==
    ASSUME NetOK, NEW q, NEW t, Replied(q, t)
    PROVE  /\ Packets' = Packets \cup {[type |-> t, c |-> q.c, id |-> q.id]}
           /\ q \in Range(peer.asks) /\ q \in Asked /\ Range(peer'.asks) \subseteq Range(peer.asks)
           /\ t \in OpenTypes => q.kind = "open"
<1>0. inbound \in Seq(Packet) /\ peer.asks \in Seq(Asked)
  BY PeerFields DEF NetOK
<1>1. /\ brigade' = brigade /\ peer.asks # <<>> /\ q = Head(peer.asks) /\ peer'.asks = Tail(peer.asks)
      /\ [type |-> t, c |-> q.c, id |-> q.id] \in Packet /\ t \in Answers(q.kind)
      /\ inbound' = Append(inbound, [type |-> t, c |-> q.c, id |-> q.id])
  BY DEF Replied
<1>2. Range(inbound') = Range(inbound) \cup {[type |-> t, c |-> q.c, id |-> q.id]}
  BY <1>0, <1>1, SeqRange
<1>3. q \in Range(peer.asks) /\ Range(peer'.asks) \subseteq Range(peer.asks)
  BY <1>0, <1>1, SeqRange
<1>4. q \in Asked
  BY <1>0, <1>3, SeqRange
<1>5. t \in OpenTypes => q.kind = "open"
  BY <1>1, <1>4 DEF OpenTypes, Answers, Asked, AskKinds
<1> QED
  BY <1>1, <1>2, <1>3, <1>4, <1>5 DEF Packets

\* A packet sent unasked is no answer to an open.
LEMMA UnaskedPackets ==
    ASSUME NetOK, NEW kind, Unasked(kind)
    PROVE  /\ Packets' = Packets \cup {[type |-> kind, c |-> 0, id |-> 0]}
           /\ peer' = peer /\ kind \notin OpenTypes
<1>1. Range(inbound') = Range(inbound) \cup {[type |-> kind, c |-> 0, id |-> 0]}
  BY SeqRange DEF Unasked, NetOK
<1> QED
  BY <1>1 DEF Unasked, Packets, OpenTypes

\* A write asks the server of nothing but what was written.
LEMMA SentAsks ==
    ASSUME NetOK, NEW kind, NEW c \in Nat, NEW rc, Sent(kind, c, rc)
    PROVE  \A q \in Range(peer'.asks) : q \in Range(peer.asks) \/ (q.kind = kind /\ q.c = c /\ rc = "NONE")
<1>1. CASE peer'.asks = peer.asks
  BY <1>1
<1>2. CASE /\ rc = "NONE" /\ peer'.asks = Append(peer.asks, [kind |-> kind, c |-> c, id |-> peer.asked + 1])
           /\ [kind |-> kind, c |-> c, id |-> peer.asked + 1] \in Asked
  <2>1. peer.asks \in Seq(Asked)
    BY PeerFields DEF NetOK
  <2>2. Range(peer'.asks) = Range(peer.asks) \cup {[kind |-> kind, c |-> c, id |-> peer.asked + 1]}
    BY <1>2, <2>1, SeqRange
  <2> QED
    BY <1>2, <2>2
<1> QED
  BY <1>1, <1>2 DEF Sent

\* The program that opens a channel.
LEMMA OpenProgram ==
    ASSUME NEW op \in {"open", "direct"}
    PROVE  /\ Program(op)["created"].do = "write" /\ Program(op)["created"].kind = "open"
           /\ Program(op)["sent"].do = "require" /\ States(op) = {"created", "sent"}
           /\ Program(op)["created"].fail = "idle"
<1>1. Program(op) = ChannelOpen
  BY DEF Program, DirectTcpip
<1>2. /\ ChannelOpen["created"] = Writes("open", Goes("sent"), "idle")
      /\ ChannelOpen["sent"] = Requires(OpenReply, Answered(OpenReply, Ends("idle", "ok"), Ends("idle", "denied")), "idle")
  BY DEF ChannelOpen, Simple
<1>3. \A x, y, z : Writes(x, y, z).do = "write" /\ Writes(x, y, z).kind = x /\ Writes(x, y, z).fail = z
  BY DEF Writes
<1>4. \A x, y, z : Requires(x, y, z).do = "require"
  BY DEF Requires
<1>5. States(op) = {"created", "sent"}
  BY DEF States
<1> QED
  BY <1>1, <1>2, <1>3, <1>4, <1>5

\* The saved state of an open is set only while it is executed.
LEMMA OpeningFacts ==
    ASSUME SavedOK, CallOK
    PROVE  /\ saved[<<"open", 0>>] # "idle" => Opens
           /\ Opens => call.op \in Requests /\ MySlot = <<"open", 0>>
           /\ Opening => /\ saved[MySlot] \in {"created", "sent"}
                         /\ saved[MySlot] = "created" <=> Step.do = "write"
                         /\ saved[MySlot] = "sent" <=> Awaiting
                         /\ Step.do = "write" => Step.kind = "open" /\ Step.fail = "idle"
<1>1. saved[<<"open", 0>>] # "idle" => Opens
  <2>1. <<"open", 0>> \in Slots /\ <<"open", 0>>[1] = "open"
    BY DEF Slots
  <2>2. saved[<<"open", 0>>] # "idle" => <<"open", 0>> = CallSlot
    BY <2>1 DEF SavedOK, Left
  <2>3. <<"open", 0>> = CallSlot => Opens
    <3>1. CASE call.op = "none"
      BY <3>1 DEF CallSlot
    <3>2. CASE call.op # "none" /\ ~Opens
      BY <3>2 DEF CallSlot, Slot, Opens
    <3> QED
      BY <3>1, <3>2
  <2> QED
    BY <2>2, <2>3
<1>2. Opens => call.op \in Requests /\ MySlot = <<"open", 0>>
  BY DEF Opens, Requests, MySlot, Slot
<1>3. ASSUME Opening
      PROVE  /\ saved[MySlot] \in {"created", "sent"}
             /\ saved[MySlot] = "created" <=> Step.do = "write"
             /\ saved[MySlot] = "sent" <=> Awaiting
             /\ Step.do = "write" => Step.kind = "open" /\ Step.fail = "idle"
  <2>1. Opens /\ call.op \in Requests /\ MySlot = <<"open", 0>> /\ saved[MySlot] # "idle"
    BY <1>2, <1>3 DEF Opening
  <2>2. saved[MySlot] \in {"created", "sent"}
    BY <2>1, StepFacts, OpenProgram DEF Opens
  <2>3. /\ Program(call.op)["created"].do = "write" /\ Program(call.op)["created"].kind = "open"
        /\ Program(call.op)["sent"].do = "require" /\ Program(call.op)["created"].fail = "idle"
    BY <2>1, OpenProgram DEF Opens
  <2> QED
    BY <2>1, <2>2, <2>3 DEF Step, Awaiting
<1> QED
  BY <1>1, <1>2, <1>3

\* An open that goes on, or that begins.
LEMMA OpeningStep ==
    ASSUME Types, Next, Opening'
    PROVE  \/ Opening /\ call'.c = call.c /\ call'.op = call.op
           \/ Begun /\ Opens /\ call'.c = nextChannel
<1> USE DEF Types
<1>0. /\ call'.op \in {"open", "direct"} /\ saved'[<<"open", 0>>] # "idle"
      /\ SavedOK' /\ CallOK'
  BY ControlStep DEF Opening, Opens
<1>1. Returned => call'.op = call.op /\ call'.c = call.c
  BY <1>0, IdleFacts DEF Returned, HasCall
<1>2. ASSUME call'.op = call.op, call'.c = call.c, saved[MySlot] # "idle" PROVE Opening
  BY <1>0, <1>2, OpeningFacts DEF Opening, Opens
<1>3. ASSUME call'.op = call.op, call'.c = call.c, saved' = saved PROVE Opening
  BY <1>0, <1>3 DEF Opening, Opens
<1>4. \A s, n : Advances(s, n) => call'.op = call.op /\ call'.c = call.c
  BY DEF Advances, HasCall
<1>5. \A s : Finishes(s) => call'.op = call.op /\ call'.c = call.c
  BY <1>1 DEF Finishes
<1>6. \A x : GoesTo(x) => call'.op = call.op /\ call'.c = call.c /\ saved' = saved
  BY DEF GoesTo, HasCall
<1>7. CASE Started
  <2>1. saved' = saved /\ call.op = "none"
    BY <1>7, IdleFacts DEF Started
  <2>2. Opens
    BY <1>0, <2>1, OpeningFacts
  <2> QED
    BY <2>1, <2>2 DEF Opens
<1>8. CASE Turned \/ Heard
  BY <1>3, <1>6, <1>8 DEF Turned, Heard
<1>9. CASE Begun
  <2>1. call'.op = call.op
    BY <1>9 DEF Begun, HasCall
  <2>2. Opens
    BY <1>0, <2>1 DEF Opens
  <2> QED
    BY <1>9, <2>2 DEF Begun, HasCall
<1>10. CASE Skipped
  <2>1. CASE saved' = saved /\ Returned
    BY <1>1, <1>3, <2>1
  <2>2. CASE saved[MySlot] # "idle" /\ ((\E s : Advances(s, call.own)) \/ (\E s : Finishes(s)))
    BY <1>2, <1>4, <1>5, <2>2
  <2> QED
    BY <1>10, <2>1, <2>2 DEF Skipped
<1>11. CASE Wrote
  BY <1>2, <1>4, <1>5, <1>6, <1>11 DEF Wrote, Writes1
<1>12. ASSUME NEW i, Takes1(i) PROVE Opening /\ call'.c = call.c /\ call'.op = call.op
  BY <1>2, <1>4, <1>5, <1>12 DEF Takes1, Awaiting
<1>13. CASE GivesUp1 \/ Failed1
  BY <1>2, <1>5, <1>13 DEF GivesUp1, Failed1, Fails1, Awaiting
<1>14. CASE Accepted1 \/ CancelSent \/ Freed1 \/ Cancelled1
  BY <1>0, <1>1, <1>5, <1>14 DEF Accepted1, CancelSent, Freed1, FreedTo, Cancelled1, GoesTo, HasCall
<1>15. CASE Served
  BY <1>3, <1>15 DEF Served
<1> QED
  BY <1>7, <1>8, <1>9, <1>10, <1>11, <1>12, <1>13, <1>14, <1>15, NextHappens DEF Happens

\* The numbers of the channels, when the ones that are new are below the next.
LEMMA IdsKept ==
    ASSUME NetOK, NetOK', CallOK, IdsInv, nextChannel \in Nat, nextChannel' \in Nat, nextChannel <= nextChannel',
           \A c \in peer'.open : c \in peer.open \/ c < nextChannel',
           \A q \in Range(peer'.asks) : q \in Range(peer.asks) \/ (q.kind = "open" => q.c < nextChannel'),
           \A p \in Packets' : p \in Packets \/ (p.type \in OpenTypes => p.c < nextChannel'),
           add' = add \/ (add'.c # 0 => add'.c < nextChannel'),
           Opening' => (Opening /\ call'.c = call.c) \/ call'.c < nextChannel'
    PROVE  IdsInv'
<1>1. ASSUME NEW n \in Nat, n < nextChannel PROVE n < nextChannel'
  BY <1>1
<1>2. /\ peer.open \subseteq Nat /\ \A q \in Range(peer.asks) : q.c \in Nat
      /\ \A p \in Packets : p.c \in Nat
      /\ add.c \in Nat /\ call.c \in Nat
  <2>1. peer.open \subseteq Nat /\ Range(peer.asks) \subseteq Asked
    BY PeerFields, SeqRange DEF NetOK
  <2>2. Range(inbound) \subseteq Packet /\ Range(brigade) \subseteq Answer
    BY SeqRange DEF NetOK
  <2>3. add.c \in Nat /\ call.c \in Nat
    BY OpFacts DEF NetOK
  <2> QED
    BY <2>1, <2>2, <2>3 DEF Packets, Asked, Packet, Answer
<1>3. \A c \in peer'.open : c < nextChannel'
  BY <1>1, <1>2 DEF IdsInv
<1>4. \A q \in Range(peer'.asks) : q.kind = "open" => q.c < nextChannel'
  BY <1>1, <1>2 DEF IdsInv
<1>5. \A p \in Packets' : p.type \in OpenTypes => p.c < nextChannel'
  BY <1>1, <1>2 DEF IdsInv
<1>6. add'.c # 0 => add'.c < nextChannel'
  BY <1>1, <1>2 DEF IdsInv
<1>7. Opening' => call'.c < nextChannel'
  BY <1>1, <1>2 DEF IdsInv
<1> QED
  BY <1>3, <1>4, <1>5, <1>6, <1>7 DEF IdsInv

\* Only a confirmation and a close change what the server has open.
LEMMA SentOpen ==
    ASSUME disc \in BOOLEAN, NEW kind, NEW c, NEW rc, Sent(kind, c, rc)
    PROVE  /\ kind # "confirm" => peer'.open \subseteq peer.open
           /\ kind \notin {"confirm", "close"} => peer'.open = peer.open
           /\ rc # "NONE" => peer'.open = peer.open
           /\ kind = "confirm" => peer'.open \subseteq peer.open \cup {c}
           /\ kind = "confirm" /\ rc = "NONE" /\ ~disc => peer'.open = peer.open \cup {c}
BY DEF Sent

\* Every channel has a number that was given out.
LEMMA IdsStep ==
    ASSUME Types, IdsInv, Next
    PROVE  IdsInv'
<1> USE DEF Types
<1>0. /\ NetOK' /\ nextChannel \in Nat /\ nextChannel' \in Nat /\ nextChannel <= nextChannel' /\ disc \in BOOLEAN
  BY NetStep, NextFlows, ChansStep DEF ChansOK, OthersOK
<1>1. Opening' => (Opening /\ call'.c = call.c) \/ call'.c < nextChannel'
  <2>1. Begun /\ Opens /\ call'.c = nextChannel => call'.c < nextChannel'
    BY <1>0 DEF Begun
  <2> QED
    BY <2>1, OpeningStep
<1>2. ASSUME peer'.open \subseteq peer.open, Range(peer'.asks) \subseteq Range(peer.asks),
             Packets' \subseteq Packets, add' = add
      PROVE  IdsInv'
  BY <1>0, <1>1, <1>2, IdsKept
<1>3. CASE Quiet
  <2>1. Packets' = Packets /\ peer' = peer /\ add' = add
    BY <1>3 DEF Quiet, Packets
  <2> QED
    BY <1>2, <2>1
<1>4. ASSUME NEW i, Takes1(i) PROVE IdsInv'
  <2>1. i \in DOMAIN brigade /\ brigade' = RemoveAt(brigade, i) /\ UNCHANGED <<inbound, add, peer>>
    BY <1>4 DEF Takes1, TakesOut
  <2>2. Range(brigade') \subseteq Range(brigade)
    BY <2>1, SeqRange DEF NetOK
  <2> QED
    BY <1>2, <2>1, <2>2 DEF Packets
<1>5. CASE Wrote
  <2>1. /\ call.op \in Requests /\ saved[MySlot] # "idle" /\ Step.do = "write"
        /\ Shape(call.op, saved[MySlot], Step) /\ UNCHANGED <<brigade, inbound, add>>
    BY <1>5 DEF Wrote
  <2>2. PICK rc : Sent(Step.kind, call.c, rc)
    BY <1>5 DEF Wrote
  <2>3. Step.kind # "confirm" /\ (Step.kind = "open" => Opening)
    <3>1. Step.kind # "confirm" /\ (Step.kind = "open" => Opens)
      BY <2>1 DEF Shape, Opens
    <3> QED
      BY <2>1, <3>1, OpeningFacts DEF Opening
  <2>4. peer'.open \subseteq peer.open
    BY <1>0, <2>2, <2>3, SentOpen
  <2>5. \A q \in Range(peer'.asks) : q \in Range(peer.asks) \/ (q.kind = Step.kind /\ q.c = call.c)
    BY <2>2, SentAsks, OpFacts
  <2>6. Opening => call.c < nextChannel'
    <3>1. call.c \in Nat
      BY OpFacts
    <3> QED
      BY <1>0, <3>1 DEF IdsInv
  <2>7. Packets' = Packets
    BY <2>1 DEF Packets
  <2> QED
    BY <1>0, <1>1, <2>1, <2>3, <2>4, <2>5, <2>6, <2>7, IdsKept
<1>6. CASE Heard
  <2>1. PICK rc : Reads(rc)
    BY <1>6 DEF Heard
  <2>2. Packets' \subseteq Packets /\ peer'.asks = peer.asks
    BY <2>1, ReadPackets
  <2>3. CASE Stalls(rc) \/ Gets(rc)
    <3>1. peer' = peer /\ add' = add
      BY <2>3 DEF Stalls, Gets
    <3> QED
      BY <1>2, <2>2, <3>1
  <2>4. CASE Meets(rc)
    <3>1. PICK type \in {"forward", "x11"}, confirm \in BOOLEAN, id \in Nat, w \in {"NONE", "EAGAIN", "FAIL"} :
            Connected(type, confirm, id, w, rc)
      BY <2>4 DEF Meets
    <3>2. Sent(IF confirm THEN "confirm" ELSE "refuse", id, w)
      BY <3>1 DEF Connected
    <3>3. id = 0 \/ id < nextChannel'
      <4>1. CASE Resumed
        <5>1. id = add.c
          BY <3>1, <4>1 DEF Connected
        <5> QED
          BY <1>0, <5>1 DEF IdsInv
      <4>2. CASE ~Resumed /\ confirm
        BY <1>0, <3>1, <4>2 DEF Connected
      <4>3. CASE ~Resumed /\ ~confirm
        BY <3>1, <4>3 DEF Connected
      <4> QED
        BY <4>1, <4>2, <4>3
    <3>4. confirm => id < nextChannel'
      <4>1. CASE Resumed
        BY <3>1, <3>3, <4>1 DEF Connected
      <4>2. CASE ~Resumed /\ confirm
        BY <1>0, <3>1, <4>2 DEF Connected
      <4> QED
        BY <4>1, <4>2
    <3>5. \A c \in peer'.open : c \in peer.open \/ c < nextChannel'
      <4>1. CASE confirm
        BY <1>0, <3>2, <3>4, <4>1, SentOpen
      <4>2. CASE ~confirm
        BY <1>0, <3>2, <4>2, SentOpen
      <4> QED
        BY <4>1, <4>2
    <3>6. add'.c # 0 => add'.c < nextChannel'
      <4>1. add' = IF w = "EAGAIN" THEN [type |-> type, c |-> id, id |-> 0] ELSE NoAdd
        BY <3>1 DEF Connected
      <4>2. add'.c = id \/ add'.c = 0
        BY <4>1 DEF NoAdd
      <4> QED
        BY <3>3, <4>2
    <3> QED
      BY <1>0, <1>1, <2>2, <3>5, <3>6, IdsKept
  <2> QED
    BY <2>1, <2>3, <2>4 DEF Reads
<1>7. CASE CancelSent \/ Freed1
  <2>1. UNCHANGED <<brigade, inbound, add>>
    BY <1>7 DEF CancelSent, Freed1
  <2>2. UNCHANGED <<peer, sock>> \/ \E kind \in {"cancel", "close"}, d \in Nat : \E rc : Sent(kind, d, rc)
    BY <1>7, Zenon DEF CancelSent, Freed1
  <2>3. ASSUME NEW kind \in {"cancel", "close"}, NEW d \in Nat, NEW rc, Sent(kind, d, rc) PROVE IdsInv'
    <3>1. peer'.open \subseteq peer.open
      BY <1>0, <2>3, SentOpen
    <3>2. \A q \in Range(peer'.asks) : q \in Range(peer.asks) \/ q.kind # "open"
      BY <2>3, SentAsks
    <3>3. Packets' = Packets
      BY <2>1 DEF Packets
    <3> QED
      BY <1>0, <1>1, <2>1, <3>1, <3>2, <3>3, IdsKept
  <2>4. ASSUME UNCHANGED <<peer, sock>> PROVE IdsInv'
    BY <1>2, <2>1, <2>4 DEF Packets
  <2> QED
    BY <2>2, <2>3, <2>4
<1>8. ASSUME NEW q, NEW t, Replied(q, t) PROVE IdsInv'
  <2>1. /\ Packets' = Packets \cup {[type |-> t, c |-> q.c, id |-> q.id]}
        /\ q \in Range(peer.asks) /\ q \in Asked /\ Range(peer'.asks) \subseteq Range(peer.asks)
        /\ t \in OpenTypes => q.kind = "open"
    BY <1>8, RepliedPackets
  <2>2. t \in OpenTypes => q.c < nextChannel'
    <3>1. q.c \in Nat
      BY <2>1 DEF Asked
    <3> QED
      BY <1>0, <2>1, <3>1 DEF IdsInv
  <2>3. \A c \in peer'.open : c \in peer.open \/ c < nextChannel'
    BY <1>8, <2>2 DEF Replied, OpenTypes
  <2>4. add' = add
    BY <1>8 DEF Replied
  <2> QED
    BY <1>0, <1>1, <2>1, <2>2, <2>3, <2>4, IdsKept
<1>9. ASSUME NEW kind, Unasked(kind) PROVE IdsInv'
  <2>1. Packets' = Packets \cup {[type |-> kind, c |-> 0, id |-> 0]} /\ peer' = peer /\ kind \notin OpenTypes
    BY <1>9, UnaskedPackets
  <2>2. add' = add
    BY <1>9 DEF Unasked
  <2> QED
    BY <1>0, <1>1, <2>1, <2>2, IdsKept
<1>10. CASE Broken
  <2>1. Range(<<>>) = {}
    BY DEF Range
  <2>2. /\ peer'.open = peer.open /\ Range(peer'.asks) = {} /\ Packets' \subseteq Packets /\ add' = add
    BY <1>10, <2>1 DEF Broken, Packets
  <2> QED
    BY <1>2, <2>2
<1>11. CASE Started \/ Turned \/ Begun \/ Skipped \/ GivesUp1 \/ Failed1 \/ Accepted1 \/ Cancelled1
  BY <1>3, <1>11 DEF Started, Turned, Alone, Begun, Skipped, GivesUp1, Failed1, Fails1, Accepted1, Cancelled1
<1>12. CASE Served
  BY <1>8, <1>9, <1>10, <1>12 DEF Served
<1> QED
  BY <1>4, <1>5, <1>6, <1>7, <1>11, <1>12, NextHappens DEF Happens

\* The connection does not come back, and what was given up or cancelled stays so.
LEMMA CalmBefore ==
    ASSUME Types, Next, Calm'
    PROVE  Calm
<1> USE DEF Types
<1>0. /\ sock' = "up" /\ ~disc' /\ late' = {} /\ ~crashed' /\ ~lst'.cancelled /\ ~Freeing'
      /\ disc \in BOOLEAN /\ sock \in {"up", "broken"}
  BY DEF Calm, Orderly, OthersOK, NetOK
<1>1. late = {}
  BY <1>0, LateStep
<1>2. sock = "up" /\ ~disc
  <2>1. \A kind, c, rc : Sent(kind, c, rc) => sock = "up"
    BY <1>0 DEF Sent
  <2>2. ASSUME NEW rc, Reads(rc) PROVE sock = "up" /\ ~disc
    <3>1. Stalls(rc) \/ Gets(rc) => sock = "up" /\ ~disc
      BY <1>0 DEF Stalls, Gets
    <3>2. Meets(rc) => sock = "up" /\ ~disc
      BY <1>0, <2>1 DEF Meets, Connected
    <3> QED
      BY <2>2, <3>1, <3>2 DEF Reads
  <2>3. CASE Quiet \/ (\E kind, c, rc : Sends(kind, c, rc)) \/ (\E i : TakesOut(i))
    BY <1>0, <2>1, <2>3 DEF Quiet, Sends, TakesOut
  <2>4. CASE (\E q, t : Replied(q, t)) \/ (\E kind : Unasked(kind)) \/ Broken
    BY <1>0, <2>4 DEF Replied, Unasked, Broken
  <2> QED
    BY <2>2, <2>3, <2>4, NextFlows DEF Flows
<1>3. ASSUME NEW rc, Reads(rc) PROVE ~crashed /\ ~lst.cancelled
  <2>1. ~crashed
    BY <1>0, <1>3 DEF Reads, Stalls, Gets, Meets, Connected
  <2>2. lst'.cancelled = lst.cancelled
    BY <1>3, ReadChans DEF Grows
  <2> QED
    BY <1>0, <2>1, <2>2
<1>4. ~crashed /\ ~lst.cancelled
  <2>1. CASE Started \/ Turned \/ Begun \/ Skipped \/ Wrote \/ GivesUp1 \/ Failed1
    BY <1>0, <2>1 DEF Started, Turned, Alone, Begun, Skipped, Wrote, GivesUp1, Failed1, Fails1
  <2>2. ASSUME NEW i, Takes1(i) PROVE ~crashed /\ ~lst.cancelled
    <3>1. crashed' = crashed /\ (lst' = lst \/ lst' = NewListener)
      BY <2>2 DEF Takes1
    <3> QED
      BY <1>0, <3>1, ListenerFacts DEF ListenOK
  <2>3. CASE Heard
    BY <1>3, <2>3 DEF Heard
  <2>4. CASE Accepted1 \/ CancelSent \/ Freed1 \/ Served
    BY <1>0, <2>4 DEF Accepted1, CancelSent, Freed1, FreedTo, Served, Shrinks
  <2>5. CASE Cancelled1
    BY <1>0, <2>5, ListenerFacts DEF Cancelled1, ListenOK
  <2> QED
    BY <2>1, <2>2, <2>3, <2>4, <2>5, NextHappens DEF Happens
<1>5. ASSUME Freeing PROVE FALSE
  <2>1. call.op = "cancel" /\ call.at \in {"free", "await", "freed", "end"} /\ call.op \notin Requests
    BY <1>5 DEF Freeing, Requests, ChannelOps, AuthOps
  <2>2. Heard \/ Freed1 \/ Cancelled1 \/ Served
    BY <2>1, NextHappens, IdleFacts DEF Happens, Started, Turned, Begun, Skipped, Wrote, Takes1, GivesUp1,
       Failed1, Fails1, Awaiting, Accepted1, CancelSent, AuthOps, Requests
  <2>3. CASE Heard
    <3>1. \E x \in {"await", "freed"} : GoesTo(x)
      BY <2>1, <2>3 DEF Heard, Awaiting
    <3> QED
      BY <1>0, <2>1, <3>1 DEF GoesTo, HasCall, Freeing
  <2>4. CASE Freed1
    <3>1. \E x \in {"free", "await", "end"} : GoesTo(x)
      BY <2>4 DEF Freed1, FreedTo
    <3> QED
      BY <1>0, <2>1, <3>1 DEF GoesTo, HasCall, Freeing
  <2>5. CASE Cancelled1
    BY <1>0, <2>5, ListenerFacts DEF Cancelled1, ListenOK
  <2>6. CASE Served
    BY <1>0, <2>1, <2>6 DEF Served, Freeing
  <2> QED
    BY <2>2, <2>3, <2>4, <2>5, <2>6
<1> QED
  BY <1>1, <1>2, <1>4, <1>5 DEF Calm, Orderly

OpenClauses == SameOpen /\ OpeningOK /\ AsksOK /\ AnswersOK

\* Nothing is opened or closed.
LEMMA OpenKept ==
    ASSUME OpenClauses, peer'.open = peer.open, Shared' = Shared, Opening' <=> Opening,
           Opening => /\ call'.c = call.c /\ chans' = chans /\ lst'.queue = lst.queue
                      /\ saved'[<<"open", 0>>] = "created" => saved[<<"open", 0>>] = "created",
           \A q \in Range(peer'.asks) :
             q \in Range(peer.asks) \/ (q.kind = "open" => q.c \notin peer.open),
           \A p \in Packets' :
             p \in Packets \/ p.type \notin OpenTypes \/ (p.type = "openFail" /\ p.c \notin peer.open)
    PROVE  OpenClauses'
<1>1. SameOpen'
  BY DEF OpenClauses, SameOpen
<1>2. OpeningOK'
  BY DEF OpenClauses, OpeningOK
<1>3. AsksOK'
  BY DEF OpenClauses, AsksOK
<1>4. AnswersOK'
  BY DEF OpenClauses, AnswersOK, OpenTypes
<1> QED
  BY <1>1, <1>2, <1>3, <1>4 DEF OpenClauses

\* The channel that was being opened is open, or is taken out of the session.
LEMMA OpenEnds ==
    ASSUME OpenClauses, Opening, ~Opening', peer'.open = peer.open, lst'.queue = lst.queue,
           \/ chans' = chans /\ call.c \in peer.open
           \/ chans' = chans \ {call.c} /\ call.c \notin peer.open,
           Range(peer'.asks) \subseteq Range(peer.asks), Packets' \subseteq Packets
    PROVE  OpenClauses'
<1>1. call.c \in chans /\ call.c \notin Range(lst.queue)
  BY DEF OpenClauses, OpeningOK
<1>2. SameOpen'
  <2> SUFFICES ASSUME NEW c \in peer'.open \cup Shared'
               PROVE  c \in peer'.open <=> c \in Shared'
    BY DEF SameOpen
  <2>1. CASE c = call.c
    BY <1>1, <2>1 DEF Shared
  <2>2. CASE c # call.c
    BY <2>2 DEF OpenClauses, SameOpen, Shared
  <2> QED
    BY <2>1, <2>2
<1>3. OpeningOK'
  BY DEF OpeningOK
<1>4. AsksOK'
  BY DEF OpenClauses, AsksOK
<1>5. AnswersOK'
  BY DEF OpenClauses, AnswersOK
<1> QED
  BY <1>2, <1>3, <1>4, <1>5 DEF OpenClauses

\* A connection is made on both sides.
LEMMA OpenLinked ==
    ASSUME OpenClauses, IdsInv, nextChannel \in Nat, peer'.open = peer.open \cup {nextChannel},
           Shared' = Shared \cup {nextChannel}, Opening' <=> Opening, saved' = saved, call'.c = call.c,
           chans \subseteq chans', Range(lst'.queue) \subseteq Range(lst.queue) \cup {nextChannel},
           Range(peer'.asks) \subseteq Range(peer.asks), Packets' \subseteq Packets
    PROVE  OpenClauses'
<1>0. \A n : n < nextChannel => n # nextChannel
  OBVIOUS
<1>1. SameOpen'
  BY DEF OpenClauses, SameOpen
<1>2. OpeningOK'
  BY <1>0 DEF OpenClauses, OpeningOK, IdsInv
<1>3. AsksOK'
  BY <1>0 DEF OpenClauses, AsksOK, IdsInv
<1>4. AnswersOK'
  BY <1>0 DEF OpenClauses, AnswersOK, IdsInv, OpenTypes
<1> QED
  BY <1>1, <1>2, <1>3, <1>4 DEF OpenClauses

\* The channel that is to be opened has a number of its own.
LEMMA OpenBegun ==
    ASSUME Types, OpenClauses, IdsInv, Begun, Opens
    PROVE  OpenClauses'
<1> USE DEF Types
<1>1. /\ Quiet /\ lst' = lst /\ HasCall(call.op, nextChannel, "run", call.own)
      /\ chans' = chans \cup {nextChannel} /\ Saves("created") /\ saved[MySlot] = "idle"
      /\ "created" \in States(call.op)
  BY DEF Begun
<1>2. nextChannel \in Nat /\ \A c \in chans \cup Range(lst.queue) : c < nextChannel
  BY DEF ChansOK
<1>3. nextChannel \notin chans \cup Range(lst.queue) /\ nextChannel \notin peer.open
  BY <1>2 DEF IdsInv
<1>4. ~Opening /\ call'.c = nextChannel /\ call'.op = call.op
  BY <1>1, OpeningFacts DEF Opening, HasCall
<1>5. Opening'
  <2>1. saved'[<<"open", 0>>] = "created"
    BY <1>1, SavedFacts, OpeningFacts
  <2> QED
    BY <1>4, <2>1 DEF Opening, Opens
<1>6. peer' = peer /\ Packets' = Packets /\ Shared' = Shared \cup {nextChannel}
  BY <1>1 DEF Quiet, Packets, Shared
<1>7. SameOpen'
  BY <1>3, <1>4, <1>5, <1>6 DEF OpenClauses, SameOpen
<1>8. OpeningOK'
  BY <1>1, <1>3, <1>4, <1>6 DEF OpeningOK
<1>9. AsksOK' /\ AnswersOK'
  BY <1>6 DEF OpenClauses, AsksOK, AnswersOK
<1> QED
  BY <1>7, <1>8, <1>9 DEF OpenClauses

\* When nothing was given up, the answer to an open on its way is that of the open that
\* is executed.
LEMMA OpenOwner ==
    ASSUME Types, KnownInv, late = {}, NEW t \in OpenTypes, NEW c, NEW n, Pending(t, c, n)
    PROVE  Opening /\ Awaiting /\ c = call.c /\ n = call.own
<1> USE DEF Types
<1>1. Owner(t, c, n)
  BY DEF KnownInv, Known, GivenUp
<1>2. Awaiting /\ Sort(call.op) \in Sorts /\ t \in Group(Sort(call.op)) /\ c = call.c /\ n = call.own
  BY <1>1, OwnerGroup
<1>3. t \in Group("openOk") /\ "openOk" \in Sorts
  BY DEF Group, OpenTypes, Sorts
<1>4. Sort(call.op) = "openOk"
  BY <1>2, <1>3, GroupsDiffer
<1>5. Opens
  BY <1>4 DEF Sort, Opens
<1>6. Opening
  BY <1>2, <1>5, OpeningFacts DEF Opening, Awaiting
<1> QED
  BY <1>2, <1>6

\* A denied open leaves what it was; one that succeeds is open before its answer is read.
LEMMA OpenReplied ==
    ASSUME Types, OrderInv, KnownInv, OpenClauses, late = {}, NEW q, NEW t, Replied(q, t),
           UNCHANGED <<saved, call, lst, chans>>
    PROVE  OpenClauses'
<1> USE DEF Types
<1>1. /\ Packets' = Packets \cup {[type |-> t, c |-> q.c, id |-> q.id]}
      /\ q \in Range(peer.asks) /\ q \in Asked /\ Range(peer'.asks) \subseteq Range(peer.asks)
      /\ t \in OpenTypes => q.kind = "open"
  BY RepliedPackets
<1>2. /\ ~disc /\ t \in Answers(q.kind) /\ peer.asks # <<>> /\ q = Head(peer.asks) /\ peer'.asks = Tail(peer.asks)
      /\ peer'.open = (IF t = "openOk" THEN peer.open \cup {q.c} ELSE peer.open)
  BY DEF Replied
<1>3. Opening' <=> Opening
  BY DEF Opening, Opens
<1>4. CASE t # "openOk"
  <2>1. peer'.open = peer.open /\ Shared' = Shared
    BY <1>2, <1>4 DEF Shared
  <2>2. t = "openFail" => q.c \notin peer.open
    BY <1>1 DEF OpenClauses, AsksOK, OpenTypes
  <2>3. \A p \in Packets' :
          p \in Packets \/ p.type \notin OpenTypes \/ (p.type = "openFail" /\ p.c \notin peer.open)
    BY <1>1, <1>4, <2>2 DEF OpenTypes
  <2> QED
    BY <1>1, <1>3, <2>1, <2>3, OpenKept
<1>5. CASE t = "openOk"
  <2>1. q.kind = "open" /\ peer'.open = peer.open \cup {q.c}
    BY <1>1, <1>2, <1>5 DEF OpenTypes
  <2>2. peer.asks \in Seq(Asked)
    BY PeerFields DEF NetOK
  <2>3. /\ q = peer.asks[1] /\ 1 \in DOMAIN peer.asks /\ q.id \in Nat \ {0}
        /\ \A k \in DOMAIN peer'.asks : k + 1 \in DOMAIN peer.asks /\ k + 1 > 1 /\ peer'.asks[k] = peer.asks[k + 1]
    BY <1>1, <1>2, <2>2, TailFacts DEF Asked
  <2>4. \A k \in DOMAIN peer.asks : peer.asks[k].id \in Nat \ {0}
    <3>1. \A k \in DOMAIN peer.asks : peer.asks[k] \in Asked
      BY <2>2
    <3> QED
      BY <3>1 DEF Asked
  <2>5. Opening /\ Awaiting /\ q.c = call.c /\ q.id = call.own
    <3>1. Pending(t, q.c, q.id)
      BY <1>2, <2>1, <2>3 DEF Pending
    <3> QED
      BY <1>5, <3>1, OpenOwner DEF OpenTypes
  <2>6. \A r \in Range(peer'.asks) : r.kind # "open"
    <3> SUFFICES ASSUME NEW k \in DOMAIN peer'.asks, peer'.asks[k].kind = "open" PROVE FALSE
      BY DEF Range
    <3>1. /\ k + 1 \in DOMAIN peer.asks /\ 1 < k + 1 /\ peer.asks[k + 1].kind = "open"
          /\ k + 1 \in Nat
      BY <2>2, <2>3
    <3>2. peer.asks[1].id < peer.asks[k + 1].id
      BY <2>3, <2>4, <3>1 DEF OrderInv, Rises
    <3>3. "openOk" \in Answers("open") /\ "openOk" \in OpenTypes
      BY DEF Answers, OpenTypes
    <3>4. Pending("openOk", peer.asks[k + 1].c, peer.asks[k + 1].id)
      BY <1>2, <3>1, <3>3 DEF Pending
    <3>5. peer.asks[k + 1].id = q.id
      BY <2>5, <3>3, <3>4, OpenOwner
    <3> QED
      BY <2>3, <3>2, <3>5
  <2>7. \A p \in Packets : p.type \notin OpenTypes
    <3>1. ASSUME NEW k \in DOMAIN inbound, inbound[k].type \in OpenTypes PROVE FALSE
      <4>1. inbound[k].id < q.id
        BY <2>3, <2>4 DEF OrderInv, Below
      <4>0. inbound[k].id \in Nat
        <5>1. inbound[k] \in Packet
          BY DEF NetOK
        <5> QED
          BY <5>1 DEF Packet
      <4>2. Pending(inbound[k].type, inbound[k].c, inbound[k].id)
        BY <1>2, <3>1 DEF Pending, OpenTypes, AnswerTypes
      <4>3. inbound[k].id = q.id
        BY <2>5, <3>1, <4>2, OpenOwner
      <4> QED
        BY <4>0, <4>1, <4>3
    <3>2. ASSUME NEW k \in DOMAIN brigade, brigade[k].type \in OpenTypes PROVE FALSE
      <4>1. brigade[k].id < q.id
        BY <2>3, <2>4 DEF OrderInv, Below
      <4>0. brigade[k].id \in Nat
        <5>1. brigade[k] \in Answer
          BY DEF NetOK
        <5> QED
          BY <5>1 DEF Answer
      <4>2. Pending(brigade[k].type, brigade[k].c, brigade[k].id)
        BY DEF Pending
      <4>3. brigade[k].id = q.id
        BY <2>5, <3>2, <4>2, OpenOwner
      <4> QED
        BY <4>0, <4>1, <4>3
    <3> QED
      BY <3>1, <3>2 DEF Packets, Range
  <2>8. SameOpen'
    BY <1>3, <2>1, <2>5 DEF OpenClauses, SameOpen, Shared
  <2>9. OpeningOK'
    BY <1>3, <2>5, OpeningFacts DEF OpenClauses, OpeningOK
  <2>10. AsksOK'
    BY <2>6 DEF AsksOK
  <2>11. AnswersOK'
    BY <1>1, <1>5, <2>1, <2>7 DEF AnswersOK, OpenTypes
  <2> QED
    BY <2>8, <2>9, <2>10, <2>11 DEF OpenClauses
<1> QED
  BY <1>4, <1>5

\* A request is written: one for a channel only when nothing is open under its number.
LEMMA OpenWrote ==
    ASSUME Types, Next, OpenClauses, Wrote
    PROVE  OpenClauses'
<1> USE DEF Types
<1>1. /\ call.op \in Requests /\ saved[MySlot] # "idle" /\ Step.do = "write"
      /\ Shape(call.op, saved[MySlot], Step) /\ UNCHANGED <<brigade, inbound, lst>>
  BY DEF Wrote
<1>2. PICK rc : Sent(Step.kind, call.c, rc) /\ Writes1(rc)
  BY DEF Wrote
<1>3. Step.kind \notin {"confirm", "close"} /\ (Step.kind = "open" => Opening) /\ (Opens => Opening)
  <2>1. Step.kind \notin {"confirm", "close"} /\ (Step.kind = "open" => Opens)
    BY <1>1 DEF Shape, Opens
  <2> QED
    BY <1>1, <2>1, OpeningFacts DEF Opening
<1>4. peer'.open = peer.open /\ Packets' = Packets
  BY <1>1, <1>2, <1>3, SentOpen DEF Packets, OthersOK
<1>5. \A q \in Range(peer'.asks) : q \in Range(peer.asks) \/ (q.kind = Step.kind /\ q.c = call.c /\ rc = "NONE")
  BY <1>2, SentAsks, OpFacts
<1>6. Opening => saved[<<"open", 0>>] = "created" /\ call.c \notin peer.open /\ Step.fail = "idle"
  BY <1>1, OpeningFacts DEF OpenClauses, OpeningOK, Opening
<1>7. \A q \in Range(peer'.asks) : q \in Range(peer.asks) \/ (q.kind = "open" => q.c \notin peer.open)
  BY <1>3, <1>5, <1>6
<1>8. CASE ~Opening
  <2>1. ~Opening'
    BY <1>1, <1>8, OpeningStep DEF Begun
  <2>2. chans' = chans
    BY <1>2, <1>3, <1>8 DEF Writes1
  <2> QED
    BY <1>1, <1>4, <1>7, <1>8, <2>1, <2>2, OpenKept DEF Shared
<1>9. CASE Opening
  <2>1. Opens /\ MySlot = <<"open", 0>> /\ call.op # "ptySize"
    BY <1>9, OpeningFacts DEF Opening, Opens
  <2>2. CASE rc = "FAIL" /\ chans' = (IF Opens THEN chans \ {call.c} ELSE chans) /\ Finishes(Step.fail)
    <3>1. saved'[<<"open", 0>>] = "idle"
      BY <1>1, <1>6, <1>9, <2>1, <2>2, SavedFacts DEF Finishes
    <3>2. ~Opening'
      BY <3>1 DEF Opening
    <3>3. Range(peer'.asks) \subseteq Range(peer.asks)
      BY <1>5, <2>2
    <3> QED
      BY <1>1, <1>4, <1>6, <1>9, <2>1, <2>2, <3>2, <3>3, OpenEnds
  <2>3. CASE chans' = chans /\ GoesTo("select")
    <3>1. (Opening' <=> Opening) /\ call'.c = call.c /\ saved' = saved
      BY <2>3 DEF GoesTo, HasCall, Opening, Opens
    <3> QED
      BY <1>1, <1>4, <1>7, <2>3, <3>1, OpenKept DEF Shared
  <2>4. CASE chans' = chans /\ \E n : Advances(Step.ok.to, n)
    <3>1. Step.ok.to \in States(call.op) /\ Saves(Step.ok.to) /\ call'.op = call.op /\ call'.c = call.c
      BY <2>4 DEF Advances, HasCall
    <3>2. saved'[<<"open", 0>>] = Step.ok.to /\ Step.ok.to # "idle"
      BY <1>1, <2>1, <3>1, SavedFacts DEF States
    <3>3. Opening'
      BY <2>1, <3>1, <3>2 DEF Opening, Opens
    <3> QED
      BY <1>1, <1>4, <1>6, <1>7, <1>9, <2>4, <3>1, <3>3, OpenKept DEF Shared
  <2> QED
    BY <1>2, <2>1, <2>2, <2>3, <2>4 DEF Writes1
<1> QED
  BY <1>8, <1>9

\* The answer to an open is taken.
LEMMA OpenTaken ==
    ASSUME Types, Next, OpenClauses, NEW i, Takes1(i)
    PROVE  OpenClauses'
<1> USE DEF Types
<1> DEFINE p == brigade[i]
<1>1. /\ Awaiting /\ Shape(call.op, saved[MySlot], Step) /\ Fits(p) /\ i \in DOMAIN brigade
      /\ brigade' = RemoveAt(brigade, i) /\ UNCHANGED <<inbound, peer>>
      /\ lst' = IF p.type = "requestOk" THEN NewListener ELSE lst
      /\ chans' = chans \/ (Opens /\ Step.on[p.type].rc = "denied" /\ chans' = chans \ {call.c})
  BY DEF Takes1, TakesOut
<1>2. Range(brigade') \subseteq Range(brigade) /\ p \in Range(brigade)
  BY <1>1, SeqRange DEF NetOK
<1>3. Packets' \subseteq Packets /\ p \in Packets
  BY <1>1, <1>2 DEF Packets
<1>4. /\ p.type \in Range(Step.types) /\ p.type \in Group(Sort(call.op))
      /\ ByChannel(Step.types) <=> Sort(call.op) \in {"success", "openOk"}
  BY <1>1 DEF Fits, Shape, Awaiting
<1>5. CASE ~Opens
  <2>1. ~Opening /\ ~Opening'
    BY <1>5, OpeningStep DEF Opening
  <2>2. p.type = "requestOk" => call.op = "listen"
    BY <1>4 DEF Sort, Group
  <2>3. lst'.queue = lst.queue
    BY <1>1, <2>2, ListenerFacts DEF ListenOK
  <2> QED
    BY <1>1, <1>3, <1>5, <2>1, <2>3, OpenKept DEF Shared
<1>6. CASE Opens
  <2>1. Sort(call.op) = "openOk" /\ Opening
    BY <1>1, <1>6, OpeningFacts DEF Sort, Opens, ChannelOps, Opening, Awaiting
  <2>2. p.type \in OpenTypes /\ p.c = call.c
    BY <1>1, <1>4, <2>1 DEF Group, OpenTypes, Fits
  <2>3. lst' = lst
    BY <1>1, <2>2 DEF OpenTypes
  <2>4. CASE p.type = "openOk"
    <3>1. Step.on[p.type].rc = "ok"
      BY <1>1, <1>4, <2>4 DEF Shape, Awaiting
    <3>2. chans' = chans /\ call' = Idle
      BY <1>1, <3>1 DEF Takes1
    <3>3. ~Opening'
      BY <3>2, IdleFacts DEF Opening, Opens
    <3>4. call.c \in peer.open
      <4>1. \A r \in Packets : r.type = "openOk" => r.c \in peer.open
        BY ONLY OpenClauses DEF OpenClauses, AnswersOK
      <4> HIDE DEF p
      <4> QED
        BY <1>3, <2>2, <2>4, <4>1
    <3> QED
      BY <1>1, <1>3, <2>1, <2>3, <3>2, <3>3, <3>4, OpenEnds
  <2>5. CASE p.type = "openFail"
    <3>1. Step.on[p.type].rc = "denied" /\ Step.on[p.type].to = "idle"
      BY <1>1, <1>4, <2>5 DEF Shape, Awaiting
    <3>2. chans' = chans \ {call.c} /\ Finishes("idle")
      BY <1>6, <3>1 DEF Takes1
    <3>3. saved'[<<"open", 0>>] = "idle"
      BY <1>1, <1>6, <3>2, SavedFacts, OpeningFacts DEF Finishes, Awaiting
    <3>4. ~Opening'
      BY <3>3 DEF Opening
    <3>5. call.c \notin peer.open
      <4>1. \A r \in Packets : r.type = "openFail" => r.c \notin peer.open
        BY ONLY OpenClauses DEF OpenClauses, AnswersOK
      <4> HIDE DEF p
      <4> QED
        BY <1>3, <2>2, <2>5, <4>1
    <3> QED
      BY <1>1, <1>3, <2>1, <2>3, <3>2, <3>4, <3>5, OpenEnds
  <2> QED
    BY <2>2, <2>4, <2>5 DEF OpenTypes
<1> QED
  BY <1>5, <1>6

\* A connection that is met is made on both sides, or on none.
LEMMA OpenHeard ==
    ASSUME Types, IdsInv, OpenClauses, Calm, Calm', Heard
    PROVE  OpenClauses'
<1> USE DEF Types
<1>1. PICK rc, x : Reads(rc) /\ GoesTo(x)
  BY DEF Heard
<1>2. (Opening' <=> Opening) /\ call'.c = call.c /\ saved' = saved
  BY <1>1 DEF GoesTo, HasCall, Opening, Opens
<1>3. Packets' \subseteq Packets /\ peer'.asks = peer.asks
  BY <1>1, ReadPackets
<1>4. ASSUME peer'.open = peer.open, chans' = chans, lst' = lst PROVE OpenClauses'
  BY <1>2, <1>3, <1>4, OpenKept DEF Shared
<1>5. CASE Stalls(rc) \/ Gets(rc)
  <2>1. peer' = peer /\ chans' = chans /\ lst' = lst
    BY <1>5 DEF Stalls, Gets
  <2> QED
    BY <1>4, <2>1
<1>6. CASE Meets(rc)
  <2>1. PICK type \in {"forward", "x11"}, confirm \in BOOLEAN, id \in Nat, w \in {"NONE", "EAGAIN", "FAIL"} :
          Connected(type, confirm, id, w, rc)
    BY <1>6 DEF Meets
  <2>2. Sent(IF confirm THEN "confirm" ELSE "refuse", id, w) /\ disc \in BOOLEAN /\ ~disc
    BY <2>1 DEF Connected, Calm, Orderly, OthersOK
  <2>3. CASE w # "NONE" \/ ~confirm
    <3>1. chans' = chans /\ lst' = lst
      BY <2>1, <2>3 DEF Connected
    <3>2. peer'.open = peer.open
      BY <2>2, <2>3, SentOpen
    <3> QED
      BY <1>4, <3>1, <3>2
  <2>4. CASE w = "NONE" /\ confirm
    <3>1. ~Resumed
      BY <2>1, <2>4 DEF Connected, Calm
    <3>2. id = nextChannel /\ nextChannel \in Nat
      BY <2>1, <2>4, <3>1 DEF Connected
    <3>3. peer'.open = peer.open \cup {nextChannel}
      BY <2>2, <2>4, <3>2, SentOpen
    <3>4. lst.queue \in Seq(Nat)
      BY ListenerFacts DEF ListenOK
    <3>5. \/ chans' = chans \cup {nextChannel} /\ lst' = lst
          \/ chans' = chans /\ Range(lst'.queue) = Range(lst.queue) \cup {nextChannel}
      <4>1. CASE type = "x11"
        BY <2>1, <2>4, <3>1, <3>2, <4>1 DEF Connected
      <4>2. CASE type = "forward"
        <5>1. chans' = chans /\ Grows(id)
          BY <2>1, <2>4, <3>1, <4>2 DEF Connected
        <5>2. lst'.queue = Append(lst.queue, nextChannel)
          BY <3>2, <5>1 DEF Grows
        <5>3. Range(lst'.queue) = Range(lst.queue) \cup {nextChannel}
          BY <3>2, <3>4, <5>2, SeqRange
        <5> QED
          BY <5>1, <5>3
      <4> QED
        BY <4>1, <4>2
    <3>6. /\ Shared' = Shared \cup {nextChannel} /\ chans \subseteq chans'
          /\ Range(lst'.queue) \subseteq Range(lst.queue) \cup {nextChannel}
      BY <3>5 DEF Shared
    <3> QED
      BY <1>2, <1>3, <3>2, <3>3, <3>6, OpenLinked
  <2> QED
    BY <2>3, <2>4
<1> QED
  BY <1>1, <1>5, <1>6 DEF Reads

\* While nothing has gone wrong, client and server agree on what is open.
LEMMA OpenStep ==
    ASSUME Types, OrderInv, AnswersInv, IdsInv, OpenInv, Next
    PROVE  OpenInv'
<1> USE DEF Types
<1> SUFFICES ASSUME Calm' PROVE OpenClauses'
  BY DEF OpenInv, OpenClauses
<1>1. Calm /\ OpenClauses /\ KnownInv /\ late = {} /\ disc \in BOOLEAN
  BY CalmBefore, KnownBefore DEF OpenInv, OpenClauses, Calm, Orderly, OthersOK
<1>2. ASSUME ~Opens, ~Begun \/ ~Opens, peer'.open = peer.open, Shared' = Shared, Packets' = Packets,
             \A q \in Range(peer'.asks) : q \in Range(peer.asks) \/ q.kind # "open"
      PROVE  OpenClauses'
  <2>1. ~Opening /\ ~Opening'
    BY <1>2, OpeningStep DEF Opening
  <2> QED
    BY <1>1, <1>2, <2>1, OpenKept
<1>3. ASSUME Quiet, Shared' = Shared, ~Opens PROVE OpenClauses'
  BY <1>2, <1>3 DEF Quiet, Packets
<1>4. CASE Started
  <2>1. ~Opens
    BY <1>4, IdleFacts DEF Started, Opens
  <2> QED
    BY <1>3, <1>4, <2>1 DEF Started, Shared
<1>5. CASE Turned
  <2>1. PICK x : GoesTo(x)
    BY <1>5 DEF Turned
  <2>2. (Opening' <=> Opening) /\ call'.c = call.c /\ saved' = saved
    BY <2>1 DEF GoesTo, HasCall, Opening, Opens
  <2>3. /\ peer' = peer /\ Packets' = Packets /\ Shared' = Shared /\ chans' = chans /\ lst' = lst
    BY <1>5 DEF Turned, Alone, Quiet, Packets, Shared
  <2> QED
    BY <1>1, <2>2, <2>3, OpenKept
<1>6. CASE Begun
  <2>1. CASE Opens
    BY <1>1, <1>6, <2>1, OpenBegun
  <2>2. CASE ~Opens
    BY <1>3, <1>6, <2>2 DEF Begun, Shared
  <2> QED
    BY <2>1, <2>2
<1>7. CASE Skipped
  <2>1. ~Opens
    <3>1. CASE call.op = "accept" \/ call.op \in AuthOps
      BY <3>1 DEF Opens, AuthOps
    <3>2. CASE saved[MySlot] # "idle" /\ Step.do \in {"callback", "refuse"}
      <4>1. ASSUME Opens PROVE FALSE
        <5>1. Opening
          BY <3>2, <4>1, OpeningFacts DEF Opening
        <5> QED
          BY <3>2, <5>1, OpeningFacts DEF Awaiting
      <4> QED
        BY <4>1
    <3> QED
      BY <1>7, <3>1, <3>2 DEF Skipped
  <2> QED
    BY <1>3, <1>7, <2>1 DEF Skipped, Alone, Shared
<1>8. CASE Wrote
  BY <1>1, <1>8, OpenWrote
<1>9. ASSUME NEW i, Takes1(i) PROVE OpenClauses'
  BY <1>1, <1>9, OpenTaken
<1>10. CASE GivesUp1
  BY <1>10 DEF GivesUp1, Calm, Orderly
<1>11. CASE Failed1
  BY <1>1, <1>11 DEF Failed1, AnswersInv, AtEnd, Calm, Orderly
<1>12. CASE Heard
  BY <1>1, <1>12, OpenHeard
<1>13. CASE Accepted1
  <2>1. /\ chans' = chans \cup {Head(lst.queue)} /\ lst.queue # <<>> /\ lst'.queue = Tail(lst.queue)
        /\ ~Opens
    BY <1>13 DEF Accepted1, Shrinks, Opens
  <2>2. Range(lst.queue) = Range(Tail(lst.queue)) \cup {Head(lst.queue)}
    BY <2>1, QueueFacts, ListenerFacts DEF ListenOK
  <2>3. Shared' = Shared
    BY <2>1, <2>2 DEF Shared
  <2> QED
    BY <1>3, <1>13, <2>1, <2>3 DEF Accepted1
<1>14. CASE CancelSent
  <2>1. PICK rc : Sent("cancel", 0, rc)
    BY <1>14 DEF CancelSent
  <2>2. peer'.open = peer.open
    BY <1>1, <2>1, SentOpen
  <2>3. \A q \in Range(peer'.asks) : q \in Range(peer.asks) \/ q.kind # "open"
    BY <2>1, SentAsks
  <2>4. ~Opens /\ Shared' = Shared /\ Packets' = Packets
    BY <1>14 DEF CancelSent, Opens, Shared, Packets
  <2> QED
    BY <1>2, <2>2, <2>3, <2>4
<1>15. CASE Freed1
  BY <1>1, <1>15 DEF Freed1, Calm, Freeing
<1>16. CASE Cancelled1
  BY <1>16, ListenerFacts DEF Cancelled1, Calm, ListenOK
<1>17. CASE Served
  <2>0. UNCHANGED <<saved, call, lst, chans>>
    BY <1>17 DEF Served
  <2>1. ASSUME NEW q, NEW t, Replied(q, t) PROVE OpenClauses'
    BY <1>1, <2>0, <2>1, OpenReplied
  <2>2. ASSUME NEW kind, Unasked(kind) PROVE OpenClauses'
    <3>1. Packets' = Packets \cup {[type |-> kind, c |-> 0, id |-> 0]} /\ peer' = peer /\ kind \notin OpenTypes
      BY <2>2, UnaskedPackets
    <3>2. (Opening' <=> Opening) /\ Shared' = Shared
      BY <2>0 DEF Opening, Opens, Shared
    <3>3. \A p \in Packets' : p \in Packets \/ p.type \notin OpenTypes
      BY <3>1
    <3> QED
      BY <1>1, <2>0, <3>1, <3>2, <3>3, OpenKept
  <2>3. CASE Broken
    BY <2>3 DEF Broken, Calm, Orderly
  <2> QED
    BY <1>17, <2>1, <2>2, <2>3 DEF Served
<1> QED
  BY <1>4, <1>5, <1>6, <1>7, <1>8, <1>9, <1>10, <1>11, <1>12, <1>13, <1>14, <1>15, <1>16, <1>17, NextHappens
  DEF Happens

-----------------------------------------------------------------------------
(***************************************************************************)
(* The theorems.                                                           *)
(***************************************************************************)
Inv ==
    /\ Types /\ OrderInv /\ OwnInv /\ AnswersInv /\ HalfInv /\ LoginInv /\ IdsInv /\ OpenInv
    /\ AnswersAreOwn

\* Nothing is asked or sent at the start.
LEMMA InitTypes ==
    ASSUME Init
    PROVE  Types /\ ReqChans \subseteq Nat /\ \A c \in ReqChans : c < nextChannel
<1>0. PICK on \in BOOLEAN :
        /\ lst = [NoListener EXCEPT !.on = on]
        /\ peer = [asks |-> <<>>, asked |-> 0, open |-> ReqChans, listens |-> on,
                   accepted |-> FALSE, rounds |-> 0]
  BY DEF Init
<1>1. ReqChans \subseteq Nat /\ nextChannel \in Nat /\ \A c \in ReqChans : c < nextChannel
  <2>1. ReqChans \subseteq Nat /\ ReqChans # {} /\ MaxId \in Nat /\ \A c \in ReqChans : c <= MaxId
    BY RequestsAssumption
  <2>2. Max(ReqChans) \in ReqChans /\ \A c \in ReqChans : Max(ReqChans) >= c
    BY <2>1, Greatest
  <2> DEFINE m == Max(ReqChans)
  <2>3. nextChannel = m + 1
    BY DEF Init
  <2> HIDE DEF m
  <2>4. m \in Nat /\ \A c \in ReqChans : c \in Nat /\ c <= m
    BY <2>1, <2>2 DEF m
  <2> QED
    BY <2>1, <2>3, <2>4
<1>2. SavedOK
  <2>1. saved = [s \in Slots |-> "idle"]
    BY DEF Init
  <2> QED
    BY <2>1 DEF SavedOK, AllStates
<1>3. CallOK
  <2>1. call = Idle
    BY DEF Init
  <2>2. call \in [op : Ops \cup {"none"}, c : Nat, at : {"idle"}, own : Nat, slept : BOOLEAN, more : BOOLEAN]
    BY <2>1 DEF Idle
  <2>3. call.op = "none" /\ Places(call.op) = {"idle"}
    BY <2>1, IdleFacts DEF Places
  <2> QED
    BY <2>1, <2>2, <2>3, IdleFacts DEF CallOK, ChannelOps
<1>4. NetOK
  <2>1. peer \in Peers
    BY <1>0, <1>1 DEF Peers
  <2>2. brigade = <<>> /\ inbound = <<>> /\ add = NoAdd /\ sock = "up"
    BY DEF Init
  <2> QED
    BY <2>1, <2>2 DEF NetOK, NoAdd
<1>5. LateOK
  BY DEF Init, LateOK
<1>6. /\ lst \in Listeners /\ lst.on \in BOOLEAN /\ lst.queue = <<>> /\ lst.size = 0 /\ lst.cancelled = FALSE
  <2> DEFINE f == FALSE
  <2>1. NoListener = [on |-> f, queue |-> <<>>, size |-> 0, cancelled |-> f]
    BY DEF NoListener
  <2> HIDE DEF f
  <2>2. lst = [on |-> on, queue |-> <<>>, size |-> 0, cancelled |-> f]
    BY <1>0, <2>1, ListenerFields
  <2>3. f = FALSE /\ f \in BOOLEAN
    BY DEF f
  <2>4. lst.on = on /\ lst.queue = <<>> /\ lst.size = 0 /\ lst.cancelled = f
    BY <2>2
  <2>5. <<>> \in Seq(Nat) /\ 0 \in Int
    OBVIOUS
  <2>6. lst \in Listeners
    BY <2>2, <2>3, <2>5 DEF Listeners
  <2> QED
    BY <2>3, <2>4, <2>6
<1>7. ListenOK
  BY <1>6, IdleFacts, RequestsAssumption DEF ListenOK, Init, Freeing
<1>8. ChansOK
  <2>1. Range(lst.queue) = {} /\ chans = ReqChans /\ nextChannel \in Nat
    BY <1>1, <1>6, RequestsAssumption DEF Range, Init
  <2> QED
    BY <1>1, <2>1 DEF ChansOK
<1>9. OthersOK
  <2>1. /\ auth \in BOOLEAN /\ eagain \in BOOLEAN /\ disc \in BOOLEAN /\ x11cb \in BOOLEAN
        /\ crashed \in BOOLEAN
    BY Zenon DEF Init
  <2>2. packets = 0 /\ calls = 0 /\ timeouts = 0
    BY DEF Init
  <2> QED
    BY <2>1, <2>2, RequestsAssumption DEF OthersOK
<1> QED
  BY <1>1, <1>2, <1>3, <1>4, <1>5, <1>7, <1>8, <1>9 DEF Types

\* The invariant holds at the start.
LEMMA InitInv ==
    ASSUME Init
    PROVE  Inv
<1>0. PICK on \in BOOLEAN :
        /\ lst = [NoListener EXCEPT !.on = on]
        /\ peer = [asks |-> <<>>, asked |-> 0, open |-> ReqChans, listens |-> on,
                   accepted |-> FALSE, rounds |-> 0]
  BY DEF Init
<1>1. /\ peer.asks = <<>> /\ peer.asked = 0 /\ peer.open = ReqChans /\ peer.accepted = FALSE
      /\ brigade = <<>> /\ inbound = <<>> /\ add.c = 0 /\ call = Idle /\ auth = FALSE /\ chans = ReqChans
      /\ last = NoResult
  BY <1>0 DEF Init, NoAdd
<1>2. Range(<<>>) = {} /\ DOMAIN <<>> = {}
  BY DEF Range
<1>3. lst.queue = <<>>
  BY <1>0 DEF NoListener
<1>4. OrderInv /\ OwnInv
  BY <1>1, <1>2, IdleFacts DEF OrderInv, OwnInv, Upto, Rises, Below
<1>5. AnswersInv
  BY <1>1, <1>2, IdleFacts DEF AnswersInv, BrigadeKnown, InboundKnown, AsksKnown, NoneFits, AtEnd
<1>6. LoginInv
  BY <1>1, <1>2 DEF LoginInv, HasOk
<1>7. ~Opening /\ Packets = {} /\ Shared = ReqChans
  BY <1>1, <1>2, <1>3, IdleFacts DEF Opening, Opens, Packets, Shared
<1>8. IdsInv
  BY <1>1, <1>2, <1>7, InitTypes DEF IdsInv
<1>9. OpenInv
  BY <1>1, <1>2, <1>7 DEF OpenInv, SameOpen, OpeningOK, AsksOK, AnswersOK
<1>10. AnswersAreOwn
  BY <1>1 DEF AnswersAreOwn, NoResult
<1>11. HalfInv
  <2>1. nextChannel # 0 /\ pend = NoPacket /\ ~Resumed
    <3>1. 0 \in ReqChans
      BY RequestsAssumption
    <3>2. \A c \in ReqChans : c < nextChannel
      BY InitTypes, <1>1 DEF Types, Init
    <3>3. 0 < nextChannel
      BY <3>1, <3>2
    <3>4. add = NoAdd /\ pend = NoPacket
      BY DEF Init
    <3>5. ~Resumed
      BY <3>4 DEF Resumed, NoAdd
    <3>6. nextChannel # 0
      BY <3>3, InitTypes
    <3> QED
      BY <3>4, <3>5, <3>6
  <2> QED
    BY <2>1 DEF HalfInv
<1> QED
  BY <1>4, <1>5, <1>6, <1>8, <1>9, <1>10, <1>11, InitTypes DEF Inv

\* Every step keeps the invariant.
LEMMA NextInv ==
    ASSUME Inv, Next
    PROVE  Inv'
<1>1. Types /\ OrderInv /\ OwnInv /\ AnswersInv /\ HalfInv /\ LoginInv /\ IdsInv /\ OpenInv /\ AnswersAreOwn
  BY DEF Inv
<1>2. NetOK /\ OthersOK /\ disc \in BOOLEAN /\ Flows
  BY <1>1, NextFlows DEF Types, OthersOK
<1>3. Types' /\ OwnInv' /\ AnswersInv' /\ HalfInv' /\ IdsInv' /\ OpenInv' /\ AnswersAreOwn'
  BY <1>1, TypesStep, OwnStep, AnswersStep, HalfStep, IdsStep, OpenStep, ResultStep
<1>4. OrderInv'
  BY <1>1, <1>2, OrderStep
<1>5. LoginInv'
  BY <1>1, <1>2, LoginStep
<1> QED
  BY <1>3, <1>4, <1>5 DEF Inv

\* A step that changes nothing changes no part of the invariant.
LEMMA StutterInv ==
    ASSUME Inv, UNCHANGED vars
    PROVE  Inv'
<1>1. /\ UNCHANGED <<saved, call, brigade, lst, chans, nextChannel, auth, eagain, x11cb, crashed, last>>
      /\ UNCHANGED <<inbound, pend, add, sock, disc, packets>> /\ UNCHANGED <<peer, late>>
      /\ UNCHANGED <<calls, timeouts>>
  BY DEF vars, net, peerVars, counters
<1>2. MySlot' = MySlot /\ CallSlot' = CallSlot /\ Step' = Step /\ (Opens <=> Opens') /\ (Opening <=> Opening')
      /\ (Freeing <=> Freeing') /\ (Orderly <=> Orderly')
  BY <1>1 DEF MySlot, CallSlot, Step, Opens, Opening, Freeing, Orderly
<1>3. Types' <=> Types
  <2>1. SavedOK' <=> SavedOK
    BY <1>1, <1>2, Zenon DEF SavedOK
  <2>2. CallOK' <=> CallOK
    BY <1>1, <1>2, Zenon DEF CallOK
  <2>3. (NetOK' <=> NetOK) /\ (LateOK' <=> LateOK)
    BY <1>1 DEF NetOK, LateOK
  <2>4. (ListenOK' <=> ListenOK) /\ (ChansOK' <=> ChansOK)
    BY <1>1, <1>2 DEF ListenOK, ChansOK
  <2>5. OthersOK' <=> OthersOK
    BY <1>1, Zenon DEF OthersOK
  <2> QED
    BY <2>1, <2>2, <2>3, <2>4, <2>5 DEF Types
<1>4. (OrderInv' <=> OrderInv) /\ (OwnInv' <=> OwnInv) /\ (LoginInv' <=> LoginInv)
  BY <1>1, Zenon DEF OrderInv, OwnInv, LoginInv
<1>5. AnswersInv' <=> AnswersInv
  <2>1. \A t, c, n : Known(t, c, n)' <=> Known(t, c, n)
    BY <1>1, <1>2, Zenon DEF Known, Owner, GivenUp
  <2>2. \A p : Fits(p)' <=> Fits(p)
    BY <1>1, <1>2, Zenon DEF Fits
  <2>3. BrigadeKnown' <=> BrigadeKnown
    BY <1>1, <2>1, Zenon DEF BrigadeKnown
  <2>4. InboundKnown' <=> InboundKnown
    BY <1>1, <2>1, Zenon DEF InboundKnown
  <2>5. AsksKnown' <=> AsksKnown
    BY <1>1, <2>1, Zenon DEF AsksKnown
  <2>6. NoneFits' <=> NoneFits
    BY <1>1, <2>2, Zenon DEF NoneFits
  <2>7. (AtEnd' <=> AtEnd) /\ disc' = disc
    BY <1>1, Zenon DEF AtEnd
  <2> QED
    BY <2>3, <2>4, <2>5, <2>6, <2>7, Zenon DEF AnswersInv
<1>6. IdsInv' <=> IdsInv
  BY <1>1, <1>2, Zenon DEF IdsInv, Packets
<1>7. OpenInv' <=> OpenInv
  <2>1. Packets' = Packets /\ Shared' = Shared
    BY <1>1 DEF Packets, Shared
  <2>2. Calm' <=> Calm
    BY <1>1, <1>2 DEF Calm
  <2>3. (SameOpen' <=> SameOpen) /\ (OpeningOK' <=> OpeningOK)
    BY <1>1, <1>2, <2>1, Zenon DEF SameOpen, OpeningOK
  <2>4. (AsksOK' <=> AsksOK) /\ (AnswersOK' <=> AnswersOK)
    BY <1>1, <2>1, Zenon DEF AsksOK, AnswersOK
  <2> QED
    BY <2>2, <2>3, <2>4, Zenon DEF OpenInv
<1>8. AnswersAreOwn' <=> AnswersAreOwn
  BY <1>1, Zenon DEF AnswersAreOwn
<1>9. HalfInv'
  <2>1. \A kind, c : Writing(kind, c)' <=> Writing(kind, c)
    BY <1>1, <1>2, Zenon DEF Writing
  <2> QED
    BY <1>1, <2>1, HalfKept DEF Inv, HalfInv, Stands
<1> QED
  BY <1>3, <1>4, <1>5, <1>6, <1>7, <1>8, <1>9, Zenon DEF Inv

\* The invariant holds in every state: types, the order of requests and answers, who
\* waits for each answer, the login and the channels on their way.
THEOREM Invariant == Spec => []Inv
<1>1. Init => Inv
  BY InitInv
<1>2. Inv /\ [Next]_vars => Inv'
  BY NextInv, StutterInv
<1> QED
  BY <1>1, <1>2, PTL DEF Spec

\* When no call is executed nobody waits for an answer, every function is back where
\* it starts but for those that leave their state, and nothing is being opened.
LEMMA AtRest ==
    ASSUME Types, call = Idle
    PROVE  /\ \A t, c, n : ~Owner(t, c, n)
           /\ \A s \in Slots : saved[s] # "idle" => s[1] \in Left
           /\ ~Opening /\ ~Freeing
<1>1. call.op = "none" /\ "none" \notin Requests
  BY IdleFacts DEF Requests, ChannelOps, AuthOps
<1>2. <<"none", 0>> \notin Slots
  BY DEF Slots, AuthOps
<1>3. \A s \in Slots : saved[s] # "idle" => s[1] \in Left
  BY <1>1, <1>2 DEF Types, SavedOK, CallSlot
<1> QED
  BY <1>1, <1>3 DEF Owner, Opening, Opens, Freeing

\* And when no answer was given up either, none is on its way.
LEMMA AllAnswered ==
    ASSUME Types, AnswersInv, Orderly, call = Idle
    PROVE  /\ brigade = <<>>
           /\ \A i \in DOMAIN inbound : inbound[i].type \notin AnswerTypes
<1>1. \A t, c, n : ~Known(t, c, n)
  BY AtRest DEF Known, GivenUp, Orderly
<1>2. brigade = <<>>
  <2>1. \A i \in DOMAIN brigade : FALSE
    BY <1>1 DEF AnswersInv, BrigadeKnown
  <2>2. brigade \in Seq(Answer)
    BY DEF Types, NetOK
  <2>3. Len(brigade) \in Nat /\ DOMAIN brigade = 1..Len(brigade) /\ (Len(brigade) = 0 => brigade = <<>>)
    BY <2>2, EmptySeq, LenProperties
  <2>4. Len(brigade) = 0
    BY <2>1, <2>3
  <2> QED
    BY <2>3, <2>4
<1>3. \A i \in DOMAIN inbound : inbound[i].type \notin AnswerTypes
  BY <1>1 DEF AnswersInv, InboundKnown, Orderly
<1> QED
  BY <1>2, <1>3

\* The variables stay in their ranges, whatever the application calls and the server
\* sends: no answer has the number of a request that was not made (packet.c), and no
\* count of the listener goes below zero (channel.c).
THEOREM TypeCorrect == Spec => []TypeOK
<1>1. Inv => TypeOK
  <2> SUFFICES ASSUME Inv PROVE TypeOK
    OBVIOUS
  <2>1. SavedOK /\ CallOK /\ NetOK /\ ListenOK /\ ChansOK /\ OthersOK /\ OrderInv /\ OwnInv
    BY DEF Inv, Types
  <2>2. saved \in [Slots -> {"idle", "created", "sent", "sent1", "sent2", "sent3"}]
    BY <2>1 DEF SavedOK, AllStates
  <2>3. peer.asked \in Nat
    BY <2>1 DEF NetOK, Peers
  <2>4. call.op \in Ops \cup {"none"} /\ call.c \in Nat /\ call.own \in 0..peer.asked
    BY <2>1, <2>3, OpFacts DEF OwnInv
  <2>5. call.at \in {"idle", "run", "select", "read", "match", "fails", "EAGAIN", "zero", "FAIL",
                     "free", "await", "freed", "end"}
    BY <2>1, OpFacts DEF Places
  <2>6. \A i \in DOMAIN brigade : brigade[i].id \in 1..peer.asked
    <3>1. \A i \in DOMAIN brigade : brigade[i] \in Answer /\ brigade[i].id <= peer.asked
      BY <2>1 DEF NetOK, OrderInv, Upto
    <3> QED
      BY <2>3, <3>1 DEF Answer
  <2>7. lst.on \in BOOLEAN /\ lst.size \in Nat /\ Range(lst.queue) \subseteq Nat
    <3>1. lst.on \in BOOLEAN /\ lst.queue \in Seq(Nat) /\ lst.size \in Int
      BY <2>1, ListenerFacts DEF ListenOK
    <3>2. Len(lst.queue) \in Nat /\ Range(lst.queue) \subseteq Nat
      BY <3>1, QueueFacts
    <3>3. lst.size >= Len(lst.queue)
      BY <2>1, <3>1, <3>2 DEF ListenOK
    <3> QED
      BY <3>1, <3>2, <3>3
  <2>8. chans \subseteq Nat /\ nextChannel \in Nat
    BY <2>1 DEF ChansOK
  <2>9. {auth, eagain, disc, x11cb, crashed, call.slept, call.more} \subseteq BOOLEAN
    <3>1. call.slept \in BOOLEAN /\ call.more \in BOOLEAN
      BY <2>1, OpFacts
    <3> QED
      BY <2>1, <3>1, Zenon DEF OthersOK
  <2>10. sock \in {"up", "broken"} /\ packets \in 0..MaxPackets /\ calls \in 0..MaxCalls
         /\ timeouts \in 0..MaxTimeouts
    BY <2>1 DEF NetOK, OthersOK
  <2> QED
    BY <2>2, <2>4, <2>5, <2>6, <2>7, <2>8, <2>9, <2>10 DEF TypeOK
<1> QED
  BY <1>1, Invariant, PTL

\* What a call reports of the server is the answer to its own request, unless one of
\* the same sort on the same channel was given up before (_libssh2_packet_requirev).
THEOREM OwnAnswers == Spec => []AnswersAreOwn
<1>1. Inv => AnswersAreOwn
  BY DEF Inv
<1> QED
  BY <1>1, Invariant, PTL

\* No call leaves its answer in the brigade or its state behind, but for those known to
\* (channel_x11_req, channel_request_pty_size, userauth_password).
THEOREM NothingIsLeft == Spec => []NothingLeftBehind
<1>1. Inv => NothingLeftBehind
  <2> SUFFICES ASSUME Inv, call = Idle
               PROVE  /\ Orderly => brigade = <<>>
                      /\ \A s \in Slots : saved[s] # "idle" => s[1] \in Left
    BY DEF NothingLeftBehind, Left
  <2> QED
    BY AtRest, AllAnswered DEF Inv
<1> QED
  BY <1>1, Invariant, PTL

\* The client holds itself logged in exactly when the server has accepted it, whatever
\* method it took and after how many failures (LIBSSH2_STATE_AUTHENTICATED, userauth.c).
THEOREM LoginsAgree == Spec => []LoginAgrees
<1>1. Inv => LoginAgrees
  <2> SUFFICES ASSUME Inv, Orderly, call = Idle PROVE auth <=> peer.accepted
    BY DEF LoginAgrees
  <2>1. Types /\ AnswersInv /\ LoginInv
    BY DEF Inv
  <2>2. ~HasOk(brigade) /\ ~HasOk(inbound)
    <3>1. brigade = <<>> /\ \A i \in DOMAIN inbound : inbound[i].type \notin AnswerTypes
      BY <2>1, AllAnswered
    <3> QED
      BY <3>1 DEF HasOk, AnswerTypes
  <2>3. ~disc /\ sock # "broken"
    BY DEF Orderly
  <2> QED
    BY <2>1, <2>2, <2>3, Zenon DEF LoginInv
<1> QED
  BY <1>1, Invariant, PTL

\* The server has open the channels of the session and those in the queue, no more and
\* no less, and the queue is never longer than its limit (packet_queue_listener,
\* channel_open, channel_forward_accept).
THEOREM ChannelsAreAgreed == Spec => []ChannelsAgree
<1>1. Inv => ChannelsAgree
  <2> SUFFICES ASSUME Inv PROVE ChannelsAgree
    OBVIOUS
  <2>1. Types /\ ListenOK /\ OpenInv
    BY DEF Inv, Types
  <2>2. lst.size = Len(lst.queue) \/ call.op = "cancel"
    BY <2>1 DEF ListenOK, Freeing
  <2>3. QueueMax # 0 => lst.size <= QueueMax
    BY <2>1 DEF ListenOK
  <2>4. ASSUME Orderly, call = Idle, ~crashed, ~lst.cancelled PROVE peer.open = chans \cup Range(lst.queue)
    <3>1. ~Opening /\ SameOpen
      BY <2>1, <2>4, AtRest DEF OpenInv, Calm
    <3> QED
      BY <3>1 DEF SameOpen, Shared
  <2> QED
    BY <2>2, <2>3, <2>4 DEF ChannelsAgree
<1> QED
  BY <1>1, Invariant, PTL

=============================================================================
