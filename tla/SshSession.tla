----------------------------- MODULE SshSession -----------------------------
(***************************************************************************)
(* libssh2: how a session starts (session.c), how keys are exchanged and   *)
(* methods agreed on, at the start and whenever the server asks for it     *)
(* later (kex.c), and how every reader of packets is led into an exchange  *)
(* that was left half done (transport.c, packet.c).                        *)
(*                                                                         *)
(* The session is not blocking: a call that returns EAGAIN is repeated, or *)
(* another one is made.  A blocking call is the same one repeated.  One    *)
(* step is one packet written, read or taken from the brigade.  Keys are   *)
(* named by the exchange that gave the session its id and by the one they  *)
(* come from.  Allocations succeed.                                        *)
(***************************************************************************)
EXTENDS Integers, Sequences, SequencesExt, FiniteSets, FiniteSetsExt

CONSTANTS
    KexMethods,     \* libssh2_kex_methods, in the order of preference
    HostkeyMethods, \* libssh2_hostkey_methods
    CryptMethods,   \* libssh2_crypt_methods; MACs and compression are agreed on alike
    Fixed,          \* kex methods with a fixed group; the others ask the server for one
    Offers,         \* what a server may offer: [kex, hostkey, crypt, follows]
    MaxExchanges,   \* bound: key exchanges
    MaxData,        \* bound: packets of data, of the server and of the application
    MaxBlocks,      \* bound: writes that return EAGAIN
    BannerLen       \* bytes of our banner

ASSUME SessionAssumption ==
    /\ {MaxExchanges, MaxData, MaxBlocks} \subseteq Nat /\ BannerLen \in Nat \ {0}
    /\ Fixed \subseteq {KexMethods[i] : i \in DOMAIN KexMethods}
    /\ \A list \in {KexMethods, HostkeyMethods, CryptMethods} :
         list \in Seq({list[i] : i \in DOMAIN list})

VARIABLES
    startup,   \* session->startup_state, and the bytes of the banner that were sent
    kx,        \* startup_key_state: the states of kex_exchange, kexinit, the method and DH
    asked,     \* the packet wanted in kx was looked for in the brigade already
    flags,     \* session->state: [newkeys, exchanging, active]
    ses,       \* [kex, hostkey, crypt, burn, local, remote, sid, from, group]
    call,      \* the call being executed: [op, at, by], by being who called kex_exchange
    wstate,    \* write_state of the channel
    app,       \* what the application knows of the session
    brigade, inbound, outbound, pend,   \* packets, in the socket, and half sent
    disc,      \* socket_state = LIBSSH2_SOCKET_DISCONNECTED
    srv,       \* the server: [offer, phase, n, send, recv, kex, hostkey, crypt, lied]
    mismatch,  \* a packet was read with keys it was not made with
    hist,      \* what went wrong in an exchange: "rude", "failed", "halfSent"
    received, written, blocks   \* counters for the bounds

wire == <<brigade, inbound, outbound, pend, disc>>
clientVars == <<startup, kx, asked, flags, ses, call, wstate, app>>
counters == <<received, written, blocks>>
vars == <<clientVars, wire, srv, mismatch, hist, counters>>

None == "none"
NoKeys == <<0, 0>>

\* Types of packets, libssh2_priv.h.  The reply of a fixed group and the group of the
\* other methods have the same number.
BANNER == 0
DISCONNECT == 1
SERVICE_REQUEST == 5
SERVICE_ACCEPT == 6
KEXINIT == 20
NEWKEYS == 21
KEXDH_INIT == 30
KEXDH_REPLY == 31
KEX_DH_GEX_GROUP == 31
KEX_DH_GEX_INIT == 32
KEX_DH_GEX_REPLY == 33
KEX_DH_GEX_REQUEST == 34
CHANNEL_DATA == 94

-----------------------------------------------------------------------------
(***************************************************************************)
(* Agreeing on methods.                                                    *)
(***************************************************************************)
Listed(m, list) == \E i \in DOMAIN list : list[i] = m
FirstOf(list, P(_)) ==
    IF \E i \in DOMAIN list : P(list[i])
      THEN list[Min({i \in DOMAIN list : P(list[i])})] ELSE None

\* kex_agree_crypt, _mac, _comp: the first of ours that the server has.
kex_agree_crypt(theirs) == FirstOf(CryptMethods, LAMBDA m : Listed(m, theirs))

\* kex_agree_hostkey: every method of this build verifies signatures, which is all that
\* the key exchanges ask for.
kex_agree_hostkey(theirs) == FirstOf(HostkeyMethods, LAMBDA m : Listed(m, theirs))

\* kex_agree_kex_hostkey: the first of ours that the server has and for which there is a
\* host key.
kex_agree_kex(theirs, hostkeys) ==
    FirstOf(KexMethods, LAMBDA m : Listed(m, theirs) /\ kex_agree_hostkey(hostkeys) # None)

\* kex_agree_methods.  The methods are used from here on, before the keys are.  A packet
\* that the server sent ahead is to be burnt unless its first method was agreed on.
kex_agree_methods(o) ==
    [ses EXCEPT !.kex = kex_agree_kex(o.kex, o.hostkey),
                !.hostkey = kex_agree_hostkey(o.hostkey),
                !.crypt = kex_agree_crypt(o.crypt),
                !.burn = o.follows /\ o.kex[1] # kex_agree_kex(o.kex, o.hostkey)]
Agreed(s) == None \notin {s.kex, s.hostkey, s.crypt}

-----------------------------------------------------------------------------
(***************************************************************************)
(* The server (external).  It reads our packets in order, answers them,    *)
(* and may ask for new keys at any time once the last ones are in use.     *)
(* From its KEXINIT to its NEWKEYS it sends what belongs to the exchange.  *)
(***************************************************************************)
FromServer(type, n, ok) ==
    [type |-> type, keys |-> srv.send, crypt |-> srv.crypt, n |-> n, ok |-> ok]
ServerSends(s) == inbound' = inbound \o s

\* RFC 4253: the first method of the client that the server has too.
Chosen(ours, theirs) == FirstOf(ours, LAMBDA m : Listed(m, theirs))

\* KEXINIT, and perhaps the first packet of the method the server likes best.
ServerOffers ==
    /\ srv.phase = "quiet" /\ srv.n < MaxExchanges
    /\ srv.n > 0 => app = "open"
    /\ srv' = [srv EXCEPT !.phase = "offered", !.n = @ + 1]
    /\ LET offer == FromServer(KEXINIT, srv.n + 1, TRUE)
       IN  ServerSends(IF srv.offer.follows THEN <<offer, FromServer(31, srv.n + 1, FALSE)>> ELSE <<offer>>)
    /\ UNCHANGED <<clientVars, brigade, outbound, pend, disc, mismatch, hist, counters>>

ServerSwitches ==
    /\ srv.phase = "replied" /\ srv.send # <<1, srv.n>>
    /\ ServerSends(<<FromServer(NEWKEYS, srv.n, TRUE)>>)
    /\ srv' = [srv EXCEPT !.send = <<1, srv.n>>,
                          !.crypt = Chosen(CryptMethods, srv.offer.crypt),
                          !.phase = IF srv.recv = <<1, srv.n>> THEN "quiet" ELSE @]
    /\ UNCHANGED <<clientVars, brigade, outbound, pend, disc, mismatch, hist, counters>>

ServerSendsData ==
    /\ srv.phase \in {"quiet", "replied"} /\ srv.send = <<1, srv.n>> /\ srv.n > 0
    /\ app = "open" /\ received < MaxData
    /\ received' = received + 1
    /\ ServerSends(<<FromServer(CHANNEL_DATA, srv.n, TRUE)>>)
    /\ UNCHANGED <<clientVars, brigade, outbound, pend, disc, srv, mismatch, hist, written, blocks>>

Leaves == [srv EXCEPT !.phase = "gone"]
ServerLeaves ==
    /\ srv.phase # "gone"
    /\ srv' = Leaves
    /\ ServerSends(<<FromServer(DISCONNECT, 0, TRUE)>>)
    /\ UNCHANGED <<clientVars, brigade, outbound, pend, disc, mismatch, hist, counters>>

\* What the server becomes when it agrees on methods, when it concludes an exchange and
\* when it reads NEWKEYS.
Accepts == [srv EXCEPT !.phase = "agreed", !.kex = Chosen(KexMethods, srv.offer.kex),
                       !.hostkey = Chosen(HostkeyMethods, srv.offer.hostkey)]
Concludes(ok) == [srv EXCEPT !.phase = "replied", !.lied = @ \cup IF ok THEN {} ELSE {srv.n}]
Renews == [srv EXCEPT !.recv = <<1, srv.n>>, !.phase = IF srv.send = <<1, srv.n>> THEN "quiet" ELSE @]

\* The answer to a packet.  A reply may bear a signature that is not the server's.
Answers(p) ==
    CASE p.type = BANNER /\ ~p.ok -> srv' = Leaves /\ ServerSends(<<FromServer(DISCONNECT, 0, TRUE)>>)
      [] p.type = KEXINIT /\ srv.phase = "offered" -> srv' = Accepts /\ ServerSends(<<>>)
      [] p.type = KEX_DH_GEX_REQUEST /\ srv.phase = "agreed" ->
           UNCHANGED srv /\ ServerSends(<<FromServer(KEX_DH_GEX_GROUP, srv.n, TRUE)>>)
      [] p.type \in {KEXDH_INIT, KEX_DH_GEX_INIT} /\ srv.phase = "agreed" ->
           \E ok \in BOOLEAN : srv' = Concludes(ok) /\ ServerSends(<<FromServer(p.type + 1, srv.n, ok)>>)
      [] p.type = NEWKEYS /\ srv.phase = "replied" -> srv' = Renews /\ ServerSends(<<>>)
      [] p.type = SERVICE_REQUEST -> UNCHANGED srv /\ ServerSends(<<FromServer(SERVICE_ACCEPT, 0, TRUE)>>)
      [] p.type = DISCONNECT -> srv' = Leaves /\ ServerSends(<<>>)
      [] OTHER -> UNCHANGED srv /\ ServerSends(<<>>)

ServerReads ==
    /\ outbound # <<>> /\ srv.phase # "gone"
    /\ Head(outbound).type = KEXINIT => srv.phase # "quiet"
    /\ outbound' = Tail(outbound)
    /\ LET p == Head(outbound)
           cipher == IF srv.recv = NoKeys THEN None ELSE Chosen(CryptMethods, srv.offer.crypt)
       IN  IF p.keys # srv.recv \/ p.crypt # cipher
             THEN /\ mismatch' = TRUE
                  /\ srv' = Leaves
                  /\ ServerSends(<<FromServer(DISCONNECT, 0, TRUE)>>)
             ELSE Answers(p) /\ UNCHANGED mismatch
    /\ UNCHANGED <<clientVars, brigade, pend, disc, hist, counters>>

-----------------------------------------------------------------------------
(***************************************************************************)
(* The transport.                                                          *)
(***************************************************************************)
NoPacket == [type |-> -1, keys |-> NoKeys, crypt |-> None, n |-> 0, ok |-> TRUE]
Banner(ok) == [type |-> BANNER, keys |-> NoKeys, crypt |-> None, n |-> 0, ok |-> ok]
Packet(type) ==
    [type |-> type, keys |-> IF flags.newkeys THEN ses.local ELSE NoKeys,
     crypt |-> IF flags.newkeys THEN ses.crypt ELSE None, n |-> 0, ok |-> TRUE]

\* _libssh2_transport_write.  Keys are not looked at: it writes whatever is asked for.  A
\* packet that is half sent has to be sent on before another.
Send(type, rc) ==
    \/ /\ pend.type \notin {-1, type} /\ rc = "FAIL"
       /\ UNCHANGED <<pend, outbound, blocks>>
    \/ /\ pend.type \in {-1, type} /\ rc = "NONE"
       /\ outbound' = Append(outbound, IF pend.type = type THEN pend ELSE Packet(type))
       /\ pend' = NoPacket /\ UNCHANGED blocks
    \/ /\ pend.type = -1 /\ rc = "EAGAIN" /\ blocks < MaxBlocks
       /\ pend' = Packet(type) /\ blocks' = blocks + 1 /\ UNCHANGED outbound
    \/ /\ srv.phase = "gone" /\ rc = "FAIL"
       /\ UNCHANGED <<pend, outbound, blocks>>

\* _libssh2_transport_read past the redirection: one packet goes into the brigade and its
\* type is returned; 0 when the session is disconnected, EAGAIN, or a failure when the
\* packet is DISCONNECT or does not decrypt.
EAGAIN == -2
FAIL == -1
Wrong(p) == p.keys # ses.remote \/ p.crypt # (IF flags.newkeys THEN ses.crypt ELSE None)
ReadRc ==
    IF disc THEN 0 ELSE IF inbound = <<>> THEN EAGAIN
    ELSE IF Wrong(Head(inbound)) \/ Head(inbound).type = DISCONNECT THEN FAIL
    ELSE Head(inbound).type
ReadBrigade == IF ReadRc > 0 THEN Append(brigade, Head(inbound)) ELSE brigade
Receives ==
    IF disc \/ inbound = <<>> THEN UNCHANGED <<inbound, disc, mismatch>>
    ELSE /\ inbound' = Tail(inbound)
         /\ mismatch' = (mismatch \/ Wrong(Head(inbound)))
         /\ disc' = (Head(inbound).type = DISCONNECT /\ ~Wrong(Head(inbound)))

\* _libssh2_packet_ask: the first packet of the type leaves the brigade.
Asked(b, type) == {i \in DOMAIN b : b[i].type = type}
ask(b, type) == b[Min(Asked(b, type))]
Without(b, type) == RemoveAt(b, Min(Asked(b, type)))

-----------------------------------------------------------------------------
(***************************************************************************)
(* Calls and what they come back to.                                       *)
(***************************************************************************)
Idle == [op |-> None, at |-> None, by |-> None]
Waiting == call = Idle
At(at) == call.at = at /\ call.by = None
InKex == call.by # None

\* A reader takes what it gets; channel_write reads until there is nothing, or an error,
\* and goes on in either case.
ReadEnds(rc) ==
    IF call.op = "write" THEN
      /\ call' = [call EXCEPT !.by = None, !.at = IF rc > 0 THEN "read" ELSE "write"]
      /\ UNCHANGED app
    ELSE /\ call' = Idle
         /\ app' = IF rc \in {FAIL, 0} THEN "failed" ELSE app

\* kex_exchange is entered.  A new exchange forgets the methods of the last one.
Enters(by, s) ==
    /\ call' = [call EXCEPT !.by = by]
    /\ flags' = [flags EXCEPT !.active = TRUE, !.exchanging = @ \/ kx = "idle"]
    /\ kx' = IF kx = "idle" THEN "kexinit" ELSE kx
    /\ ses' = IF kx = "idle" /\ by # "startup"
                THEN [s EXCEPT !.kex = None, !.hostkey = None] ELSE s
    /\ asked' = (asked /\ kx # "idle")
    /\ UNCHANGED <<startup, wstate, app, hist>>

\* An exchange that would block stays in progress; one that is done leaves its keys.
MutantFlagsAfter(rc) ==
    [flags EXCEPT !.active = FALSE, !.exchanging = FALSE, !.newkeys = @ \/ rc = "NONE"]
FlagsAfter(rc) ==
    [flags EXCEPT !.active = FALSE, !.exchanging = rc = "EAGAIN", !.newkeys = @ \/ rc = "NONE"]

\* kex_exchange returns: to session_startup, to the redirection in transport_read, which
\* goes on to read, or to packet_add, which does not mind a failure.
KexReturns(rc) ==
    /\ flags' = FlagsAfter(rc)
    /\ kx' = IF rc = "EAGAIN" THEN kx ELSE "idle"
    /\ hist' = hist \cup (IF rc = "FAIL" /\ call.by # "startup" THEN {"failed"} ELSE {})
                    \cup (IF pend.type \in {CHANNEL_DATA, DISCONNECT} /\ rc = "FAIL" THEN {"halfSent"} ELSE {})
    /\ CASE call.by = "startup" /\ rc = "NONE" ->
              /\ call' = [call EXCEPT !.by = None]
              /\ startup' = [startup EXCEPT !.state = "sent3"] /\ UNCHANGED app
         [] call.by = "startup" /\ rc = "EAGAIN" ->
              call' = Idle /\ UNCHANGED <<startup, app>>
         [] call.by = "startup" /\ rc = "FAIL" ->
              call' = Idle /\ app' = "failed" /\ UNCHANGED startup
         [] call.by = "redirect" /\ rc = "NONE" ->
              call' = [call EXCEPT !.by = None] /\ UNCHANGED <<startup, app>>
         [] call.by = "redirect" /\ rc # "NONE" ->
              ReadEnds(IF rc = "EAGAIN" THEN EAGAIN ELSE FAIL) /\ UNCHANGED startup
         [] OTHER -> ReadEnds(IF rc = "EAGAIN" THEN EAGAIN ELSE NEWKEYS) /\ UNCHANGED startup
    /\ UNCHANGED wstate

Goes(to, s) ==
    /\ kx' = to /\ ses' = s /\ asked' = FALSE
    /\ UNCHANGED <<startup, flags, call, wstate, app, hist>>
Fails == KexReturns("FAIL") /\ UNCHANGED <<ses, asked>>
Later == KexReturns("EAGAIN") /\ UNCHANGED <<ses, asked>>

-----------------------------------------------------------------------------
(***************************************************************************)
(* libssh2_kex_exchange, kexinit, the methods and diffie_hellman_sha1: our *)
(* KEXINIT and the server's, for some methods a request for a group and    *)
(* the group, our half of the secret, the server's with its host key and   *)
(* signature, and NEWKEYS both ways.  Both keys change with the server's.  *)
(***************************************************************************)
KexPacket ==
    CASE kx = "kexinit" -> KEXINIT
      [] kx = "request" -> KEX_DH_GEX_REQUEST
      [] kx = "init" -> IF ses.kex \in Fixed THEN KEXDH_INIT ELSE KEX_DH_GEX_INIT
      [] kx = "newkeys" -> NEWKEYS

Written ==
    CASE kx = "kexinit" -> "require"
      [] kx = "request" -> "group"
      [] kx = "init" -> IF ses.burn THEN "burn" ELSE "reply"
      [] kx = "newkeys" -> "install"

KexWrites ==
    /\ InKex /\ kx \in {"kexinit", "request", "init", "newkeys"}
    /\ \E rc \in {"NONE", "EAGAIN", "FAIL"} :
         /\ Send(KexPacket, rc)
         /\ CASE rc = "NONE" -> Goes(Written, ses)
              [] rc = "EAGAIN" -> Later
              [] rc = "FAIL" -> Fails
    /\ UNCHANGED <<brigade, inbound, disc, srv, mismatch, received, written>>

Wanted ==
    CASE kx = "require" -> KEXINIT
      [] kx = "group" -> KEX_DH_GEX_GROUP
      [] kx = "reply" -> IF ses.kex \in Fixed THEN KEXDH_REPLY ELSE KEX_DH_GEX_REPLY
      [] kx = "install" -> NEWKEYS

\* The server's KEXINIT.
Agrees ==
    LET s == [kex_agree_methods(srv.offer) EXCEPT !.group = TRUE] IN
    IF Agreed(s) THEN Goes(IF s.kex \in Fixed THEN "init" ELSE "request", s)
    ELSE ses' = s /\ KexReturns("FAIL") /\ UNCHANGED asked

\* The server's half, and the signature of its host key over all that was said.
MutantVerifies(p) == Goes("newkeys", [ses EXCEPT !.from = p.n])
Verifies(p) ==
    IF p.ok /\ ses.group THEN Goes("newkeys", [ses EXCEPT !.from = p.n]) ELSE Fails

\* The server's NEWKEYS.  The first exchange gives the session its id.
MutantInstalls ==
    LET sid == IF ses.sid = 0 THEN ses.from ELSE ses.sid
    IN  /\ ses' = [ses EXCEPT !.sid = sid, !.local = <<sid, ses.from>>]
        /\ KexReturns("NONE") /\ UNCHANGED asked
Installs ==
    LET sid == IF ses.sid = 0 THEN ses.from ELSE ses.sid
    IN  /\ ses' = [ses EXCEPT !.sid = sid, !.local = <<sid, ses.from>>, !.remote = <<sid, ses.from>>]
        /\ KexReturns("NONE") /\ UNCHANGED asked

KexTakes(b) ==
    /\ brigade' = Without(b, Wanted)
    /\ LET p == ask(b, Wanted) IN
       CASE kx = "require" -> Agrees
         [] kx = "group" -> Goes("init", [ses EXCEPT !.group = p.ok])
         [] kx = "reply" -> Verifies(p)
         [] kx = "install" -> Installs

\* _libssh2_packet_require: the brigade, once, and then what comes in.
KexAsks ==
    /\ InKex /\ kx \in {"require", "group", "reply", "install"} /\ ~asked
    /\ IF Asked(brigade, Wanted) # {} THEN KexTakes(brigade)
       ELSE asked' = TRUE /\ UNCHANGED <<brigade, startup, kx, flags, ses, call, wstate, app, hist>>
    /\ UNCHANGED <<inbound, outbound, pend, disc, srv, mismatch, counters>>

\* Another packet, or none, was read instead of the one that is wanted.
MutantNotWanted ==
    IF ReadRc = EAGAIN THEN Later ELSE UNCHANGED <<clientVars, hist>>
NotWanted ==
    CASE ReadRc = EAGAIN -> Later
      [] ReadRc \in {FAIL, 0} -> Fails
      [] OTHER -> UNCHANGED <<clientVars, hist>>

KexReads ==
    /\ InKex /\ kx \in {"require", "group", "reply", "install"} /\ asked
    /\ Receives
    /\ IF ReadRc = Wanted THEN KexTakes(ReadBrigade)
       ELSE brigade' = ReadBrigade /\ NotWanted
    /\ UNCHANGED <<outbound, pend, srv, counters>>

\* _libssh2_packet_burn, for the packet that the server sent ahead: any packet of the
\* brigade, the lowest type first, and else the next that comes.
Lowest(b) == Min({b[i].type : i \in DOMAIN b})
Burnt == Goes("reply", [ses EXCEPT !.burn = FALSE])
KexBurns ==
    /\ InKex /\ kx = "burn"
    /\ IF ~asked THEN
         /\ IF brigade = <<>>
              THEN asked' = TRUE /\ UNCHANGED <<brigade, startup, kx, flags, ses, call, wstate, app, hist>>
              ELSE brigade' = Without(brigade, Lowest(brigade)) /\ Burnt
         /\ UNCHANGED <<inbound, disc, mismatch>>
       ELSE
         /\ Receives
         /\ brigade' = IF ReadRc > 0 THEN Without(ReadBrigade, ReadRc) ELSE brigade
         /\ CASE ReadRc = EAGAIN -> Later
              [] ReadRc \in {FAIL, 0} -> Fails
              [] OTHER -> Burnt
    /\ UNCHANGED <<outbound, pend, srv, counters>>

-----------------------------------------------------------------------------
(***************************************************************************)
(* session_startup.                                                        *)
(***************************************************************************)
Started(rc) ==
    /\ call' = Idle
    /\ app' = CASE rc = "EAGAIN" -> app [] rc = "FAIL" -> "failed" [] rc = "NONE" -> "open"
NoExchange == UNCHANGED <<kx, asked, flags, ses, wstate, hist>>

\* banner_send: what send returned is added to what was sent, -1 for EAGAIN too, so that
\* a byte is sent that is not the banner's next.
SendsBanner ==
    /\ At("startup") /\ startup.state = "created"
    /\ LET left == BannerLen - startup.sent IN
       \E r \in {-1} \cup 1..left :
         IF r = left
           THEN /\ startup' = [startup EXCEPT !.state = "sent", !.sent = 0]
                /\ outbound' = Append(outbound, Banner(~startup.garbled))
                /\ UNCHANGED <<call, app, blocks>>
           ELSE /\ blocks < MaxBlocks /\ blocks' = blocks + 1
                /\ startup' = [startup EXCEPT !.sent = @ + r, !.garbled = @ \/ r = -1]
                /\ Started("EAGAIN") /\ UNCHANGED outbound
    /\ NoExchange
    /\ UNCHANGED <<brigade, inbound, pend, disc, srv, mismatch, received, written>>

\* banner_receive: a line, which must not be empty.
ReceivesBanner ==
    /\ At("startup") /\ startup.state = "sent" /\ inbound # <<>>
    /\ inbound' = Tail(inbound)
    /\ IF Head(inbound).ok THEN startup' = [startup EXCEPT !.state = "sent1"] /\ UNCHANGED <<call, app>>
       ELSE Started("FAIL") /\ UNCHANGED startup
    /\ NoExchange
    /\ UNCHANGED <<brigade, outbound, pend, disc, srv, mismatch, counters>>

StartsExchange ==
    /\ At("startup") /\ startup.state = "sent1"
    /\ Enters("startup", ses)
    /\ UNCHANGED <<wire, srv, mismatch, counters>>

RequestsService ==
    /\ At("startup") /\ startup.state = "sent3"
    /\ \E rc \in {"NONE", "EAGAIN", "FAIL"} :
         /\ Send(SERVICE_REQUEST, rc)
         /\ IF rc = "NONE" THEN startup' = [startup EXCEPT !.state = "sent4"] /\ UNCHANGED <<call, app>>
            ELSE Started(rc) /\ UNCHANGED startup
    /\ NoExchange
    /\ UNCHANGED <<brigade, inbound, disc, srv, mismatch, received, written>>

AwaitsService ==
    /\ At("startup") /\ startup.state = "sent4"
    /\ Receives
    /\ IF ReadRc = SERVICE_ACCEPT
         THEN /\ brigade' = Without(ReadBrigade, SERVICE_ACCEPT)
              /\ startup' = [startup EXCEPT !.state = "idle"] /\ Started("NONE")
         ELSE /\ brigade' = ReadBrigade /\ UNCHANGED startup
              /\ CASE ReadRc = EAGAIN -> Started("EAGAIN")
                   [] ReadRc \in {FAIL, 0} -> Started("FAIL")
                   [] OTHER -> UNCHANGED <<call, app>>
    /\ NoExchange
    /\ UNCHANGED <<outbound, pend, srv, counters>>

-----------------------------------------------------------------------------
(***************************************************************************)
(* Reading, writing and disconnecting.                                     *)
(***************************************************************************)
\* A half-sent packet of data is sent on by the next write.
Call(op) ==
    /\ Waiting
    /\ IF op = "startup" THEN app = "starting" ELSE app = "open"
    /\ op = "write" => written < MaxData \/ wstate = "created"
    /\ call' = [Idle EXCEPT !.op = op,
                  !.at = IF op # "write" THEN op ELSE IF wstate = "created" THEN "write" ELSE "read"]
    /\ startup' = IF op = "startup" /\ startup.state = "idle"
                    THEN [startup EXCEPT !.state = "created"] ELSE startup
    /\ UNCHANGED <<kx, asked, flags, ses, wstate, app, wire, srv, mismatch, hist, counters>>

\* _libssh2_transport_read: an exchange that was left half done comes first.
Redirects ==
    /\ At("read") /\ flags.exchanging /\ ~flags.active
    /\ Enters("redirect", ses)
    /\ UNCHANGED <<wire, srv, mismatch, counters>>

\* Otherwise a packet is read; KEXINIT begins an exchange (packet_add).
Reads ==
    /\ At("read") /\ ~flags.exchanging
    /\ Receives
    /\ brigade' = ReadBrigade
    /\ IF ReadRc = KEXINIT THEN Enters("packetAdd", ses)
       ELSE ReadEnds(ReadRc) /\ NoExchange /\ UNCHANGED startup
    /\ UNCHANGED <<outbound, pend, srv, counters>>

Rude(rc) == IF rc # "FAIL" /\ flags.exchanging THEN hist \cup {"rude"} ELSE hist

\* _libssh2_channel_write, having read what there was.
WritesData ==
    /\ At("write")
    /\ \E rc \in {"NONE", "EAGAIN", "FAIL"} :
         /\ Send(CHANNEL_DATA, rc)
         /\ wstate' = IF rc = "EAGAIN" THEN "created" ELSE "idle"
         /\ written' = IF rc = "NONE" THEN written + 1 ELSE written
         /\ hist' = Rude(rc)
         /\ app' = IF rc = "FAIL" THEN "failed" ELSE app
    /\ call' = Idle
    /\ UNCHANGED <<startup, kx, asked, flags, ses, brigade, inbound, disc, srv, mismatch, received>>

\* session_disconnect: a failure counts as done.
Disconnects ==
    /\ At("disconnect")
    /\ \E rc \in {"NONE", "EAGAIN", "FAIL"} :
         /\ Send(DISCONNECT, rc)
         /\ hist' = Rude(rc)
         /\ app' = IF rc = "EAGAIN" THEN app ELSE "closed"
    /\ call' = Idle
    /\ UNCHANGED <<startup, kx, asked, flags, ses, wstate, brigade, inbound, disc, srv, mismatch, received, written>>

-----------------------------------------------------------------------------
Init ==
    /\ startup = [state |-> "idle", sent |-> 0, garbled |-> FALSE]
    /\ kx = "idle" /\ asked = FALSE /\ wstate = "idle" /\ app = "starting" /\ call = Idle
    /\ flags = [newkeys |-> FALSE, exchanging |-> FALSE, active |-> FALSE]
    /\ ses = [kex |-> None, hostkey |-> None, crypt |-> None, burn |-> FALSE, local |-> NoKeys,
              remote |-> NoKeys, sid |-> 0, from |-> 0, group |-> TRUE]
    /\ brigade = <<>> /\ outbound = <<>> /\ pend = NoPacket /\ disc = FALSE
    /\ \E ok \in BOOLEAN : inbound = <<Banner(ok)>>
    /\ \E o \in Offers :
         srv = [offer |-> o, phase |-> "quiet", n |-> 0, send |-> NoKeys, recv |-> NoKeys,
                kex |-> None, hostkey |-> None, crypt |-> None, lied |-> {}]
    /\ mismatch = FALSE /\ hist = {}
    /\ received = 0 /\ written = 0 /\ blocks = 0

Startup == Call("startup") \/ SendsBanner \/ ReceivesBanner \/ StartsExchange
           \/ RequestsService \/ AwaitsService
Exchange == KexWrites \/ KexAsks \/ KexReads \/ KexBurns
Use == Call("read") \/ Call("write") \/ Call("disconnect") \/ Redirects \/ Reads
       \/ WritesData \/ Disconnects
Server == ServerOffers \/ ServerSwitches \/ ServerReads

Next == Startup \/ Exchange \/ Use \/ Server \/ ServerSendsData \/ ServerLeaves

\* The application repeats a call that returned EAGAIN, the server reads and answers.
Spec == Init /\ [][Next]_vars /\ WF_vars(Startup) /\ WF_vars(Exchange) /\ WF_vars(Server)

-----------------------------------------------------------------------------
(***************************************************************************)
(* Properties.                                                             *)
(***************************************************************************)
\* Every packet is read with the keys and the cipher it was made with, in both directions
\* and through every exchange (transport_read, transport_write and the end of
\* diffie_hellman_sha1), unless data or DISCONNECT was written during one, which
\* transport_write does not prevent, or an exchange failed and packet_add let it pass.
KeysAgree == mismatch => hist \cap {"rude", "failed"} # {}

\* Keys in use come from an exchange whose reply was signed by the host key, and belong to
\* the session that the first exchange began (diffie_hellman_sha1), with the methods that
\* the server chose too (kex_agree_methods).
KeysAreVerified ==
    ses.local # NoKeys =>
      /\ ses.local = ses.remote /\ ses.local[1] = 1 /\ ses.local[2] \notin srv.lied
      /\ srv.phase = "quiet" /\ srv.recv = ses.local /\ flags.newkeys
           => <<ses.kex, ses.hostkey, ses.crypt>> = <<srv.kex, srv.hostkey, Chosen(CryptMethods, srv.offer.crypt)>>

\* An exchange fails for a reason: a signature that is not the server's, a packet sent
\* ahead, a server that leaves, or a packet of ours that was half sent when it began
\* (send_existing) or was sent during it.
FailureHasCause ==
    srv.lied # {} \/ srv.offer.follows \/ srv.phase = "gone" \/ hist \cap {"halfSent", "rude"} # {}

\* An exchange that the server asks for later is neither forgotten by a call that returns
\* EAGAIN (the redirection in transport_read) nor given up without a cause: while the
\* server waits for it the client is in it, or has yet to read the KEXINIT, or has said its
\* last word in it, or it has failed, and it fails only for a reason.
OfferIsAnswered ==
    /\ srv.phase \in {"offered", "agreed", "replied"} /\ app = "open" =>
         \/ flags.exchanging /\ kx # "idle"
         \/ \E i \in DOMAIN inbound : inbound[i].type = KEXINIT
         \/ srv.phase = "replied" /\ \E i \in DOMAIN outbound : outbound[i].type = NEWKEYS
         \/ "failed" \in hist \/ disc
    /\ "failed" \in hist => FailureHasCause

\* A session that is being started is started, or the failure reported, as long as the
\* call is repeated and the server answers (session_startup, kex_exchange).
StartupReturns == app = "starting" ~> app # "starting"
=============================================================================
