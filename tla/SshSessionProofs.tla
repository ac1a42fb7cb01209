-------------------------- MODULE SshSessionProofs --------------------------
(***************************************************************************)
(* Proofs about the key exchange of libssh2, for any lists of methods, any *)
(* offer of the server and any number of exchanges: the keys in use were   *)
(* signed for by the host key, and both sides use the methods agreed on.   *)
(* The second part: both sides agree on the keys of every packet.          *)
(***************************************************************************)
EXTENDS SshSession, SequenceTheorems, WellFoundedInduction, TLAPS

Methods(list) == {None} \cup {list[i] : i \in DOMAIN list}
Keys == Nat \X Nat
Packets == [type : Int, keys : Keys, crypt : Methods(CryptMethods), n : Nat, ok : BOOLEAN]

\* What the offer of the server leads to.
Method == kex_agree_kex(srv.offer.kex, srv.offer.hostkey)
Hostkey == kex_agree_hostkey(srv.offer.hostkey)
Crypt == kex_agree_crypt(srv.offer.crypt)
AgreedOn == None \notin {Method, Hostkey, Crypt}

\* The type of the packet that carries the signature of the host key.
ReplyType == IF Method \in Fixed THEN KEXDH_REPLY ELSE KEX_DH_GEX_REPLY

\* States of an exchange in which the methods are agreed on.
Bargained == {"request", "group", "init", "burn", "reply", "newkeys", "install"}

ServerTypes ==
    srv \in [offer : Offers, phase : {"quiet", "offered", "agreed", "replied", "gone"}, n : Nat,
             send : Keys, recv : Keys, kex : Methods(KexMethods), hostkey : Methods(HostkeyMethods),
             crypt : Methods(CryptMethods), lied : SUBSET Nat]

SessionTypes ==
    /\ ses \in [kex : Methods(KexMethods), hostkey : Methods(HostkeyMethods),
                crypt : Methods(CryptMethods), burn : BOOLEAN, local : Keys, remote : Keys,
                sid : Nat, from : Nat, group : BOOLEAN]
    /\ flags \in [newkeys : BOOLEAN, exchanging : BOOLEAN, active : BOOLEAN]
    /\ startup \in [state : {"idle", "created", "sent", "sent1", "sent3", "sent4"}, sent : Int,
                    garbled : BOOLEAN]
    /\ kx \in {"idle", "kexinit", "require"} \cup Bargained

WireTypes ==
    /\ brigade \in Seq(Packets) /\ inbound \in Seq(Packets) /\ outbound \in Seq(Packets)
    /\ pend \in Packets

Types == ServerTypes /\ SessionTypes /\ WireTypes

\* Exchange n was concluded with a signature of the host key, and will not be concluded
\* otherwise.
Signed(n) ==
    /\ n \in 1..srv.n /\ n \notin srv.lied
    /\ n < srv.n \/ srv.phase \in {"replied", "quiet", "gone"}

\* The server has one exchange after the other, and chooses the same methods in each.
ServerInv ==
    /\ srv.lied \subseteq 1..srv.n
    /\ srv.phase \in {"offered", "agreed", "replied"} => srv.n > 0
    /\ srv.phase \in {"offered", "agreed"} => srv.n \notin srv.lied
    /\ srv.phase \in {"agreed", "replied"} \/ (srv.phase = "quiet" /\ srv.n > 0) =>
         srv.kex = Chosen(KexMethods, srv.offer.kex)
         /\ srv.hostkey = Chosen(HostkeyMethods, srv.offer.hostkey)
    /\ srv.phase = "quiet" /\ srv.n > 0 => srv.recv = <<1, srv.n>>

\* The keys of the client come from exchanges that were signed for, and the methods of
\* the exchange they come from are in use.
SessionInv ==
    /\ ses.local = ses.remote
    /\ ses.sid \in {0, 1}
    /\ ses.sid = 0 => srv.n <= 1
    /\ ses.local # NoKeys =>
         /\ ses.local[1] = 1 /\ Signed(ses.local[2])
         /\ AgreedOn /\ ses.crypt = Crypt
         /\ ses.local[2] = srv.n => ses.kex = Method /\ ses.hostkey = Hostkey
    /\ app = "open" \/ startup.state \in {"sent3", "sent4"} => ses.sid = 1
    /\ flags.exchanging => kx # "idle"

\* What an exchange has come to.
ExchangeInv ==
    /\ ses.from <= srv.n
    /\ kx \in {"newkeys", "install"} => Signed(ses.from)
    /\ kx \in Bargained =>
         AgreedOn /\ ses.kex = Method /\ ses.hostkey = Hostkey /\ ses.crypt = Crypt
    /\ kx = "request" => Method \notin Fixed

\* A packet of the server belongs to an exchange it has begun, and a reply that bears the
\* right signature to one that it concluded with it.
Fine(p) ==
    /\ p.type \in Nat /\ p.n <= srv.n
    /\ p.ok /\ p.type = ReplyType => Signed(p.n)

\* What was read or is in front of a KEXINIT belongs to an earlier exchange.
Newer(n) ==
    /\ \A j \in 1..Len(brigade) : brigade[j].n < n
    /\ ses.from < n /\ ses.local[2] < n

TrafficInv ==
    /\ \A i \in 1..Len(inbound) : Fine(inbound[i])
    /\ \A i \in 1..Len(brigade) : Fine(brigade[i])
    /\ \A i \in 1..Len(inbound) : inbound[i].type = KEXINIT =>
         Newer(inbound[i].n) /\ \A j \in 1..(i - 1) : inbound[j].n < inbound[i].n

\* A group is asked for only with a method that needs one.
RequestInv ==
    /\ \A i \in 1..Len(outbound) : outbound[i].type = KEX_DH_GEX_REQUEST => Method \notin Fixed
    /\ pend.type = KEX_DH_GEX_REQUEST => Method \notin Fixed

IInv == Types /\ ServerInv /\ SessionInv /\ ExchangeInv /\ TrafficInv /\ RequestInv
-----------------------------------------------------------------------------
(***************************************************************************)
(* Sets, sequences and methods.                                            *)
(***************************************************************************)
\* Every set of naturals has a least element.
LEMMA MinFacts ==
    ASSUME NEW S, S \subseteq Nat, S # {}
    PROVE  Min(S) \in S /\ \A y \in S : Min(S) <= y
<1>1. PICK x \in S : \A y \in S : ~(<<y, x>> \in OpToRel(<, Nat))
  BY NatLessThanWellFounded, WFMin, ZenonT(30)
<1>2. OpToRel(<, Nat) = {ss \in Nat \X Nat : ss[1] < ss[2]}
  BY DEF OpToRel
<1>3. \A y \in S : ~(<<y, x>> \in {ss \in Nat \X Nat : ss[1] < ss[2]})
  BY <1>1, <1>2, ZenonT(30)
<1>4. ASSUME NEW y \in S PROVE x <= y
  <2>1. x \in Nat /\ y \in Nat /\ <<y, x>> \in Nat \X Nat /\ <<y, x>>[1] = y /\ <<y, x>>[2] = x
    OBVIOUS
  <2>2. ~(y < x)
    BY <1>3, <2>1
  <2> QED
    BY <2>1, <2>2
<1> QED
  BY <1>4 DEF Min

\* What is left when an element is removed was there before.
LEMMA RemoveFacts ==
    ASSUME NEW T, NEW b \in Seq(T), NEW k \in 1..Len(b)
    PROVE  /\ RemoveAt(b, k) \in Seq(T)
           /\ \A i \in 1..Len(RemoveAt(b, k)) : \E j \in 1..Len(b) : RemoveAt(b, k)[i] = b[j]
<1> DEFINE l == SubSeq(b, 1, k - 1)
           r == SubSeq(b, k + 1, Len(b))
<1>1. l \in Seq(T) /\ r \in Seq(T) /\ Len(l) = k - 1 /\ Len(r) = Len(b) - k
      /\ (\A i \in 1..Len(l) : l[i] = b[i]) /\ (\A i \in 1..Len(r) : r[i] = b[k + i])
  OBVIOUS
<1> HIDE DEF l, r
<1>2. RemoveAt(b, k) = l \o r
  BY DEF RemoveAt, l, r
<1>3. l \o r \in Seq(T) /\ Len(l \o r) = Len(l) + Len(r)
        /\ \A i \in 1..(Len(l) + Len(r)) : (l \o r)[i] = IF i <= Len(l) THEN l[i] ELSE r[i - Len(l)]
  BY <1>1, ConcatProperties
<1>4. ASSUME NEW i \in 1..Len(l \o r)
      PROVE  \E j \in 1..Len(b) : (l \o r)[i] = b[j]
  <2>1. CASE i <= Len(l)
    BY <1>1, <1>3, <2>1
  <2>2. CASE i > Len(l)
    <3>1. i - Len(l) \in 1..Len(r) /\ k + (i - Len(l)) \in 1..Len(b)
      BY <1>1, <1>3, <2>2
    <3>2. (l \o r)[i] = r[i - Len(l)]
      BY <1>1, <1>3, <2>2
    <3> QED
      BY <1>1, <3>1, <3>2
  <2> QED
    BY <1>1, <2>1, <2>2
<1> QED
  BY <1>2, <1>3, <1>4

\* An entry of a list of methods.
LEMMA EntryOfList ==
    ASSUME NEW list \in {KexMethods, HostkeyMethods, CryptMethods}, NEW S, S \subseteq DOMAIN list, S # {}
    PROVE  list[Min(S)] \in Methods(list)
<1>1. list \in Seq({list[i] : i \in DOMAIN list})
  BY SessionAssumption
<1>2. DOMAIN list \subseteq Nat
  BY <1>1
<1>3. Min(S) \in DOMAIN list
  BY <1>2, MinFacts
<1> QED
  BY <1>3 DEF Methods

\* What is agreed on is one of our methods, or none.
LEMMA AgreedTypes ==
    ASSUME NEW theirs, NEW hostkeys
    PROVE  /\ kex_agree_kex(theirs, hostkeys) \in Methods(KexMethods)
           /\ kex_agree_hostkey(theirs) \in Methods(HostkeyMethods)
           /\ kex_agree_crypt(theirs) \in Methods(CryptMethods)
           /\ \A list \in {KexMethods, HostkeyMethods, CryptMethods} : Chosen(list, theirs) \in Methods(list)
<1>1. \A list : None \in Methods(list)
  BY DEF Methods
<1>2. ASSUME NEW list \in {KexMethods, HostkeyMethods, CryptMethods}
      PROVE  Chosen(list, theirs) \in Methods(list)
  <2> DEFINE S == {i \in DOMAIN list : Listed(list[i], theirs)}
  <2>1. Chosen(list, theirs) = IF S # {} THEN list[Min(S)] ELSE None
    BY DEF Chosen, FirstOf
  <2>2. S # {} => list[Min(S)] \in Methods(list)
    BY EntryOfList
  <2> QED
    BY <1>1, <2>1, <2>2
<1>3. kex_agree_hostkey(theirs) = Chosen(HostkeyMethods, theirs)
      /\ kex_agree_crypt(theirs) = Chosen(CryptMethods, theirs)
  BY DEF kex_agree_hostkey, kex_agree_crypt, Chosen, FirstOf
<1>4. kex_agree_kex(theirs, hostkeys) \in Methods(KexMethods)
  <2> DEFINE S == {i \in DOMAIN KexMethods : Listed(KexMethods[i], theirs) /\ kex_agree_hostkey(hostkeys) # None}
  <2>1. kex_agree_kex(theirs, hostkeys) = IF S # {} THEN KexMethods[Min(S)] ELSE None
    BY DEF kex_agree_kex, FirstOf
  <2>2. S # {} => KexMethods[Min(S)] \in Methods(KexMethods)
    BY EntryOfList
  <2> QED
    BY <1>1, <2>1, <2>2
<1> QED
  BY <1>2, <1>3, <1>4

\* The server, which takes the first of our methods that it has, comes to the same.
LEMMA SameChoice ==
    ASSUME NEW theirs, NEW hostkeys
    PROVE  /\ kex_agree_hostkey(theirs) = Chosen(HostkeyMethods, theirs)
           /\ kex_agree_crypt(theirs) = Chosen(CryptMethods, theirs)
           /\ kex_agree_kex(theirs, hostkeys) # None =>
                kex_agree_kex(theirs, hostkeys) = Chosen(KexMethods, theirs)
<1> DEFINE A == {i \in DOMAIN KexMethods : Listed(KexMethods[i], theirs) /\ kex_agree_hostkey(hostkeys) # None}
           S == {i \in DOMAIN KexMethods : Listed(KexMethods[i], theirs)}
<1>1. kex_agree_hostkey(theirs) = Chosen(HostkeyMethods, theirs)
      /\ kex_agree_crypt(theirs) = Chosen(CryptMethods, theirs)
  BY DEF kex_agree_hostkey, kex_agree_crypt, Chosen, FirstOf
<1>2. kex_agree_kex(theirs, hostkeys) = IF A # {} THEN KexMethods[Min(A)] ELSE None
  BY DEF kex_agree_kex, FirstOf
<1>3. Chosen(KexMethods, theirs) = IF S # {} THEN KexMethods[Min(S)] ELSE None
  BY DEF Chosen, FirstOf
<1>4. A # {} => A = S
  OBVIOUS
<1> QED
  BY <1>1, <1>2, <1>3, <1>4

-----------------------------------------------------------------------------
(***************************************************************************)
(* Steps of the server.                                                    *)
(***************************************************************************)
\* The initial state.
LEMMA InitIInv == Init => IInv
<1> SUFFICES ASSUME Init PROVE IInv
  OBVIOUS
<1>1. \A list : None \in Methods(list)
  BY DEF Methods
<1>2. NoKeys \in Keys
  BY DEF NoKeys, Keys
<1>3. NoPacket \in Packets /\ NoPacket.type = -1
  BY <1>1, <1>2 DEF NoPacket, Packets
<1>4. PICK ok \in BOOLEAN : inbound = <<Banner(ok)>>
  BY DEF Init
<1> DEFINE b == Banner(ok)
<1>5. b \in Packets /\ b.type = 0 /\ b.n = 0
  BY <1>1, <1>2 DEF Banner, Packets, BANNER
<1> HIDE DEF b
<1>6. inbound \in Seq(Packets) /\ Len(inbound) = 1 /\ inbound[1] = b
  BY <1>4, <1>5 DEF b
<1>7. PICK o \in Offers :
        srv = [offer |-> o, phase |-> "quiet", n |-> 0, send |-> NoKeys, recv |-> NoKeys,
               kex |-> None, hostkey |-> None, crypt |-> None, lied |-> {}]
  BY DEF Init
<1>8. ServerTypes
  BY <1>1, <1>2, <1>7 DEF ServerTypes
<1>9. srv.phase = "quiet" /\ srv.n = 0 /\ srv.lied = {}
  BY <1>7
<1>10. SessionTypes
  BY <1>1, <1>2 DEF Init, SessionTypes
<1>11. WireTypes
  BY <1>3, <1>6 DEF Init, WireTypes
<1>12. ServerInv
  BY <1>9 DEF ServerInv
<1>13. SessionInv /\ ExchangeInv
  BY <1>9 DEF Init, SessionInv, ExchangeInv, NoKeys, Bargained
<1>14. TrafficInv
  BY <1>5, <1>6, <1>9 DEF Init, TrafficInv, Fine, ReplyType, KEXDH_REPLY, KEX_DH_GEX_REPLY, KEXINIT
<1>15. RequestInv
  BY <1>3 DEF Init, RequestInv, KEX_DH_GEX_REQUEST
<1> QED
  BY <1>8, <1>10, <1>11, <1>12, <1>13, <1>14, <1>15 DEF IInv, Types

\* The server sends some packets, and perhaps has read one.
LEMMA ServerStep ==
    ASSUME IInv, NEW s \in Seq(Packets), inbound' = inbound \o s,
           UNCHANGED <<clientVars, brigade, pend>>,
           outbound' = outbound \/ (outbound # <<>> /\ outbound' = Tail(outbound)),
           ServerTypes', ServerInv', srv'.offer = srv.offer,
           srv'.n \in {srv.n, srv.n + 1}, ses.sid = 0 => srv'.n <= 1,
           \A m \in Nat : Signed(m) => Signed(m)',
           \A i \in 1..Len(s) : Fine(s[i])' /\ (s[i].type = KEXINIT => i = 1 /\ s[i].n > srv.n)
    PROVE  IInv'
<1>1. Types /\ ServerInv /\ SessionInv /\ ExchangeInv /\ TrafficInv /\ RequestInv
  BY DEF IInv
<1>2. UNCHANGED <<startup, kx, flags, ses, app, brigade, pend>>
  BY DEF clientVars
<1>3. /\ Method' = Method /\ Hostkey' = Hostkey /\ Crypt' = Crypt /\ AgreedOn' = AgreedOn
      /\ ReplyType' = ReplyType
  BY DEF Method, Hostkey, Crypt, AgreedOn, ReplyType
<1>4. /\ srv.n \in Nat /\ srv'.n \in Nat /\ srv.n <= srv'.n
      /\ ses.from \in Nat /\ ses.local \in Keys /\ ses.local[2] \in Nat
  <2>1. srv.n \in Nat /\ srv'.n \in Nat /\ srv.n <= srv'.n
    BY <1>1 DEF Types, ServerTypes
  <2>2. ses.from \in Nat /\ ses.local \in Keys
    BY <1>1 DEF Types, SessionTypes
  <2> QED
    BY <2>1, <2>2 DEF Keys
<1>5. inbound \in Seq(Packets) /\ brigade \in Seq(Packets) /\ outbound \in Seq(Packets)
  BY <1>1 DEF Types, WireTypes
<1>6. /\ inbound' \in Seq(Packets) /\ Len(inbound') = Len(inbound) + Len(s)
      /\ Len(inbound) \in Nat /\ Len(s) \in Nat
      /\ \A i \in 1..Len(inbound') : inbound'[i] = IF i <= Len(inbound) THEN inbound[i] ELSE s[i - Len(inbound)]
  <2>1. /\ inbound \o s \in Seq(Packets) /\ Len(inbound \o s) = Len(inbound) + Len(s)
        /\ \A i \in 1..(Len(inbound) + Len(s)) :
             (inbound \o s)[i] = IF i <= Len(inbound) THEN inbound[i] ELSE s[i - Len(inbound)]
    BY <1>5, ConcatProperties
  <2> QED
    BY <1>5, <2>1
<1>7. outbound' \in Seq(Packets)
      /\ \A i \in 1..Len(outbound') : \E j \in 1..Len(outbound) : outbound'[i] = outbound[j]
  <2>1. CASE outbound' = outbound
    BY <1>5, <2>1
  <2>2. CASE outbound # <<>> /\ outbound' = Tail(outbound)
    BY <1>5, <2>2
  <2> QED
    BY <2>1, <2>2
<1>8. Types'
  BY <1>1, <1>2, <1>6, <1>7 DEF Types, SessionTypes, WireTypes
<1>9. SessionInv'
  <2>1. PICK m \in Nat : m = ses.local[2]
    BY <1>4
  <2>2. ses.local # NoKeys => Signed(m) /\ Signed(m)'
    BY <1>1, <2>1 DEF SessionInv
  <2>3. ses.local # NoKeys => (m = srv'.n => m = srv.n)
    BY <1>4, <2>2 DEF Signed
  <2>4. ses.local # NoKeys => Signed(ses.local[2])'
    BY <1>2, <2>1, <2>2 DEF Signed
  <2> QED
    BY <1>1, <1>2, <1>3, <2>1, <2>3, <2>4 DEF SessionInv
<1>10. ExchangeInv'
  BY <1>1, <1>2, <1>3, <1>4 DEF ExchangeInv
<1>11. RequestInv'
  BY <1>1, <1>2, <1>3, <1>7 DEF RequestInv
<1>12. ASSUME NEW p \in Packets, Fine(p)
       PROVE  Fine(p)'
  BY <1>3, <1>4, <1>12 DEF Fine, Packets
<1>13. /\ \A i \in 1..Len(inbound) : inbound[i] \in Packets /\ Fine(inbound[i]) /\ Fine(inbound[i])'
       /\ \A i \in 1..Len(brigade) : brigade[i] \in Packets /\ Fine(brigade[i]) /\ Fine(brigade[i])'
  BY <1>1, <1>5, <1>12 DEF TrafficInv
<1>14. \A i \in 1..Len(inbound') : Fine(inbound[i])'
  <2> TAKE i \in 1..Len(inbound')
  <2>1. CASE i <= Len(inbound)
    BY <1>6, <1>13, <2>1
  <2>2. CASE i > Len(inbound)
    <3>1. i - Len(inbound) \in 1..Len(s) /\ inbound'[i] = s[i - Len(inbound)]
      BY <1>6, <2>2
    <3> QED
      BY <3>1
  <2> QED
    BY <1>6, <2>1, <2>2
<1>15. ASSUME NEW i \in 1..Len(inbound'), inbound'[i].type = KEXINIT
       PROVE  Newer(inbound[i].n)' /\ \A j \in 1..(i - 1) : inbound'[j].n < inbound'[i].n
  <2>1. CASE i <= Len(inbound)
    <3>1. i \in 1..Len(inbound) /\ inbound'[i] = inbound[i] /\ \A j \in 1..(i - 1) : inbound'[j] = inbound[j]
      BY <1>6, <2>1
    <3>2. Newer(inbound[i].n) /\ \A j \in 1..(i - 1) : inbound[j].n < inbound[i].n
      BY <1>1, <1>15, <3>1 DEF TrafficInv
    <3> QED
      BY <1>2, <3>1, <3>2 DEF Newer
  <2>2. CASE i > Len(inbound)
    <3> DEFINE k == i - Len(inbound)
    <3>1. k \in 1..Len(s) /\ inbound'[i] = s[k]
      BY <1>6, <2>2
    <3> HIDE DEF k
    <3>2. k = 1 /\ inbound'[i].n > srv.n /\ inbound'[i].n \in Nat
      <4>1. s[k].type = KEXINIT /\ s[k] \in Packets
        BY <1>15, <3>1
      <4>2. k = 1 /\ s[k].n > srv.n
        BY <3>1, <4>1
      <4>3. s[k].n \in Nat
        BY <4>1 DEF Packets
      <4> QED
        BY <3>1, <4>2, <4>3
    <3>3. i - 1 = Len(inbound) /\ \A j \in 1..(i - 1) : inbound'[j] = inbound[j]
      BY <1>6, <2>2, <3>1, <3>2 DEF k
    <3>4. \A j \in 1..Len(inbound) : inbound[j].n \in Nat /\ inbound[j].n <= srv.n
      BY <1>13 DEF Fine, Packets
    <3>5. \A j \in 1..Len(brigade) : brigade[j].n \in Nat /\ brigade[j].n <= srv.n
      BY <1>13 DEF Fine, Packets
    <3>6. ses.from <= srv.n /\ ses.local[2] <= srv.n
      <4>1. ses.local = NoKeys => ses.local[2] = 0
        BY DEF NoKeys
      <4>2. ses.local # NoKeys => ses.local[2] <= srv.n
        BY <1>1, <1>4 DEF SessionInv, Signed
      <4> QED
        BY <1>1, <1>4, <4>1, <4>2 DEF ExchangeInv
    <3>7. Newer(inbound[i].n)'
      <4>1. \A j \in 1..Len(brigade) : brigade[j].n < inbound'[i].n
        BY <1>4, <3>2, <3>5
      <4>2. ses.from < inbound'[i].n /\ ses.local[2] < inbound'[i].n
        <5>1. \A a, b, c \in Nat : a <= b /\ c > b => a < c
          OBVIOUS
        <5> QED
          BY <1>4, <3>2, <3>6, <5>1, Zenon
      <4> QED
        BY <1>2, <4>1, <4>2 DEF Newer
    <3>8. \A j \in 1..(i - 1) : inbound'[j].n < inbound'[i].n
      BY <1>4, <3>2, <3>3, <3>4
    <3> QED
      BY <3>7, <3>8
  <2> QED
    BY <1>6, <2>1, <2>2
<1>16. TrafficInv'
  BY <1>2, <1>13, <1>14, <1>15 DEF TrafficInv
<1> QED
  BY <1>8, <1>9, <1>10, <1>11, <1>16 DEF IInv

\* A packet that bears no signature is fine when it belongs to an exchange that was begun.
LEMMA UnsignedIsFine ==
    ASSUME NEW p \in Packets, p.type \in Nat, p.n <= srv'.n, ~p.ok \/ p.type \notin {31, 33}
    PROVE  Fine(p)'
  BY DEF Fine, ReplyType, KEXDH_REPLY, KEX_DH_GEX_REPLY

\* KEXINIT of the server, and perhaps a packet ahead.
LEMMA OffersKeeps ==
    ASSUME IInv, ServerOffers
    PROVE  IInv'
<1>1. ServerTypes /\ ServerInv /\ SessionInv
  BY DEF IInv, Types
<1>2. /\ srv.phase = "quiet" /\ (srv.n > 0 => app = "open")
      /\ srv' = [srv EXCEPT !.phase = "offered", !.n = @ + 1]
      /\ UNCHANGED <<clientVars, brigade, pend, outbound>>
  BY DEF ServerOffers
<1>3. srv.n \in Nat /\ srv.lied \subseteq 1..srv.n
  BY <1>1 DEF ServerTypes, ServerInv
<1>4. /\ srv'.phase = "offered" /\ srv'.n = srv.n + 1 /\ srv'.offer = srv.offer /\ srv'.lied = srv.lied
      /\ ServerTypes'
  <2>1. srv'.phase = "offered" /\ srv'.n = srv.n + 1 /\ srv'.offer = srv.offer /\ srv'.lied = srv.lied
    BY <1>1, <1>2 DEF ServerTypes
  <2>2. srv.n + 1 \in Nat
    BY <1>3
  <2>3. ServerTypes'
    BY <1>1, <1>2, <2>2 DEF ServerTypes
  <2> QED
    BY <2>1, <2>3
<1>5. ServerInv'
  BY <1>3, <1>4 DEF ServerInv
<1>6. \A m \in Nat : Signed(m) => Signed(m)'
  BY <1>3, <1>4 DEF Signed
<1>7. ses.sid = 0 => srv'.n <= 1
  BY <1>1, <1>2, <1>3, <1>4 DEF SessionInv
<1>8. PICK p : p = FromServer(KEXINIT, srv.n + 1, TRUE)
  OBVIOUS
<1>9. PICK q : q = FromServer(31, srv.n + 1, FALSE)
  OBVIOUS
<1>10. p \in Packets /\ p.type = 20 /\ p.n = srv.n + 1
  BY <1>1, <1>3, <1>8 DEF KEXINIT, ServerTypes, FromServer, Packets
<1>11. q \in Packets /\ q.type = 31 /\ q.n = srv.n + 1 /\ q.ok = FALSE
  BY <1>1, <1>3, <1>9 DEF ServerTypes, FromServer, Packets
<1>12. Fine(p)' /\ Fine(q)'
  BY <1>3, <1>4, <1>10, <1>11, UnsignedIsFine
<1>13. PICK s : s = IF srv.offer.follows THEN <<p, q>> ELSE <<p>>
  OBVIOUS
<1>14. s = <<p>> \/ s = <<p, q>>
  BY <1>13
<1>15. s \in Seq(Packets) /\ \A i \in 1..Len(s) : (i = 1 /\ s[i] = p) \/ s[i] = q
  <2>1. CASE s = <<p>>
    BY <1>10, <2>1
  <2>2. CASE s = <<p, q>>
    BY <1>10, <1>11, <2>2
  <2> QED
    BY <1>14, <2>1, <2>2
<1>16. inbound' = inbound \o s
  BY <1>8, <1>9, <1>13 DEF ServerOffers, ServerSends
<1>17. \A i \in 1..Len(s) : Fine(s[i])' /\ (s[i].type = KEXINIT => i = 1 /\ s[i].n > srv.n)
  BY <1>3, <1>10, <1>11, <1>12, <1>15 DEF KEXINIT
<1> QED
  BY <1>2, <1>4, <1>5, <1>6, <1>7, <1>15, <1>16, <1>17, ServerStep

\* A step in which the server sends one packet that bears no signature.
LEMMA OnePacketKeeps ==
    ASSUME IInv, NEW p \in Packets, inbound' = inbound \o <<p>>,
           p.type \in Nat, p.type # KEXINIT, p.n <= srv'.n, ~p.ok \/ p.type \notin {31, 33},
           UNCHANGED <<clientVars, brigade, pend>>,
           outbound' = outbound \/ (outbound # <<>> /\ outbound' = Tail(outbound)),
           ServerTypes', ServerInv', srv'.offer = srv.offer, srv'.n = srv.n,
           \A m \in Nat : Signed(m) => Signed(m)'
    PROVE  IInv'
<1>1. PICK s : s = <<p>>
  OBVIOUS
<1>2. s \in Seq(Packets) /\ \A i \in 1..Len(s) : s[i] = p
  BY <1>1
<1>3. Fine(p)'
  BY UnsignedIsFine
<1>4. ses.sid = 0 => srv'.n <= 1
  BY DEF IInv, SessionInv
<1> QED
  BY <1>1, <1>2, <1>3, <1>4, ServerStep

\* A server that leaves has concluded what it concluded.
LEMMA LeavesFacts ==
    ASSUME ServerTypes, ServerInv, srv' = Leaves
    PROVE  /\ ServerTypes' /\ ServerInv' /\ srv'.offer = srv.offer /\ srv'.n = srv.n /\ srv.n \in Nat
           /\ \A m \in Nat : Signed(m) => Signed(m)'
<1>1. /\ srv'.phase = "gone" /\ srv'.n = srv.n /\ srv'.offer = srv.offer /\ srv'.lied = srv.lied
      /\ ServerTypes' /\ srv.n \in Nat
  BY DEF ServerTypes, Leaves
<1> QED
  BY <1>1 DEF ServerInv, Signed

\* NEWKEYS of the server, data, and DISCONNECT.
LEMMA ServerSendsKeeps ==
    ASSUME IInv, ServerSwitches \/ ServerSendsData \/ ServerLeaves
    PROVE  IInv'
<1>1. ServerTypes /\ ServerInv
  BY DEF IInv, Types
<1>2. UNCHANGED <<clientVars, brigade, pend, outbound>>
  BY DEF ServerSwitches, ServerSendsData, ServerLeaves
<1>3. srv.n \in Nat
  BY <1>1 DEF ServerTypes
<1>4. CASE ServerSwitches
  <2>1. PICK p : p = FromServer(NEWKEYS, srv.n, TRUE)
    OBVIOUS
  <2>2. p \in Packets /\ p.type = 21 /\ p.n = srv.n
    BY <1>1, <1>3, <2>1 DEF NEWKEYS, ServerTypes, FromServer, Packets
  <2>3. inbound' = inbound \o <<p>>
    BY <1>4, <2>1 DEF ServerSwitches, ServerSends
  <2>4. /\ srv.phase = "replied"
        /\ srv' = [srv EXCEPT !.send = <<1, srv.n>>, !.crypt = Chosen(CryptMethods, srv.offer.crypt),
                              !.phase = IF srv.recv = <<1, srv.n>> THEN "quiet" ELSE @]
    BY <1>4 DEF ServerSwitches
  <2>5. <<1, srv.n>> \in Keys /\ Chosen(CryptMethods, srv.offer.crypt) \in Methods(CryptMethods)
    BY <1>3, AgreedTypes DEF Keys
  <2>6. ServerTypes'
    <3>1. PICK phase \in {"quiet", "replied"} : phase = IF srv.recv = <<1, srv.n>> THEN "quiet" ELSE srv.phase
      BY <2>4
    <3>2. PICK send \in Keys : send = <<1, srv.n>>
      BY <2>5
    <3>3. PICK crypt \in Methods(CryptMethods) : crypt = Chosen(CryptMethods, srv.offer.crypt)
      BY <2>5
    <3>4. srv' = [srv EXCEPT !.send = send, !.crypt = crypt, !.phase = phase]
      BY <1>1, <2>4, <3>1, <3>2, <3>3
    <3> QED
      BY <1>1, <3>4 DEF ServerTypes
  <2>7. /\ srv'.phase = (IF srv.recv = <<1, srv.n>> THEN "quiet" ELSE "replied")
        /\ srv'.n = srv.n /\ srv'.offer = srv.offer /\ srv'.lied = srv.lied /\ srv'.recv = srv.recv
        /\ srv'.kex = srv.kex /\ srv'.hostkey = srv.hostkey
    BY <1>1, <2>4 DEF ServerTypes
  <2>8. ServerInv'
    BY <1>1, <1>3, <2>4, <2>7 DEF ServerInv
  <2>9. \A m \in Nat : Signed(m) => Signed(m)'
    BY <2>7 DEF Signed
  <2> QED
    BY <1>2, <1>3, <2>2, <2>3, <2>6, <2>7, <2>8, <2>9, OnePacketKeeps DEF KEXINIT
<1>5. CASE ServerSendsData
  <2>1. PICK p : p = FromServer(CHANNEL_DATA, srv.n, TRUE)
    OBVIOUS
  <2>2. p \in Packets /\ p.type = 94 /\ p.n = srv.n
    BY <1>1, <1>3, <2>1 DEF CHANNEL_DATA, ServerTypes, FromServer, Packets
  <2>3. inbound' = inbound \o <<p>> /\ srv' = srv
    BY <1>5, <2>1 DEF ServerSendsData, ServerSends
  <2>4. ServerTypes' /\ ServerInv' /\ \A m \in Nat : Signed(m) => Signed(m)'
    BY <1>1, <2>3 DEF ServerTypes, ServerInv, Signed
  <2> QED
    BY <1>2, <1>3, <2>2, <2>3, <2>4, OnePacketKeeps DEF KEXINIT
<1>6. CASE ServerLeaves
  <2>1. PICK p : p = FromServer(DISCONNECT, 0, TRUE)
    OBVIOUS
  <2>2. p \in Packets /\ p.type = 1 /\ p.n = 0
    BY <1>1, <2>1 DEF DISCONNECT, ServerTypes, FromServer, Packets
  <2>3. inbound' = inbound \o <<p>> /\ srv' = Leaves
    BY <1>6, <2>1 DEF ServerLeaves, ServerSends
  <2>4. /\ ServerTypes' /\ ServerInv' /\ srv'.offer = srv.offer /\ srv'.n = srv.n
        /\ \A m \in Nat : Signed(m) => Signed(m)'
    BY <1>1, <2>3, LeavesFacts
  <2> QED
    BY <1>2, <1>3, <2>2, <2>3, <2>4, OnePacketKeeps DEF KEXINIT
<1> QED
  BY <1>4, <1>5, <1>6

\* A step in which the server sends nothing.
LEMMA NoPacketKeeps ==
    ASSUME IInv, inbound' = inbound \o <<>>,
           UNCHANGED <<clientVars, brigade, pend>>, outbound # <<>>, outbound' = Tail(outbound),
           ServerTypes', ServerInv', srv'.offer = srv.offer, srv'.n = srv.n,
           \A m \in Nat : Signed(m) => Signed(m)'
    PROVE  IInv'
<1>1. PICK s : s = <<>>
  OBVIOUS
<1>2. s \in Seq(Packets) /\ inbound' = inbound \o s
  BY <1>1
<1>3. ses.sid = 0 => srv'.n <= 1
  BY DEF IInv, SessionInv
<1>4. \A i \in 1..Len(s) : Fine(s[i])' /\ (s[i].type = KEXINIT => i = 1 /\ s[i].n > srv.n)
  BY <1>1
<1> QED
  BY <1>2, <1>3, <1>4, ServerStep

\* Nothing changes for the server.
LEMMA SameServer ==
    ASSUME ServerTypes, ServerInv, srv' = srv
    PROVE  /\ ServerTypes' /\ ServerInv' /\ srv'.offer = srv.offer /\ srv'.n = srv.n
           /\ \A m \in Nat : Signed(m) => Signed(m)'
  BY DEF ServerTypes, ServerInv, Signed

\* The server agrees on methods.
LEMMA ServerAgrees ==
    ASSUME ServerTypes, ServerInv, srv.phase = "offered",
           srv' = Accepts
    PROVE  /\ ServerTypes' /\ ServerInv' /\ srv'.offer = srv.offer /\ srv'.n = srv.n
           /\ \A m \in Nat : Signed(m) => Signed(m)'
<1>1. PICK kex \in Methods(KexMethods) : kex = Chosen(KexMethods, srv.offer.kex)
  BY AgreedTypes
<1>2. PICK hostkey \in Methods(HostkeyMethods) : hostkey = Chosen(HostkeyMethods, srv.offer.hostkey)
  BY AgreedTypes
<1>3. srv' = [srv EXCEPT !.phase = "agreed", !.kex = kex, !.hostkey = hostkey]
  BY <1>1, <1>2 DEF Accepts
<1>4. ServerTypes'
  BY <1>3 DEF ServerTypes
<1>5. /\ srv'.phase = "agreed" /\ srv'.offer = srv.offer /\ srv'.n = srv.n /\ srv'.lied = srv.lied
      /\ srv'.kex = kex /\ srv'.hostkey = hostkey
  BY <1>3 DEF ServerTypes
<1>6. ServerInv'
  BY <1>1, <1>2, <1>5 DEF ServerInv
<1>7. \A m \in Nat : Signed(m) => Signed(m)'
  BY <1>5 DEF Signed
<1> QED
  BY <1>4, <1>5, <1>6, <1>7

\* The server concludes an exchange, with its signature or without.
LEMMA ServerConcludes ==
    ASSUME ServerTypes, ServerInv, srv.phase = "agreed", NEW ok \in BOOLEAN,
           srv' = Concludes(ok)
    PROVE  /\ ServerTypes' /\ ServerInv' /\ srv'.offer = srv.offer /\ srv'.n = srv.n
           /\ \A m \in Nat : Signed(m) => Signed(m)'
           /\ ok => Signed(srv.n)'
<1>1. srv.n \in Nat /\ srv.n > 0 /\ srv.n \notin srv.lied /\ srv.lied \subseteq 1..srv.n
  BY DEF ServerTypes, ServerInv
<1>2. PICK lied \in SUBSET Nat : lied = srv.lied \cup IF ok THEN {} ELSE {srv.n}
  BY <1>1 DEF ServerTypes
<1>3. srv' = [srv EXCEPT !.phase = "replied", !.lied = lied]
  BY <1>2 DEF Concludes
<1>4. ServerTypes'
  BY <1>3 DEF ServerTypes
<1>5. /\ srv'.phase = "replied" /\ srv'.offer = srv.offer /\ srv'.n = srv.n /\ srv'.lied = lied
      /\ srv'.kex = srv.kex /\ srv'.hostkey = srv.hostkey
  BY <1>3 DEF ServerTypes
<1>6. lied \subseteq 1..srv.n /\ (ok => srv.n \notin lied)
      /\ \A m \in 1..srv.n : m < srv.n /\ m \notin srv.lied => m \notin lied
  BY <1>1, <1>2
<1>7. ServerInv'
  BY <1>1, <1>5, <1>6 DEF ServerInv
<1>8. \A m \in Nat : Signed(m) => Signed(m)'
  BY <1>1, <1>5, <1>6 DEF Signed
<1>9. ok => Signed(srv.n)'
  BY <1>1, <1>5, <1>6 DEF Signed
<1> QED
  BY <1>4, <1>5, <1>7, <1>8, <1>9

\* The server takes new keys into use for what it reads.
LEMMA ServerRenews ==
    ASSUME ServerTypes, ServerInv, srv.phase = "replied", srv' = Renews
    PROVE  /\ ServerTypes' /\ ServerInv' /\ srv'.offer = srv.offer /\ srv'.n = srv.n
           /\ \A m \in Nat : Signed(m) => Signed(m)'
<1>1. srv.n \in Nat
  BY DEF ServerTypes
<1>2. PICK phase \in {"quiet", "replied"} : phase = IF srv.send = <<1, srv.n>> THEN "quiet" ELSE srv.phase
  OBVIOUS
<1>3. PICK recv \in Keys : recv = <<1, srv.n>>
  BY <1>1 DEF Keys
<1>4. srv' = [srv EXCEPT !.recv = recv, !.phase = phase]
  BY <1>2, <1>3 DEF ServerTypes, Renews
<1>5. ServerTypes'
  BY <1>4 DEF ServerTypes
<1>6. /\ srv'.phase = phase /\ srv'.offer = srv.offer /\ srv'.n = srv.n /\ srv'.lied = srv.lied
      /\ srv'.kex = srv.kex /\ srv'.hostkey = srv.hostkey /\ srv'.recv = recv
  BY <1>4 DEF ServerTypes
<1>7. ServerInv'
  BY <1>1, <1>3, <1>6 DEF ServerInv
<1>8. \A m \in Nat : Signed(m) => Signed(m)'
  BY <1>6 DEF Signed
<1> QED
  BY <1>5, <1>6, <1>7, <1>8

\* What the server may do with a packet that it reads with the right keys.
LEMMA AnswerCases ==
    ASSUME NEW p, Answers(p)
    PROVE  \/ srv' = Leaves /\ inbound' = inbound \o <<FromServer(1, 0, TRUE)>>
           \/ srv.phase = "offered" /\ srv' = Accepts /\ inbound' = inbound \o <<>>
           \/ p.type = 34 /\ srv' = srv /\ inbound' = inbound \o <<FromServer(31, srv.n, TRUE)>>
           \/ /\ p.type \in {30, 32} /\ srv.phase = "agreed"
              /\ \E ok \in BOOLEAN : srv' = Concludes(ok) /\ inbound' = inbound \o <<FromServer(p.type + 1, srv.n, ok)>>
           \/ srv.phase = "replied" /\ srv' = Renews /\ inbound' = inbound \o <<>>
           \/ srv' = srv /\ inbound' = inbound \o <<FromServer(6, 0, TRUE)>>
           \/ srv' = Leaves /\ inbound' = inbound \o <<>>
           \/ srv' = srv /\ inbound' = inbound \o <<>>
  BY DEF Answers, ServerSends, BANNER, KEXINIT, KEX_DH_GEX_REQUEST, KEXDH_INIT, KEX_DH_GEX_INIT, NEWKEYS,
         SERVICE_REQUEST, DISCONNECT, KEX_DH_GEX_GROUP, SERVICE_ACCEPT

\* The server sends one packet, which is fine.
LEMMA FinePacketKeeps ==
    ASSUME IInv, NEW p \in Packets, inbound' = inbound \o <<p>>, p.type # KEXINIT, Fine(p)',
           UNCHANGED <<clientVars, brigade, pend>>, outbound # <<>>, outbound' = Tail(outbound),
           ServerTypes', ServerInv', srv'.offer = srv.offer, srv'.n = srv.n,
           \A m \in Nat : Signed(m) => Signed(m)'
    PROVE  IInv'
<1>1. PICK s : s = <<p>>
  OBVIOUS
<1>2. s \in Seq(Packets) /\ \A i \in 1..Len(s) : s[i] = p
  BY <1>1
<1>3. ses.sid = 0 => srv'.n <= 1
  BY DEF IInv, SessionInv
<1> QED
  BY <1>1, <1>2, <1>3, ServerStep

\* The server reads a packet and answers it.
LEMMA ReadsKeeps ==
    ASSUME IInv, ServerReads
    PROVE  IInv'
<1>1. ServerTypes /\ ServerInv /\ RequestInv /\ outbound \in Seq(Packets)
  BY DEF IInv, Types, WireTypes
<1>2. UNCHANGED <<clientVars, brigade, pend>> /\ outbound # <<>> /\ outbound' = Tail(outbound)
  BY DEF ServerReads
<1>3. srv.n \in Nat
  BY <1>1 DEF ServerTypes
<1>4. PICK p \in Packets : p = Head(outbound)
  BY <1>1, <1>2
<1>5. p.type = 34 => Method \notin Fixed
  <2>1. Len(outbound) \in Nat /\ Len(outbound) > 0 /\ p = outbound[1]
    BY <1>1, <1>2, <1>4
  <2> QED
    BY <1>1, <2>1 DEF RequestInv, KEX_DH_GEX_REQUEST
<1>6. (srv' = Leaves /\ inbound' = inbound \o <<FromServer(1, 0, TRUE)>>) \/ Answers(p)
  BY <1>4 DEF ServerReads, ServerSends, DISCONNECT
<1>7. CASE srv' = Leaves /\ inbound' = inbound \o <<FromServer(1, 0, TRUE)>>
  <2>1. PICK q : q = FromServer(1, 0, TRUE)
    OBVIOUS
  <2>2. q \in Packets /\ q.type = 1 /\ q.n = 0
    BY <1>1, <2>1 DEF ServerTypes, FromServer, Packets
  <2>3. inbound' = inbound \o <<q>>
    BY <1>7, <2>1
  <2>4. /\ ServerTypes' /\ ServerInv' /\ srv'.offer = srv.offer /\ srv'.n = srv.n
        /\ \A m \in Nat : Signed(m) => Signed(m)'
    BY <1>1, <1>7, LeavesFacts
  <2>5. q.type \in Nat /\ q.type # KEXINIT /\ q.n <= srv'.n /\ q.type \notin {31, 33}
    BY <1>3, <2>2, <2>4 DEF KEXINIT
  <2> QED
    BY <1>2, <2>2, <2>3, <2>4, <2>5, OnePacketKeeps
<1>8. CASE srv.phase = "offered" /\ srv' = Accepts /\ inbound' = inbound \o <<>>
  BY <1>1, <1>2, <1>8, ServerAgrees, NoPacketKeeps
<1>9. CASE p.type = 34 /\ srv' = srv /\ inbound' = inbound \o <<FromServer(31, srv.n, TRUE)>>
  <2>1. PICK q : q = FromServer(31, srv.n, TRUE)
    OBVIOUS
  <2>2. q \in Packets /\ q.type = 31 /\ q.n = srv.n
    BY <1>1, <1>3, <2>1 DEF ServerTypes, FromServer, Packets
  <2>3. inbound' = inbound \o <<q>>
    BY <1>9, <2>1
  <2>4. ReplyType' = 33
    BY <1>5, <1>9 DEF ReplyType, Method, KEX_DH_GEX_REPLY
  <2>5. Fine(q)'
    BY <1>3, <1>9, <2>2, <2>4 DEF Fine
  <2>6. /\ ServerTypes' /\ ServerInv' /\ srv'.offer = srv.offer /\ srv'.n = srv.n
        /\ \A m \in Nat : Signed(m) => Signed(m)'
    BY <1>1, <1>9, SameServer
  <2> QED
    BY <1>2, <2>2, <2>3, <2>5, <2>6, FinePacketKeeps DEF KEXINIT
<1>10. CASE /\ p.type \in {30, 32} /\ srv.phase = "agreed"
            /\ \E ok \in BOOLEAN : srv' = Concludes(ok) /\ inbound' = inbound \o <<FromServer(p.type + 1, srv.n, ok)>>
  <2>1. PICK ok \in BOOLEAN : srv' = Concludes(ok) /\ inbound' = inbound \o <<FromServer(p.type + 1, srv.n, ok)>>
    BY <1>10
  <2>2. PICK q : q = FromServer(p.type + 1, srv.n, ok)
    OBVIOUS
  <2>3. q \in Packets /\ q.n = srv.n /\ q.type \in {31, 33}
    BY <1>1, <1>3, <1>10, <2>2 DEF ServerTypes, FromServer, Packets
  <2>4. q.ok = ok
    BY <2>2 DEF FromServer
  <2>5. inbound' = inbound \o <<q>>
    BY <2>1, <2>2
  <2>6. /\ ServerTypes' /\ ServerInv' /\ srv'.offer = srv.offer /\ srv'.n = srv.n
        /\ (\A m \in Nat : Signed(m) => Signed(m)') /\ (ok => Signed(srv.n)')
    BY <1>1, <1>10, <2>1, ServerConcludes
  <2>7. q.ok => Signed(q.n)'
    BY <2>3, <2>4, <2>6 DEF Signed
  <2>8. Fine(q)'
    BY <1>3, <2>3, <2>6, <2>7 DEF Fine
  <2>9. q.type # KEXINIT
    BY <2>3 DEF KEXINIT
  <2> QED
    BY <1>2, <2>3, <2>5, <2>6, <2>8, <2>9, FinePacketKeeps
<1>11. CASE srv.phase = "replied" /\ srv' = Renews /\ inbound' = inbound \o <<>>
  BY <1>1, <1>2, <1>11, ServerRenews, NoPacketKeeps
<1>12. CASE srv' = srv /\ inbound' = inbound \o <<FromServer(6, 0, TRUE)>>
  <2>1. PICK q : q = FromServer(6, 0, TRUE)
    OBVIOUS
  <2>2. q \in Packets /\ q.type = 6 /\ q.n = 0
    BY <1>1, <2>1 DEF ServerTypes, FromServer, Packets
  <2>3. inbound' = inbound \o <<q>>
    BY <1>12, <2>1
  <2>4. /\ ServerTypes' /\ ServerInv' /\ srv'.offer = srv.offer /\ srv'.n = srv.n
        /\ \A m \in Nat : Signed(m) => Signed(m)'
    BY <1>1, <1>12, SameServer
  <2>5. q.type \in Nat /\ q.type # KEXINIT /\ q.n <= srv'.n /\ q.type \notin {31, 33}
    BY <1>3, <2>2, <2>4 DEF KEXINIT
  <2> QED
    BY <1>2, <2>2, <2>3, <2>4, <2>5, OnePacketKeeps
<1>13. CASE srv' = Leaves /\ inbound' = inbound \o <<>>
  BY <1>1, <1>2, <1>13, LeavesFacts, NoPacketKeeps
<1>14. CASE srv' = srv /\ inbound' = inbound \o <<>>
  BY <1>1, <1>2, <1>14, SameServer, NoPacketKeeps
<1> QED
  BY <1>6, <1>7, <1>8, <1>9, <1>10, <1>11, <1>12, <1>13, <1>14, AnswerCases

-----------------------------------------------------------------------------
(***************************************************************************)
(* Steps of the client.  The server stays as it is.                        *)
(***************************************************************************)
LEMMA SameOffer ==
    ASSUME srv' = srv
    PROVE  /\ Method' = Method /\ Hostkey' = Hostkey /\ Crypt' = Crypt /\ AgreedOn' = AgreedOn
           /\ ReplyType' = ReplyType
           /\ (\A n : Signed(n)' <=> Signed(n)) /\ (\A p : Fine(p)' <=> Fine(p))
<1>1. /\ Method' = Method /\ Hostkey' = Hostkey /\ Crypt' = Crypt /\ AgreedOn' = AgreedOn
      /\ ReplyType' = ReplyType
  BY DEF Method, Hostkey, Crypt, AgreedOn, ReplyType
<1>2. \A n : Signed(n)' <=> Signed(n)
  BY DEF Signed
<1>3. \A p : Fine(p)' <=> Fine(p)
  BY <1>1, <1>2 DEF Fine
<1> QED
  BY <1>1, <1>2, <1>3

\* Packets that are taken from the brigade leave the others as they were.
InBrigade == {brigade[j] : j \in 1..Len(brigade)}
\* Packets that are taken or dropped bring no traffic of newer keys.
LEMMA TrafficStays ==
    ASSUME IInv, srv' = srv, inbound' = inbound, InBrigade' \subseteq InBrigade,
           \A n \in Nat : Newer(n) => ses'.from < n /\ ses'.local[2] < n
    PROVE  TrafficInv'
<1>1. TrafficInv /\ inbound \in Seq(Packets)
  BY DEF IInv, Types, WireTypes
<1>2. \A p : Fine(p)' <=> Fine(p)
  BY SameOffer
<1>3. \A i \in 1..Len(brigade') : \E j \in 1..Len(brigade) : brigade'[i] = brigade[j]
  BY DEF InBrigade
<1>4. \A i \in 1..Len(inbound') : Fine(inbound[i])'
  BY <1>1, <1>2 DEF TrafficInv
<1>5. \A i \in 1..Len(brigade') : Fine(brigade[i])'
  BY <1>1, <1>2, <1>3 DEF TrafficInv
<1>6. ASSUME NEW i \in 1..Len(inbound), inbound[i].type = KEXINIT
      PROVE  Newer(inbound[i].n)' /\ \A j \in 1..(i - 1) : inbound[j].n < inbound[i].n
  <2>1. inbound[i] \in Packets
    BY <1>1
  <2>2. PICK n \in Nat : n = inbound[i].n
    BY <2>1 DEF Packets
  <2>3. Newer(n) /\ \A j \in 1..(i - 1) : inbound[j].n < n
    BY <1>1, <1>6, <2>2 DEF TrafficInv
  <2>4. \A j \in 1..Len(brigade') : brigade'[j].n < n
    BY <1>3, <2>3 DEF Newer
  <2>5. Newer(n)'
    BY <2>3, <2>4 DEF Newer
  <2> QED
    BY <2>2, <2>3, <2>5
<1> QED
  BY <1>4, <1>5, <1>6 DEF TrafficInv

\* A packet that is read is older than a KEXINIT behind it.
LEMMA TrafficRead ==
    ASSUME IInv, srv' = srv, inbound # <<>>, inbound' = Tail(inbound),
           InBrigade' \subseteq InBrigade \cup {Head(inbound)},
           \A n \in Nat : Newer(n) /\ Head(inbound).n < n => ses'.from < n /\ ses'.local[2] < n
    PROVE  TrafficInv'
<1>1. TrafficInv /\ inbound \in Seq(Packets)
  BY DEF IInv, Types, WireTypes
<1>2. \A p : Fine(p)' <=> Fine(p)
  BY SameOffer
<1>3. \A i \in 1..Len(brigade') : brigade'[i] = Head(inbound) \/ \E j \in 1..Len(brigade) : brigade'[i] = brigade[j]
  BY DEF InBrigade
<1>4. /\ Len(inbound) \in Nat /\ Len(inbound) > 0 /\ Head(inbound) = inbound[1] /\ Len(inbound') = Len(inbound) - 1
      /\ \A i \in 1..(Len(inbound) - 1) : inbound'[i] = inbound[i + 1]
  BY <1>1
<1>5. Fine(Head(inbound))
  BY <1>1, <1>4 DEF TrafficInv
<1>6. \A i \in 1..Len(inbound') : Fine(inbound[i])'
  <2>1. ASSUME NEW i \in 1..Len(inbound') PROVE Fine(inbound[i])'
    <3>1. i + 1 \in 1..Len(inbound) /\ inbound'[i] = inbound[i + 1]
      BY <1>4
    <3>2. PICK p : p = inbound[i + 1]
      OBVIOUS
    <3>3. Fine(p)
      BY <1>1, <3>1, <3>2 DEF TrafficInv
    <3> QED
      BY <1>2, <3>1, <3>2, <3>3
  <2> QED
    BY <2>1
<1>7. \A i \in 1..Len(brigade') : Fine(brigade[i])'
  BY <1>1, <1>2, <1>3, <1>5 DEF TrafficInv
<1>8. ASSUME NEW i \in 1..Len(inbound'), inbound'[i].type = KEXINIT
      PROVE  Newer(inbound[i].n)' /\ \A j \in 1..(i - 1) : inbound'[j].n < inbound'[i].n
  <2>1. /\ i + 1 \in 1..Len(inbound) /\ inbound'[i] = inbound[i + 1] /\ 1 \in 1..((i + 1) - 1)
        /\ \A j \in 1..(i - 1) : j + 1 \in 1..((i + 1) - 1) /\ inbound'[j] = inbound[j + 1]
    BY <1>4
  <2>2. inbound[i + 1] \in Packets
    BY <1>1, <2>1
  <2>3. PICK n \in Nat : n = inbound'[i].n
    BY <2>1, <2>2 DEF Packets
  <2>4. Newer(n) /\ \A j \in 1..((i + 1) - 1) : inbound[j].n < n
    BY <1>1, <1>8, <2>1, <2>3 DEF TrafficInv
  <2>5. Head(inbound).n < n /\ \A j \in 1..(i - 1) : inbound'[j].n < n
    BY <1>4, <2>1, <2>4
  <2>6. \A j \in 1..Len(brigade') : brigade'[j].n < n
    BY <1>3, <2>4, <2>5 DEF Newer
  <2>7. ses'.from < n /\ ses'.local[2] < n
    BY <2>4, <2>5
  <2>8. Newer(n)'
    BY <2>6, <2>7 DEF Newer
  <2> QED
    BY <2>3, <2>5, <2>8
<1> QED
  BY <1>6, <1>7, <1>8 DEF TrafficInv

\* Nothing is asked for that was not wanted.
LEMMA RequestKept ==
    ASSUME IInv, srv' = srv, NEW q \in Packets, q.type = KEX_DH_GEX_REQUEST => Method \notin Fixed,
           outbound' = outbound \/ outbound' = Append(outbound, q) \/ outbound' = Append(outbound, pend),
           pend' \in {pend, q, NoPacket}
    PROVE  RequestInv' /\ outbound' \in Seq(Packets) /\ pend' \in Packets
<1>1. RequestInv /\ outbound \in Seq(Packets) /\ pend \in Packets
  BY DEF IInv, Types, WireTypes
<1>2. NoPacket \in Packets /\ NoPacket.type = -1
  BY DEF NoPacket, Packets, NoKeys, Keys, Methods
<1>3. PICK r \in Packets : /\ outbound' = outbound \/ outbound' = Append(outbound, r)
                           /\ r.type = KEX_DH_GEX_REQUEST => Method \notin Fixed
  BY <1>1 DEF RequestInv
<1>4. outbound' \in Seq(Packets)
      /\ \A i \in 1..Len(outbound') : outbound'[i] = r \/ \E j \in 1..Len(outbound) : outbound'[i] = outbound[j]
  BY <1>1, <1>3
<1>5. pend'.type = KEX_DH_GEX_REQUEST => Method \notin Fixed
  BY <1>1, <1>2 DEF RequestInv, KEX_DH_GEX_REQUEST
<1>6. \A i \in 1..Len(outbound') : outbound'[i].type = KEX_DH_GEX_REQUEST => Method \notin Fixed
  BY <1>1, <1>3, <1>4 DEF RequestInv
<1> QED
  BY <1>1, <1>2, <1>4, <1>5, <1>6, SameOffer DEF RequestInv

\* A packet is written, half or whole.
LEMMA SendKeeps ==
    ASSUME IInv, srv' = srv, NEW type \in Nat, type = KEX_DH_GEX_REQUEST => Method \notin Fixed,
           NEW rc, Send(type, rc)
    PROVE  RequestInv' /\ outbound' \in Seq(Packets) /\ pend' \in Packets
<1>1. PICK q : q = Packet(type)
  OBVIOUS
<1>2. ses.local \in Keys /\ ses.crypt \in Methods(CryptMethods) /\ flags.newkeys \in BOOLEAN
  BY DEF IInv, Types, SessionTypes
<1>3. NoKeys \in Keys /\ None \in Methods(CryptMethods)
  BY DEF NoKeys, Keys, Methods
<1>4. q \in Packets /\ q.type = type
  <2>1. CASE flags.newkeys
    BY <1>1, <1>2, <2>1 DEF Packet, Packets
  <2>2. CASE ~flags.newkeys
    BY <1>1, <1>3, <2>2 DEF Packet, Packets
  <2> QED
    BY <2>1, <2>2
<1>5. /\ outbound' = outbound \/ outbound' = Append(outbound, q) \/ outbound' = Append(outbound, pend)
      /\ pend' \in {pend, q, NoPacket}
  BY <1>1 DEF Send
<1> QED
  BY <1>4, <1>5, RequestKept

\* Nothing is written.
LEMMA SilentKeeps ==
    ASSUME IInv, srv' = srv, outbound' = outbound, pend' = pend
    PROVE  RequestInv' /\ outbound' \in Seq(Packets) /\ pend' \in Packets
<1>1. NoPacket \in Packets /\ NoPacket.type # KEX_DH_GEX_REQUEST
  BY DEF NoPacket, Packets, NoKeys, Keys, Methods, KEX_DH_GEX_REQUEST
<1>2. PICK q : q = NoPacket
  OBVIOUS
<1> QED
  BY <1>1, <1>2, RequestKept

\* What a step of the client has to keep.
LEMMA ClientStep ==
    ASSUME IInv, srv' = srv, SessionTypes', WireTypes', SessionInv', ExchangeInv', TrafficInv', RequestInv'
    PROVE  IInv'
<1>1. ServerTypes' /\ ServerInv'
  BY SameServer DEF IInv, Types
<1> QED
  BY <1>1 DEF IInv, Types

\* kex_exchange returns, to whoever called it.
LEMMA ReturnFacts ==
    ASSUME SessionTypes, NEW rc \in {"NONE", "EAGAIN", "FAIL"}, KexReturns(rc)
    PROVE  /\ flags' \in [newkeys : BOOLEAN, exchanging : BOOLEAN, active : BOOLEAN]
           /\ flags'.exchanging <=> rc = "EAGAIN"
           /\ kx' = IF rc = "EAGAIN" THEN kx ELSE "idle"
           /\ startup' = startup \/ (rc = "NONE" /\ startup' = [startup EXCEPT !.state = "sent3"])
           /\ app' = app \/ app' = "failed"
<1>1. flags' = FlagsAfter(rc) /\ kx' = IF rc = "EAGAIN" THEN kx ELSE "idle"
  BY DEF KexReturns
<1>2. flags' \in [newkeys : BOOLEAN, exchanging : BOOLEAN, active : BOOLEAN]
  <2>1. PICK a \in BOOLEAN, b \in BOOLEAN : a = (rc = "EAGAIN") /\ b = (flags.newkeys \/ rc = "NONE")
    OBVIOUS
  <2>2. flags' = [flags EXCEPT !.active = FALSE, !.exchanging = a, !.newkeys = b]
    BY <1>1, <2>1 DEF FlagsAfter
  <2> QED
    BY <2>2 DEF SessionTypes
<1>3. flags'.exchanging <=> rc = "EAGAIN"
  BY <1>1 DEF FlagsAfter, SessionTypes
<1>4. \A r : ReadEnds(r) => app' = app \/ app' = "failed"
  BY DEF ReadEnds
<1>5. /\ startup' = startup \/ (rc = "NONE" /\ startup' = [startup EXCEPT !.state = "sent3"])
      /\ app' = app \/ app' = "failed"
  BY <1>4 DEF KexReturns
<1> QED
  BY <1>1, <1>2, <1>3, <1>5

\* Keys and methods stay, and so does what was said of them.
LEMMA SessionKept ==
    ASSUME IInv, srv' = srv, ses'.local = ses.local, ses'.remote = ses.remote, ses'.sid = ses.sid,
           ses.local # NoKeys => /\ ses'.crypt = Crypt
                                 /\ ses.local[2] = srv.n => ses'.kex = Method /\ ses'.hostkey = Hostkey,
           app' = "open" \/ startup'.state \in {"sent3", "sent4"} => ses.sid = 1,
           flags'.exchanging => kx' # "idle"
    PROVE  SessionInv'
<1>1. SessionInv
  BY DEF IInv
<1>2. /\ Method' = Method /\ Hostkey' = Hostkey /\ Crypt' = Crypt /\ AgreedOn' = AgreedOn
      /\ \A n : Signed(n)' <=> Signed(n)
  BY SameOffer
<1>3. PICK m : m = ses.local[2]
  OBVIOUS
<1>4. ses.local # NoKeys => Signed(m) /\ Signed(m)'
  BY <1>1, <1>2, <1>3 DEF SessionInv
<1>5. ses.local # NoKeys => Signed(ses.local[2])'
  BY <1>3, <1>4
<1> QED
  BY <1>1, <1>2, <1>3, <1>5 DEF SessionInv

\* A step that leaves the keys and the methods alone and does not move the exchange on.
LEMMA PlainStep ==
    ASSUME IInv, srv' = srv, ses' = ses, kx' = kx \/ kx' \in {"idle", "kexinit", "require"},
           flags' \in [newkeys : BOOLEAN, exchanging : BOOLEAN, active : BOOLEAN],
           startup' \in [state : {"idle", "created", "sent", "sent1", "sent3", "sent4"}, sent : Int,
                         garbled : BOOLEAN],
           app' = "open" \/ startup'.state \in {"sent3", "sent4"} => ses.sid = 1,
           flags'.exchanging => kx' # "idle"
    PROVE  SessionTypes' /\ SessionInv' /\ ExchangeInv'
<1>1. SessionTypes /\ SessionInv /\ ExchangeInv
  BY DEF IInv, Types
<1>2. /\ Method' = Method /\ Hostkey' = Hostkey /\ Crypt' = Crypt /\ AgreedOn' = AgreedOn
      /\ \A n : Signed(n)' <=> Signed(n)
  BY SameOffer
<1>3. SessionTypes'
  BY <1>1 DEF SessionTypes
<1>4. SessionInv'
  BY <1>1, SessionKept DEF SessionInv
<1>5. ExchangeInv'
  <2>1. kx' \notin {"idle", "kexinit", "require"} => kx' = kx
    OBVIOUS
  <2>2. PICK m : m = ses.from
    OBVIOUS
  <2>3. kx' \in {"newkeys", "install"} => Signed(m)'
    BY <1>1, <1>2, <2>1, <2>2 DEF ExchangeInv
  <2>4. kx' \in {"newkeys", "install"} => Signed(ses.from)'
    BY <2>2, <2>3
  <2>5. kx' \in Bargained \cup {"request"} => kx' = kx
    BY <2>1 DEF Bargained
  <2> QED
    BY <1>1, <1>2, <2>4, <2>5 DEF ExchangeInv
<1> QED
  BY <1>3, <1>4, <1>5

\* What is in a sequence of packets, and what is taken from it.
Elems(b) == {b[j] : j \in 1..Len(b)}
\* What a reader takes from the brigade is one of its packets, of the type it asked for.
LEMMA TakeFacts ==
    ASSUME NEW b \in Seq(Packets), NEW type, Asked(b, type) # {}
    PROVE  /\ Without(b, type) \in Seq(Packets) /\ Elems(Without(b, type)) \subseteq Elems(b)
           /\ ask(b, type) \in Elems(b) /\ ask(b, type) \in Packets /\ ask(b, type).type = type
<1>1. Asked(b, type) \subseteq Nat /\ Asked(b, type) \subseteq 1..Len(b)
  BY DEF Asked
<1>2. PICK k \in 1..Len(b) : k = Min(Asked(b, type)) /\ k \in Asked(b, type)
  BY <1>1, MinFacts
<1>3. ask(b, type) = b[k] /\ Without(b, type) = RemoveAt(b, k)
  BY <1>2 DEF ask, Without
<1>4. b[k] \in Packets /\ b[k].type = type
  BY <1>2 DEF Asked
<1>5. /\ RemoveAt(b, k) \in Seq(Packets)
      /\ \A i \in 1..Len(RemoveAt(b, k)) : \E j \in 1..Len(b) : RemoveAt(b, k)[i] = b[j]
  BY RemoveFacts
<1> QED
  BY <1>3, <1>4, <1>5 DEF Elems

\* Another packet is read, or none.
LEMMA ReadFacts ==
    ASSUME IInv, Receives
    PROVE  /\ inbound' \in Seq(Packets) /\ ReadBrigade \in Seq(Packets)
           /\ \A p \in Elems(ReadBrigade) : Fine(p)
           /\ \/ inbound' = inbound /\ Elems(ReadBrigade) = InBrigade /\ ReadRc <= 0
              \/ inbound # <<>> /\ inbound' = Tail(inbound) /\ Elems(ReadBrigade) \subseteq InBrigade \cup {Head(inbound)}
           /\ ReadRc > 0 => /\ inbound # <<>> /\ inbound' = Tail(inbound) /\ ReadRc = Head(inbound).type
                            /\ Asked(ReadBrigade, ReadRc) # {}
<1>1. TrafficInv /\ inbound \in Seq(Packets) /\ brigade \in Seq(Packets)
  BY DEF IInv, Types, WireTypes
<1>2. Elems(brigade) = InBrigade /\ \A p \in InBrigade : Fine(p)
  BY <1>1 DEF Elems, InBrigade, TrafficInv
<1>3. CASE disc \/ inbound = <<>>
  <2>1. ReadRc \in {0, -2} /\ ReadBrigade = brigade /\ inbound' = inbound
    BY <1>3 DEF ReadRc, ReadBrigade, Receives, EAGAIN
  <2> QED
    BY <1>1, <1>2, <2>1
<1>4. CASE ~(disc \/ inbound = <<>>)
  <2>1. inbound # <<>> /\ inbound' = Tail(inbound)
    BY <1>4 DEF Receives
  <2>2. Len(inbound) > 0 /\ Head(inbound) = inbound[1] /\ Head(inbound) \in Packets /\ inbound' \in Seq(Packets)
    BY <1>1, <2>1
  <2>3. Fine(Head(inbound))
    BY <1>1, <2>2 DEF TrafficInv
  <2>4. PICK p \in Packets : p = Head(inbound)
    BY <2>2
  <2>5. CASE ReadRc > 0
    <3>1. ReadBrigade = Append(brigade, p) /\ ReadRc = p.type
      BY <1>4, <2>4, <2>5 DEF ReadBrigade, ReadRc, FAIL, EAGAIN
    <3>2. /\ Append(brigade, p) \in Seq(Packets) /\ Len(Append(brigade, p)) = Len(brigade) + 1
          /\ Len(brigade) \in Nat /\ Append(brigade, p)[Len(brigade) + 1] = p
          /\ \A i \in 1..Len(brigade) : Append(brigade, p)[i] = brigade[i]
      BY <1>1
    <3>3. Elems(Append(brigade, p)) \subseteq InBrigade \cup {p}
      BY <3>2 DEF Elems, InBrigade
    <3>4. Len(brigade) + 1 \in Asked(Append(brigade, p), p.type)
      BY <3>2 DEF Asked
    <3> QED
      BY <1>2, <2>1, <2>2, <2>3, <2>4, <3>1, <3>2, <3>3, <3>4
  <2>6. CASE ~(ReadRc > 0)
    <3>1. ReadBrigade = brigade
      BY <2>6 DEF ReadBrigade
    <3> QED
      BY <1>1, <1>2, <2>1, <2>2, <2>6, <3>1
  <2> QED
    BY <2>5, <2>6
<1> QED
  BY <1>3, <1>4

\* The types of the session once the exchange has moved on or returned.
LEMMA SessionTyped ==
    ASSUME SessionTypes,
           ses' \in [kex : Methods(KexMethods), hostkey : Methods(HostkeyMethods),
                     crypt : Methods(CryptMethods), burn : BOOLEAN, local : Keys, remote : Keys,
                     sid : Nat, from : Nat, group : BOOLEAN],
           flags' \in [newkeys : BOOLEAN, exchanging : BOOLEAN, active : BOOLEAN],
           startup' = startup \/ startup' = [startup EXCEPT !.state = "sent3"],
           kx' \in {"idle", "kexinit", "require"} \cup Bargained
    PROVE  SessionTypes'
  BY DEF SessionTypes

\* The exchange moves on: what is new is said of ses' and kx'.
LEMMA MoveFacts ==
    ASSUME IInv, NEW to, NEW s, Goes(to, s)
    PROVE  /\ kx' = to /\ ses' = s /\ flags' = flags /\ startup' = startup /\ app' = app
           /\ flags' \in [newkeys : BOOLEAN, exchanging : BOOLEAN, active : BOOLEAN]
           /\ (app' = "open" \/ startup'.state \in {"sent3", "sent4"} => ses.sid = 1)
  BY DEF Goes, IInv, Types, SessionTypes, SessionInv

\* KEXINIT of the server: the methods are those that its offer leads to.
LEMMA AgreesFacts ==
    ASSUME SessionTypes, Agrees
    PROVE  \E s \in [kex : Methods(KexMethods), hostkey : Methods(HostkeyMethods),
                  crypt : Methods(CryptMethods), burn : BOOLEAN, local : Keys, remote : Keys,
                  sid : Nat, from : Nat, group : BOOLEAN] :
             /\ s.kex = Method /\ s.hostkey = Hostkey /\ s.crypt = Crypt /\ s.local = ses.local
             /\ s.remote = ses.remote /\ s.sid = ses.sid /\ s.from = ses.from
             /\ s.group /\ (s.burn => srv.offer.follows)
             /\ \/ AgreedOn /\ Goes(IF Method \in Fixed THEN "init" ELSE "request", s)
                \/ ~AgreedOn /\ ses' = s /\ KexReturns("FAIL")
<1>1. SessionTypes
  OBVIOUS
<1>2. PICK kex \in Methods(KexMethods) : kex = Method
  BY AgreedTypes DEF Method
<1>3. PICK hostkey \in Methods(HostkeyMethods) : hostkey = Hostkey
  BY AgreedTypes DEF Hostkey
<1>4. PICK crypt \in Methods(CryptMethods) : crypt = Crypt
  BY AgreedTypes DEF Crypt
<1>5. PICK burn \in BOOLEAN : burn = (srv.offer.follows /\ srv.offer.kex[1] # Method)
  OBVIOUS
<1>6. PICK s : s = [kex |-> kex, hostkey |-> hostkey, crypt |-> crypt, burn |-> burn, local |-> ses.local,
                    remote |-> ses.remote, sid |-> ses.sid, from |-> ses.from, group |-> TRUE]
  OBVIOUS
<1>7. s = [kex_agree_methods(srv.offer) EXCEPT !.group = TRUE]
  <2>1. kex_agree_methods(srv.offer) = [ses EXCEPT !.kex = kex, !.hostkey = hostkey, !.crypt = crypt, !.burn = burn]
    BY <1>2, <1>3, <1>4, <1>5, Zenon DEF kex_agree_methods, Method, Hostkey, Crypt
  <2>2. ses = [kex |-> ses.kex, hostkey |-> ses.hostkey, crypt |-> ses.crypt, burn |-> ses.burn, local |-> ses.local,
               remote |-> ses.remote, sid |-> ses.sid, from |-> ses.from, group |-> ses.group]
    BY <1>1 DEF SessionTypes
  <2>3. PICK t : t = [ses EXCEPT !.kex = kex, !.hostkey = hostkey, !.crypt = crypt, !.burn = burn]
    OBVIOUS
  <2>4. t = [kex |-> kex, hostkey |-> hostkey, crypt |-> crypt, burn |-> burn, local |-> ses.local,
             remote |-> ses.remote, sid |-> ses.sid, from |-> ses.from, group |-> ses.group]
    BY <2>2, <2>3
  <2>5. \A group : [t EXCEPT !.group = group]
             = [kex |-> kex, hostkey |-> hostkey, crypt |-> crypt, burn |-> burn, local |-> ses.local,
                remote |-> ses.remote, sid |-> ses.sid, from |-> ses.from, group |-> group]
    BY <2>4
  <2>6. s = [t EXCEPT !.group = TRUE]
    BY <1>6, <2>5, Zenon
  <2> QED
    BY <2>1, <2>3, <2>6
<1>8. /\ s \in [kex : Methods(KexMethods), hostkey : Methods(HostkeyMethods),
                crypt : Methods(CryptMethods), burn : BOOLEAN, local : Keys, remote : Keys,
                sid : Nat, from : Nat, group : BOOLEAN]
      /\ s.kex = Method /\ s.hostkey = Hostkey /\ s.crypt = Crypt /\ s.local = ses.local
      /\ s.remote = ses.remote /\ s.sid = ses.sid /\ s.from = ses.from
      /\ s.group /\ (s.burn => srv.offer.follows)
  BY <1>1, <1>2, <1>3, <1>4, <1>5, <1>6 DEF SessionTypes
<1>9. Agreed(s) <=> AgreedOn
  BY <1>8 DEF Agreed, AgreedOn
<1>10. \/ AgreedOn /\ Goes(IF Method \in Fixed THEN "init" ELSE "request", s)
       \/ ~AgreedOn /\ ses' = s /\ KexReturns("FAIL")
  BY <1>7, <1>8, <1>9 DEF Agrees
<1> QED
  BY <1>8, <1>10

\* The methods agreed on are those of the offer, and the exchange goes on with them or ends.
LEMMA AgreesKeeps ==
    ASSUME IInv, srv' = srv, kx = "require", Agrees
    PROVE  /\ SessionTypes' /\ SessionInv' /\ ExchangeInv'
           /\ ses'.from = ses.from /\ ses'.local = ses.local
<1>1. SessionTypes /\ SessionInv /\ ExchangeInv
  BY DEF IInv, Types
<1>8. PICK s \in [kex : Methods(KexMethods), hostkey : Methods(HostkeyMethods),
                  crypt : Methods(CryptMethods), burn : BOOLEAN, local : Keys, remote : Keys,
                  sid : Nat, from : Nat, group : BOOLEAN] :
        /\ s.kex = Method /\ s.hostkey = Hostkey /\ s.crypt = Crypt /\ s.local = ses.local
        /\ s.remote = ses.remote /\ s.sid = ses.sid /\ s.from = ses.from
        /\ \/ AgreedOn /\ Goes(IF Method \in Fixed THEN "init" ELSE "request", s)
           \/ ~AgreedOn /\ ses' = s /\ KexReturns("FAIL")
  BY <1>1, AgreesFacts
<1>10. \/ AgreedOn /\ Goes(IF Method \in Fixed THEN "init" ELSE "request", s)
       \/ ses' = s /\ KexReturns("FAIL")
  BY <1>8
<1>11. CASE AgreedOn /\ Goes(IF Method \in Fixed THEN "init" ELSE "request", s)
  <2>1. PICK to : to = IF Method \in Fixed THEN "init" ELSE "request"
    OBVIOUS
  <2>2. /\ kx' = to /\ ses' = s /\ flags' = flags /\ startup' = startup /\ app' = app
        /\ flags' \in [newkeys : BOOLEAN, exchanging : BOOLEAN, active : BOOLEAN]
        /\ (app' = "open" \/ startup'.state \in {"sent3", "sent4"} => ses.sid = 1)
    BY <1>11, <2>1, MoveFacts
  <2>3. to \in {"init", "request"} /\ (to = "request" => Method \notin Fixed)
    BY <2>1
  <2>4. SessionTypes'
    BY <1>1, <1>8, <2>2, <2>3, SessionTyped DEF Bargained
  <2>5. SessionInv'
    BY <1>8, <2>2, <2>3, SessionKept
  <2>6. ExchangeInv'
    BY <1>1, <1>8, <1>11, <2>2, <2>3, SameOffer DEF ExchangeInv
  <2> QED
    BY <1>8, <2>2, <2>4, <2>5, <2>6
<1>12. CASE ses' = s /\ KexReturns("FAIL")
  <2>1. /\ flags' \in [newkeys : BOOLEAN, exchanging : BOOLEAN, active : BOOLEAN]
        /\ ~flags'.exchanging /\ kx' = "idle" /\ startup' = startup /\ (app' = app \/ app' = "failed")
    BY <1>1, <1>12, ReturnFacts
  <2>2. SessionTypes'
    BY <1>1, <1>8, <1>12, <2>1, SessionTyped
  <2>3. SessionInv'
    BY <1>1, <1>8, <1>12, <2>1, SessionKept DEF SessionInv
  <2>4. ExchangeInv'
    BY <1>1, <1>8, <1>12, <2>1 DEF ExchangeInv, Bargained
  <2> QED
    BY <1>8, <1>12, <2>2, <2>3, <2>4
<1> QED
  BY <1>10, <1>11, <1>12

\* An exchange that is given up, or left for later.
LEMMA ReturnKeeps ==
    ASSUME IInv, srv' = srv, kx # "idle", Fails \/ Later
    PROVE  /\ SessionTypes' /\ SessionInv' /\ ExchangeInv' /\ ses' = ses
<1>1. SessionTypes /\ SessionInv
  BY DEF IInv, Types
<1>2. PICK rc \in {"EAGAIN", "FAIL"} : KexReturns(rc) /\ ses' = ses
  BY DEF Fails, Later
<1>3. /\ flags' \in [newkeys : BOOLEAN, exchanging : BOOLEAN, active : BOOLEAN]
      /\ (flags'.exchanging <=> rc = "EAGAIN") /\ kx' = (IF rc = "EAGAIN" THEN kx ELSE "idle")
      /\ startup' = startup /\ (app' = app \/ app' = "failed")
  BY <1>1, <1>2, ReturnFacts
<1>4. kx' = kx \/ kx' \in {"idle", "kexinit", "require"}
  BY <1>3
<1>5. flags'.exchanging => kx' # "idle"
  BY <1>3
<1>6. startup' \in [state : {"idle", "created", "sent", "sent1", "sent3", "sent4"}, sent : Int, garbled : BOOLEAN]
  BY <1>1, <1>3 DEF SessionTypes
<1>7. app' = "open" \/ startup'.state \in {"sent3", "sent4"} => ses.sid = 1
  BY <1>1, <1>3 DEF SessionInv
<1> QED
  BY <1>2, <1>3, <1>4, <1>5, <1>6, <1>7, PlainStep

\* The methods of an exchange are those in use, whatever else of the session changes.
LEMMA MethodsKept ==
    ASSUME IInv, srv' = srv, kx \in Bargained, NEW to \in Bargained \ {"request"}, NEW s,
           s \in [kex : Methods(KexMethods), hostkey : Methods(HostkeyMethods),
                  crypt : Methods(CryptMethods), burn : BOOLEAN, local : Keys, remote : Keys,
                  sid : Nat, from : Nat, group : BOOLEAN],
           s.kex = ses.kex, s.hostkey = ses.hostkey, s.crypt = ses.crypt, s.local = ses.local,
           s.remote = ses.remote, s.sid = ses.sid, s.from <= srv.n, to \in {"newkeys", "install"} => Signed(s.from),
           Goes(to, s)
    PROVE  SessionTypes' /\ SessionInv' /\ ExchangeInv' /\ ses' = s
<1>1. SessionTypes /\ SessionInv /\ ExchangeInv
  BY DEF IInv, Types
<1>2. /\ kx' = to /\ ses' = s /\ flags' = flags /\ startup' = startup /\ app' = app
      /\ flags' \in [newkeys : BOOLEAN, exchanging : BOOLEAN, active : BOOLEAN]
      /\ (app' = "open" \/ startup'.state \in {"sent3", "sent4"} => ses.sid = 1)
  BY MoveFacts
<1>3. AgreedOn /\ ses.kex = Method /\ ses.hostkey = Hostkey /\ ses.crypt = Crypt
  BY <1>1 DEF ExchangeInv
<1>4. SessionTypes'
  BY <1>1, <1>2, SessionTyped
<1>5. SessionInv'
  BY <1>2, <1>3, SessionKept DEF Bargained
<1>6. ExchangeInv'
  BY <1>2, <1>3, SameOffer DEF ExchangeInv
<1> QED
  BY <1>2, <1>4, <1>5, <1>6

\* The group, or the end of the packet that was sent ahead.
LEMMA SmallMoves ==
    ASSUME IInv, srv' = srv, NEW v \in BOOLEAN, NEW s, s = [ses EXCEPT !.group = v] \/ s = [ses EXCEPT !.burn = v],
           kx \in {"group", "burn"}, NEW to \in {"init", "reply"}, Goes(to, s)
    PROVE  /\ SessionTypes' /\ SessionInv' /\ ExchangeInv'
           /\ ses'.from = ses.from /\ ses'.local = ses.local
<1>1. SessionTypes /\ ExchangeInv
  BY DEF IInv, Types
<1>2. /\ s \in [kex : Methods(KexMethods), hostkey : Methods(HostkeyMethods),
                crypt : Methods(CryptMethods), burn : BOOLEAN, local : Keys, remote : Keys,
                sid : Nat, from : Nat, group : BOOLEAN]
      /\ s.kex = ses.kex /\ s.hostkey = ses.hostkey /\ s.crypt = ses.crypt /\ s.local = ses.local
      /\ s.remote = ses.remote /\ s.sid = ses.sid /\ s.from = ses.from
  BY <1>1 DEF SessionTypes
<1>3. s.from <= srv.n /\ kx \in Bargained /\ to \in Bargained \ {"request"} /\ to \notin {"newkeys", "install"}
  BY <1>1, <1>2 DEF ExchangeInv, Bargained
<1>4. SessionTypes' /\ SessionInv' /\ ExchangeInv' /\ ses' = s
  BY <1>2, <1>3, MethodsKept
<1> QED
  BY <1>2, <1>4

\* The reply of the server: the keys of its exchange, if the host key signed for them.
LEMMA VerifiesKeeps ==
    ASSUME IInv, srv' = srv, kx = "reply", NEW p \in Packets, Fine(p), p.type = ReplyType, Verifies(p)
    PROVE  /\ SessionTypes' /\ SessionInv' /\ ExchangeInv'
           /\ ses'.from \in {ses.from, p.n} /\ ses'.local = ses.local
<1>1. SessionTypes /\ ExchangeInv
  BY DEF IInv, Types
<1>2. CASE Fails
  BY <1>2, ReturnKeeps
<1>3. CASE p.ok /\ Goes("newkeys", [ses EXCEPT !.from = p.n])
  <2>1. PICK s : s = [ses EXCEPT !.from = p.n]
    OBVIOUS
  <2>2. p.n \in Nat
    BY DEF Packets
  <2>3. /\ s \in [kex : Methods(KexMethods), hostkey : Methods(HostkeyMethods),
                  crypt : Methods(CryptMethods), burn : BOOLEAN, local : Keys, remote : Keys,
                  sid : Nat, from : Nat, group : BOOLEAN]
        /\ s.kex = ses.kex /\ s.hostkey = ses.hostkey /\ s.crypt = ses.crypt /\ s.local = ses.local
        /\ s.remote = ses.remote /\ s.sid = ses.sid /\ s.from = p.n
    BY <1>1, <2>1, <2>2 DEF SessionTypes
  <2>4. Signed(p.n) /\ p.n <= srv.n
    BY <1>3 DEF Fine
  <2>5. Signed(s.from) /\ s.from <= srv.n
    BY <2>3, <2>4
  <2>6. SessionTypes' /\ SessionInv' /\ ExchangeInv' /\ ses' = s
    BY <1>3, <2>1, <2>3, <2>5, MethodsKept DEF Bargained
  <2> QED
    BY <2>3, <2>6
<1> QED
  BY <1>2, <1>3 DEF Verifies

\* NEWKEYS of the server: the keys are those that were signed for.
LEMMA InstallsKeeps ==
    ASSUME IInv, srv' = srv, kx = "install", Installs
    PROVE  /\ SessionTypes' /\ SessionInv' /\ ExchangeInv'
           /\ ses'.from = ses.from /\ ses'.local[2] = ses.from
<1>1. SessionTypes /\ SessionInv /\ ExchangeInv /\ ServerTypes
  BY DEF IInv, Types
<1>2. Signed(ses.from) /\ AgreedOn /\ ses.kex = Method /\ ses.hostkey = Hostkey /\ ses.crypt = Crypt
  BY <1>1 DEF ExchangeInv, Bargained
<1>3. ses.from \in Nat /\ srv.n \in Nat /\ ses.sid \in Nat
  BY <1>1 DEF SessionTypes, ServerTypes
<1>4. PICK sid \in {1} : sid = IF ses.sid = 0 THEN ses.from ELSE ses.sid
  BY <1>1, <1>2, <1>3 DEF SessionInv, Signed
<1>5. PICK k \in Keys : k = <<sid, ses.from>>
  <2>1. <<1, ses.from>> \in Keys
    BY <1>3 DEF Keys
  <2> QED
    BY <2>1
<1>6. k[1] = 1 /\ k[2] = ses.from
  BY <1>5
<1>7. ses' = [ses EXCEPT !.sid = sid, !.local = k, !.remote = k] /\ KexReturns("NONE")
  BY <1>4, <1>5 DEF Installs
<1>8. /\ ses' \in [kex : Methods(KexMethods), hostkey : Methods(HostkeyMethods),
                   crypt : Methods(CryptMethods), burn : BOOLEAN, local : Keys, remote : Keys,
                   sid : Nat, from : Nat, group : BOOLEAN]
      /\ ses'.kex = ses.kex /\ ses'.hostkey = ses.hostkey /\ ses'.crypt = ses.crypt /\ ses'.local = k
      /\ ses'.remote = k /\ ses'.sid = 1 /\ ses'.from = ses.from
  <2>1. sid \in Nat
    OBVIOUS
  <2>2. ses' \in [kex : Methods(KexMethods), hostkey : Methods(HostkeyMethods),
                  crypt : Methods(CryptMethods), burn : BOOLEAN, local : Keys, remote : Keys,
                  sid : Nat, from : Nat, group : BOOLEAN]
    BY <1>1, <1>7, <2>1 DEF SessionTypes
  <2>3. /\ ses'.kex = ses.kex /\ ses'.hostkey = ses.hostkey /\ ses'.crypt = ses.crypt /\ ses'.local = k
        /\ ses'.remote = k /\ ses'.sid = 1 /\ ses'.from = ses.from
    BY <1>1, <1>7 DEF SessionTypes
  <2> QED
    BY <2>2, <2>3
<1>9. /\ flags' \in [newkeys : BOOLEAN, exchanging : BOOLEAN, active : BOOLEAN]
      /\ ~flags'.exchanging /\ kx' = "idle"
      /\ (startup' = startup \/ startup' = [startup EXCEPT !.state = "sent3"])
  BY <1>1, <1>7, ReturnFacts
<1>10. SessionTypes'
  BY <1>1, <1>8, <1>9, SessionTyped
<1>11. SessionInv'
  <2>1. PICK m : m = ses.from
    OBVIOUS
  <2>2. Signed(m)'
    BY <1>2, <2>1, SameOffer
  <2>3. ses'.local[1] = 1 /\ ses'.local[2] = m
    BY <1>6, <1>8, <2>1
  <2>4. Signed(ses.local[2])'
    BY <2>2, <2>3
  <2>5. /\ AgreedOn' /\ ses'.crypt = Crypt' /\ ses'.kex = Method' /\ ses'.hostkey = Hostkey'
    BY <1>2, <1>8, SameOffer
  <2> QED
    BY <1>8, <1>9, <2>3, <2>4, <2>5 DEF SessionInv
<1>12. ExchangeInv'
  BY <1>1, <1>8, <1>9 DEF ExchangeInv, Bargained
<1> QED
  BY <1>6, <1>8, <1>10, <1>11, <1>12

\* The packet that the exchange waits for.
LEMMA TakesKeeps ==
    ASSUME IInv, srv' = srv, kx \in {"require", "group", "reply", "install"}, NEW b \in Seq(Packets),
           \A p \in Elems(b) : Fine(p), Asked(b, Wanted) # {}, KexTakes(b)
    PROVE  /\ SessionTypes' /\ SessionInv' /\ ExchangeInv' /\ brigade' \in Seq(Packets)
           /\ InBrigade' \subseteq Elems(b)
           /\ ses'.from = ses.from \/ \E p \in Elems(b) : ses'.from = p.n
           /\ ses'.local[2] \in {ses.local[2], ses.from}
<1>1. PICK type : type = Wanted
  OBVIOUS
<1>2. /\ Without(b, type) \in Seq(Packets) /\ Elems(Without(b, type)) \subseteq Elems(b)
      /\ ask(b, type) \in Elems(b) /\ ask(b, type) \in Packets /\ ask(b, type).type = type
  BY <1>1, TakeFacts
<1>3. brigade' = Without(b, type)
  BY <1>1 DEF KexTakes
<1>4. brigade' \in Seq(Packets) /\ InBrigade' \subseteq Elems(b)
  <2>1. InBrigade' = Elems(brigade')
    BY DEF InBrigade, Elems
  <2> QED
    BY <1>2, <1>3, <2>1
<1>5. PICK p \in Packets : p = ask(b, type) /\ p \in Elems(b) /\ p.type = type /\ Fine(p)
  BY <1>2
<1>6. CASE kx = "require"
  <2>1. Agrees
    BY <1>6 DEF KexTakes
  <2> QED
    BY <1>4, <1>6, <2>1, AgreesKeeps
<1>7. CASE kx = "group"
  <2>1. PICK s : s = [ses EXCEPT !.group = p.ok]
    OBVIOUS
  <2>2. Goes("init", s)
    BY <1>1, <1>5, <1>7, <2>1 DEF KexTakes
  <2>3. p.ok \in BOOLEAN
    BY DEF Packets
  <2>4. PICK v \in BOOLEAN : v = p.ok
    BY <2>3
  <2>5. s = [ses EXCEPT !.group = v]
    BY <2>1, <2>4
  <2>6. /\ SessionTypes' /\ SessionInv' /\ ExchangeInv'
        /\ ses'.from = ses.from /\ ses'.local = ses.local
    BY <1>7, <2>2, <2>5, SmallMoves
  <2> QED
    BY <1>4, <2>6
<1>8. CASE kx = "reply"
  <2>1. Verifies(p)
    BY <1>1, <1>5, <1>8 DEF KexTakes
  <2>2. ses.kex = Method
    BY <1>8 DEF IInv, ExchangeInv, Bargained
  <2>3. type = ReplyType
    BY <1>1, <1>8, <2>2 DEF Wanted, ReplyType
  <2>4. /\ SessionTypes' /\ SessionInv' /\ ExchangeInv'
        /\ ses'.from \in {ses.from, p.n} /\ ses'.local = ses.local
    BY <1>5, <1>8, <2>1, <2>3, VerifiesKeeps
  <2> QED
    BY <1>4, <1>5, <2>4
<1>9. CASE kx = "install"
  <2>1. Installs
    BY <1>9 DEF KexTakes
  <2> QED
    BY <1>4, <1>9, <2>1, InstallsKeeps
<1> QED
  BY <1>6, <1>7, <1>8, <1>9

\* What the wait for a packet comes to.
LEMMA AsksKeeps ==
    ASSUME IInv, KexAsks
    PROVE  IInv'
<1>1. /\ kx \in {"require", "group", "reply", "install"} /\ srv' = srv /\ inbound' = inbound
      /\ outbound' = outbound /\ pend' = pend
  BY DEF KexAsks
<1>2. RequestInv' /\ outbound' \in Seq(Packets) /\ pend' \in Packets
  BY <1>1, SilentKeeps
<1>3. WireTypes /\ SessionTypes /\ SessionInv /\ TrafficInv
  BY DEF IInv, Types
<1>4. Elems(brigade) = InBrigade /\ (\A p \in InBrigade : Fine(p)) /\ brigade \in Seq(Packets)
  BY <1>3 DEF WireTypes, Elems, InBrigade, TrafficInv
<1>5. CASE Asked(brigade, Wanted) # {} /\ KexTakes(brigade)
  <2>1. PICK b \in Seq(Packets) : b = brigade
    BY <1>4
  <2>2. (\A p \in Elems(b) : Fine(p)) /\ Asked(b, Wanted) # {} /\ KexTakes(b)
    BY <1>4, <1>5, <2>1
  <2>3. /\ SessionTypes' /\ SessionInv' /\ ExchangeInv' /\ brigade' \in Seq(Packets)
        /\ InBrigade' \subseteq Elems(b)
        /\ (ses'.from = ses.from \/ \E p \in Elems(b) : ses'.from = p.n)
        /\ ses'.local[2] \in {ses.local[2], ses.from}
    BY <1>1, <2>2, TakesKeeps
  <2>4. \A n \in Nat : Newer(n) => ses'.from < n /\ ses'.local[2] < n
    BY <2>1, <2>3 DEF Newer, Elems
  <2>5. TrafficInv'
    BY <1>1, <1>4, <2>1, <2>3, <2>4, TrafficStays
  <2>6. WireTypes'
    BY <1>1, <1>2, <1>3, <2>3 DEF WireTypes
  <2> QED
    BY <1>1, <1>2, <2>3, <2>5, <2>6, ClientStep
<1>6. CASE UNCHANGED <<brigade, startup, kx, flags, ses, app>>
  <2>1. WireTypes'
    BY <1>1, <1>2, <1>3, <1>6 DEF WireTypes
  <2>2. InBrigade' = InBrigade
    BY <1>6 DEF InBrigade
  <2>3. TrafficInv'
    BY <1>1, <1>6, <2>2, TrafficStays DEF Newer
  <2>4. SessionTypes' /\ SessionInv' /\ ExchangeInv'
    BY <1>1, <1>3, <1>6, PlainStep DEF SessionTypes, SessionInv
  <2> QED
    BY <1>1, <1>2, <2>1, <2>3, <2>4, ClientStep
<1> QED
  BY <1>5, <1>6 DEF KexAsks

\* A packet is read, and perhaps taken at once.
LEMMA ReadKept ==
    ASSUME IInv, srv' = srv, Receives, InBrigade' \subseteq Elems(ReadBrigade),
           ses'.from = ses.from \/ \E p \in Elems(ReadBrigade) : ses'.from = p.n,
           ses'.local[2] \in {ses.local[2], ses.from}
    PROVE  TrafficInv'
<1>1. \/ inbound' = inbound /\ Elems(ReadBrigade) = InBrigade
      \/ inbound # <<>> /\ inbound' = Tail(inbound) /\ Elems(ReadBrigade) \subseteq InBrigade \cup {Head(inbound)}
  BY ReadFacts
<1>2. CASE inbound' = inbound /\ Elems(ReadBrigade) = InBrigade
  <2>1. \A n \in Nat : Newer(n) => ses'.from < n /\ ses'.local[2] < n
    BY <1>2 DEF Newer, InBrigade
  <2> QED
    BY <1>2, <2>1, TrafficStays
<1>3. CASE inbound # <<>> /\ inbound' = Tail(inbound) /\ Elems(ReadBrigade) \subseteq InBrigade \cup {Head(inbound)}
  <2>1. \A n \in Nat : Newer(n) /\ Head(inbound).n < n => ses'.from < n /\ ses'.local[2] < n
    BY <1>3 DEF Newer, InBrigade
  <2>2. InBrigade' \subseteq InBrigade \cup {Head(inbound)}
    BY <1>3
  <2> QED
    BY <1>3, <2>1, <2>2, TrafficRead
<1> QED
  BY <1>1, <1>2, <1>3

\* The brigade after a packet was read, and what of it is known.
LEMMA AfterRead ==
    ASSUME IInv, Receives, brigade' = ReadBrigade
    PROVE  InBrigade' = Elems(ReadBrigade) /\ brigade' \in Seq(Packets) /\ inbound' \in Seq(Packets)
<1>1. ReadBrigade \in Seq(Packets) /\ inbound' \in Seq(Packets)
  BY ReadFacts
<1>2. InBrigade' = Elems(brigade')
  BY DEF InBrigade, Elems
<1> QED
  BY <1>1, <1>2

\* The session stays as it is in a step of its own reading.
LEMMA SameSession ==
    ASSUME IInv, srv' = srv, UNCHANGED <<startup, kx, flags, ses>>, app' = app \/ app' # "open"
    PROVE  SessionTypes' /\ SessionInv' /\ ExchangeInv'
<1>1. SessionTypes /\ SessionInv
  BY DEF IInv, Types
<1> QED
  BY <1>1, PlainStep DEF SessionTypes, SessionInv

\* Reading during a key exchange keeps the invariant.
LEMMA KexReadsKeeps ==
    ASSUME IInv, KexReads
    PROVE  IInv'
<1>1. /\ kx \in {"require", "group", "reply", "install"} /\ srv' = srv /\ Receives
      /\ outbound' = outbound /\ pend' = pend
  BY DEF KexReads
<1>2. RequestInv' /\ outbound' \in Seq(Packets) /\ pend' \in Packets
  BY <1>1, SilentKeeps
<1>3. /\ inbound' \in Seq(Packets) /\ ReadBrigade \in Seq(Packets)
      /\ \A p \in Elems(ReadBrigade) : Fine(p)
      /\ ReadRc > 0 => Asked(ReadBrigade, ReadRc) # {}
  BY <1>1, ReadFacts
<1>4. CASE ReadRc = Wanted /\ KexTakes(ReadBrigade)
  <2>1. PICK b \in Seq(Packets) : b = ReadBrigade
    BY <1>3
  <2>2. Wanted \in {20, 21, 31, 33}
    BY <1>1 DEF Wanted, KEXINIT, KEX_DH_GEX_GROUP, KEXDH_REPLY, KEX_DH_GEX_REPLY, NEWKEYS
  <2>3. Asked(b, Wanted) # {}
    BY <1>3, <1>4, <2>1, <2>2
  <2>4. (\A p \in Elems(b) : Fine(p)) /\ KexTakes(b)
    BY <1>3, <1>4, <2>1
  <2>5. /\ SessionTypes' /\ SessionInv' /\ ExchangeInv' /\ brigade' \in Seq(Packets)
        /\ InBrigade' \subseteq Elems(b)
        /\ (ses'.from = ses.from \/ \E p \in Elems(b) : ses'.from = p.n)
        /\ ses'.local[2] \in {ses.local[2], ses.from}
    BY <1>1, <2>3, <2>4, TakesKeeps
  <2>6. TrafficInv'
    BY <1>1, <2>1, <2>5, ReadKept
  <2>7. WireTypes'
    BY <1>2, <1>3, <2>5 DEF WireTypes
  <2> QED
    BY <1>1, <1>2, <2>5, <2>6, <2>7, ClientStep
<1>5. CASE brigade' = ReadBrigade /\ NotWanted
  <2>1. InBrigade' = Elems(ReadBrigade) /\ brigade' \in Seq(Packets)
    BY <1>1, <1>5, AfterRead
  <2>2. Later \/ Fails \/ UNCHANGED <<startup, kx, flags, ses, app>>
    BY <1>5 DEF NotWanted, clientVars
  <2>3. SessionTypes' /\ SessionInv' /\ ExchangeInv' /\ ses' = ses
    BY <1>1, <2>2, ReturnKeeps, SameSession
  <2>4. TrafficInv'
    BY <1>1, <2>1, <2>3, ReadKept
  <2>5. WireTypes'
    BY <1>2, <1>3, <2>1 DEF WireTypes
  <2> QED
    BY <1>1, <1>2, <2>3, <2>4, <2>5, ClientStep
<1> QED
  BY <1>4, <1>5 DEF KexReads

\* The packet that the server sent ahead is taken, whatever it is.
LEMMA KexBurnsKeeps ==
    ASSUME IInv, KexBurns
    PROVE  IInv'
<1>1. kx = "burn" /\ srv' = srv /\ outbound' = outbound /\ pend' = pend
  BY DEF KexBurns
<1>2. RequestInv' /\ outbound' \in Seq(Packets) /\ pend' \in Packets
  BY <1>1, SilentKeeps
<1>3. WireTypes /\ SessionTypes /\ SessionInv /\ TrafficInv
  BY DEF IInv, Types
<1>4. Elems(brigade) = InBrigade /\ InBrigade' = Elems(brigade') /\ brigade \in Seq(Packets) /\ inbound \in Seq(Packets)
  BY <1>3 DEF WireTypes, Elems, InBrigade
<1>5. ASSUME Burnt
      PROVE  SessionTypes' /\ SessionInv' /\ ExchangeInv' /\ ses'.from = ses.from /\ ses'.local = ses.local
  <2>1. PICK v \in BOOLEAN : v = FALSE
    OBVIOUS
  <2>2. PICK s : s = [ses EXCEPT !.burn = v]
    OBVIOUS
  <2>3. Goes("reply", s)
    BY <1>5, <2>1, <2>2, Zenon DEF Burnt
  <2> QED
    BY <1>1, <2>2, <2>3, SmallMoves
<1>6. CASE UNCHANGED <<brigade, startup, kx, flags, ses, app, inbound>>
  <2>1. SessionTypes' /\ SessionInv' /\ ExchangeInv'
    BY <1>1, <1>6, SameSession
  <2>2. WireTypes' /\ InBrigade' = InBrigade
    BY <1>2, <1>3, <1>6 DEF WireTypes, InBrigade
  <2>3. TrafficInv'
    BY <1>1, <1>6, <2>2, TrafficStays DEF Newer
  <2> QED
    BY <1>1, <1>2, <2>1, <2>2, <2>3, ClientStep
<1>7. CASE brigade # <<>> /\ brigade' = Without(brigade, Lowest(brigade)) /\ Burnt /\ inbound' = inbound
  <2>1. PICK b \in Seq(Packets) : b = brigade
    BY <1>4
  <2>2. PICK type : type = Lowest(b)
    OBVIOUS
  <2>3. Asked(b, type) # {}
    <3>1. {b[i].type : i \in DOMAIN b} \subseteq Nat
      BY <1>3, <2>1 DEF TrafficInv, Fine
    <3>2. {b[i].type : i \in DOMAIN b} # {}
      <4>1. 1 \in DOMAIN b
        BY <1>7, <2>1
      <4> QED
        BY <4>1
    <3>3. type \in {b[i].type : i \in DOMAIN b}
      BY <2>2, <3>1, <3>2, MinFacts DEF Lowest
    <3> QED
      BY <3>3 DEF Asked
  <2>4. Without(b, type) \in Seq(Packets) /\ Elems(Without(b, type)) \subseteq Elems(b)
    BY <2>3, TakeFacts
  <2>5. brigade' \in Seq(Packets) /\ InBrigade' \subseteq InBrigade
    BY <1>4, <1>7, <2>1, <2>2, <2>4
  <2>6. \A n \in Nat : Newer(n) => ses'.from < n /\ ses'.local[2] < n
    BY <1>5, <1>7 DEF Newer
  <2>7. TrafficInv'
    BY <1>1, <1>7, <2>5, <2>6, TrafficStays
  <2>8. WireTypes'
    BY <1>2, <1>4, <1>7, <2>5 DEF WireTypes
  <2> QED
    BY <1>1, <1>2, <1>5, <1>7, <2>7, <2>8, ClientStep
<1>8. CASE /\ Receives /\ brigade' = (IF ReadRc > 0 THEN Without(ReadBrigade, ReadRc) ELSE brigade)
           /\ Later \/ Fails \/ Burnt
  <2>1. /\ inbound' \in Seq(Packets) /\ ReadBrigade \in Seq(Packets)
        /\ ReadRc > 0 => Asked(ReadBrigade, ReadRc) # {}
    BY <1>8, ReadFacts
  <2>2. PICK b \in Seq(Packets) : b = ReadBrigade
    BY <2>1
  <2>3. brigade' \in Seq(Packets) /\ InBrigade' \subseteq Elems(ReadBrigade)
    <3>1. CASE ReadRc > 0
      <4>1. PICK type : type = ReadRc
        OBVIOUS
      <4>2. Without(b, type) \in Seq(Packets) /\ Elems(Without(b, type)) \subseteq Elems(b)
        BY <2>1, <2>2, <3>1, <4>1, TakeFacts
      <4> QED
        BY <1>4, <1>8, <2>2, <3>1, <4>1, <4>2
    <3>2. CASE ~(ReadRc > 0)
      BY <1>4, <1>8, <3>2 DEF ReadBrigade
    <3> QED
      BY <3>1, <3>2
  <2>4. SessionTypes' /\ SessionInv' /\ ExchangeInv' /\ ses'.from = ses.from /\ ses'.local = ses.local
    BY <1>1, <1>5, <1>8, ReturnKeeps
  <2>5. TrafficInv'
    BY <1>1, <1>8, <2>3, <2>4, ReadKept
  <2>6. WireTypes'
    BY <1>2, <2>1, <2>3 DEF WireTypes
  <2> QED
    BY <1>1, <1>2, <2>4, <2>5, <2>6, ClientStep
<1> QED
  BY <1>6, <1>7, <1>8 DEF KexBurns

\* Our packets of an exchange.
LEMMA KexWritesKeeps ==
    ASSUME IInv, KexWrites
    PROVE  IInv'
<1>1. /\ kx \in {"kexinit", "request", "init", "newkeys"} /\ srv' = srv
      /\ brigade' = brigade /\ inbound' = inbound
  BY DEF KexWrites
<1>2. WireTypes /\ SessionTypes /\ SessionInv /\ ExchangeInv
  BY DEF IInv, Types
<1>3. PICK rc \in {"NONE", "EAGAIN", "FAIL"} :
        /\ Send(KexPacket, rc)
        /\ CASE rc = "NONE" -> Goes(Written, ses)
             [] rc = "EAGAIN" -> Later
             [] rc = "FAIL" -> Fails
  BY Zenon DEF KexWrites
<1>4. PICK type \in Nat : type = KexPacket
  BY <1>1 DEF KexPacket, KEXINIT, KEX_DH_GEX_REQUEST, KEXDH_INIT, KEX_DH_GEX_INIT, NEWKEYS
<1>5. type = KEX_DH_GEX_REQUEST => Method \notin Fixed
  <2>1. type = KEX_DH_GEX_REQUEST => kx = "request"
    BY <1>1, <1>4 DEF KexPacket, KEXINIT, KEX_DH_GEX_REQUEST, KEXDH_INIT, KEX_DH_GEX_INIT, NEWKEYS
  <2> QED
    BY <1>2, <2>1 DEF ExchangeInv
<1>6. RequestInv' /\ outbound' \in Seq(Packets) /\ pend' \in Packets
  <2>1. Send(type, rc)
    BY <1>3, <1>4
  <2> QED
    BY <1>1, <1>5, <2>1, SendKeeps
<1>7. SessionTypes' /\ SessionInv' /\ ExchangeInv' /\ ses' = ses
  <2>1. CASE Later \/ Fails
    BY <1>1, <2>1, ReturnKeeps
  <2>2. CASE Goes(Written, ses)
    <3>1. PICK to : to = Written
      OBVIOUS
    <3>2. PICK s : s = ses
      OBVIOUS
    <3>3. Goes(to, s)
      BY <2>2, <3>1, <3>2
    <3>4. /\ kx' = to /\ ses' = s /\ flags' = flags /\ startup' = startup /\ app' = app
          /\ flags' \in [newkeys : BOOLEAN, exchanging : BOOLEAN, active : BOOLEAN]
          /\ (app' = "open" \/ startup'.state \in {"sent3", "sent4"} => ses.sid = 1)
      BY <3>3, MoveFacts
    <3>5. CASE kx = "kexinit"
      <4>1. to = "require"
        BY <3>1, <3>5 DEF Written
      <4> QED
        BY <1>1, <1>2, <3>2, <3>4, <4>1, PlainStep DEF SessionTypes
    <3>6. CASE kx # "kexinit"
      <4>1. /\ to \in Bargained \ {"request"} /\ kx \in Bargained
            /\ to \in {"newkeys", "install"} => kx = "newkeys"
        BY <1>1, <3>1, <3>6 DEF Written, Bargained
      <4>2. s.from <= srv.n /\ (to \in {"newkeys", "install"} => Signed(s.from))
        BY <1>2, <3>2, <4>1 DEF ExchangeInv
      <4> QED
        BY <1>1, <1>2, <3>2, <3>3, <4>1, <4>2, MethodsKept DEF SessionTypes
    <3> QED
      BY <3>5, <3>6
  <2> QED
    BY <1>3, <2>1, <2>2
<1>8. InBrigade' = InBrigade
  BY <1>1 DEF InBrigade
<1>9. TrafficInv'
  BY <1>1, <1>7, <1>8, TrafficStays DEF Newer
<1>10. WireTypes'
  BY <1>1, <1>2, <1>6 DEF WireTypes
<1> QED
  BY <1>1, <1>6, <1>7, <1>9, <1>10, ClientStep

\* A step of session_startup or of the application: nothing is said of keys.
LEMMA OutsideStep ==
    ASSUME IInv, srv' = srv, UNCHANGED <<kx, flags, ses>>,
           startup' \in [state : {"idle", "created", "sent", "sent1", "sent3", "sent4"}, sent : Int,
                         garbled : BOOLEAN],
           app' = "open" \/ startup'.state \in {"sent3", "sent4"} => ses.sid = 1
    PROVE  SessionTypes' /\ SessionInv' /\ ExchangeInv'
<1>1. SessionTypes /\ SessionInv
  BY DEF IInv, Types
<1> QED
  BY <1>1, PlainStep DEF SessionTypes, SessionInv

\* Nothing is read in a step.
LEMMA UnreadStep ==
    ASSUME IInv, srv' = srv, inbound' = inbound, brigade' = brigade,
           ses'.from = ses.from, ses'.local = ses.local,
           SessionTypes', SessionInv', ExchangeInv', RequestInv', outbound' \in Seq(Packets), pend' \in Packets
    PROVE  IInv'
<1>1. InBrigade' = InBrigade
  BY DEF InBrigade
<1>2. TrafficInv'
  BY <1>1, TrafficStays DEF Newer
<1>3. WireTypes'
  BY DEF IInv, Types, WireTypes
<1> QED
  BY <1>2, <1>3, ClientStep

\* kex_exchange is entered, anew or where it was left.
LEMMA EntersKeeps ==
    ASSUME IInv, srv' = srv, NEW by, Enters(by, ses),
           by # "startup" /\ kx = "idle" => ses.local = NoKeys \/ ses.local[2] # srv.n
    PROVE  SessionTypes' /\ SessionInv' /\ ExchangeInv' /\ ses'.from = ses.from /\ ses'.local = ses.local
<1>1. SessionTypes /\ SessionInv /\ ExchangeInv
  BY DEF IInv, Types
<1>2. kx' = (IF kx = "idle" THEN "kexinit" ELSE kx) /\ startup' = startup /\ app' = app
  BY DEF Enters
<1>3. flags' \in [newkeys : BOOLEAN, exchanging : BOOLEAN, active : BOOLEAN]
  BY <1>1 DEF Enters, SessionTypes
<1>4. startup' \in [state : {"idle", "created", "sent", "sent1", "sent3", "sent4"}, sent : Int, garbled : BOOLEAN]
  BY <1>1, <1>2 DEF SessionTypes
<1>5. (app' = "open" \/ startup'.state \in {"sent3", "sent4"} => ses.sid = 1) /\ kx' # "idle"
  BY <1>1, <1>2 DEF SessionInv
<1>6. CASE ses' = ses
  BY <1>2, <1>3, <1>4, <1>5, <1>6, PlainStep
<1>7. CASE kx = "idle" /\ by # "startup" /\ ses' = [ses EXCEPT !.kex = None, !.hostkey = None]
  <2>1. None \in Methods(KexMethods) /\ None \in Methods(HostkeyMethods)
    BY DEF Methods
  <2>2. ses' \in [kex : Methods(KexMethods), hostkey : Methods(HostkeyMethods),
                  crypt : Methods(CryptMethods), burn : BOOLEAN, local : Keys, remote : Keys,
                  sid : Nat, from : Nat, group : BOOLEAN]
    BY <1>1, <1>7, <2>1 DEF SessionTypes
  <2>3. /\ ses'.crypt = ses.crypt /\ ses'.local = ses.local /\ ses'.remote = ses.remote /\ ses'.sid = ses.sid
        /\ ses'.from = ses.from
    BY <1>1, <1>7 DEF SessionTypes
  <2>4. SessionTypes'
    BY <1>1, <1>2, <1>3, <1>7, <2>2, SessionTyped
  <2>5. ses.local # NoKeys => ses'.crypt = Crypt /\ ses.local[2] # srv.n
    BY <1>1, <1>7, <2>3 DEF SessionInv
  <2>6. SessionInv'
    BY <1>5, <2>3, <2>5, SessionKept
  <2>7. ExchangeInv'
    BY <1>1, <1>2, <1>7, <2>3 DEF ExchangeInv, Bargained
  <2> QED
    BY <2>3, <2>4, <2>6, <2>7
<1> QED
  BY <1>6, <1>7 DEF Enters

\* session_startup, up to and after its exchange.
LEMMA StartupKeeps ==
    ASSUME IInv, Startup
    PROVE  IInv'
<1>1. SessionTypes /\ SessionInv /\ WireTypes
  BY DEF IInv, Types
<1> DEFINE Startups == [state : {"idle", "created", "sent", "sent1", "sent3", "sent4"}, sent : Int, garbled : BOOLEAN]
<1>2. startup \in Startups /\ startup.sent \in Int /\ startup.garbled \in BOOLEAN
  BY <1>1 DEF SessionTypes
<1>3. CASE Call("startup")
  <2>1. /\ srv' = srv /\ UNCHANGED <<kx, flags, ses>> /\ inbound' = inbound /\ brigade' = brigade
        /\ outbound' = outbound /\ pend' = pend /\ app' = app
        /\ startup' = startup \/ startup' = [startup EXCEPT !.state = "created"]
    BY <1>3 DEF Call, wire
  <2>2. startup' \in Startups
    BY <1>2, <2>1
  <2>3. app' = "open" \/ startup'.state \in {"sent3", "sent4"} => ses.sid = 1
    BY <1>1, <1>2, <2>1 DEF SessionInv
  <2>4. SessionTypes' /\ SessionInv' /\ ExchangeInv'
    BY <2>1, <2>2, <2>3, OutsideStep
  <2>5. RequestInv' /\ outbound' \in Seq(Packets) /\ pend' \in Packets
    BY <2>1, SilentKeeps
  <2> QED
    BY <2>1, <2>4, <2>5, UnreadStep
<1>4. CASE SendsBanner
  <2>1. /\ srv' = srv /\ UNCHANGED <<kx, flags, ses>> /\ inbound' = inbound /\ brigade' = brigade /\ pend' = pend
        /\ startup.state = "created"
    BY <1>4 DEF SendsBanner, NoExchange
  <2>2. PICK ok \in BOOLEAN : ok = (~startup.garbled)
    BY <1>2
  <2>3. PICK q : q = Banner(ok)
    OBVIOUS
  <2>4. q \in Packets /\ q.type = 0
    BY <2>3 DEF Banner, Packets, NoKeys, Keys, Methods, BANNER
  <2>5. PICK r \in {-1} \cup 1..(BannerLen - startup.sent) :
          IF r = BannerLen - startup.sent
            THEN /\ startup' = [startup EXCEPT !.state = "sent", !.sent = 0]
                 /\ outbound' = Append(outbound, Banner(~startup.garbled))
                 /\ UNCHANGED <<call, app, blocks>>
            ELSE /\ blocks < MaxBlocks /\ blocks' = blocks + 1
                 /\ startup' = [startup EXCEPT !.sent = @ + r, !.garbled = @ \/ r = -1]
                 /\ Started("EAGAIN") /\ UNCHANGED outbound
    BY <1>4, Zenon DEF SendsBanner
  <2>6. outbound' = outbound \/ outbound' = Append(outbound, q)
    BY <2>2, <2>3, <2>5
  <2>7. startup' \in Startups /\ startup'.state \in {"sent", "created"} /\ app' = app
    <3>1. CASE r = BannerLen - startup.sent
      <4>1. startup' = [startup EXCEPT !.state = "sent", !.sent = 0] /\ app' = app
        BY <2>5, <3>1
      <4>2. startup' \in Startups
        <5>1. PICK z \in Int : z = 0
          OBVIOUS
        <5>2. startup' = [startup EXCEPT !.state = "sent", !.sent = z]
          BY <4>1, <5>1
        <5> QED
          BY ONLY <1>2, <5>2, z \in Int
      <4>3. startup'.state = "sent"
        BY ONLY <1>2, <4>1
      <4> QED
        BY <4>1, <4>2, <4>3
    <3>2. CASE r # BannerLen - startup.sent
      <4>1. startup.sent + r \in Int
        BY <1>2
      <4>2. PICK n \in Int, g \in BOOLEAN : n = startup.sent + r /\ g = (startup.garbled \/ r = -1)
        BY <4>1
      <4>3. startup' = [startup EXCEPT !.sent = n, !.garbled = g] /\ app' = app
        <5>1. startup' = [startup EXCEPT !.sent = startup.sent + r, !.garbled = startup.garbled \/ r = -1]
              /\ Started("EAGAIN")
          BY <2>5, <3>2
        <5>2. app' = app
          BY <5>1 DEF Started
        <5> QED
          BY <4>2, <5>1, <5>2
      <4> QED
        BY <1>2, <2>1, <4>3
    <3> QED
      BY <3>1, <3>2
  <2>8. SessionTypes' /\ SessionInv' /\ ExchangeInv'
    BY <1>1, <2>1, <2>7, OutsideStep DEF SessionInv
  <2>9. RequestInv' /\ outbound' \in Seq(Packets) /\ pend' \in Packets
    BY <2>1, <2>4, <2>6, RequestKept DEF KEX_DH_GEX_REQUEST
  <2> QED
    BY <2>1, <2>8, <2>9, UnreadStep
<1>5. CASE ReceivesBanner
  <2>1. /\ srv' = srv /\ UNCHANGED <<kx, flags, ses>> /\ brigade' = brigade /\ pend' = pend /\ outbound' = outbound
        /\ inbound # <<>> /\ inbound' = Tail(inbound) /\ startup.state = "sent"
    BY <1>5 DEF ReceivesBanner, NoExchange
  <2>2. \/ startup' = [startup EXCEPT !.state = "sent1"] /\ app' = app
        \/ startup' = startup /\ app' = "failed"
    BY <1>5 DEF ReceivesBanner, Started
  <2>3. startup' \in Startups /\ startup'.state \in {"sent", "sent1"} /\ (app' = app \/ app' = "failed")
    BY <1>2, <2>1, <2>2
  <2>4. SessionTypes' /\ SessionInv' /\ ExchangeInv'
    BY <1>1, <2>1, <2>3, OutsideStep DEF SessionInv
  <2>5. RequestInv' /\ outbound' \in Seq(Packets) /\ pend' \in Packets
    BY <2>1, SilentKeeps
  <2>6. InBrigade' \subseteq InBrigade \cup {Head(inbound)}
    BY <2>1 DEF InBrigade
  <2>7. TrafficInv'
    BY <2>1, <2>6, TrafficRead DEF Newer
  <2>8. WireTypes'
    BY <1>1, <2>1, <2>5 DEF WireTypes
  <2> QED
    BY <2>1, <2>4, <2>5, <2>7, <2>8, ClientStep
<1>6. CASE StartsExchange
  <2>1. /\ srv' = srv /\ inbound' = inbound /\ brigade' = brigade /\ outbound' = outbound /\ pend' = pend
        /\ Enters("startup", ses)
    BY <1>6 DEF StartsExchange, wire
  <2>2. SessionTypes' /\ SessionInv' /\ ExchangeInv' /\ ses'.from = ses.from /\ ses'.local = ses.local
    BY <2>1, EntersKeeps
  <2>3. RequestInv' /\ outbound' \in Seq(Packets) /\ pend' \in Packets
    BY <2>1, SilentKeeps
  <2> QED
    BY <2>1, <2>2, <2>3, UnreadStep
<1>7. CASE RequestsService
  <2>1. /\ srv' = srv /\ UNCHANGED <<kx, flags, ses>> /\ inbound' = inbound /\ brigade' = brigade
        /\ startup.state = "sent3"
    BY <1>7 DEF RequestsService, NoExchange
  <2>2. PICK rc \in {"NONE", "EAGAIN", "FAIL"} :
          /\ Send(SERVICE_REQUEST, rc)
          /\ IF rc = "NONE" THEN startup' = [startup EXCEPT !.state = "sent4"] /\ UNCHANGED <<call, app>>
             ELSE Started(rc) /\ UNCHANGED startup
    BY <1>7, Zenon DEF RequestsService
  <2>3. startup' \in Startups /\ startup'.state \in {"sent3", "sent4"}
    BY <1>2, <2>1, <2>2
  <2>4. ses.sid = 1
    BY <1>1, <2>1 DEF SessionInv
  <2>5. SessionTypes' /\ SessionInv' /\ ExchangeInv'
    BY <2>1, <2>3, <2>4, OutsideStep
  <2>6. RequestInv' /\ outbound' \in Seq(Packets) /\ pend' \in Packets
    <3>1. PICK type \in Nat : type = SERVICE_REQUEST /\ type # KEX_DH_GEX_REQUEST
      BY DEF SERVICE_REQUEST, KEX_DH_GEX_REQUEST
    <3>2. Send(type, rc)
      BY <2>2, <3>1
    <3> QED
      BY <2>1, <3>1, <3>2, SendKeeps
  <2> QED
    BY <2>1, <2>5, <2>6, UnreadStep
<1>8. CASE AwaitsService
  <2>1. /\ srv' = srv /\ UNCHANGED <<kx, flags, ses>> /\ outbound' = outbound /\ pend' = pend
        /\ startup.state = "sent4" /\ Receives
        /\ startup' = startup \/ startup' = [startup EXCEPT !.state = "idle"]
        /\ (ReadRc = SERVICE_ACCEPT /\ brigade' = Without(ReadBrigade, SERVICE_ACCEPT)) \/ brigade' = ReadBrigade
    BY <1>8 DEF AwaitsService, NoExchange
  <2>2. startup' \in Startups
    BY <1>2, <2>1
  <2>3. ses.sid = 1
    BY <1>1, <2>1 DEF SessionInv
  <2>4. SessionTypes' /\ SessionInv' /\ ExchangeInv'
    BY <2>1, <2>2, <2>3, OutsideStep
  <2>5. RequestInv' /\ outbound' \in Seq(Packets) /\ pend' \in Packets
    BY <2>1, SilentKeeps
  <2>6. /\ inbound' \in Seq(Packets) /\ ReadBrigade \in Seq(Packets)
        /\ ReadRc > 0 => Asked(ReadBrigade, ReadRc) # {}
    BY <2>1, ReadFacts
  <2>7. brigade' \in Seq(Packets) /\ InBrigade' \subseteq Elems(ReadBrigade)
    <3>1. CASE brigade' = ReadBrigade
      BY <2>1, <3>1, AfterRead
    <3>2. CASE ReadRc = SERVICE_ACCEPT /\ brigade' = Without(ReadBrigade, SERVICE_ACCEPT)
      <4>1. PICK b, type : b \in Seq(Packets) /\ b = ReadBrigade /\ type = ReadRc
        BY <2>6
      <4>2. ReadRc > 0
        BY <3>2 DEF SERVICE_ACCEPT
      <4>3. Without(b, type) \in Seq(Packets) /\ Elems(Without(b, type)) \subseteq Elems(b)
        BY <2>6, <4>1, <4>2, TakeFacts
      <4>4. InBrigade' = Elems(brigade')
        BY DEF InBrigade, Elems
      <4> QED
        BY <3>2, <4>1, <4>3, <4>4
    <3> QED
      BY <2>1, <3>1, <3>2
  <2>8. TrafficInv'
    BY <2>1, <2>7, ReadKept
  <2>9. WireTypes'
    BY <2>5, <2>6, <2>7 DEF WireTypes
  <2> QED
    BY <2>1, <2>4, <2>5, <2>8, <2>9, ClientStep
<1> QED
  BY <1>3, <1>4, <1>5, <1>6, <1>7, <1>8 DEF Startup

\* Reading, writing and disconnecting.
LEMMA UseKeeps ==
    ASSUME IInv, Use
    PROVE  IInv'
<1>1. SessionTypes /\ SessionInv /\ WireTypes /\ TrafficInv
  BY DEF IInv, Types
<1>2. ASSUME NEW op \in {"read", "write", "disconnect"}, Call(op)
      PROVE  IInv'
  <2>1. /\ srv' = srv /\ UNCHANGED <<startup, kx, flags, ses, app>> /\ inbound' = inbound /\ brigade' = brigade
        /\ outbound' = outbound /\ pend' = pend
    BY <1>2 DEF Call, wire
  <2>2. SessionTypes' /\ SessionInv' /\ ExchangeInv'
    BY <2>1, SameSession
  <2>3. RequestInv' /\ outbound' \in Seq(Packets) /\ pend' \in Packets
    BY <2>1, SilentKeeps
  <2> QED
    BY <2>1, <2>2, <2>3, UnreadStep
<1>3. CASE Redirects
  <2>1. /\ srv' = srv /\ inbound' = inbound /\ brigade' = brigade /\ outbound' = outbound /\ pend' = pend
        /\ Enters("redirect", ses) /\ flags.exchanging
    BY <1>3 DEF Redirects, wire
  <2>2. kx # "idle"
    BY <1>1, <2>1 DEF SessionInv
  <2>3. SessionTypes' /\ SessionInv' /\ ExchangeInv' /\ ses'.from = ses.from /\ ses'.local = ses.local
    BY <2>1, <2>2, EntersKeeps
  <2>4. RequestInv' /\ outbound' \in Seq(Packets) /\ pend' \in Packets
    BY <2>1, SilentKeeps
  <2> QED
    BY <2>1, <2>3, <2>4, UnreadStep
<1>4. CASE Reads
  <2>1. /\ srv' = srv /\ Receives /\ brigade' = ReadBrigade /\ outbound' = outbound /\ pend' = pend
        /\ \/ ReadRc = KEXINIT /\ Enters("packetAdd", ses)
           \/ ReadEnds(ReadRc) /\ NoExchange /\ UNCHANGED startup
    BY <1>4 DEF Reads
  <2>2. InBrigade' = Elems(ReadBrigade) /\ brigade' \in Seq(Packets) /\ inbound' \in Seq(Packets)
    BY <2>1, AfterRead
  <2>3. RequestInv' /\ outbound' \in Seq(Packets) /\ pend' \in Packets
    BY <2>1, SilentKeeps
  <2>4. SessionTypes' /\ SessionInv' /\ ExchangeInv' /\ ses'.from = ses.from /\ ses'.local = ses.local
    <3>1. CASE ReadRc = KEXINIT /\ Enters("packetAdd", ses)
      <4>1. inbound # <<>> /\ Head(inbound).type = KEXINIT
        <5>1. ReadRc > 0
          BY <3>1 DEF KEXINIT
        <5> QED
          BY <2>1, <3>1, <5>1, ReadFacts
      <4>2. 1 \in 1..Len(inbound) /\ inbound[1] = Head(inbound) /\ inbound[1] \in Packets
        BY <1>1, <4>1 DEF WireTypes
      <4>3. ses.local[2] < inbound[1].n /\ inbound[1].n <= srv.n
        BY <1>1, <4>1, <4>2 DEF TrafficInv, Newer, Fine
      <4>4. inbound[1].n \in Nat /\ srv.n \in Nat /\ ses.local \in Keys
        BY <1>1, <4>2 DEF Packets, IInv, Types, ServerTypes, SessionTypes
      <4>5. ses.local[2] # srv.n
        <5>1. ses.local[2] \in Nat
          BY <4>4 DEF Keys
        <5>2. \A a, b, c \in Nat : a < b /\ b <= c => a # c
          OBVIOUS
        <5> QED
          BY <4>3, <4>4, <5>1, <5>2, Zenon
      <4> QED
        BY <2>1, <3>1, <4>5, EntersKeeps
    <3>2. CASE ReadEnds(ReadRc) /\ NoExchange /\ UNCHANGED startup
      <4>1. UNCHANGED <<startup, kx, flags, ses>> /\ (app' = app \/ app' # "open")
        BY <3>2 DEF ReadEnds, NoExchange
      <4> QED
        BY <2>1, <4>1, SameSession
    <3> QED
      BY <2>1, <3>1, <3>2
  <2>5. TrafficInv'
    BY <2>1, <2>2, <2>4, ReadKept
  <2>6. WireTypes'
    BY <2>2, <2>3 DEF WireTypes
  <2> QED
    BY <2>1, <2>3, <2>4, <2>5, <2>6, ClientStep
<1>5. CASE WritesData \/ Disconnects
  <2>1. /\ srv' = srv /\ UNCHANGED <<startup, kx, flags, ses>> /\ inbound' = inbound /\ brigade' = brigade
        /\ app' = app \/ app' # "open"
    BY <1>5 DEF WritesData, Disconnects
  <2>2. PICK type \in Nat, rc \in {"NONE", "EAGAIN", "FAIL"} : Send(type, rc) /\ type # KEX_DH_GEX_REQUEST
    BY <1>5 DEF WritesData, Disconnects, CHANNEL_DATA, DISCONNECT, KEX_DH_GEX_REQUEST
  <2>3. RequestInv' /\ outbound' \in Seq(Packets) /\ pend' \in Packets
    BY <2>1, <2>2, SendKeeps
  <2>4. SessionTypes' /\ SessionInv' /\ ExchangeInv'
    BY <2>1, SameSession
  <2> QED
    BY <2>1, <2>3, <2>4, UnreadStep
<1> QED
  BY <1>2, <1>3, <1>4, <1>5 DEF Use

-----------------------------------------------------------------------------
(***************************************************************************)
(* The theorems.                                                           *)
(***************************************************************************)
\* A step in which nothing happens.
LEMMA StutterKeeps ==
    ASSUME IInv, UNCHANGED vars
    PROVE  IInv'
<1>1. /\ srv' = srv /\ UNCHANGED <<startup, kx, flags, ses, app>> /\ inbound' = inbound /\ brigade' = brigade
      /\ outbound' = outbound /\ pend' = pend
  BY DEF vars, clientVars, wire
<1>2. SessionTypes' /\ SessionInv' /\ ExchangeInv'
  BY <1>1, SameSession
<1>3. RequestInv' /\ outbound' \in Seq(Packets) /\ pend' \in Packets
  BY <1>1, SilentKeeps
<1> QED
  BY <1>1, <1>2, <1>3, UnreadStep

\* The invariant is inductive: no step of the client, of the application or of the server
\* breaks it.
THEOREM InvariantHolds == Spec => []IInv
<1>1. Init => IInv
  BY InitIInv
<1>2. IInv /\ [Next]_vars => IInv'
  <2> SUFFICES ASSUME IInv, [Next]_vars PROVE IInv'
    OBVIOUS
  <2>1. CASE Startup
    BY <2>1, StartupKeeps
  <2>2. CASE KexWrites
    BY <2>2, KexWritesKeeps
  <2>3. CASE KexAsks
    BY <2>3, AsksKeeps
  <2>4. CASE KexReads
    BY <2>4, KexReadsKeeps
  <2>5. CASE KexBurns
    BY <2>5, KexBurnsKeeps
  <2>6. CASE Use
    BY <2>6, UseKeeps
  <2>7. CASE ServerOffers
    BY <2>7, OffersKeeps
  <2>8. CASE ServerReads
    BY <2>8, ReadsKeeps
  <2>9. CASE ServerSwitches \/ ServerSendsData \/ ServerLeaves
    BY <2>9, ServerSendsKeeps
  <2>10. CASE UNCHANGED vars
    BY <2>10, StutterKeeps
  <2> QED
    BY <2>1, <2>2, <2>3, <2>4, <2>5, <2>6, <2>7, <2>8, <2>9, <2>10 DEF Next, Exchange, Server
<1> QED
  BY <1>1, <1>2, PTL DEF Spec

\* Whatever the server offers, however often keys are renewed and wherever a call is left
\* with EAGAIN: keys in use were signed for by the host key, belong to the session that the
\* first exchange began, and go with the methods that the server chose too.
THEOREM KeysComeFromTheHost == Spec => []KeysAreVerified
<1>1. IInv => KeysAreVerified
  <2> SUFFICES ASSUME IInv, ses.local # NoKeys PROVE
        /\ ses.local = ses.remote /\ ses.local[1] = 1 /\ ses.local[2] \notin srv.lied
        /\ srv.phase = "quiet" /\ srv.recv = ses.local /\ flags.newkeys
             => <<ses.kex, ses.hostkey, ses.crypt>> = <<srv.kex, srv.hostkey, Chosen(CryptMethods, srv.offer.crypt)>>
    BY DEF KeysAreVerified
  <2>1. SessionInv /\ ServerInv
    BY DEF IInv
  <2>2. /\ ses.local = ses.remote /\ ses.local[1] = 1 /\ Signed(ses.local[2]) /\ AgreedOn /\ ses.crypt = Crypt
        /\ ses.local[2] = srv.n => ses.kex = Method /\ ses.hostkey = Hostkey
    BY <2>1 DEF SessionInv
  <2>3. ses.local[2] \notin srv.lied /\ srv.n > 0
    BY <2>2 DEF Signed, IInv, Types, ServerTypes
  <2>4. ASSUME srv.phase = "quiet", srv.recv = ses.local
        PROVE  <<ses.kex, ses.hostkey, ses.crypt>> = <<srv.kex, srv.hostkey, Chosen(CryptMethods, srv.offer.crypt)>>
    <3>1. srv.recv = <<1, srv.n>> /\ srv.kex = Chosen(KexMethods, srv.offer.kex)
          /\ srv.hostkey = Chosen(HostkeyMethods, srv.offer.hostkey)
      BY <2>1, <2>3, <2>4 DEF ServerInv
    <3>2. ses.kex = Method /\ ses.hostkey = Hostkey
      BY <2>2, <2>4, <3>1
    <3>3. Method = Chosen(KexMethods, srv.offer.kex) /\ Hostkey = Chosen(HostkeyMethods, srv.offer.hostkey)
          /\ Crypt = Chosen(CryptMethods, srv.offer.crypt)
      BY <2>2, SameChoice DEF Method, Hostkey, Crypt, AgreedOn
    <3> QED
      BY <2>2, <3>1, <3>2, <3>3
  <2> QED
    BY <2>2, <2>3, <2>4
<1> QED
  BY <1>1, InvariantHolds, PTL

-----------------------------------------------------------------------------
(***************************************************************************)
(* The two sides of a session agree on the keys of every packet, and an    *)
(* exchange that the server asks for is not lost.                          *)
(*                                                                         *)
(* The packets on their way in each direction form a sentence of the       *)
(* protocol. A stage says how far a conversation has come and how many     *)
(* exchanges have given keys; each packet moves it on. The packets in the  *)
(* socket lead from the stage at which the client reads to the one at      *)
(* which the server writes, and those under way to the server from the     *)
(* stage at which it reads to the one at which the client writes. Where    *)
(* the client reads follows from the state of its exchange and from what   *)
(* its brigade holds; where it writes from the state alone. Keys go with   *)
(* the stage, so that they agree at both ends of a sentence, unless the    *)
(* client was rude or an exchange failed.                                  *)
(***************************************************************************)

(***************************************************************************)
(* Stages, and the invariant.                                              *)
(***************************************************************************)
\* A stage of the conversation as its packets tell it: what the last packets were, and how
\* many exchanges have given the keys that the next packet is made with.
ServerStages == {"fresh", "quiet", "offered", "open", "grouped", "replied", "end"}
ClientStages == {"idle", "agreed", "asked", "bound"}
Stages == [st : ServerStages \cup ClientStages, n : Nat]
Stage(st, n) == [st |-> st, n |-> n]
KeysOf(n) == IF n = 0 THEN NoKeys ELSE <<1, n>>

\* The type of our half of the secret, and the stage a KEXINIT of the server leads to.
InitType == IF Method \in Fixed THEN KEXDH_INIT ELSE KEX_DH_GEX_INIT
OfferStage == IF srv.offer.follows THEN "offered" ELSE "open"
Ready(half) == IF half = KEXDH_INIT THEN {"open", "agreed"} ELSE {"grouped", "asked"}

\* The stage after a packet.  Data and DISCONNECT may come at any stage, and with other
\* keys, from a client that was rude.
ServerMoves(half, offer, a, p, b) ==
    \/ p.type = BANNER /\ a.st = "fresh" /\ b = Stage("quiet", a.n)
    \/ p.type = DISCONNECT /\ a.st \in ServerStages \ {"fresh", "end"} /\ b = Stage("end", a.n)
    \/ p.type \in {CHANNEL_DATA, SERVICE_ACCEPT} /\ a.st \in {"quiet", "open", "grouped", "replied"} /\ b = a
    \/ p.type = KEXINIT /\ a.st = "quiet" /\ b = Stage(offer, a.n)
    \/ p.type = KEXDH_REPLY /\ ~p.ok /\ a.st = "offered" /\ b = Stage("open", a.n)
    \/ p.type = KEX_DH_GEX_GROUP /\ p.ok /\ half = KEX_DH_GEX_INIT /\ a.st = "open" /\ b = Stage("grouped", a.n)
    \/ p.type = half + 1 /\ p.n = a.n + 1 /\ a.st \in Ready(half) \ ClientStages /\ b = Stage("replied", a.n)
    \/ p.type = NEWKEYS /\ a.st = "replied" /\ b = Stage("quiet", a.n + 1)

ClientMoves(half, a, p, b) ==
    \/ p.type \in {BANNER, SERVICE_REQUEST} /\ a.st = "idle" /\ b = a
    \/ p.type \in {CHANNEL_DATA, DISCONNECT} /\ a.st \in ClientStages /\ b = a
    \/ p.type = KEXINIT /\ a.st = "idle" /\ b = Stage("agreed", a.n)
    \/ p.type = KEX_DH_GEX_REQUEST /\ half = KEX_DH_GEX_INIT /\ a.st = "agreed" /\ b = Stage("asked", a.n)
    \/ p.type = half /\ a.st \in Ready(half) \ ServerStages /\ b = Stage("bound", a.n)
    \/ p.type = NEWKEYS /\ a.st = "bound" /\ b = Stage("idle", a.n + 1)

Keyed(h, a, p) ==
    p.keys = KeysOf(a.n) \/ ("rude" \in h /\ p.type \in {CHANNEL_DATA, DISCONNECT} /\ a.st \in ClientStages)
Moves(half, offer, h, a, p, b) ==
    Keyed(h, a, p) /\ (ServerMoves(half, offer, a, p, b) \/ ClientMoves(half, a, p, b))

\* A sequence of packets that leads from one stage to another.
Path(half, offer, h, q, a, b) ==
    \E f \in Seq(Stages) :
      /\ Len(f) = Len(q) + 1 /\ f[1] = a /\ f[Len(q) + 1] = b
      /\ \A i \in 1..Len(q) : Moves(half, offer, h, f[i], q[i], f[i + 1])
Joined(h, q, a, b) == Path(InitType, OfferStage, h, q, a, b)

Ok == "failed" \notin hist
Alive == app \in {"starting", "open"}

\* Keys in use.
HeldInv ==
    /\ ses.local = KeysOf(ses.local[2])
    /\ ses.sid = 0 <=> ses.local = NoKeys
    /\ flags.newkeys <=> ses.local # NoKeys
    /\ flags.exchanging <=> kx # "idle"
    /\ Ok /\ srv.phase # "gone" => ses.local[2] <= srv.send[2]

\* Calls, and how far the start of the session has come.
Operations == {None, "startup", "read", "write", "disconnect"}
Calls == [op : Operations, at : Operations, by : {None, "startup", "redirect", "packetAdd"}]
CallInv ==
    /\ call \in Calls
    /\ \/ call = Idle
       \/ call.op = "startup" /\ call.at = "startup" /\ call.by \in {None, "startup"} /\ app = "starting"
       \/ call.op \in {"read", "write", "disconnect"} /\ call.at \in {"read", "write", "disconnect"}
          /\ call.by \in {None, "redirect", "packetAdd"} /\ app = "open"
    /\ call.by = "startup" => startup.state = "sent1"
    /\ app = "starting" => srv.n <= 1 /\ (startup.state # "sent1" => kx = "idle")
    /\ app = "starting" /\ startup.state \in {"idle", "created", "sent", "sent1"} => ses.local = NoKeys
    /\ app = "open" => startup.state = "idle"
    /\ Ok /\ disc => srv.phase = "gone"
    /\ app \in {"starting", "open", "failed", "closed"}

\* A packet that was half sent.
PendInv ==
    Ok /\ Alive =>
    /\ kx = "idle" => pend.type \in {-1, CHANNEL_DATA, DISCONNECT, SERVICE_REQUEST}
    /\ kx \in {"kexinit", "request", "init", "newkeys"} => pend.type \in {-1, CHANNEL_DATA, DISCONNECT, KexPacket}
    /\ kx \in {"require", "group", "burn", "reply", "install"} => pend.type \in {-1, CHANNEL_DATA, DISCONNECT}
    /\ pend.type = SERVICE_REQUEST => startup.state = "sent3"
    /\ pend.type \in {CHANNEL_DATA, DISCONNECT} => "rude" \in hist \/ (pend.keys = ses.local /\ kx \in {"idle", "kexinit"})
    /\ pend.type \notin {-1, CHANNEL_DATA, DISCONNECT} => pend.keys = ses.local

\* Ciphers go with keys.
Cipher(keys) == IF keys = NoKeys THEN None ELSE Crypt
CipherInv ==
    /\ srv.crypt = Cipher(srv.send) /\ pend.crypt = Cipher(pend.keys)
    /\ \A i \in 1..Len(inbound) : inbound[i].crypt = Cipher(inbound[i].keys)
    /\ \A i \in 1..Len(outbound) : outbound[i].crypt = Cipher(outbound[i].keys)

\* The stages the server has come to in what it sends, w, and in what it reads, r.
Served(w, r) ==
    /\ w.n = srv.send[2] /\ srv.send = KeysOf(w.n)
    /\ r.n = srv.recv[2] /\ srv.recv = KeysOf(r.n)
    /\ \/ srv.phase = "quiet" /\ w = Stage("quiet", srv.n) /\ r = Stage("idle", srv.n)
       \/ srv.phase = "offered" /\ w = Stage("open", srv.n - 1) /\ r = Stage("idle", srv.n - 1)
       \/ srv.phase = "agreed" /\ w = Stage("open", srv.n - 1) /\ r = Stage("agreed", srv.n - 1)
       \/ srv.phase = "agreed" /\ w = Stage("grouped", srv.n - 1) /\ r = Stage("asked", srv.n - 1)
       \/ srv.phase = "replied" /\ w = Stage("replied", srv.n - 1) /\ r = Stage("bound", srv.n - 1)
       \/ srv.phase = "replied" /\ w = Stage("quiet", srv.n) /\ r = Stage("bound", srv.n - 1)
       \/ srv.phase = "replied" /\ w = Stage("replied", srv.n - 1) /\ r = Stage("idle", srv.n)
       \/ srv.phase = "gone" /\ w.st = "end"

\* The stage the client has come to in what it writes, and those it may have come to in
\* what it reads.
Speaks ==
    CASE kx \in {"idle", "kexinit"} -> Stage("idle", ses.local[2])
      [] kx \in {"require", "request"} -> Stage("agreed", ses.local[2])
      [] kx = "group" -> Stage("asked", ses.local[2])
      [] kx = "init" -> Stage(IF InitType = KEXDH_INIT THEN "agreed" ELSE "asked", ses.local[2])
      [] kx \in {"burn", "reply", "newkeys"} -> Stage("bound", ses.local[2])
      [] kx = "install" -> Stage("idle", ses.local[2] + 1)

\* The brigade holds no packet of an exchange.
Tidy(b, T) == \A i \in 1..Len(b) : b[i].type \notin T
ExchangePackets == {KEXINIT, NEWKEYS, KEXDH_REPLY, KEX_DH_GEX_REPLY}

\* KEXINIT was read and is the last packet of the brigade.
Offered == 
    /\ Len(brigade) > 0 /\ brigade[Len(brigade)].type = KEXINIT
    /\ \A i \in 1..(Len(brigade) - 1) : brigade[i].type \notin ExchangePackets

Fresh == app = "starting" /\ startup.state \in {"idle", "created", "sent"}
Spoilt == srv.offer.follows /\ ~ses.group

\* The method has a group, or asks for one and was given it, or was given the packet that
\* was sent ahead.
Grouped(s) ==
    \/ InitType = KEXDH_INIT /\ ses.group /\ s = OfferStage
    \/ InitType = KEX_DH_GEX_INIT /\ OfferStage = "open" /\ ses.group /\ s = "grouped"
    \/ InitType = KEX_DH_GEX_INIT /\ Spoilt /\ s = "open"

Hears(s) ==
    /\ Fresh => s = "fresh"
    /\ kx = "idle" /\ ~Fresh => s = "quiet"
    /\ kx \in {"kexinit", "require"} =>
         \/ s = "quiet" /\ Tidy(brigade, ExchangePackets)
         \/ s = OfferStage /\ Offered /\ (kx = "require" => ~asked)
    /\ kx \in {"request", "group"} => s = OfferStage /\ ses.group /\ InitType = KEX_DH_GEX_INIT
    /\ kx \in {"init", "burn"} => Grouped(s)
    /\ kx = "burn" => OfferStage = "offered"
    /\ kx = "reply" =>
         \/ InitType = KEXDH_INIT /\ ses.group /\ s \in {OfferStage, "open"}
         \/ InitType = KEX_DH_GEX_INIT /\ ses.group /\ s = "grouped"
         \/ InitType = KEX_DH_GEX_INIT /\ Spoilt /\ s \in {"open", "grouped"} /\ Tidy(brigade, ExchangePackets \ {KEXDH_REPLY})
    /\ kx \in {"newkeys", "install"} => s = "replied" /\ ses.from = ses.local[2] + 1
    /\ kx \notin {"kexinit", "require"} /\ ~(kx = "reply" /\ Spoilt) => Tidy(brigade, ExchangePackets)
HeardInv(a) ==
    /\ a.n = ses.local[2] \/ a.st = "end"
    /\ a.st = "end" => disc
    /\ a.st # "end" => Hears(a.st)

Limit(b) == b.n <= ses.local[2] \/ b = Stage("idle", ses.local[2] + 1)

\* Both directions lead from one side to the other.
InSide(w) == \E a \in Stages : Joined(hist, inbound, a, w) /\ HeardInv(a)
OutSide(r) == \E b \in Stages : Joined(hist, outbound, r, b) /\ Limit(b) /\ (Alive => b = Speaks)
Agreement ==
    Ok => \E w \in Stages, r \in Stages :
            Served(w, r) /\ (Alive => InSide(w)) /\ (srv.phase # "gone" => OutSide(r))

CauseInv ==
    /\ "failed" \in hist => FailureHasCause
    /\ \A i \in 1..Len(inbound) : inbound[i].type = ReplyType /\ ~inbound[i].ok => srv.lied # {} \/ srv.offer.follows
    /\ ses.burn => srv.offer.follows

KInv == HeldInv /\ CallInv /\ PendInv /\ CipherInv /\ Agreement /\ CauseInv /\ KeysAgree

\* DISCONNECT is the last word of the client.
ByeInv == \A i \in 1..Len(outbound) : outbound[i].type = DISCONNECT => ~Alive
-----------------------------------------------------------------------------
(***************************************************************************)
(* Paths of packets.                                                       *)
(***************************************************************************)
\* No packet leads nowhere.
LEMMA PathNil ==
    ASSUME NEW half, NEW offer, NEW h, NEW a \in Stages, NEW q, q = <<>>
    PROVE  Path(half, offer, h, q, a, a)
<1>1. PICK f \in Seq(Stages) : Len(f) = 1 /\ f[1] = a
  <2>1. <<a>> \in Seq(Stages) /\ Len(<<a>>) = 1 /\ <<a>>[1] = a
    OBVIOUS
  <2> QED
    BY <2>1
<1>2. Len(q) = 0
  OBVIOUS
<1>3. Len(f) = Len(q) + 1 /\ f[Len(q) + 1] = a /\ \A i \in 1..Len(q) : Moves(half, offer, h, f[i], q[i], f[i + 1])
  BY <1>1, <1>2
<1> QED
  BY <1>1, <1>3 DEF Path

\* A packet more leads a stage further.
LEMMA PathAppend ==
    ASSUME NEW half, NEW offer, NEW h, NEW q \in Seq(Packets), NEW a \in Stages, NEW b \in Stages,
           NEW c \in Stages, NEW p \in Packets,
           Path(half, offer, h, q, a, b), Moves(half, offer, h, b, p, c)
    PROVE  Path(half, offer, h, Append(q, p), a, c)
<1>1. PICK f \in Seq(Stages) :
        /\ Len(f) = Len(q) + 1 /\ f[1] = a /\ f[Len(q) + 1] = b
        /\ \A i \in 1..Len(q) : Moves(half, offer, h, f[i], q[i], f[i + 1])
  BY DEF Path
<1> DEFINE g == Append(f, c)
           s == Append(q, p)
<1>2. /\ Len(q) \in Nat /\ Len(s) = Len(q) + 1 /\ s[Len(q) + 1] = p
      /\ \A i \in 1..Len(q) : s[i] = q[i]
  OBVIOUS
<1>3. /\ g \in Seq(Stages) /\ Len(g) = Len(f) + 1 /\ g[Len(f) + 1] = c
      /\ \A i \in 1..Len(f) : g[i] = f[i]
  BY <1>1
<1> HIDE DEF g, s
<1>4. Len(g) = Len(s) + 1 /\ g[1] = a /\ g[Len(s) + 1] = c
  BY <1>1, <1>2, <1>3
<1>5. ASSUME NEW i \in 1..Len(s)
      PROVE  Moves(half, offer, h, g[i], s[i], g[i + 1])
  <2>1. CASE i \in 1..Len(q)
    <3>1. g[i] = f[i] /\ g[i + 1] = f[i + 1] /\ s[i] = q[i]
      BY <1>1, <1>2, <1>3, <2>1
    <3> QED
      BY <1>1, <2>1, <3>1
  <2>2. CASE i = Len(q) + 1
    <3>1. g[i] = b /\ g[i + 1] = c /\ s[i] = p
      BY <1>1, <1>2, <1>3, <2>2
    <3> QED
      BY <3>1
  <2> QED
    BY <1>2, <2>1, <2>2
<1>6. Path(half, offer, h, s, a, c)
  BY <1>3, <1>4, <1>5 DEF Path
<1> QED
  BY <1>6 DEF s

\* The first packet leads to the stage where the others begin.
LEMMA PathTail ==
    ASSUME NEW half, NEW offer, NEW h, NEW q \in Seq(Packets), NEW a \in Stages, NEW b \in Stages,
           q # <<>>, Path(half, offer, h, q, a, b)
    PROVE  \E c \in Stages : Moves(half, offer, h, a, Head(q), c) /\ Path(half, offer, h, Tail(q), c, b)
<1>1. PICK f \in Seq(Stages) :
        /\ Len(f) = Len(q) + 1 /\ f[1] = a /\ f[Len(q) + 1] = b
        /\ \A i \in 1..Len(q) : Moves(half, offer, h, f[i], q[i], f[i + 1])
  BY DEF Path
<1> DEFINE g == Tail(f)
           s == Tail(q)
<1>2. Len(q) \in Nat /\ Len(q) > 0 /\ Len(s) = Len(q) - 1 /\ Head(q) = q[1] /\ \A i \in 1..Len(s) : s[i] = q[i + 1]
  OBVIOUS
<1>3. g \in Seq(Stages) /\ Len(g) = Len(f) - 1 /\ \A i \in 1..Len(g) : g[i] = f[i + 1]
  BY <1>1, <1>2
<1> HIDE DEF g, s
<1>4. Len(g) = Len(s) + 1 /\ g[1] = f[2] /\ g[Len(s) + 1] = b /\ f[2] \in Stages
  BY <1>1, <1>2, <1>3
<1>5. ASSUME NEW i \in 1..Len(s)
      PROVE  Moves(half, offer, h, g[i], s[i], g[i + 1])
  <2>1. g[i] = f[i + 1] /\ g[i + 1] = f[(i + 1) + 1] /\ s[i] = q[i + 1] /\ i + 1 \in 1..Len(q)
    BY <1>1, <1>2, <1>3
  <2> QED
    BY <1>1, <2>1
<1>6. Path(half, offer, h, s, f[2], b)
  BY <1>3, <1>4, <1>5 DEF Path
<1>7. Moves(half, offer, h, a, Head(q), f[2])
  <2>1. 1 \in 1..Len(q) /\ 1 + 1 = 2
    BY <1>2
  <2> QED
    BY <1>1, <1>2, <2>1
<1> QED
  BY <1>4, <1>6, <1>7 DEF s

\* What was not rude becomes no less so.
LEMMA PathLax ==
    ASSUME NEW half, NEW offer, NEW h, NEW h2, h \subseteq h2, NEW q, NEW a, NEW b,
           Path(half, offer, h, q, a, b)
    PROVE  Path(half, offer, h2, q, a, b)
<1>1. \A x, p, y : Moves(half, offer, h, x, p, y) => Moves(half, offer, h2, x, p, y)
  BY DEF Moves, Keyed
<1> QED
  BY <1>1 DEF Path

\* The first stage on a path that is not where it began, if there is one.
LEMMA PathTurns ==
    ASSUME NEW half, NEW offer, NEW h, NEW q \in Seq(Packets), NEW a \in Stages, NEW b \in Stages,
           Path(half, offer, h, q, a, b), a # b
    PROVE  \E i \in 1..Len(q), c \in Stages :
             /\ c # a /\ Moves(half, offer, h, a, q[i], c)
             /\ c = b \/ \E p \in Packets, d \in Stages : Moves(half, offer, h, c, p, d)
<1>1. PICK f \in Seq(Stages) :
        /\ Len(f) = Len(q) + 1 /\ f[1] = a /\ f[Len(q) + 1] = b
        /\ \A i \in 1..Len(q) : Moves(half, offer, h, f[i], q[i], f[i + 1])
  BY DEF Path
<1>2. Len(q) \in Nat
  OBVIOUS
<1> DEFINE S == {i \in 1..Len(f) : f[i] # a}
<1>3. PICK k \in S : \A i \in S : k <= i
  <2>1. S \subseteq Nat /\ S # {}
    BY <1>1, <1>2
  <2> HIDE DEF S
  <2>2. Min(S) \in S /\ \A i \in S : Min(S) <= i
    BY <2>1, MinFacts
  <2> QED
    BY <2>2
<1>4. PICK i \in 1..Len(q) : i = k - 1
  BY <1>1, <1>2, <1>3
<1>5. i \notin S /\ i + 1 = k /\ i \in 1..Len(f)
  BY <1>1, <1>2, <1>3, <1>4
<1>6. f[i] = a /\ f[k] # a /\ f[k] \in Stages
  BY <1>1, <1>3, <1>5
<1>7. Moves(half, offer, h, a, q[i], f[k])
  BY <1>1, <1>4, <1>5, <1>6
<1>8. CASE k = Len(q) + 1
  BY <1>1, <1>6, <1>7, <1>8
<1>9. CASE k # Len(q) + 1
  <2>0. k \in 1..Len(f)
    BY <1>3
  <2>3. PICK m \in Nat : m = Len(q) /\ Len(f) = m + 1
    BY <1>1, <1>2
  <2>4. k \in 1..(m + 1) /\ k # m + 1
    BY <1>9, <2>0, <2>3
  <2>5. k \in 1..m /\ k + 1 \in 1..(m + 1)
    BY <2>4
  <2>1. k \in 1..Len(q) /\ k + 1 \in 1..Len(f)
    BY <2>3, <2>5
  <2>2. Moves(half, offer, h, f[k], q[k], f[k + 1]) /\ q[k] \in Packets /\ f[k + 1] \in Stages
    BY <1>1, <2>1
  <2> QED
    BY <1>6, <1>7, <2>2
<1> QED
  BY <1>8, <1>9

\* A path leads on.
Earlier(a, b) == a.n < b.n \/ (a.n = b.n /\ (b.st = "idle" => a.st = "idle"))

\* Stages are numbered in the order they come in.
LEMMA PathLeadsOn ==
    ASSUME NEW half, NEW offer \in {"offered", "open"}, NEW h, NEW q \in Seq(Packets),
           NEW a \in Stages, NEW b \in Stages, Path(half, offer, h, q, a, b)
    PROVE  Earlier(a, b)
<1>1. PICK f \in Seq(Stages) :
        /\ Len(f) = Len(q) + 1 /\ f[1] = a /\ f[Len(q) + 1] = b
        /\ \A i \in 1..Len(q) : Moves(half, offer, h, f[i], q[i], f[i + 1])
  BY DEF Path
<1>2. Len(q) \in Nat
  OBVIOUS
<1>3. ASSUME NEW x \in Stages, NEW p, NEW y, Moves(half, offer, h, x, p, y), Earlier(a, x)
      PROVE  Earlier(a, y)
  <2>1. x.n \in Nat /\ a.n \in Nat
    BY DEF Stages
  <2>2. (y.n = x.n \/ y.n = x.n + 1) /\ (y.n = x.n /\ y.st = "idle" => x.st = "idle")
    <3>1. CASE ServerMoves(half, offer, x, p, y)
      BY <2>1, <3>1 DEF ServerMoves, Stage
    <3>2. CASE ClientMoves(half, x, p, y)
      BY <2>1, <3>2 DEF ClientMoves, Stage
    <3> QED
      BY <1>3, <3>1, <3>2 DEF Moves
  <2> QED
    BY <1>3, <2>1, <2>2 DEF Earlier
<1> DEFINE S == {i \in 1..Len(f) : ~Earlier(a, f[i])}
<1>4. ASSUME S # {} PROVE FALSE
  <2>1. PICK k \in S : \A i \in S : k <= i
    <3>1. S \subseteq Nat
      BY <1>1, <1>2
    <3> HIDE DEF S
    <3>2. Min(S) \in S /\ \A i \in S : Min(S) <= i
      BY <1>4, <3>1, MinFacts
    <3> QED
      BY <3>2
  <2>2. Earlier(a, f[1])
    BY <1>1 DEF Earlier
  <2>3. PICK i \in 1..Len(q) : i = k - 1
    BY <1>1, <1>2, <2>1, <2>2
  <2>4. i \notin S /\ i + 1 = k /\ i \in 1..Len(f)
    BY <1>1, <1>2, <2>1, <2>3
  <2>5. Moves(half, offer, h, f[i], q[i], f[k]) /\ Earlier(a, f[i]) /\ f[i] \in Stages
    BY <1>1, <2>4
  <2> QED
    BY <1>3, <2>1, <2>5
<1>5. Len(q) + 1 \in 1..Len(f)
  BY <1>1, <1>2
<1> QED
  BY <1>1, <1>4, <1>5
-----------------------------------------------------------------------------
(***************************************************************************)
(* Both sides.                                                             *)
(***************************************************************************)
\* What depends on the offer of the server alone.
LEMMA Conditions ==
    InitType \in {30, 32} /\ OfferStage \in {"offered", "open"} /\ ReplyType = InitType + 1
BY DEF InitType, OfferStage, ReplyType, KEXDH_INIT, KEX_DH_GEX_INIT, KEXDH_REPLY, KEX_DH_GEX_REPLY

\* They stay while the offer does.
LEMMA SameConditions ==
    ASSUME srv'.offer = srv.offer
    PROVE  /\ InitType' = InitType /\ OfferStage' = OfferStage /\ ReplyType' = ReplyType
           /\ Method' = Method /\ Crypt' = Crypt
           /\ \A keys : Cipher(keys)' = Cipher(keys)
           /\ \A a, b : Joined(hist, inbound, a, b)' <=> Path(InitType, OfferStage, hist', inbound', a, b)
           /\ \A a, b : Joined(hist, outbound, a, b)' <=> Path(InitType, OfferStage, hist', outbound', a, b)
<1>1. Method' = Method /\ Crypt' = Crypt
  BY DEF Method, Crypt
<1>2. InitType' = InitType /\ OfferStage' = OfferStage /\ ReplyType' = ReplyType
  BY <1>1 DEF InitType, OfferStage, ReplyType
<1>3. \A keys : Cipher(keys)' = Cipher(keys)
  BY <1>1 DEF Cipher
<1>4. /\ \A a, b : Joined(hist, inbound, a, b)' <=> Path(InitType, OfferStage, hist', inbound', a, b)
      /\ \A a, b : Joined(hist, outbound, a, b)' <=> Path(InitType, OfferStage, hist', outbound', a, b)
  BY <1>2, Zenon DEF Joined
<1> QED
  BY <1>1, <1>2, <1>3, <1>4

\* What the client says next is at a stage of its own.
SpeaksTyped == Speaks \in Stages /\ Speaks.st \in ClientStages /\ Limit(Speaks)

\* The stage is one of the client, and within its limit.
LEMMA SpeaksFacts == SessionTypes => SpeaksTyped
<1> SUFFICES ASSUME SessionTypes PROVE SpeaksTyped
  OBVIOUS
<1>1. PICK c \in Nat : c = ses.local[2]
  BY DEF SessionTypes, Keys
<1>2. \E st \in ClientStages, n \in {c, c + 1} : Speaks = Stage(st, n) /\ (n = c + 1 => st = "idle")
  BY <1>1 DEF SessionTypes, Bargained, Speaks, ClientStages
<1>3. PICK st \in ClientStages, n \in {c, c + 1} : Speaks = Stage(st, n) /\ (n = c + 1 => st = "idle")
  BY <1>2
<1>4. n \in Nat
  BY <1>1
<1> QED
  BY <1>1, <1>3, <1>4 DEF Stage, Stages, Limit, SpeaksTyped

\* Nothing is read.
LEMMA InKept ==
    ASSUME srv' = srv, hist \subseteq hist', inbound' = inbound, NEW w \in Stages, InSide(w),
           \A a \in Stages : HeardInv(a) => HeardInv(a)'
    PROVE  InSide(w)'
<1>1. PICK a \in Stages : Joined(hist, inbound, a, w) /\ HeardInv(a)
  BY DEF InSide
<1>2. Path(InitType, OfferStage, hist', inbound', a, w)
  BY <1>1, PathLax DEF Joined
<1>3. Joined(hist, inbound, a, w)'
  BY <1>2, SameConditions
<1> QED
  BY <1>1, <1>3 DEF InSide

\* A packet is read.
LEMMA InRead ==
    ASSUME inbound \in Seq(Packets), srv' = srv, hist \subseteq hist', inbound # <<>>, inbound' = Tail(inbound),
           NEW w \in Stages, InSide(w),
           \A a \in Stages, b \in Stages :
             HeardInv(a) /\ Moves(InitType, OfferStage, hist, a, Head(inbound), b) => HeardInv(b)'
    PROVE  InSide(w)'
<1>1. PICK a \in Stages : Joined(hist, inbound, a, w) /\ HeardInv(a)
  BY DEF InSide
<1>2. PICK q \in Seq(Packets) : q = inbound /\ q # <<>>
  OBVIOUS
<1>3. PICK half, offer, h : half = InitType /\ offer = OfferStage /\ h = hist
  OBVIOUS
<1>4. Path(half, offer, h, q, a, w)
  BY <1>1, <1>2, <1>3 DEF Joined
<1>5. PICK b \in Stages : Moves(half, offer, h, a, Head(q), b) /\ Path(half, offer, h, Tail(q), b, w)
  BY <1>2, <1>4, PathTail
<1>6. Path(InitType, OfferStage, hist, inbound', b, w) /\ HeardInv(b)'
  BY <1>1, <1>2, <1>3, <1>5
<1>7. Path(InitType, OfferStage, hist', inbound', b, w)
  BY <1>6, PathLax
<1>8. Joined(hist, inbound, b, w)'
  BY <1>7, SameConditions
<1> QED
  BY <1>6, <1>8 DEF InSide

\* Nothing is written.
LEMMA OutKept ==
    ASSUME SessionTypes, SessionTypes', srv' = srv, hist \subseteq hist', outbound' = outbound,
           NEW r \in Stages, OutSide(r),
           ses'.local[2] \in {ses.local[2], ses.local[2] + 1},
           Alive' => Alive /\ Speaks' = Speaks
    PROVE  OutSide(r)'
<1>1. PICK b \in Stages : Joined(hist, outbound, r, b) /\ Limit(b) /\ (Alive => b = Speaks)
  BY DEF OutSide
<1>2. Path(InitType, OfferStage, hist', outbound', r, b)
  BY <1>1, PathLax DEF Joined
<1>3. Joined(hist, outbound, r, b)'
  BY <1>2, SameConditions
<1>4. Limit(b)'
  <2>1. PICK c \in Nat : c = ses.local[2]
    BY DEF SessionTypes, Keys
  <2>2. b.n \in Nat /\ (b.n <= c \/ b = Stage("idle", c + 1))
    BY <1>1, <2>1 DEF Limit, Stages
  <2>3. CASE ses'.local[2] = c
    BY <2>2, <2>3 DEF Limit
  <2>4. CASE ses'.local[2] = c + 1
    <3>1. b.n <= c + 1
      BY <2>2 DEF Stage
    <3> QED
      BY <2>4, <3>1 DEF Limit
  <2> QED
    BY <2>1, <2>3, <2>4
<1> QED
  BY <1>1, <1>3, <1>4 DEF OutSide

\* A packet is written.
LEMMA OutSent ==
    ASSUME SessionTypes, SessionTypes', outbound \in Seq(Packets), srv' = srv, hist \subseteq hist', Alive,
           NEW p \in Packets, outbound' = Append(outbound, p),
           NEW r \in Stages, OutSide(r), Moves(InitType, OfferStage, hist', Speaks, p, Speaks')
    PROVE  OutSide(r)'
<1>1. PICK b \in Stages : Joined(hist, outbound, r, b) /\ b = Speaks
  BY DEF OutSide
<1>2. PICK c \in Stages : c = Speaks' /\ Limit(c)'
  <2>1. SpeaksTyped'
    BY SpeaksFacts, PTL
  <2>2. Speaks' \in Stages /\ Limit(Speaks)'
    BY <2>1 DEF SpeaksTyped
  <2> QED
    BY <2>2
<1>3. Path(InitType, OfferStage, hist', outbound, r, b)
  BY <1>1, PathLax DEF Joined
<1>4. PICK q \in Seq(Packets) : q = outbound
  OBVIOUS
<1>5. PICK half, offer, h : half = InitType /\ offer = OfferStage /\ h = hist'
  OBVIOUS
<1>6. Path(half, offer, h, q, r, b) /\ Moves(half, offer, h, b, p, c)
  BY <1>1, <1>2, <1>3, <1>4, <1>5
<1>7. Path(half, offer, h, Append(q, p), r, c)
  BY <1>6, PathAppend
<1>8. Joined(hist, outbound, r, c)'
  BY <1>4, <1>5, <1>7, SameConditions
<1> QED
  BY <1>2, <1>8 DEF OutSide

\* What a step of the client has to show.
LEMMA ClientAgrees ==
    ASSUME Agreement, srv' = srv, Ok' => Ok, Alive' => Alive,
           \A w \in Stages : Ok' /\ Alive' /\ InSide(w) => InSide(w)',
           \A r \in Stages : Ok' /\ srv.phase # "gone" /\ OutSide(r) => OutSide(r)'
    PROVE  Agreement'
<1> SUFFICES ASSUME Ok'
             PROVE  \E w \in Stages, r \in Stages :
                      Served(w, r)' /\ (Alive' => InSide(w)') /\ (srv'.phase # "gone" => OutSide(r)')
  BY DEF Agreement
<1>1. PICK w \in Stages, r \in Stages :
        Served(w, r) /\ (Alive => InSide(w)) /\ (srv.phase # "gone" => OutSide(r))
  BY DEF Agreement
<1>2. Served(w, r)'
  BY <1>1 DEF Served
<1> QED
  BY <1>1, <1>2
-----------------------------------------------------------------------------
(***************************************************************************)
(* Reading.                                                                *)
(***************************************************************************)
\* What the client may be at is a stage of the server's that has not ended.
LEMMA HeardStage ==
    ASSUME SessionTypes, NEW a \in Stages, HeardInv(a), a.st # "end"
    PROVE  a.st \in ServerStages \ {"end"} /\ a.n = ses.local[2] /\ Hears(a.st)
<1>1. Hears(a.st) /\ a.n = ses.local[2]
  BY DEF HeardInv
<1>2. kx \in {"idle", "kexinit", "require", "request", "group", "init", "burn", "reply", "newkeys", "install"}
  BY DEF SessionTypes, Bargained
<1>3. OfferStage \in {"offered", "open"}
  BY Conditions
<1>4. a.st \in {"fresh", "quiet", "offered", "open", "grouped", "replied"}
  <2>1. CASE Fresh
    BY <1>1, <2>1 DEF Hears
  <2>2. CASE ~Fresh /\ kx = "idle"
    BY <1>1, <2>2 DEF Hears
  <2>3. CASE kx \in {"kexinit", "require"}
    BY <1>1, <1>3, <2>3, Zenon DEF Hears
  <2>4. CASE kx \in {"request", "group"}
    BY <1>1, <1>3, <2>4, Zenon DEF Hears
  <2>5. CASE kx \in {"init", "burn"}
    <3>1. Grouped(a.st)
      BY <1>1, <2>5, Zenon DEF Hears
    <3> QED
      BY <1>3, <3>1 DEF Grouped
  <2>6. CASE kx = "reply"
    BY <1>1, <1>3, <2>6, Zenon DEF Hears
  <2>7. CASE kx \in {"newkeys", "install"}
    BY <1>1, <2>7, Zenon DEF Hears
  <2> QED
    BY <1>2, <2>1, <2>2, <2>3, <2>4, <2>5, <2>6, <2>7
<1> QED
  BY <1>1, <1>4 DEF ServerStages

\* A packet that leads on from there is made with the keys in use.
LEMMA HeardMove ==
    ASSUME SessionTypes, NEW a \in Stages, NEW b \in Stages, NEW p \in Packets, HeardInv(a),
           Moves(InitType, OfferStage, hist, a, p, b)
    PROVE  /\ a.st \in ServerStages \ {"end"} /\ a.n = ses.local[2] /\ Hears(a.st)
           /\ p.keys = KeysOf(ses.local[2]) /\ ServerMoves(InitType, OfferStage, a, p, b)
           /\ b.st = "end" <=> p.type = DISCONNECT
           /\ p.type = BANNER => a.st = "fresh"
<1>1. a.st \in ServerStages \cup ClientStages
  BY DEF Stages
<1>2. a.st # "end"
  BY DEF Moves, ServerMoves, ClientMoves, ServerStages, ClientStages, Ready
<1>3. a.st \in ServerStages \ {"end"} /\ a.n = ses.local[2] /\ Hears(a.st)
  BY <1>2, HeardStage
<1>4. ~ClientMoves(InitType, a, p, b)
  BY <1>3 DEF ClientMoves, ServerStages, ClientStages, Ready
<1>5. ServerMoves(InitType, OfferStage, a, p, b)
  BY <1>4 DEF Moves
<1>6. p.keys = KeysOf(a.n)
  BY <1>3 DEF Moves, Keyed, ServerStages, ClientStages
<1>7. InitType + 1 \in {31, 33} /\ OfferStage \in {"offered", "open"}
  BY Conditions
<1>8. (b.st = "end" <=> p.type = DISCONNECT) /\ (p.type = BANNER => a.st = "fresh")
  BY <1>3, <1>5, <1>7 DEF ServerMoves, Stage, BANNER, DISCONNECT, CHANNEL_DATA, SERVICE_ACCEPT, KEXINIT,
     KEXDH_REPLY, KEX_DH_GEX_GROUP, NEWKEYS, ServerStages
<1> QED
  BY <1>3, <1>5, <1>6, <1>8

\* The next packet is read with the keys and the cipher it was made with.  After DISCONNECT
\* there is none.
LEMMA HeadFacts ==
    ASSUME IInv, HeldInv, CipherInv, Agreement, Ok, Alive, inbound # <<>>
    PROVE  /\ Head(inbound) \in Packets /\ ~Wrong(Head(inbound))
           /\ Head(inbound).type = DISCONNECT => srv.phase = "gone"
           /\ \E w \in Stages, a \in Stages, b \in Stages :
                Joined(hist, inbound, a, w) /\ HeardInv(a) /\ Moves(InitType, OfferStage, hist, a, Head(inbound), b)
<1>1. SessionTypes /\ SessionInv /\ inbound \in Seq(Packets)
  BY DEF IInv, Types, WireTypes
<1>2. PICK w \in Stages, r \in Stages : Served(w, r) /\ InSide(w)
  BY DEF Agreement
<1>3. PICK a \in Stages : Joined(hist, inbound, a, w) /\ HeardInv(a)
  BY <1>2 DEF InSide
<1>4. PICK q \in Seq(Packets) : q = inbound /\ q # <<>>
  BY <1>1
<1>5. PICK half, offer, h : half = InitType /\ offer = OfferStage /\ h = hist
  OBVIOUS
<1>6. Path(half, offer, h, q, a, w)
  BY <1>3, <1>4, <1>5 DEF Joined
<1>7. PICK b \in Stages : Moves(half, offer, h, a, Head(q), b) /\ Path(half, offer, h, Tail(q), b, w)
  BY <1>4, <1>6, PathTail
<1>8. PICK p \in Packets : p = Head(inbound) /\ p = q[1]
  BY <1>4
<1>9. Moves(InitType, OfferStage, hist, a, p, b)
  BY <1>4, <1>5, <1>7, <1>8
<1>10. p.keys = KeysOf(ses.local[2]) /\ (b.st = "end" <=> p.type = DISCONNECT)
  BY <1>1, <1>3, <1>9, HeardMove
<1>11. p.keys = ses.local /\ ses.local = ses.remote
  BY <1>1, <1>10 DEF HeldInv, SessionInv
<1>12. p.crypt = Cipher(p.keys)
  <2>1. 1 \in 1..Len(inbound) /\ inbound[1] = p
    BY <1>4, <1>8
  <2> QED
    BY <2>1 DEF CipherInv
<1>13. Cipher(ses.local) = (IF flags.newkeys THEN ses.crypt ELSE None)
  BY <1>1 DEF Cipher, HeldInv, SessionInv
<1>14. ~Wrong(p)
  BY <1>11, <1>12, <1>13 DEF Wrong
<1>15. p.type = DISCONNECT => srv.phase = "gone"
  <2>1. ASSUME b.st = "end" PROVE w = b
    <3>1. SUFFICES ASSUME b # w PROVE FALSE
      OBVIOUS
    <3>2. Tail(q) \in Seq(Packets)
      BY <1>4
    <3>3. PICK i \in 1..Len(Tail(q)), c \in Stages : c # b /\ Moves(half, offer, h, b, Tail(q)[i], c)
      BY <1>7, <3>1, <3>2, PathTurns
    <3> QED
      BY <2>1, <3>3 DEF Moves, ServerMoves, ClientMoves, ClientStages, ServerStages, Ready
  <2>2. w.st = "end" => srv.phase = "gone"
    BY <1>2 DEF Served, Stage
  <2> QED
    BY <1>10, <2>1, <2>2
<1> QED
  BY <1>3, <1>8, <1>9, <1>14, <1>15
\* What a read comes to: nothing, DISCONNECT, or a packet that goes into the brigade.
ReadsNone ==
    /\ inbound' = inbound /\ (disc' <=> disc) /\ ReadBrigade = brigade
    /\ (ReadRc = 0 /\ disc) \/ ReadRc = EAGAIN
ReadsDisconnect ==
    /\ inbound # <<>> /\ inbound' = Tail(inbound) /\ Head(inbound).type = DISCONNECT
    /\ disc' /\ ReadRc = FAIL /\ ReadBrigade = brigade /\ srv.phase = "gone"
ReadsPacket ==
    /\ inbound # <<>> /\ inbound' = Tail(inbound) /\ Head(inbound).type # DISCONNECT
    /\ ~disc' /\ ~disc /\ ReadRc = Head(inbound).type
    /\ ReadBrigade = IF Head(inbound).type > 0 THEN Append(brigade, Head(inbound)) ELSE brigade

\* A packet that was read led from one stage to the next.
LEMMA ReadMoves ==
    ASSUME IInv, HeldInv, CipherInv, Agreement, Ok, Alive, Receives
    PROVE  (mismatch' => mismatch) /\ (ReadsNone \/ ReadsDisconnect \/ ReadsPacket)
<1>1. CASE disc \/ inbound = <<>>
  <2>1. inbound' = inbound /\ disc' = disc /\ mismatch' = mismatch
    BY <1>1 DEF Receives
  <2>2. (ReadRc = 0 /\ disc) \/ ReadRc = EAGAIN
    BY <1>1 DEF ReadRc
  <2>3. ~(ReadRc > 0)
    BY <2>2 DEF EAGAIN
  <2> QED
    BY <2>1, <2>2, <2>3 DEF ReadsNone, ReadBrigade
<1>2. CASE ~(disc \/ inbound = <<>>)
  <2>1. /\ Head(inbound) \in Packets /\ ~Wrong(Head(inbound))
        /\ Head(inbound).type = DISCONNECT => srv.phase = "gone"
    BY <1>2, HeadFacts
  <2>2. /\ inbound' = Tail(inbound) /\ mismatch' = (mismatch \/ Wrong(Head(inbound)))
        /\ disc' = (Head(inbound).type = DISCONNECT /\ ~Wrong(Head(inbound)))
    BY <1>2 DEF Receives
  <2>3. CASE Head(inbound).type = DISCONNECT
    <3>1. ReadRc = FAIL
      BY <1>2, <2>3 DEF ReadRc
    <3>2. ReadBrigade = brigade
      BY <3>1 DEF ReadBrigade, FAIL
    <3> QED
      BY <1>2, <2>1, <2>2, <2>3, <3>1, <3>2 DEF ReadsDisconnect
  <2>4. CASE Head(inbound).type # DISCONNECT
    <3>1. ReadRc = Head(inbound).type
      BY <1>2, <2>1, <2>4 DEF ReadRc
    <3>2. ReadBrigade = IF Head(inbound).type > 0 THEN Append(brigade, Head(inbound)) ELSE brigade
      BY <3>1 DEF ReadBrigade
    <3> QED
      BY <1>2, <2>1, <2>2, <2>4, <3>1, <3>2 DEF ReadsPacket
  <2> QED
    BY <2>3, <2>4
<1> QED
  BY <1>1, <1>2

\* Whatever is read, packets come from the front of the queue.
LEMMA ReadShortens ==
    ASSUME Receives
    PROVE  inbound' = inbound \/ (inbound # <<>> /\ inbound' = Tail(inbound))
BY DEF Receives

\* The last packet of a brigade is taken when it is the first of its type.
LEMMA TakeLast ==
    ASSUME NEW b \in Seq(Packets), Len(b) > 0, NEW type, b[Len(b)].type = type,
           \A i \in 1..(Len(b) - 1) : b[i].type # type
    PROVE  /\ ask(b, type) = b[Len(b)] /\ Len(Without(b, type)) = Len(b) - 1
           /\ \A i \in 1..(Len(b) - 1) : Without(b, type)[i] = b[i]
<1>1. PICK m \in Nat : m = Len(b) /\ m > 0
  OBVIOUS
<1>2. Asked(b, type) = {m}
  <2>1. DOMAIN b = 1..m /\ m \in 1..m
    BY <1>1
  <2>2. \A i \in 1..m : i # m => i \in 1..(m - 1)
    BY <1>1
  <2> QED
    BY <1>1, <2>1, <2>2 DEF Asked
<1>3. Min(Asked(b, type)) = m
  BY <1>1, <1>2, MinFacts
<1>4. ask(b, type) = b[m] /\ Without(b, type) = RemoveAt(b, m)
  BY <1>3 DEF ask, Without
<1> DEFINE l == SubSeq(b, 1, m - 1)
           r == SubSeq(b, m + 1, Len(b))
<1>5. l \in Seq(Packets) /\ r \in Seq(Packets) /\ Len(l) = m - 1 /\ Len(r) = 0 /\ \A i \in 1..(m - 1) : l[i] = b[i]
  BY <1>1
<1> HIDE DEF l, r
<1>6. RemoveAt(b, m) = l \o r
  BY DEF RemoveAt, l, r
<1>7. Len(l \o r) = Len(l) + Len(r)
        /\ \A i \in 1..(Len(l) + Len(r)) : (l \o r)[i] = IF i <= Len(l) THEN l[i] ELSE r[i - Len(l)]
  BY <1>5, ConcatProperties
<1>8. Len(l \o r) = m - 1 /\ \A i \in 1..(m - 1) : (l \o r)[i] = b[i]
  BY <1>1, <1>5, <1>7
<1> QED
  BY <1>1, <1>4, <1>6, <1>8

\* A packet that was read is taken at once, and what else is in the brigade stays.
LEMMA TakeRead ==
    ASSUME NEW b \in Seq(Packets), NEW p \in Packets, \A i \in 1..Len(b) : b[i].type # p.type
    PROVE  /\ ask(Append(b, p), p.type) = p
           /\ \A T : Tidy(b, T) => Tidy(Without(Append(b, p), p.type), T)
<1>1. PICK s, type : s = Append(b, p) /\ type = p.type
  OBVIOUS
<1>2. s \in Seq(Packets)
  BY <1>1, AppendProperties
<1>3. /\ Len(b) \in Nat /\ Len(s) = Len(b) + 1 /\ s[Len(s)] = p /\ Len(s) > 0 /\ Len(s) - 1 = Len(b)
      /\ \A i \in 1..Len(b) : s[i] = b[i]
  BY <1>1, AppendProperties
<1>4. s[Len(s)].type = type /\ \A i \in 1..(Len(s) - 1) : s[i].type # type
  BY <1>1, <1>3
<1>5. /\ ask(s, type) = s[Len(s)] /\ Len(Without(s, type)) = Len(s) - 1
      /\ \A i \in 1..(Len(s) - 1) : Without(s, type)[i] = s[i]
  <2>1. Len(s) > 0 /\ s[Len(s)].type = type
    BY <1>3, <1>4
  <2>2. \A i \in 1..(Len(s) - 1) : s[i].type # type
    BY <1>4
  <2> QED
    BY ONLY <1>2, <2>1, <2>2, TakeLast
<1>6. ask(s, type) = p
  BY <1>3, <1>5
<1>7. ASSUME NEW T, Tidy(b, T) PROVE Tidy(Without(s, type), T)
  <2>1. Len(Without(s, type)) = Len(b) /\ \A i \in 1..Len(b) : Without(s, type)[i] = b[i]
    BY <1>3, <1>5
  <2> QED
    BY <1>7, <2>1 DEF Tidy
<1> QED
  BY <1>1, <1>6, <1>7

\* What is taken leaves nothing behind that was not there.
LEMMA TakeTidy ==
    ASSUME NEW b \in Seq(Packets), NEW type, Asked(b, type) # {}, NEW T, Tidy(b, T)
    PROVE  Tidy(Without(b, type), T)
<1>1. Elems(Without(b, type)) \subseteq Elems(b)
  BY TakeFacts
<1> QED
  BY <1>1 DEF Elems, Tidy

\* A packet that belongs to no exchange leaves the brigade tidy.
LEMMA AppendTidy ==
    ASSUME NEW b \in Seq(Packets), NEW p \in Packets, NEW T, Tidy(b, T), p.type \notin T
    PROVE  Tidy(Append(b, p), T)
<1>1. /\ Len(b) \in Nat /\ Len(Append(b, p)) = Len(b) + 1 /\ Append(b, p)[Len(b) + 1] = p
      /\ \A i \in 1..Len(b) : Append(b, p)[i] = b[i]
  OBVIOUS
<1>2. PICK m \in Nat : m = Len(b)
  BY <1>1
<1>3. \A i \in 1..(m + 1) : i \in 1..m \/ i = m + 1
  BY <1>2
<1> QED
  BY <1>1, <1>2, <1>3, Zenon DEF Tidy
-----------------------------------------------------------------------------
(***************************************************************************)
(* What steps leave as it is.                                              *)
(***************************************************************************)
LEMMA HeardSame ==
    ASSUME srv'.offer = srv.offer, UNCHANGED <<kx, ses, brigade>>, asked' => asked, disc => disc',
           Fresh' <=> Fresh
    PROVE  \A a \in Stages : HeardInv(a) => HeardInv(a)'
<1>1. InitType' = InitType /\ OfferStage' = OfferStage
  BY SameConditions
<1>2. \A T : Tidy(brigade, T)' <=> Tidy(brigade, T)
  BY DEF Tidy
<1>3. Offered' <=> Offered
  BY DEF Offered
<1>4. Spoilt' <=> Spoilt
  BY DEF Spoilt
<1>5. \A s : Grouped(s)' <=> Grouped(s)
  BY <1>1, <1>4 DEF Grouped
<1>6. ASSUME NEW s, Hears(s) PROVE Hears(s)'
  <2>1. kx' = kx /\ ses' = ses /\ (asked' => asked) /\ brigade' = brigade
    OBVIOUS
  <2>2. (kx = "idle" /\ ~Fresh => s = "quiet") /\ (Fresh => s = "fresh")
    BY <1>6, Zenon DEF Hears
  <2>3. kx \in {"kexinit", "require"} =>
          \/ s = "quiet" /\ Tidy(brigade, ExchangePackets)
          \/ s = OfferStage /\ Offered /\ (kx = "require" => ~asked)
    BY <1>6, Zenon DEF Hears
  <2>4. /\ kx \in {"request", "group"} => s = OfferStage /\ ses.group /\ InitType = KEX_DH_GEX_INIT
        /\ kx \in {"init", "burn"} => Grouped(s)
        /\ kx = "burn" => OfferStage = "offered"
        /\ kx \in {"newkeys", "install"} => s = "replied" /\ ses.from = ses.local[2] + 1
    BY <1>6, Zenon DEF Hears
  <2>5. kx = "reply" =>
         \/ InitType = KEXDH_INIT /\ ses.group /\ s \in {OfferStage, "open"}
         \/ InitType = KEX_DH_GEX_INIT /\ ses.group /\ s = "grouped"
         \/ InitType = KEX_DH_GEX_INIT /\ Spoilt /\ s \in {"open", "grouped"} /\ Tidy(brigade, ExchangePackets \ {KEXDH_REPLY})
    BY <1>6, Zenon DEF Hears
  <2>6. kx \notin {"kexinit", "require"} /\ ~(kx = "reply" /\ Spoilt) => Tidy(brigade, ExchangePackets)
    BY <1>6, Zenon DEF Hears
  <2>7. (kx' = "idle" /\ ~Fresh' => s = "quiet") /\ (Fresh' => s = "fresh")
    BY <2>1, <2>2
  <2>8. kx' \in {"kexinit", "require"} =>
          \/ s = "quiet" /\ Tidy(brigade', ExchangePackets)
          \/ s = OfferStage' /\ Offered' /\ (kx' = "require" => ~asked')
    BY <1>1, <1>3, <2>1, <2>3, SMT
  <2>9. /\ kx' \in {"request", "group"} => s = OfferStage' /\ ses'.group /\ InitType' = KEX_DH_GEX_INIT
        /\ kx' \in {"init", "burn"} => Grouped(s)'
        /\ kx' = "burn" => OfferStage' = "offered"
        /\ kx' \in {"newkeys", "install"} => s = "replied" /\ ses'.from = ses'.local[2] + 1
    BY <1>1, <1>5, <2>1, <2>4, Zenon
  <2>10. kx' = "reply" =>
         \/ InitType' = KEXDH_INIT /\ ses'.group /\ s \in {OfferStage', "open"}
         \/ InitType' = KEX_DH_GEX_INIT /\ ses'.group /\ s = "grouped"
         \/ InitType' = KEX_DH_GEX_INIT /\ Spoilt' /\ s \in {"open", "grouped"} /\ Tidy(brigade', ExchangePackets \ {KEXDH_REPLY})
    BY <1>1, <1>4, <2>1, <2>5, Zenon
  <2>11. kx' \notin {"kexinit", "require"} /\ ~(kx' = "reply" /\ Spoilt') => Tidy(brigade', ExchangePackets)
    BY <1>4, <2>1, <2>6, Zenon
  <2> QED
    BY <2>7, <2>8, <2>9, <2>10, <2>11, Zenon DEF Hears
<1> QED
  BY <1>6 DEF HeardInv

\* What the client says next depends on its exchange and its keys alone.
LEMMA SpeaksSame ==
    ASSUME srv'.offer = srv.offer, kx' = kx, ses'.local = ses.local
    PROVE  Speaks' = Speaks
<1>1. InitType' = InitType
  BY SameConditions
<1> QED
  BY <1>1 DEF Speaks

\* Keys that stay are held as before.
LEMMA HeldKept ==
    ASSUME HeldInv, srv' = srv, ses'.local = ses.local, ses'.sid = ses.sid, flags'.newkeys = flags.newkeys,
           flags'.exchanging <=> kx' # "idle", Ok' => Ok
    PROVE  HeldInv'
BY DEF HeldInv

\* A cause of a failure is not taken back.
LEMMA CauseStays ==
    ASSUME srv' = srv, hist \subseteq hist', FailureHasCause
    PROVE  FailureHasCause'
BY DEF FailureHasCause

\* Packets that are read or not leave the rest as it was.
LEMMA CauseKept ==
    ASSUME IInv, CauseInv, srv' = srv, inbound' = inbound \/ (inbound # <<>> /\ inbound' = Tail(inbound)),
           hist \subseteq hist', "failed" \in hist' => "failed" \in hist \/ FailureHasCause',
           ses'.burn => ses.burn \/ srv.offer.follows
    PROVE  CauseInv'
<1>1. inbound \in Seq(Packets)
  BY DEF IInv, Types, WireTypes
<1>2. \A i \in 1..Len(inbound') : \E j \in 1..Len(inbound) : inbound'[i] = inbound[j]
  <2>1. CASE inbound' = inbound
    BY <2>1
  <2>2. CASE inbound # <<>> /\ inbound' = Tail(inbound)
    <3>1. /\ Len(inbound) \in Nat /\ Len(inbound) > 0 /\ Len(inbound') = Len(inbound) - 1
          /\ \A i \in 1..(Len(inbound) - 1) : inbound'[i] = inbound[i + 1]
      BY <1>1, <2>2
    <3>2. \A i \in 1..(Len(inbound) - 1) : i + 1 \in 1..Len(inbound)
      BY <3>1
    <3> QED
      BY <3>1, <3>2
  <2> QED
    BY <2>1, <2>2
<1>3. ReplyType' = ReplyType
  BY SameConditions
<1>4. \A i \in 1..Len(inbound') : inbound'[i].type = ReplyType /\ ~inbound'[i].ok => srv.lied # {} \/ srv.offer.follows
  BY <1>2 DEF CauseInv
<1>5. "failed" \in hist' => FailureHasCause'
  BY CauseStays DEF CauseInv
<1> QED
  BY <1>3, <1>4, <1>5 DEF CauseInv

\* What is left to read goes with its cipher.
LEMMA InCiphers ==
    ASSUME IInv, CipherInv, srv' = srv, inbound' = inbound \/ (inbound # <<>> /\ inbound' = Tail(inbound))
    PROVE  \A i \in 1..Len(inbound') : inbound'[i].crypt = Cipher(inbound'[i].keys)
<1>1. inbound \in Seq(Packets)
  BY DEF IInv, Types, WireTypes
<1>2. CASE inbound' = inbound
  BY <1>2 DEF CipherInv
<1>3. CASE inbound # <<>> /\ inbound' = Tail(inbound)
  <2>1. /\ Len(inbound) \in Nat /\ Len(inbound) > 0 /\ Len(inbound') = Len(inbound) - 1
        /\ \A i \in 1..(Len(inbound) - 1) : inbound'[i] = inbound[i + 1]
    BY <1>1, <1>3
  <2>2. \A i \in 1..(Len(inbound) - 1) : i + 1 \in 1..Len(inbound)
    BY <2>1
  <2> QED
    BY <2>1, <2>2 DEF CipherInv
<1> QED
  BY <1>2, <1>3

\* A packet is made with the keys and the cipher in use.
LEMMA PacketFacts ==
    ASSUME IInv, HeldInv, NEW type \in Nat
    PROVE  /\ Packet(type) \in Packets /\ Packet(type).type = type /\ Packet(type).keys = ses.local
           /\ Packet(type).crypt = Cipher(ses.local)
<1>1. SessionTypes /\ SessionInv
  BY DEF IInv, Types
<1>2. NoKeys \in Keys /\ None \in Methods(CryptMethods) /\ ses.local \in Keys /\ ses.crypt \in Methods(CryptMethods)
  BY <1>1 DEF NoKeys, Keys, Methods, SessionTypes
<1>3. CASE flags.newkeys
  BY <1>1, <1>2, <1>3 DEF Packet, Packets, HeldInv, SessionInv, Cipher
<1>4. CASE ~flags.newkeys
  BY <1>1, <1>2, <1>4 DEF Packet, Packets, HeldInv, SessionInv, Cipher
<1> QED
  BY <1>3, <1>4

\* What is written or half written is.
LEMMA SendCiphers ==
    ASSUME IInv, HeldInv, CipherInv, srv' = srv, NEW type \in Nat, NEW rc,
           Send(type, rc) \/ (outbound' = outbound /\ pend' = pend),
           inbound' = inbound \/ (inbound # <<>> /\ inbound' = Tail(inbound))
    PROVE  CipherInv'
<1>1. outbound \in Seq(Packets) /\ pend \in Packets
  BY DEF IInv, Types, WireTypes
<1>2. \A keys : Cipher(keys)' = Cipher(keys)
  BY SameConditions
<1>3. PICK q \in Packets : q = Packet(type) /\ q.crypt = Cipher(q.keys)
  BY PacketFacts
<1>4. NoPacket.crypt = Cipher(NoPacket.keys)
  BY DEF NoPacket, Cipher
<1>5. /\ pend' \in {pend, q, NoPacket}
      /\ outbound' = outbound \/ outbound' = Append(outbound, q) \/ outbound' = Append(outbound, pend)
  BY <1>3 DEF Send
<1>6. pend'.crypt = Cipher(pend'.keys)
  BY <1>3, <1>4, <1>5 DEF CipherInv
<1>7. PICK r \in Packets : (outbound' = outbound \/ outbound' = Append(outbound, r)) /\ r.crypt = Cipher(r.keys)
  BY <1>1, <1>3, <1>5 DEF CipherInv
<1>8. \A i \in 1..Len(outbound') : outbound'[i].crypt = Cipher(outbound'[i].keys)
  <2>1. CASE outbound' = outbound
    BY <2>1 DEF CipherInv
  <2>2. CASE outbound' = Append(outbound, r)
    <3>1. /\ Len(outbound) \in Nat /\ Len(outbound') = Len(outbound) + 1 /\ outbound'[Len(outbound) + 1] = r
          /\ \A i \in 1..Len(outbound) : outbound'[i] = outbound[i]
      BY <1>1, <2>2, AppendProperties
    <3> QED
      BY <1>7, <3>1 DEF CipherInv
  <2> QED
    BY <1>7, <2>1, <2>2
<1>9. \A i \in 1..Len(inbound') : inbound'[i].crypt = Cipher(inbound'[i].keys)
  BY InCiphers
<1>10. srv'.crypt = Cipher(srv'.send)
  BY DEF CipherInv
<1> QED
  BY <1>2, <1>6, <1>8, <1>9, <1>10 DEF CipherInv
-----------------------------------------------------------------------------
(***************************************************************************)
(* Calls that return.                                                      *)
(***************************************************************************)
\* A reader ends with what it read, or goes on to write.
LEMMA ReadEndsFacts ==
    ASSUME CallInv, call # Idle, call.op \in {"read", "write", "disconnect"}, NEW rc, ReadEnds(rc)
    PROVE  /\ call' \in Calls
           /\ \/ call' = Idle
              \/ call'.op \in {"read", "write", "disconnect"} /\ call'.at \in {"read", "write", "disconnect"}
                 /\ call'.by = None /\ app' = app
           /\ app' = app \/ app' = "failed"
<1>1. call \in Calls
  BY DEF CallInv
<1>2. Idle \in Calls
  BY DEF Idle, Calls, Operations
<1>3. CASE call.op = "write"
  <2>1. PICK at \in {"read", "write"} : at = IF rc > 0 THEN "read" ELSE "write"
    OBVIOUS
  <2>2. call' = [call EXCEPT !.by = None, !.at = at] /\ app' = app
    BY <1>3, <2>1 DEF ReadEnds
  <2>3. call' \in Calls
    BY <1>1, <2>2 DEF Calls, Operations
  <2>4. call'.op = "write" /\ call'.at = at /\ call'.by = None
    BY <1>1, <1>3, <2>2 DEF Calls
  <2> QED
    BY <2>2, <2>3, <2>4
<1>4. CASE call.op # "write"
  <2>1. call' = Idle /\ (app' = app \/ app' = "failed")
    BY <1>4 DEF ReadEnds
  <2> QED
    BY <1>2, <2>1
<1> QED
  BY <1>3, <1>4

\* What a return of kex_exchange leaves, when it does not end with new keys.
LEMMA Returns ==
    ASSUME SessionTypes, CallInv, InKex, kx # "idle", srv' = srv, ses'.local = ses.local,
           Ok /\ disc' => srv.phase = "gone", NEW rc \in {"EAGAIN", "FAIL"}, KexReturns(rc)
    PROVE  /\ CallInv' /\ startup' = startup /\ (flags'.newkeys <=> flags.newkeys)
           /\ (flags'.exchanging <=> kx' # "idle")
           /\ hist \subseteq hist' /\ (Alive' => Alive) /\ (Ok' => Ok)
           /\ rc = "EAGAIN" => kx' = kx /\ hist' = hist /\ app' = app
           /\ rc = "FAIL" => kx' = "idle" /\ ~(Ok' /\ Alive')
           /\ "failed" \in hist' => "failed" \in hist \/ (rc = "FAIL" /\ call.by # "startup")
           /\ rc = "FAIL" /\ pend.type \in {CHANNEL_DATA, DISCONNECT} => "halfSent" \in hist'
<1>1. /\ flags' = FlagsAfter(rc) /\ kx' = IF rc = "EAGAIN" THEN kx ELSE "idle"
      /\ hist' = hist \cup (IF rc = "FAIL" /\ call.by # "startup" THEN {"failed"} ELSE {})
                      \cup (IF pend.type \in {CHANNEL_DATA, DISCONNECT} /\ rc = "FAIL" THEN {"halfSent"} ELSE {})
  BY DEF KexReturns
<1>2. (flags'.newkeys <=> flags.newkeys) /\ (flags'.exchanging <=> rc = "EAGAIN")
  BY <1>1 DEF FlagsAfter, SessionTypes
<1>3. flags'.exchanging <=> kx' # "idle"
  BY <1>1, <1>2
<1>4. call \in Calls /\ call # Idle /\ Idle \in Calls
  BY DEF CallInv, InKex, Idle, None, Calls, Operations
<1>5. CASE call.by = "startup"
  <2>1. call' = Idle /\ startup' = startup /\ app' = IF rc = "EAGAIN" THEN app ELSE "failed"
    BY <1>5 DEF KexReturns
  <2>2. call.op = "startup" /\ app = "starting" /\ startup.state = "sent1"
    BY <1>4, <1>5 DEF CallInv
  <2>4. Ok' => Ok
    BY <1>1 DEF Ok
  <2>3. CallInv'
    BY <1>1, <1>4, <2>1, <2>2, <2>4 DEF CallInv, Idle, None
  <2>5. (Alive' => Alive) /\ (rc = "FAIL" => ~Alive')
    BY <2>1 DEF Alive
  <2>6. "failed" \in hist' => "failed" \in hist
    BY <1>1, <1>5
  <2> QED
    BY <1>1, <1>2, <1>3, <2>1, <2>3, <2>4, <2>5, <2>6
<1>6. CASE call.by # "startup"
  <2>1. call.op \in {"read", "write", "disconnect"} /\ app = "open"
    BY <1>4, <1>6 DEF CallInv, InKex
  <2>2. PICK r : ReadEnds(r) /\ startup' = startup /\ (rc = "EAGAIN" => r = EAGAIN)
    BY <1>6 DEF KexReturns
  <2>3. /\ call' \in Calls
        /\ \/ call' = Idle
           \/ call'.op \in {"read", "write", "disconnect"} /\ call'.at \in {"read", "write", "disconnect"}
              /\ call'.by = None /\ app' = app
        /\ app' = app \/ app' = "failed"
    BY <1>4, <2>1, <2>2, ReadEndsFacts
  <2>5. (Ok' => Ok) /\ (rc = "FAIL" => "failed" \in hist' /\ ~Ok')
    BY <1>1, <1>6 DEF Ok
  <2>4. CallInv'
    BY <2>1, <2>2, <2>3, <2>5 DEF CallInv, Idle, None
  <2>6. rc = "EAGAIN" => app' = app
    BY <2>2 DEF ReadEnds, EAGAIN, FAIL
  <2>7. Alive' => Alive
    BY <2>1 DEF Alive
  <2>8. "failed" \in hist' => "failed" \in hist \/ (rc = "FAIL" /\ call.by # "startup")
    BY <1>1
  <2>9. rc = "EAGAIN" => kx' = kx /\ hist' = hist
    BY <1>1
  <2> QED
    BY <1>1, <1>2, <1>3, <2>2, <2>4, <2>5, <2>6, <2>7, <2>8, <2>9
<1> QED
  BY <1>5, <1>6
-----------------------------------------------------------------------------
(***************************************************************************)
(* Steps of the client.                                                    *)
(***************************************************************************)
\* What a step of the client has to keep.
LEMMA ClientKeeps ==
    ASSUME KInv, srv' = srv, hist \subseteq hist', Ok' => Ok, Alive' => Alive,
           HeldInv', CallInv', PendInv', CipherInv', CauseInv', mismatch' => mismatch \/ ~Ok,
           \A w \in Stages : Ok' /\ Alive' /\ InSide(w) => InSide(w)',
           \A r \in Stages : Ok' /\ srv.phase # "gone" /\ OutSide(r) => OutSide(r)'
    PROVE  KInv'
<1>1. Agreement'
  BY ClientAgrees DEF KInv
<1>2. KeysAgree'
  BY DEF KInv, KeysAgree, Ok
<1> QED
  BY <1>1, <1>2 DEF KInv

\* Within an exchange, the application waits.
LEMMA InExchange ==
    ASSUME CallInv, InKex
    PROVE  Alive /\ (kx # "idle" => ~Fresh)
BY DEF CallInv, InKex, Alive, Fresh, Idle, None

\* Nothing is half sent.
LEMMA PendNone == ASSUME pend'.type = -1 PROVE PendInv'
BY DEF PendInv, SERVICE_REQUEST, CHANNEL_DATA, DISCONNECT

\* The packets of an exchange are not those that may be sent at any time.
LEMMA KexPacketFacts ==
    ASSUME IInv, kx \in {"kexinit", "request", "init", "newkeys"}
    PROVE  /\ KexPacket \in {KEXINIT, KEX_DH_GEX_REQUEST, InitType, NEWKEYS} /\ KexPacket \in Nat
           /\ KexPacket \notin {-1, CHANNEL_DATA, DISCONNECT, SERVICE_REQUEST}
           /\ kx = "kexinit" => KexPacket = KEXINIT
           /\ kx = "request" => KexPacket = KEX_DH_GEX_REQUEST /\ InitType = KEX_DH_GEX_INIT
           /\ kx = "init" => KexPacket = InitType
           /\ kx = "newkeys" => KexPacket = NEWKEYS
<1>1. ExchangeInv
  BY DEF IInv
<1>2. (kx = "init" => KexPacket = InitType) /\ (kx = "request" => InitType = KEX_DH_GEX_INIT)
  BY <1>1 DEF ExchangeInv, Bargained, KexPacket, InitType
<1>3. /\ kx = "kexinit" => KexPacket = KEXINIT
      /\ kx = "request" => KexPacket = KEX_DH_GEX_REQUEST
      /\ kx = "newkeys" => KexPacket = NEWKEYS
  BY DEF KexPacket
<1>4. InitType \in {30, 32}
  BY Conditions
<1>5. KexPacket \in {KEXINIT, KEX_DH_GEX_REQUEST, InitType, NEWKEYS}
  BY <1>2, <1>3
<1>6. KexPacket \in {20, 21, 30, 32, 34}
  BY <1>4, <1>5 DEF KEXINIT, KEX_DH_GEX_REQUEST, NEWKEYS
<1> QED
  BY <1>2, <1>3, <1>5, <1>6 DEF CHANNEL_DATA, DISCONNECT, SERVICE_REQUEST

\* A packet of the exchange takes the client to the stage of the next state.
LEMMA WritesMove ==
    ASSUME IInv, HeldInv, kx \in {"kexinit", "request", "init", "newkeys"}, NEW p \in Packets,
           p.type = KexPacket, p.keys = ses.local, srv' = srv, ses' = ses, kx' = Written
    PROVE  Moves(InitType, OfferStage, hist', Speaks, p, Speaks')
<1>1. PICK c \in Nat : c = ses.local[2]
  BY DEF IInv, Types, SessionTypes, Keys
<1>2. p.keys = KeysOf(c)
  BY <1>1 DEF HeldInv
<1>3. InitType' = InitType /\ InitType \in {KEXDH_INIT, KEX_DH_GEX_INIT}
  BY SameConditions DEF InitType
<1> DEFINE From == IF InitType = KEXDH_INIT THEN "agreed" ELSE "asked"
<1>4. /\ kx = "kexinit" => p.type = KEXINIT
      /\ kx = "request" => p.type = KEX_DH_GEX_REQUEST /\ InitType = KEX_DH_GEX_INIT
      /\ kx = "init" => p.type = InitType
      /\ kx = "newkeys" => p.type = NEWKEYS
  BY KexPacketFacts
<1>5. CASE kx = "kexinit"
  <2>1. kx' = "require"
    BY <1>5 DEF Written
  <2>2. Speaks = Stage("idle", c) /\ Speaks' = Stage("agreed", c)
    BY <1>1, <1>5, <2>1 DEF Speaks
  <2> QED
    BY <1>2, <1>4, <1>5, <2>2 DEF Moves, Keyed, ClientMoves, Stage
<1>6. CASE kx = "request"
  <2>1. kx' = "group"
    BY <1>6 DEF Written
  <2>2. Speaks = Stage("agreed", c) /\ Speaks' = Stage("asked", c)
    BY <1>1, <1>6, <2>1 DEF Speaks
  <2> QED
    BY <1>2, <1>4, <1>6, <2>2 DEF Moves, Keyed, ClientMoves, Stage
<1>7. CASE kx = "init"
  <2>1. kx' \in {"burn", "reply"}
    BY <1>7 DEF Written
  <2>2. Speaks = Stage(From, c) /\ Speaks' = Stage("bound", c)
    BY <1>1, <1>7, <2>1 DEF Speaks
  <2>3. From \in Ready(InitType) \ ServerStages
    BY DEF Ready, ServerStages
  <2> HIDE DEF From
  <2>4. Speaks.st = From /\ Speaks.n = c
    BY <2>2 DEF Stage
  <2>5. ClientMoves(InitType, Speaks, p, Speaks')
    BY <1>4, <1>7, <2>2, <2>3, <2>4 DEF ClientMoves
  <2> QED
    BY <1>2, <2>4, <2>5 DEF Moves, Keyed
<1>8. CASE kx = "newkeys"
  <2>1. kx' = "install"
    BY <1>8 DEF Written
  <2>2. Speaks = Stage("bound", c) /\ Speaks' = Stage("idle", c + 1)
    BY <1>1, <1>8, <2>1 DEF Speaks
  <2> QED
    BY <1>2, <1>4, <1>8, <2>2 DEF Moves, Keyed, ClientMoves, Stage
<1> QED
  BY <1>5, <1>6, <1>7, <1>8

\* What the client may be at in what it reads is what the next state allows.
LEMMA WritesHeard ==
    ASSUME CauseInv, kx \in {"kexinit", "request", "init", "newkeys"}, ~Fresh, Fresh' <=> Fresh, srv' = srv,
           UNCHANGED <<ses, brigade, disc>>, kx' = Written, asked' = FALSE
    PROVE  \A a \in Stages : HeardInv(a) => HeardInv(a)'
<1>1. InitType' = InitType /\ OfferStage' = OfferStage
  BY SameConditions
<1>2. (Offered' <=> Offered) /\ (Spoilt' <=> Spoilt)
  BY DEF Offered, Spoilt
<1>3. \A s : Grouped(s)' <=> Grouped(s)
  BY <1>1, <1>2 DEF Grouped
<1>4. ASSUME NEW s, Hears(s) PROVE Hears(s)'
  <2>1. CASE kx = "kexinit"
    <3>1. kx' = "require"
      BY <2>1 DEF Written
    <3>2. (s = "quiet" /\ Tidy(brigade, ExchangePackets)) \/ (s = OfferStage /\ Offered)
      BY <1>4, <2>1, Zenon DEF Hears
    <3>3. (s = "quiet" /\ Tidy(brigade', ExchangePackets)) \/ (s = OfferStage' /\ Offered' /\ ~asked')
      BY <1>1, <1>2, <3>2
    <3> QED
      BY <3>1, <3>3 DEF Hears
  <2>2. CASE kx = "request"
    <3>1. kx' = "group"
      BY <2>2 DEF Written
    <3>2. s = OfferStage /\ ses.group /\ InitType = KEX_DH_GEX_INIT /\ Tidy(brigade, ExchangePackets)
      BY <1>4, <2>2 DEF Hears
    <3>3. s = OfferStage' /\ ses'.group /\ InitType' = KEX_DH_GEX_INIT /\ Tidy(brigade', ExchangePackets)
      BY <1>1, <3>2
    <3> QED
      BY <3>1, <3>3 DEF Hears
  <2>3. CASE kx = "init"
    <3>2. Grouped(s) /\ Tidy(brigade, ExchangePackets)
      BY <1>4, <2>3 DEF Hears
    <3>3. Tidy(brigade', ExchangePackets) /\ Tidy(brigade', ExchangePackets \ {KEXDH_REPLY})
      BY <3>2 DEF Tidy
    <3>4. CASE ses.burn
      <4>1. kx' = "burn" /\ OfferStage' = "offered"
        BY <1>1, <2>3, <3>4 DEF Written, CauseInv, OfferStage
      <4> QED
        BY <1>3, <3>2, <3>3, <4>1 DEF Hears
    <3>5. CASE ~ses.burn
      <4>1. kx' = "reply"
        BY <2>3, <3>5 DEF Written
      <4>2. \/ InitType' = KEXDH_INIT /\ ses'.group /\ s = OfferStage'
            \/ InitType' = KEX_DH_GEX_INIT /\ ses'.group /\ s = "grouped"
            \/ InitType' = KEX_DH_GEX_INIT /\ Spoilt' /\ s = "open"
        BY <1>1, <1>2, <3>2 DEF Grouped
      <4> QED
        BY <3>3, <4>1, <4>2 DEF Hears
    <3> QED
      BY <3>4, <3>5
  <2>4. CASE kx = "newkeys"
    <3>1. kx' = "install"
      BY <2>4 DEF Written
    <3>2. s = "replied" /\ ses.from = ses.local[2] + 1 /\ Tidy(brigade, ExchangePackets)
      BY <1>4, <2>4 DEF Hears
    <3>3. s = "replied" /\ ses'.from = ses'.local[2] + 1 /\ Tidy(brigade', ExchangePackets)
      BY <3>2
    <3> QED
      BY <3>1, <3>3 DEF Hears
  <2> QED
    BY <2>1, <2>2, <2>3, <2>4
<1> QED
  BY <1>4 DEF HeardInv

\* Where a failure comes from: a packet that was half sent, or a server that left.
LEMMA SendCause ==
    ASSUME CauseInv, PendInv, Ok, Alive, srv' = srv, NEW type, Send(type, "FAIL"), hist \subseteq hist',
           pend.type \in {-1, type, CHANNEL_DATA, DISCONNECT},
           pend.type \in {CHANNEL_DATA, DISCONNECT} => "halfSent" \in hist'
    PROVE  FailureHasCause'
<1>1. pend.type \notin {-1, type} \/ srv.phase = "gone"
  BY DEF Send
<1> QED
  BY <1>1 DEF FailureHasCause

\* An exchange that would block or fails moves nothing of what the client may hear or say.
LEMMA ReturnsQuietly ==
    ASSUME SessionTypes, CallInv, InKex, kx # "idle", srv' = srv, ses' = ses, asked' = asked, brigade' = brigade,
           disc => disc', startup' = startup, app' = app, kx' = kx
    PROVE  (\A a \in Stages : HeardInv(a) => HeardInv(a)') /\ Speaks' = Speaks
<1>1. Fresh' <=> Fresh
  BY DEF Fresh
<1> QED
  BY <1>1, HeardSame, SpeaksSame

\* A packet of an exchange is written, or is not.
LEMMA KexWritesAgrees ==
    ASSUME IInv, IInv', KInv, KexWrites
    PROVE  KInv'
<1>1. SessionTypes /\ SessionTypes' /\ outbound \in Seq(Packets) /\ pend \in Packets
  BY DEF IInv, Types, WireTypes
<1>2. /\ HeldInv /\ CallInv /\ PendInv /\ CipherInv /\ CauseInv /\ InKex
      /\ kx \in {"kexinit", "request", "init", "newkeys"} /\ kx # "idle"
      /\ srv' = srv /\ inbound' = inbound /\ brigade' = brigade /\ disc' = disc /\ mismatch' = mismatch
  BY DEF KInv, KexWrites
<1>3. Alive /\ ~Fresh
  BY <1>2, InExchange
<1>4. PICK type \in Nat : type = KexPacket
  BY <1>2, KexPacketFacts
<1>5. type \notin {-1, CHANNEL_DATA, DISCONNECT, SERVICE_REQUEST}
  BY <1>2, <1>4, KexPacketFacts
<1>6. PICK rc \in {"NONE", "EAGAIN", "FAIL"} :
        /\ Send(type, rc)
        /\ CASE rc = "NONE" -> Goes(Written, ses)
             [] rc = "EAGAIN" -> Later
             [] rc = "FAIL" -> Fails
  BY <1>4 DEF KexWrites
<1>7. CipherInv'
  BY <1>2, <1>6, SendCiphers
<1>8. Ok => pend.type \in {-1, CHANNEL_DATA, DISCONNECT, type}
  BY <1>2, <1>3, <1>4 DEF PendInv
<1>9. CASE rc = "NONE"
  <2>1. /\ kx' = Written /\ ses' = ses /\ asked' = FALSE
        /\ UNCHANGED <<startup, flags, call, wstate, app, hist>>
    BY <1>6, <1>9 DEF Goes
  <2>2. PICK p \in Packets : p = IF pend.type = type THEN pend ELSE Packet(type)
    BY <1>1, <1>2, PacketFacts
  <2>3. outbound' = Append(outbound, p) /\ pend'.type = -1 /\ pend.type \in {-1, type}
    BY <1>6, <1>9, <2>2 DEF Send, NoPacket
  <2>4. p.type = type /\ (Ok => p.keys = ses.local)
    BY <1>2, <1>3, <1>5, <2>2, PacketFacts DEF PendInv
  <2>5. kx' \in {"require", "group", "burn", "reply", "install"}
    BY <1>2, <2>1 DEF Written
  <2>6. HeldInv'
    BY <1>2, <2>1, <2>5, HeldKept DEF HeldInv, Ok
  <2>7. CallInv'
    <3>1. app = "starting" => startup.state = "sent1"
      BY <1>2 DEF CallInv
    <3> QED
      BY <1>2, <2>1, <2>5, <3>1 DEF CallInv, Ok
  <2>8. PendInv'
    BY <2>3, PendNone
  <2>9. CauseInv'
    BY <1>2, <2>1, CauseKept DEF CauseInv
  <2>10. \A w \in Stages : InSide(w) => InSide(w)'
    <3>1. Fresh' <=> Fresh
      BY <2>1 DEF Fresh
    <3>2. \A a \in Stages : HeardInv(a) => HeardInv(a)'
      BY <1>2, <1>3, <2>1, <3>1, WritesHeard
    <3> QED
      BY <1>2, <2>1, <3>2, InKept
  <2>11. ASSUME NEW r \in Stages, Ok', OutSide(r) PROVE OutSide(r)'
    <3>1. p.keys = ses.local
      BY <2>1, <2>4, <2>11 DEF Ok
    <3>2. Moves(InitType, OfferStage, hist', Speaks, p, Speaks')
      BY <1>2, <1>4, <2>1, <2>4, <3>1, WritesMove
    <3> QED
      BY <1>1, <1>2, <1>3, <2>1, <2>3, <2>11, <3>2, OutSent
  <2>12. (Ok' => Ok) /\ (Alive' => Alive)
    BY <1>3, <2>1 DEF Ok
  <2> QED
    BY <1>2, <1>7, <2>1, <2>6, <2>7, <2>8, <2>9, <2>10, <2>11, <2>12, ClientKeeps
<1>10. CASE rc \in {"EAGAIN", "FAIL"}
  <2>1. KexReturns(rc) /\ ses' = ses /\ asked' = asked
    BY <1>6, <1>10 DEF Later, Fails
  <2>2. Ok /\ disc' => srv.phase = "gone"
    BY <1>2 DEF CallInv
  <2>3. /\ CallInv' /\ startup' = startup /\ (flags'.newkeys <=> flags.newkeys)
        /\ (flags'.exchanging <=> kx' # "idle")
        /\ hist \subseteq hist' /\ (Alive' => Alive) /\ (Ok' => Ok)
        /\ rc = "EAGAIN" => kx' = kx /\ hist' = hist /\ app' = app
        /\ rc = "FAIL" => kx' = "idle" /\ ~(Ok' /\ Alive')
        /\ "failed" \in hist' => "failed" \in hist \/ (rc = "FAIL" /\ call.by # "startup")
        /\ rc = "FAIL" /\ pend.type \in {CHANNEL_DATA, DISCONNECT} => "halfSent" \in hist'
    BY <1>1, <1>2, <1>10, <2>1, <2>2, Returns
  <2>4. flags'.newkeys = flags.newkeys
    BY <1>1, <2>3, IInv' DEF IInv, Types, SessionTypes
  <2>5. HeldInv'
    BY <1>2, <2>1, <2>3, <2>4, HeldKept
  <2>6. CauseInv'
    <3>1. "failed" \in hist' => "failed" \in hist \/ FailureHasCause'
      <4>1. SUFFICES ASSUME Ok, rc = "FAIL" PROVE FailureHasCause'
        BY <1>10, <2>3 DEF Ok
      <4>2. pend.type \in {-1, type, CHANNEL_DATA, DISCONNECT}
        BY <1>8, <4>1
      <4>3. pend.type \in {CHANNEL_DATA, DISCONNECT} => "halfSent" \in hist'
        BY <2>3, <4>1
      <4> QED
        BY <1>2, <1>3, <1>6, <2>3, <4>1, <4>2, <4>3, SendCause
    <3> QED
      BY <1>2, <2>1, <2>3, <3>1, CauseKept
  <2>7. CASE rc = "FAIL"
    <3>1. outbound' = outbound /\ pend' = pend
      BY <1>6, <2>7 DEF Send
    <3>2. PendInv'
      BY <2>3, <2>7 DEF PendInv
    <3>3. ASSUME NEW r \in Stages, Ok', OutSide(r) PROVE OutSide(r)'
      <4>1. ~Alive' /\ ses'.local[2] \in {ses.local[2], ses.local[2] + 1}
        BY <2>1, <2>3, <2>7, <3>3
      <4> QED
        BY <1>1, <1>2, <2>3, <3>1, <3>3, <4>1, OutKept
    <3> QED
      BY <1>2, <1>7, <2>3, <2>5, <2>6, <2>7, <3>2, <3>3, ClientKeeps
  <2>8. CASE rc = "EAGAIN"
    <3>1. pend.type = -1 /\ pend' = Packet(type) /\ outbound' = outbound
      BY <1>6, <2>8 DEF Send
    <3>2. kx' = kx /\ hist' = hist /\ app' = app
      BY <2>3, <2>8
    <3>3. pend'.type = type /\ pend'.keys = ses'.local /\ KexPacket' = type
      <4>1. Packet(type).type = type /\ Packet(type).keys = ses.local
        BY <1>2, PacketFacts
      <4>2. KexPacket' = KexPacket
        BY <2>1, <3>2 DEF KexPacket
      <4> QED
        BY <1>4, <2>1, <3>1, <4>1, <4>2
    <3>4. PendInv'
      BY <1>2, <1>5, <3>2, <3>3 DEF PendInv
    <3>5. (\A a \in Stages : HeardInv(a) => HeardInv(a)') /\ Speaks' = Speaks
      BY <1>1, <1>2, <2>1, <2>3, <3>2, ReturnsQuietly
    <3>6. \A w \in Stages : InSide(w) => InSide(w)'
      BY <1>2, <2>3, <3>5, InKept
    <3>7. ASSUME NEW r \in Stages, OutSide(r) PROVE OutSide(r)'
      <4>1. ses'.local[2] \in {ses.local[2], ses.local[2] + 1}
        BY <2>1
      <4> QED
        BY <1>1, <1>2, <2>3, <3>1, <3>5, <3>7, <4>1, OutKept
    <3> QED
      BY <1>2, <1>7, <2>3, <2>5, <2>6, <3>4, <3>6, <3>7, ClientKeeps
  <2> QED
    BY <1>10, <2>7, <2>8
<1> QED
  BY <1>9, <1>10
-----------------------------------------------------------------------------
(***************************************************************************)
(* An exchange that reads, and what it comes to: it waits or moves on, or  *)
(* it returns.                                                             *)
(***************************************************************************)
LEMMA KexMovesOn ==
    ASSUME IInv, IInv', KInv, InKex, kx \in {"require", "group", "burn", "reply", "install"},
           kx' # "idle", srv' = srv, outbound' = outbound, pend' = pend,
           inbound' = inbound \/ (inbound # <<>> /\ inbound' = Tail(inbound)),
           UNCHANGED <<startup, flags, call, app, hist>>, ses'.local = ses.local, ses'.sid = ses.sid,
           ses'.burn => ses.burn \/ srv.offer.follows, Ok /\ srv.phase # "gone" => Speaks' = Speaks, mismatch' => mismatch \/ ~Ok,
           Ok /\ disc' => srv.phase = "gone", \A w \in Stages : Ok /\ InSide(w) => InSide(w)'
    PROVE  KInv'
<1>1. SessionTypes /\ SessionTypes' /\ HeldInv /\ CallInv /\ PendInv /\ CipherInv /\ CauseInv /\ Alive
  BY InExchange DEF IInv, Types, KInv
<1>2. (Ok' => Ok) /\ (Alive' => Alive)
  BY <1>1 DEF Ok
<1>3. HeldInv'
  BY <1>1, <1>2, HeldKept DEF HeldInv
<1>4. CallInv'
  <2>1. app = "starting" => startup.state = "sent1"
    BY <1>1 DEF CallInv
  <2> QED
    BY <1>1, <1>2, <2>1 DEF CallInv
<1>5. PendInv'
  <2>1. Ok /\ Alive => pend.type \in {-1, CHANNEL_DATA, DISCONNECT}
    BY <1>1 DEF PendInv
  <2>2. Ok /\ Alive /\ pend.type \in {CHANNEL_DATA, DISCONNECT} => "rude" \in hist
    BY <1>1 DEF PendInv
  <2>3. -1 # SERVICE_REQUEST /\ CHANNEL_DATA # SERVICE_REQUEST /\ DISCONNECT # SERVICE_REQUEST
    BY DEF SERVICE_REQUEST, CHANNEL_DATA, DISCONNECT
  <2> QED
    BY <1>1, <1>2, <2>1, <2>2, <2>3 DEF PendInv
<1>6. CipherInv'
  BY <1>1, SendCiphers
<1>7. CauseInv'
  BY <1>1, CauseKept DEF CauseInv
<1>8. ASSUME NEW r \in Stages, Ok', srv.phase # "gone", OutSide(r) PROVE OutSide(r)'
  <2>1. ses'.local[2] \in {ses.local[2], ses.local[2] + 1} /\ Speaks' = Speaks
    BY <1>2, <1>8
  <2> QED
    BY <1>1, <1>8, <2>1, OutKept
<1> QED
  BY <1>1, <1>2, <1>3, <1>4, <1>5, <1>6, <1>7, <1>8, ClientKeeps

\* The exchange returns without keys, and with it the call.
LEMMA KexComesBack ==
    ASSUME IInv, IInv', KInv, InKex, kx \in {"require", "group", "burn", "reply", "install"},
           srv' = srv, outbound' = outbound, pend' = pend,
           inbound' = inbound \/ (inbound # <<>> /\ inbound' = Tail(inbound)),
           NEW rc \in {"EAGAIN", "FAIL"}, KexReturns(rc), ses'.local = ses.local, ses'.sid = ses.sid,
           ses'.burn => ses.burn \/ srv.offer.follows, mismatch' => mismatch \/ ~Ok,
           Ok /\ disc' => srv.phase = "gone",
           rc = "EAGAIN" => inbound' = inbound /\ brigade' = brigade /\ ses' = ses /\ asked' = asked /\ (disc => disc'),
           rc = "FAIL" /\ Ok /\ call.by # "startup" => FailureHasCause
    PROVE  KInv'
<1>1. SessionTypes /\ SessionTypes' /\ HeldInv /\ CallInv /\ PendInv /\ CipherInv /\ CauseInv /\ Alive /\ kx # "idle"
  BY InExchange DEF IInv, Types, KInv
<1>2. /\ CallInv' /\ startup' = startup /\ (flags'.newkeys <=> flags.newkeys)
      /\ (flags'.exchanging <=> kx' # "idle")
      /\ hist \subseteq hist' /\ (Alive' => Alive) /\ (Ok' => Ok)
      /\ rc = "EAGAIN" => kx' = kx /\ hist' = hist /\ app' = app
      /\ rc = "FAIL" => kx' = "idle" /\ ~(Ok' /\ Alive')
      /\ "failed" \in hist' => "failed" \in hist \/ (rc = "FAIL" /\ call.by # "startup")
      /\ rc = "FAIL" /\ pend.type \in {CHANNEL_DATA, DISCONNECT} => "halfSent" \in hist'
  BY <1>1, Returns
<1>3. flags'.newkeys = flags.newkeys
  BY <1>1, <1>2 DEF SessionTypes
<1>4. HeldInv'
  BY <1>1, <1>2, <1>3, HeldKept
<1>5. CipherInv'
  BY <1>1, SendCiphers
<1>6. CauseInv'
  <2>1. "failed" \in hist' => "failed" \in hist \/ FailureHasCause'
    BY <1>2, CauseStays DEF Ok
  <2> QED
    BY <1>1, <1>2, <2>1, CauseKept
<1>7. CASE rc = "FAIL"
  <2>1. ~(Ok' /\ Alive')
    BY <1>2, <1>7
  <2>2. PendInv'
    BY <2>1 DEF PendInv
  <2>3. ASSUME NEW r \in Stages, Ok', OutSide(r) PROVE OutSide(r)'
    <3>1. ses'.local[2] \in {ses.local[2], ses.local[2] + 1}
      OBVIOUS
    <3> QED
      BY <1>1, <1>2, <2>1, <2>3, <3>1, OutKept
  <2> QED
    BY <1>1, <1>2, <1>4, <1>5, <1>6, <2>1, <2>2, <2>3, ClientKeeps
<1>8. CASE rc = "EAGAIN"
  <2>1. kx' = kx /\ hist' = hist /\ app' = app /\ ses' = ses
    BY <1>2, <1>8
  <2>2. PendInv'
    <3>1. kx' \notin {"kexinit", "request", "init", "newkeys"}
      BY <2>1
    <3> QED
      BY <1>1, <1>2, <2>1, <3>1 DEF PendInv, Ok, Alive
  <2>3. (\A a \in Stages : HeardInv(a) => HeardInv(a)') /\ Speaks' = Speaks
    BY <1>1, <1>2, <1>8, <2>1, ReturnsQuietly
  <2>4. \A w \in Stages : InSide(w) => InSide(w)'
    BY <1>2, <1>8, <2>3, InKept
  <2>5. ASSUME NEW r \in Stages, OutSide(r) PROVE OutSide(r)'
    <3>1. ses'.local[2] \in {ses.local[2], ses.local[2] + 1}
      OBVIOUS
    <3> QED
      BY <1>1, <1>2, <2>3, <2>5, <3>1, OutKept
  <2> QED
    BY <1>1, <1>2, <1>4, <1>5, <1>6, <2>2, <2>4, <2>5, ClientKeeps
<1> QED
  BY <1>7, <1>8

\* Where a packet of the server leads, stage by stage.
LEMMA StepFrom ==
    ASSUME NEW half \in {30, 32}, NEW offer \in {"offered", "open"}, NEW a \in Stages, NEW b, NEW p,
           ServerMoves(half, offer, a, p, b), p.type # DISCONNECT
    PROVE  /\ a.st = "fresh" => p.type = BANNER /\ b = Stage("quiet", a.n)
           /\ a.st = "quiet" => \/ p.type = KEXINIT /\ b = Stage(offer, a.n)
                                \/ p.type \in {CHANNEL_DATA, SERVICE_ACCEPT} /\ b = a
           /\ a.st = "offered" => p.type = KEXDH_REPLY /\ ~p.ok /\ b = Stage("open", a.n)
           /\ a.st = "open" =>
                \/ p.type \in {CHANNEL_DATA, SERVICE_ACCEPT} /\ b = a
                \/ half = KEX_DH_GEX_INIT /\ p.type = KEX_DH_GEX_GROUP /\ p.ok /\ b = Stage("grouped", a.n)
                \/ half = KEXDH_INIT /\ p.type = KEXDH_REPLY /\ p.n = a.n + 1 /\ b = Stage("replied", a.n)
           /\ a.st = "grouped" =>
                \/ p.type \in {CHANNEL_DATA, SERVICE_ACCEPT} /\ b = a
                \/ half = KEX_DH_GEX_INIT /\ p.type = KEX_DH_GEX_REPLY /\ p.n = a.n + 1 /\ b = Stage("replied", a.n)
           /\ a.st = "replied" => \/ p.type \in {CHANNEL_DATA, SERVICE_ACCEPT} /\ b = a
                                  \/ p.type = NEWKEYS /\ b = Stage("quiet", a.n + 1)
<1>1. /\ a.st = "open" => a.st \notin Ready(KEX_DH_GEX_INIT) \ ClientStages
      /\ a.st = "grouped" => a.st \notin Ready(KEXDH_INIT) \ ClientStages
      /\ a.st \notin {"open", "grouped"} => a.st \notin Ready(half) \ ClientStages
  BY DEF Ready, ClientStages, KEXDH_INIT, KEX_DH_GEX_INIT
<1>2. half + 1 = IF half = KEXDH_INIT THEN KEXDH_REPLY ELSE KEX_DH_GEX_REPLY
  BY DEF KEXDH_INIT, KEX_DH_GEX_INIT, KEXDH_REPLY, KEX_DH_GEX_REPLY
<1>3. half = KEXDH_INIT \/ half = KEX_DH_GEX_INIT
  BY DEF KEXDH_INIT, KEX_DH_GEX_INIT
<1>4. CASE a.st \in {"fresh", "quiet", "offered", "replied"}
  BY <1>1, <1>4 DEF ServerMoves
<1>5. CASE a.st \in {"open", "grouped"}
  BY <1>1, <1>2, <1>3, <1>5 DEF ServerMoves
<1>6. CASE a.st \notin {"fresh", "quiet", "offered", "replied", "open", "grouped"}
  BY <1>6
<1> QED
  BY <1>4, <1>5, <1>6

\* Types of packets that are told apart.
LEMMA TypesDiffer ==
    /\ CHANNEL_DATA \notin ExchangePackets /\ SERVICE_ACCEPT \notin ExchangePackets
    /\ KEX_DH_GEX_GROUP = KEXDH_REPLY /\ KEXDH_REPLY # KEX_DH_GEX_REPLY
    /\ KEXDH_INIT # KEX_DH_GEX_INIT /\ KEXDH_INIT = 30 /\ KEX_DH_GEX_INIT = 32
    /\ {CHANNEL_DATA, SERVICE_ACCEPT, KEXINIT, NEWKEYS, KEXDH_REPLY, KEX_DH_GEX_REPLY} \subseteq Nat \ {0}
    /\ ExchangePackets = {KEXINIT, NEWKEYS, KEXDH_REPLY, KEX_DH_GEX_REPLY}
    /\ DISCONNECT \notin {CHANNEL_DATA, SERVICE_ACCEPT, KEXINIT, NEWKEYS, KEXDH_REPLY, KEX_DH_GEX_REPLY}
    /\ EAGAIN = -2 /\ FAIL = -1 /\ BANNER = 0
    /\ KEXINIT \notin {NEWKEYS, KEXDH_REPLY, KEX_DH_GEX_REPLY, CHANNEL_DATA, SERVICE_ACCEPT}
    /\ NEWKEYS \notin {KEXDH_REPLY, KEX_DH_GEX_REPLY, CHANNEL_DATA, SERVICE_ACCEPT}
BY DEF CHANNEL_DATA, SERVICE_ACCEPT, ExchangePackets, KEX_DH_GEX_GROUP, KEXDH_REPLY, KEX_DH_GEX_REPLY,
   KEXDH_INIT, KEX_DH_GEX_INIT, KEXINIT, NEWKEYS, DISCONNECT, EAGAIN, FAIL, BANNER

\* The stage stays when the exchange does and the brigade is no less tidy.
LEMMA HeardStays ==
    ASSUME srv' = srv, UNCHANGED <<kx, ses>>, Fresh' <=> Fresh, kx # "kexinit",
           kx = "require" /\ Offered => asked,
           Tidy(brigade, ExchangePackets) => Tidy(brigade', ExchangePackets),
           Tidy(brigade, ExchangePackets \ {KEXDH_REPLY}) => Tidy(brigade', ExchangePackets \ {KEXDH_REPLY}),
           NEW s, Hears(s)
    PROVE  Hears(s)'
<1>1. InitType' = InitType /\ OfferStage' = OfferStage
  BY SameConditions
<1>4. Spoilt' <=> Spoilt
  BY DEF Spoilt
<1>5. Grouped(s)' <=> Grouped(s)
  BY <1>1, <1>4 DEF Grouped
<1>6. kx' = kx /\ ses' = ses
  OBVIOUS
<1>7. (kx = "idle" /\ ~Fresh => s = "quiet") /\ (Fresh => s = "fresh")
  BY Zenon DEF Hears
<1>8. kx = "require" => s = "quiet" /\ Tidy(brigade, ExchangePackets)
  <2>1. kx = "require" => (s = "quiet" /\ Tidy(brigade, ExchangePackets)) \/ (Offered /\ ~asked)
    BY Zenon DEF Hears
  <2> QED
    BY <2>1
<1>9. /\ kx \in {"request", "group"} => s = OfferStage /\ ses.group /\ InitType = KEX_DH_GEX_INIT
      /\ kx \in {"init", "burn"} => Grouped(s)
      /\ kx = "burn" => OfferStage = "offered"
      /\ kx \in {"newkeys", "install"} => s = "replied" /\ ses.from = ses.local[2] + 1
  BY Zenon DEF Hears
<1>10. kx = "reply" =>
        \/ InitType = KEXDH_INIT /\ ses.group /\ s \in {OfferStage, "open"}
        \/ InitType = KEX_DH_GEX_INIT /\ ses.group /\ s = "grouped"
        \/ InitType = KEX_DH_GEX_INIT /\ Spoilt /\ s \in {"open", "grouped"} /\ Tidy(brigade, ExchangePackets \ {KEXDH_REPLY})
  BY Zenon DEF Hears
<1>11. kx \notin {"kexinit", "require"} /\ ~(kx = "reply" /\ Spoilt) => Tidy(brigade, ExchangePackets)
  BY Zenon DEF Hears
<1>12. (kx' = "idle" /\ ~Fresh' => s = "quiet") /\ (Fresh' => s = "fresh")
  BY <1>6, <1>7
<1>13. kx' \in {"kexinit", "require"} => s = "quiet" /\ Tidy(brigade', ExchangePackets)
  BY <1>6, <1>8
<1>14. /\ kx' \in {"request", "group"} => s = OfferStage' /\ ses'.group /\ InitType' = KEX_DH_GEX_INIT
       /\ kx' \in {"init", "burn"} => Grouped(s)'
       /\ kx' = "burn" => OfferStage' = "offered"
       /\ kx' \in {"newkeys", "install"} => s = "replied" /\ ses'.from = ses'.local[2] + 1
  BY <1>1, <1>5, <1>6, <1>9, Zenon
<1>15. kx' = "reply" =>
        \/ InitType' = KEXDH_INIT /\ ses'.group /\ s \in {OfferStage', "open"}
        \/ InitType' = KEX_DH_GEX_INIT /\ ses'.group /\ s = "grouped"
        \/ InitType' = KEX_DH_GEX_INIT /\ Spoilt' /\ s \in {"open", "grouped"} /\ Tidy(brigade', ExchangePackets \ {KEXDH_REPLY})
  BY <1>1, <1>4, <1>6, <1>10, SMT
<1>16. kx' \notin {"kexinit", "require"} /\ ~(kx' = "reply" /\ Spoilt') => Tidy(brigade', ExchangePackets)
  BY <1>4, <1>6, <1>11
<1> QED
  BY <1>12, <1>13, <1>14, <1>15, <1>16, Zenon DEF Hears

\* A packet that belongs to no exchange leaves everything as tidy as it was.
LEMMA DataTidy ==
    ASSUME brigade \in Seq(Packets), NEW p \in Packets, p.type \notin ExchangePackets,
           brigade' = brigade \/ brigade' = Append(brigade, p)
    PROVE  /\ Tidy(brigade, ExchangePackets) => Tidy(brigade', ExchangePackets)
           /\ Tidy(brigade, ExchangePackets \ {KEXDH_REPLY}) => Tidy(brigade', ExchangePackets \ {KEXDH_REPLY})
<1>1. CASE brigade' = brigade
  BY <1>1
<1>2. CASE brigade' = Append(brigade, p)
  <2>1. PICK T : T = ExchangePackets \ {KEXDH_REPLY}
    OBVIOUS
  <2>2. p.type \notin T
    BY <2>1
  <2> QED
    BY <1>2, <2>1, <2>2, AppendTidy
<1> QED
  BY <1>1, <1>2

\* What is wanted is what the stage leads to.
LEMMA WantedFacts ==
    ASSUME IInv
    PROVE  /\ kx = "require" => Wanted = KEXINIT
           /\ kx = "group" => Wanted = KEX_DH_GEX_GROUP
           /\ kx = "reply" => Wanted = ReplyType /\ ReplyType = (IF InitType = KEXDH_INIT THEN KEXDH_REPLY ELSE KEX_DH_GEX_REPLY)
           /\ kx = "install" => Wanted = NEWKEYS
<1>1. kx = "reply" => ses.kex = Method
  BY DEF IInv, ExchangeInv, Bargained
<1>2. ReplyType = IF InitType = KEXDH_INIT THEN KEXDH_REPLY ELSE KEX_DH_GEX_REPLY
  BY TypesDiffer DEF ReplyType, InitType
<1>3. kx = "reply" => Wanted = ReplyType
  BY <1>1 DEF Wanted, ReplyType
<1> QED
  BY <1>2, <1>3 DEF Wanted

\* The client in an exchange has heard the banner.
LEMMA HearsNotFresh ==
    ASSUME kx \in {"require", "group", "burn", "reply", "install"}, NEW s, Hears(s)
    PROVE  s \in {"quiet", "offered", "open", "grouped", "replied"}
<1>1. OfferStage \in {"offered", "open"}
  BY Conditions
<1>2. CASE kx = "require"
  BY <1>1, <1>2, Zenon DEF Hears
<1>3. CASE kx = "group"
  BY <1>1, <1>3, Zenon DEF Hears
<1>4. CASE kx = "burn"
  <2>1. Grouped(s)
    BY <1>4, Zenon DEF Hears
  <2> QED
    BY <1>1, <2>1 DEF Grouped
<1>5. CASE kx = "reply"
  BY <1>1, <1>5, Zenon DEF Hears
<1>6. CASE kx = "install"
  BY <1>6, Zenon DEF Hears
<1> QED
  BY <1>2, <1>3, <1>4, <1>5, <1>6

\* What is known of the packet that is read at a stage.
LEMMA PacketRead ==
    ASSUME IInv, ReadsPacket, NEW a \in Stages, NEW b \in Stages, HeardInv(a),
           Moves(InitType, OfferStage, hist, a, Head(inbound), b)
    PROVE  \E p \in Packets :
             /\ p = Head(inbound) /\ p.type # DISCONNECT /\ ReadRc = p.type /\ b.st # "end"
             /\ p \in {inbound[i] : i \in 1..Len(inbound)}
             /\ ReadBrigade = IF p.type > 0 THEN Append(brigade, p) ELSE brigade
             /\ Hears(a.st) /\ a.n = ses.local[2] /\ ServerMoves(InitType, OfferStage, a, p, b)
             /\ InitType \in {30, 32} /\ OfferStage \in {"offered", "open"}
<1>1. SessionTypes /\ inbound \in Seq(Packets) /\ inbound # <<>>
  BY DEF IInv, Types, WireTypes, ReadsPacket
<1>2. PICK p \in Packets : p = Head(inbound) /\ p = inbound[1] /\ 1 \in 1..Len(inbound)
  BY <1>1
<1>3. /\ Hears(a.st) /\ a.n = ses.local[2] /\ ServerMoves(InitType, OfferStage, a, p, b)
      /\ b.st = "end" <=> p.type = DISCONNECT
  BY <1>1, <1>2, HeardMove
<1>4. /\ p.type # DISCONNECT /\ ReadRc = p.type
      /\ ReadBrigade = IF p.type > 0 THEN Append(brigade, p) ELSE brigade
  BY <1>2 DEF ReadsPacket
<1>5. InitType \in {30, 32} /\ OfferStage \in {"offered", "open"}
  BY Conditions
<1> QED
  BY <1>2, <1>3, <1>4, <1>5

\* Another packet is read than the one that is wanted.
LEMMA StaysHeard ==
    ASSUME IInv, CallInv, InKex, kx \in {"require", "group", "reply", "install"}, asked, srv' = srv,
           UNCHANGED <<startup, kx, ses, app>>, ReadsPacket, brigade' = ReadBrigade, ReadRc # Wanted,
           NEW a \in Stages, NEW b \in Stages, HeardInv(a), Moves(InitType, OfferStage, hist, a, Head(inbound), b)
    PROVE  HeardInv(b)'
<1>1. /\ SessionTypes /\ brigade \in Seq(Packets)
      /\ Fresh' <=> Fresh
  BY DEF IInv, Types, WireTypes, Fresh
<1>2. PICK p \in Packets :
             /\ p = Head(inbound) /\ p.type # DISCONNECT /\ ReadRc = p.type /\ b.st # "end"
             /\ ReadBrigade = IF p.type > 0 THEN Append(brigade, p) ELSE brigade
             /\ Hears(a.st) /\ a.n = ses.local[2] /\ ServerMoves(InitType, OfferStage, a, p, b)
             /\ InitType \in {30, 32} /\ OfferStage \in {"offered", "open"}
  BY PacketRead
<1>3. PICK half \in {30, 32} : half = InitType
  BY <1>2
<1>4. PICK offer \in {"offered", "open"} : offer = OfferStage
  BY <1>2
<1>5. /\ a.st = "quiet" => \/ p.type = KEXINIT /\ b = Stage(offer, a.n)
                           \/ p.type \in {CHANNEL_DATA, SERVICE_ACCEPT} /\ b = a
      /\ a.st = "offered" => p.type = KEXDH_REPLY /\ ~p.ok /\ b = Stage("open", a.n)
      /\ a.st = "open" =>
           \/ p.type \in {CHANNEL_DATA, SERVICE_ACCEPT} /\ b = a
           \/ half = KEX_DH_GEX_INIT /\ p.type = KEX_DH_GEX_GROUP /\ p.ok /\ b = Stage("grouped", a.n)
           \/ half = KEXDH_INIT /\ p.type = KEXDH_REPLY /\ p.n = a.n + 1 /\ b = Stage("replied", a.n)
      /\ a.st = "grouped" =>
           \/ p.type \in {CHANNEL_DATA, SERVICE_ACCEPT} /\ b = a
           \/ half = KEX_DH_GEX_INIT /\ p.type = KEX_DH_GEX_REPLY /\ p.n = a.n + 1 /\ b = Stage("replied", a.n)
      /\ a.st = "replied" => \/ p.type \in {CHANNEL_DATA, SERVICE_ACCEPT} /\ b = a
                             \/ p.type = NEWKEYS /\ b = Stage("quiet", a.n + 1)
  <2>1. ServerMoves(half, offer, a, p, b)
    BY <1>2, <1>3, <1>4
  <2> QED
    BY <1>2, <2>1, StepFrom
<1>6. p.type # Wanted /\ a.st \in {"quiet", "offered", "open", "grouped", "replied"}
  BY <1>2, HearsNotFresh
<1>7. CASE p.type \in {CHANNEL_DATA, SERVICE_ACCEPT} /\ b = a
  <2>1. p.type \notin ExchangePackets /\ (brigade' = brigade \/ brigade' = Append(brigade, p))
    BY <1>2, <1>7, TypesDiffer
  <2>2. Hears(a.st)'
    BY <1>1, <1>2, <2>1, DataTidy, HeardStays
  <2> QED
    BY <1>2, <1>7, <2>2 DEF HeardInv
<1>8. CASE ~(p.type \in {CHANNEL_DATA, SERVICE_ACCEPT} /\ b = a)
  <2>1. kx = "reply" /\ Spoilt /\ half = KEX_DH_GEX_INIT /\ a.st = "open"
    <3>1. CASE kx = "require"
      <4>1. a.st = "quiet"
        BY <1>2, <3>1, Zenon DEF Hears
      <4> QED
        BY <1>5, <1>6, <1>8, <3>1, <4>1, WantedFacts
    <3>2. CASE kx = "group"
      <4>1. a.st = offer /\ half = KEX_DH_GEX_INIT
        BY <1>2, <1>3, <1>4, <3>2, Zenon DEF Hears
      <4> QED
        BY <1>5, <1>6, <1>8, <3>2, <4>1, WantedFacts, TypesDiffer
    <3>3. CASE kx = "install"
      <4>1. a.st = "replied"
        BY <1>2, <3>3, Zenon DEF Hears
      <4> QED
        BY <1>5, <1>6, <1>8, <3>3, <4>1, WantedFacts
    <3>4. CASE kx = "reply"
      <4>1. \/ half = KEXDH_INIT /\ a.st \in {offer, "open"}
            \/ half = KEX_DH_GEX_INIT /\ a.st = "grouped"
            \/ half = KEX_DH_GEX_INIT /\ Spoilt /\ a.st \in {"open", "grouped"}
        BY <1>2, <1>3, <1>4, <3>4, Zenon DEF Hears
      <4>2. p.type # (IF half = KEXDH_INIT THEN KEXDH_REPLY ELSE KEX_DH_GEX_REPLY)
        BY <1>3, <1>6, <3>4, WantedFacts
      <4> QED
        BY <1>5, <1>6, <1>8, <3>4, <4>1, <4>2, TypesDiffer
    <3> QED
      BY <3>1, <3>2, <3>3, <3>4
  <2>2. p.type = KEXDH_REPLY /\ b = Stage("grouped", a.n)
    BY <1>5, <1>8, <2>1, TypesDiffer
  <2>3. Tidy(brigade, ExchangePackets \ {KEXDH_REPLY})
    <3>1. Spoilt => ~ses.group
      BY DEF Spoilt
    <3> QED
      BY <1>2, <1>3, <2>1, <3>1, TypesDiffer, Zenon DEF Hears
  <2>4. PICK T : T = ExchangePackets \ {KEXDH_REPLY}
    OBVIOUS
  <2>5. Tidy(brigade', T)
    <3>1. p.type \notin T /\ Tidy(brigade, T)
      BY <2>2, <2>3, <2>4
    <3>2. brigade' = brigade \/ brigade' = Append(brigade, p)
      BY <1>2
    <3> QED
      BY <1>1, <3>1, <3>2, AppendTidy
  <2>6. Spoilt' /\ InitType' = KEX_DH_GEX_INIT /\ kx' = "reply" /\ ~Fresh'
    <3>1. ~Fresh
      BY <2>1, InExchange
    <3> QED
      BY <1>1, <1>3, <2>1, <3>1, SameConditions DEF Spoilt
  <2>7. Hears("grouped")'
    BY <2>4, <2>5, <2>6 DEF Hears
  <2> QED
    BY <1>2, <2>2, <2>7 DEF HeardInv, Stage
<1> QED
  BY <1>7, <1>8

\* The packet that is wanted is read: it is the one that is taken, and where it leads.
LEMMA WantedRead ==
    ASSUME IInv, InKex, kx \in {"require", "group", "reply", "install"}, asked, ReadsPacket, ReadRc = Wanted,
           NEW a \in Stages, NEW b \in Stages, HeardInv(a), Moves(InitType, OfferStage, hist, a, Head(inbound), b)
    PROVE  \E p \in Packets :
             /\ p \in {inbound[i] : i \in 1..Len(inbound)}
             /\ p.type = Wanted /\ a.n = ses.local[2] /\ b.st # "end" /\ ask(ReadBrigade, Wanted) = p
             /\ ~(kx = "reply" /\ Spoilt) => Tidy(Without(ReadBrigade, Wanted), ExchangePackets)
             /\ kx = "require" => b = Stage(OfferStage, a.n)
             /\ kx = "group" =>
                  /\ InitType = KEX_DH_GEX_INIT
                  /\ \/ p.ok /\ OfferStage = "open" /\ b = Stage("grouped", a.n)
                     \/ ~p.ok /\ OfferStage = "offered" /\ b = Stage("open", a.n)
             /\ kx = "reply" =>
                  /\ p.ok /\ ses.group => p.n = a.n + 1 /\ b = Stage("replied", a.n)
                  /\ ~ses.group => srv.offer.follows
             /\ kx = "install" => b = Stage("quiet", a.n + 1) /\ ses.from = a.n + 1
<1>1. SessionTypes /\ brigade \in Seq(Packets)
  BY DEF IInv, Types, WireTypes
<1>2. PICK p \in Packets :
             /\ p = Head(inbound) /\ p.type # DISCONNECT /\ ReadRc = p.type /\ b.st # "end"
             /\ p \in {inbound[i] : i \in 1..Len(inbound)}
             /\ ReadBrigade = IF p.type > 0 THEN Append(brigade, p) ELSE brigade
             /\ Hears(a.st) /\ a.n = ses.local[2] /\ ServerMoves(InitType, OfferStage, a, p, b)
             /\ InitType \in {30, 32} /\ OfferStage \in {"offered", "open"}
  BY PacketRead
<1>3. PICK half \in {30, 32} : half = InitType
  BY <1>2
<1>4. PICK offer \in {"offered", "open"} : offer = OfferStage
  BY <1>2
<1>5. /\ a.st = "quiet" => \/ p.type = KEXINIT /\ b = Stage(offer, a.n)
                           \/ p.type \in {CHANNEL_DATA, SERVICE_ACCEPT} /\ b = a
      /\ a.st = "offered" => p.type = KEXDH_REPLY /\ ~p.ok /\ b = Stage("open", a.n)
      /\ a.st = "open" =>
           \/ p.type \in {CHANNEL_DATA, SERVICE_ACCEPT} /\ b = a
           \/ half = KEX_DH_GEX_INIT /\ p.type = KEX_DH_GEX_GROUP /\ p.ok /\ b = Stage("grouped", a.n)
           \/ half = KEXDH_INIT /\ p.type = KEXDH_REPLY /\ p.n = a.n + 1 /\ b = Stage("replied", a.n)
      /\ a.st = "grouped" =>
           \/ p.type \in {CHANNEL_DATA, SERVICE_ACCEPT} /\ b = a
           \/ half = KEX_DH_GEX_INIT /\ p.type = KEX_DH_GEX_REPLY /\ p.n = a.n + 1 /\ b = Stage("replied", a.n)
      /\ a.st = "replied" => \/ p.type \in {CHANNEL_DATA, SERVICE_ACCEPT} /\ b = a
                             \/ p.type = NEWKEYS /\ b = Stage("quiet", a.n + 1)
  <2>1. ServerMoves(half, offer, a, p, b)
    BY <1>2, <1>3, <1>4
  <2> QED
    BY <1>2, <2>1, StepFrom
<1>6. /\ kx = "require" => p.type = KEXINIT
      /\ kx = "group" => p.type = KEX_DH_GEX_GROUP
      /\ kx = "reply" => p.type = IF half = KEXDH_INIT THEN KEXDH_REPLY ELSE KEX_DH_GEX_REPLY
      /\ kx = "install" => p.type = NEWKEYS
  BY <1>2, <1>3, WantedFacts
<1>7. p.type \in ExchangePackets /\ p.type > 0 /\ p.type \notin {CHANNEL_DATA, SERVICE_ACCEPT}
  BY <1>6, TypesDiffer
<1>8. /\ kx = "require" => a.st = "quiet" /\ Tidy(brigade, ExchangePackets)
      /\ kx = "group" => a.st = offer /\ half = KEX_DH_GEX_INIT
      /\ kx = "install" => a.st = "replied" /\ ses.from = ses.local[2] + 1
  BY <1>2, <1>3, <1>4, Zenon DEF Hears
<1>9. kx = "reply" =>
        \/ half = KEXDH_INIT /\ ses.group /\ a.st \in {offer, "open"}
        \/ half = KEX_DH_GEX_INIT /\ ses.group /\ a.st = "grouped"
        \/ half = KEX_DH_GEX_INIT /\ Spoilt /\ Tidy(brigade, ExchangePackets \ {KEXDH_REPLY})
  BY <1>2, <1>3, <1>4, Zenon DEF Hears
<1>10. ~(kx = "reply" /\ Spoilt) => Tidy(brigade, ExchangePackets)
  <2>1. kx \notin {"kexinit", "require"} /\ ~(kx = "reply" /\ Spoilt) => Tidy(brigade, ExchangePackets)
    BY <1>2, Zenon DEF Hears
  <2> QED
    BY <1>8, <2>1
<1>11. \A i \in 1..Len(brigade) : brigade[i].type # p.type
  <2>1. CASE ~(kx = "reply" /\ Spoilt)
    BY <1>7, <1>10, <2>1 DEF Tidy
  <2>2. CASE kx = "reply" /\ Spoilt
    <3>1. half = KEX_DH_GEX_INIT /\ Tidy(brigade, ExchangePackets \ {KEXDH_REPLY})
      BY <1>9, <2>2 DEF Spoilt
    <3>2. p.type \in ExchangePackets \ {KEXDH_REPLY}
      BY <1>6, <2>2, <3>1, TypesDiffer
    <3> QED
      BY <3>1, <3>2 DEF Tidy
  <2> QED
    BY <2>1, <2>2
<1>12. /\ ask(ReadBrigade, Wanted) = p
       /\ ~(kx = "reply" /\ Spoilt) => Tidy(Without(ReadBrigade, Wanted), ExchangePackets)
  <2>1. ReadBrigade = Append(brigade, p) /\ Wanted = p.type
    BY <1>2, <1>7
  <2>2. /\ ask(Append(brigade, p), p.type) = p
        /\ \A T : Tidy(brigade, T) => Tidy(Without(Append(brigade, p), p.type), T)
    BY <1>1, <1>11, TakeRead
  <2> QED
    BY <1>10, <2>1, <2>2
<1>13. kx = "require" => b = Stage(OfferStage, a.n)
  BY <1>4, <1>5, <1>7, <1>8
<1>14. kx = "group" =>
         /\ InitType = KEX_DH_GEX_INIT
         /\ \/ p.ok /\ OfferStage = "open" /\ b = Stage("grouped", a.n)
            \/ ~p.ok /\ OfferStage = "offered" /\ b = Stage("open", a.n)
  BY <1>3, <1>4, <1>5, <1>7, <1>8, TypesDiffer
<1>15. kx = "reply" =>
         /\ p.ok /\ ses.group => p.n = a.n + 1 /\ b = Stage("replied", a.n)
         /\ ~ses.group => srv.offer.follows
  <2>1. Spoilt => ~ses.group /\ srv.offer.follows
    BY DEF Spoilt
  <2>2. kx = "reply" /\ ~ses.group => srv.offer.follows
    BY <1>9, <2>1
  <2>3. kx = "reply" /\ p.ok /\ ses.group => p.n = a.n + 1 /\ b = Stage("replied", a.n)
    BY <1>4, <1>5, <1>6, <1>7, <1>9, <2>1, TypesDiffer
  <2> QED
    BY <2>2, <2>3
<1>16. kx = "install" => b = Stage("quiet", a.n + 1) /\ ses.from = a.n + 1
  BY <1>2, <1>5, <1>7, <1>8
<1> QED
  BY <1>2, <1>12, <1>13, <1>14, <1>15, <1>16

\* The stages that the exchange moves on to.
LEMMA MovesHeard ==
    ASSUME srv' = srv, ~Fresh', Tidy(brigade', ExchangePackets), NEW s,
           \/ kx' = "request" /\ InitType = KEX_DH_GEX_INIT /\ ses'.group /\ s = OfferStage
           \/ kx' = "init" /\ InitType = KEXDH_INIT /\ ses'.group /\ s = OfferStage
           \/ kx' = "init" /\ InitType = KEX_DH_GEX_INIT /\ ses'.group /\ OfferStage = "open" /\ s = "grouped"
           \/ kx' = "init" /\ InitType = KEX_DH_GEX_INIT /\ ~ses'.group /\ OfferStage = "offered" /\ s = "open"
           \/ kx' = "newkeys" /\ s = "replied" /\ ses'.from = ses'.local[2] + 1
           \/ kx' = "idle" /\ s = "quiet"
    PROVE  Hears(s)'
<1>1. InitType' = InitType /\ OfferStage' = OfferStage
  BY SameConditions
<1>2. CASE kx' = "request"
  BY <1>1, <1>2 DEF Hears
<1>3. CASE kx' = "init"
  <2>1. Grouped(s)'
    BY <1>1, <1>3 DEF Grouped, Spoilt, OfferStage
  <2> QED
    BY <1>3, <2>1 DEF Hears
<1>4. CASE kx' = "newkeys"
  BY <1>4 DEF Hears
<1>5. CASE kx' = "idle"
  BY <1>5 DEF Hears
<1> QED
  BY <1>2, <1>3, <1>4, <1>5

\* The methods are agreed on, and when they are not, this is the first exchange.
LEMMA AgreesAgrees ==
    ASSUME IInv, IInv', KInv, InKex, kx = "require", Agrees, srv' = srv, outbound' = outbound, pend' = pend,
           inbound' = inbound \/ (inbound # <<>> /\ inbound' = Tail(inbound)),
           mismatch' => mismatch \/ ~Ok, Ok /\ disc' => srv.phase = "gone",
           \A w \in Stages :
             /\ Ok /\ InSide(w) /\ ~Fresh' /\ ses'.group /\ ses'.local = ses.local /\ hist' = hist
             /\ \/ kx' = "request" /\ InitType = KEX_DH_GEX_INIT
                \/ kx' = "init" /\ InitType = KEXDH_INIT
             => InSide(w)'
    PROVE  KInv'
<1>1. SessionTypes /\ SessionInv /\ HeldInv /\ CallInv /\ Alive /\ ~Fresh /\ kx # "idle"
  BY InExchange DEF IInv, Types, KInv
<1>2. PICK s :
        /\ s.local = ses.local /\ s.sid = ses.sid /\ s.group /\ (s.burn => srv.offer.follows)
        /\ \/ AgreedOn /\ Goes(IF Method \in Fixed THEN "init" ELSE "request", s)
           \/ ~AgreedOn /\ ses' = s /\ KexReturns("FAIL")
  BY <1>1, AgreesFacts
<1>3. CASE AgreedOn /\ Goes(IF Method \in Fixed THEN "init" ELSE "request", s)
  <2>1. /\ kx' = (IF Method \in Fixed THEN "init" ELSE "request") /\ ses' = s
        /\ UNCHANGED <<startup, flags, call, app, hist>>
    BY <1>3 DEF Goes
  <2>2. \/ kx' = "request" /\ InitType = KEX_DH_GEX_INIT
        \/ kx' = "init" /\ InitType = KEXDH_INIT
    BY <2>1 DEF InitType
  <2>3. ~Fresh' /\ ses'.local = ses.local /\ ses'.group
    BY <1>1, <1>2, <2>1 DEF Fresh
  <2>4. Speaks' = Speaks
    <3>1. InitType' = InitType
      BY SameConditions
    <3>2. Speaks = Stage("agreed", ses.local[2])
      BY DEF Speaks
    <3>3. Speaks' = Stage("agreed", ses'.local[2])
      BY <2>2, <3>1 DEF Speaks
    <3> QED
      BY <2>3, <3>2, <3>3
  <2>5. \A w \in Stages : Ok /\ InSide(w) => InSide(w)'
    BY <2>1, <2>2, <2>3
  <2>6. kx' # "idle" /\ ses'.sid = ses.sid /\ (ses'.burn => ses.burn \/ srv.offer.follows)
    BY <1>2, <2>1, <2>2
  <2> QED
    BY <2>1, <2>3, <2>4, <2>5, <2>6, KexMovesOn
<1>4. CASE ~AgreedOn /\ ses' = s /\ KexReturns("FAIL")
  <2>1. call.by = "startup"
    <3>1. call.by # "startup" => app = "open"
      BY <1>1 DEF CallInv, InKex, Idle
    <3> QED
      BY <1>1, <1>4, <3>1 DEF SessionInv, HeldInv
  <2>2. ses'.local = ses.local /\ ses'.sid = ses.sid /\ (ses'.burn => ses.burn \/ srv.offer.follows)
    BY <1>2, <1>4
  <2> QED
    BY <1>4, <2>1, <2>2, KexComesBack
<1> QED
  BY <1>2, <1>3, <1>4

\* The keys of the exchange are put to use.
LEMMA InstallsAgrees ==
    ASSUME IInv, IInv', KInv, InKex, kx = "install", Installs, srv' = srv, outbound' = outbound, pend' = pend,
           inbound' = inbound \/ (inbound # <<>> /\ inbound' = Tail(inbound)),
           mismatch' => mismatch \/ ~Ok, Ok /\ disc' => srv.phase = "gone",
           Ok /\ srv.phase # "gone" => ses.from = ses.local[2] + 1 /\ ses.from <= srv.send[2],
           \A w \in Stages :
             Ok /\ InSide(w) /\ ~Fresh' /\ kx' = "idle" /\ ses'.local[2] = ses.from /\ hist' = hist => InSide(w)'
    PROVE  KInv'
<1>1. /\ SessionTypes /\ SessionInv /\ ExchangeInv /\ SessionTypes' /\ SessionInv' /\ ServerTypes
      /\ HeldInv /\ CallInv /\ PendInv /\ CipherInv /\ CauseInv /\ Alive /\ ~Fresh /\ kx # "idle"
  BY InExchange DEF IInv, Types, KInv
<1>2. PICK m \in Nat : m = ses.from /\ m # 0
  <2>1. Signed(ses.from) /\ srv.n \in Nat /\ ses.from \in Nat
    BY <1>1 DEF ExchangeInv, SessionTypes, ServerTypes
  <2> QED
    BY <2>1 DEF Signed
<1>3. KexReturns("NONE") /\ ses'.local[2] = m /\ ses'.local # NoKeys /\ ses'.local = <<1, m>> /\ ses'.sid # 0
      /\ ses'.burn = ses.burn
  <2>1. PICK sid : sid = (IF ses.sid = 0 THEN ses.from ELSE ses.sid) /\ sid # 0
    BY <1>2
  <2>2. PICK k : k = <<sid, m>>
    OBVIOUS
  <2>3. ses' = [ses EXCEPT !.sid = sid, !.local = k, !.remote = k] /\ KexReturns("NONE")
    BY <1>2, <2>1, <2>2 DEF Installs
  <2>4. ses'.sid = sid /\ ses'.local = k /\ ses'.burn = ses.burn
    BY <1>1, <2>3 DEF SessionTypes
  <2>5. k[2] = m /\ k # NoKeys
    BY <1>2, <2>2 DEF NoKeys
  <2>6. ses'.local[1] = 1
    BY <1>1, <2>4, <2>5 DEF SessionInv
  <2>7. k = <<1, m>>
    BY <2>2, <2>4, <2>6
  <2> QED
    BY <2>1, <2>3, <2>4, <2>5, <2>7
<1>4. /\ flags'.newkeys /\ ~flags'.exchanging /\ kx' = "idle" /\ hist' = hist
  <2>1. flags' = FlagsAfter("NONE") /\ kx' = "idle" /\ hist' = hist
    BY <1>3 DEF KexReturns
  <2> QED
    BY <1>1, <2>1 DEF FlagsAfter, SessionTypes
<1>5. Ok' <=> Ok
  BY <1>4 DEF Ok
<1>6. HeldInv'
  <2>1. ses'.local = KeysOf(ses'.local[2])
    BY <1>2, <1>3 DEF KeysOf
  <2>2. (flags'.newkeys <=> ses'.local # NoKeys) /\ (flags'.exchanging <=> kx' # "idle")
    BY <1>3, <1>4
  <2>3. Ok' /\ srv'.phase # "gone" => ses'.local[2] <= srv'.send[2]
    BY <1>2, <1>3, <1>5
  <2>4. ses'.sid = 0 <=> ses'.local = NoKeys
    BY <1>3
  <2> QED
    BY <2>1, <2>2, <2>3, <2>4 DEF HeldInv
<1>7. CallInv' /\ (Alive' => Alive) /\ ~Fresh'
  <2>1. call \in Calls /\ call # Idle
    BY <1>1 DEF CallInv, InKex, Idle, None
  <2>2. CASE call.by = "startup"
    <3>1. call' = [call EXCEPT !.by = None] /\ startup' = [startup EXCEPT !.state = "sent3"] /\ app' = app
      BY <1>3, <2>2 DEF KexReturns
    <3>2. call.op = "startup" /\ call.at = "startup" /\ app = "starting"
      BY <1>1, <2>1, <2>2 DEF CallInv
    <3>3. call' \in Calls /\ call'.op = "startup" /\ call'.at = "startup" /\ call'.by = None
      BY <2>1, <3>1, <3>2 DEF Calls
    <3>4. startup'.state = "sent3"
      BY <1>1, <3>1 DEF SessionTypes
    <3>5. call'.by # "startup"
      BY <3>3 DEF None
    <3>6. CallInv'
      BY <1>1, <1>4, <1>5, <3>1, <3>2, <3>3, <3>4, <3>5 DEF CallInv
    <3> QED
      BY <1>1, <3>1, <3>4, <3>6 DEF Fresh
  <2>3. CASE call.by # "startup"
    <3>1. call.op \in {"read", "write", "disconnect"} /\ call.at \in {"read", "write", "disconnect"} /\ app = "open"
      BY <1>1, <2>1, <2>3 DEF CallInv, InKex
    <3>2. /\ call' \in Calls /\ startup' = startup
          /\ \/ call' = Idle
             \/ call'.op \in {"read", "write", "disconnect"} /\ call'.at \in {"read", "write", "disconnect"}
                /\ call'.by = None /\ app' = app
          /\ app' = app \/ app' = "failed"
      <4>1. CASE call.by = "redirect"
        <5>1. call' = [call EXCEPT !.by = None] /\ startup' = startup /\ app' = app
          BY <1>3, <4>1 DEF KexReturns
        <5>2. call' \in Calls /\ call'.op = call.op /\ call'.at = call.at /\ call'.by = None
          BY <2>1, <5>1 DEF Calls
        <5> QED
          BY <3>1, <5>1, <5>2
      <4>2. CASE call.by # "redirect"
        <5>1. ReadEnds(NEWKEYS) /\ startup' = startup
          BY <1>3, <2>3, <4>2 DEF KexReturns
        <5> QED
          BY <1>1, <2>1, <3>1, <5>1, ReadEndsFacts
      <4> QED
        BY <4>1, <4>2
    <3>3. CallInv'
      BY <1>1, <1>5, <3>1, <3>2 DEF CallInv, Idle, None
    <3> QED
      BY <1>1, <3>1, <3>2, <3>3 DEF Fresh
  <2> QED
    BY <2>2, <2>3
<1>8. PendInv'
  <2>1. Ok => pend.type \in {-1, CHANNEL_DATA, DISCONNECT} /\ (pend.type \in {CHANNEL_DATA, DISCONNECT} => "rude" \in hist)
    BY <1>1 DEF PendInv
  <2>2. -1 # SERVICE_REQUEST /\ CHANNEL_DATA # SERVICE_REQUEST /\ DISCONNECT # SERVICE_REQUEST
    BY DEF SERVICE_REQUEST, CHANNEL_DATA, DISCONNECT
  <2> QED
    BY <1>4, <1>5, <2>1, <2>2 DEF PendInv
<1>9. CipherInv'
  BY <1>1, SendCiphers
<1>10. CauseInv'
  BY <1>1, <1>3, <1>4, CauseKept DEF CauseInv
<1>11. ASSUME NEW r \in Stages, Ok', srv.phase # "gone", OutSide(r) PROVE OutSide(r)'
  <2>1. ses.from = ses.local[2] + 1
    BY <1>5, <1>11
  <2>2. ses'.local[2] = ses.local[2] + 1
    BY <1>2, <1>3, <2>1
  <2>3. Speaks = Stage("idle", ses.local[2] + 1) /\ Speaks' = Stage("idle", ses'.local[2])
    BY <1>4 DEF Speaks
  <2> QED
    BY <1>1, <1>4, <1>11, <2>2, <2>3, OutKept
<1>12. \A w \in Stages : Ok' /\ Alive' /\ InSide(w) => InSide(w)'
  BY <1>2, <1>3, <1>4, <1>5, <1>7
<1> QED
  BY <1>4, <1>5, <1>6, <1>7, <1>8, <1>9, <1>10, <1>11, <1>12, ClientKeeps

\* Nothing to read: nothing changes.
LEMMA ReadsNothing ==
    ASSUME IInv, Receives
    PROVE  /\ ReadRc = EAGAIN => inbound' = inbound /\ ReadBrigade = brigade /\ disc' = disc
           /\ inbound # <<>> => Head(inbound).type \in Nat
<1>1. inbound # <<>> => Head(inbound).type \in Nat
  <2>1. inbound # <<>> => 1 \in 1..Len(inbound) /\ Head(inbound) = inbound[1]
    BY DEF IInv, Types, WireTypes
  <2> QED
    BY <2>1 DEF IInv, TrafficInv, Fine
<1>2. ASSUME ReadRc = EAGAIN PROVE inbound' = inbound /\ ReadBrigade = brigade /\ disc' = disc
  <2>1. inbound = <<>>
    BY <1>1, <1>2 DEF ReadRc, EAGAIN, FAIL
  <2>2. ReadBrigade = brigade
    BY <1>2 DEF ReadBrigade, EAGAIN
  <2> QED
    BY <2>1, <2>2 DEF Receives
<1> QED
  BY <1>1, <1>2

\* What the client has come to in what it reads, whether it reads or not.
LEMMA ReadSide ==
    ASSUME IInv, srv' = srv, hist \subseteq hist', ReadsNone \/ ReadsDisconnect \/ ReadsPacket,
           ReadsNone => \A a \in Stages : HeardInv(a) => HeardInv(a)',
           ReadsPacket => \A a \in Stages, b \in Stages :
             HeardInv(a) /\ Moves(InitType, OfferStage, hist, a, Head(inbound), b) => HeardInv(b)',
           NEW w \in Stages, InSide(w)
    PROVE  InSide(w)'
<1>1. inbound \in Seq(Packets) /\ SessionTypes
  BY DEF IInv, Types, WireTypes
<1>2. CASE ReadsNone
  BY <1>2, InKept DEF ReadsNone
<1>3. CASE ReadsDisconnect
  <2>1. ASSUME NEW a \in Stages, NEW b \in Stages, HeardInv(a), Moves(InitType, OfferStage, hist, a, Head(inbound), b)
        PROVE  HeardInv(b)'
    <3>1. PICK p \in Packets : p = Head(inbound) /\ p.type = DISCONNECT
      BY <1>1, <1>3 DEF ReadsDisconnect
    <3>2. b.st = "end"
      BY <1>1, <2>1, <3>1, HeardMove
    <3> QED
      BY <1>3, <3>2 DEF ReadsDisconnect, HeardInv
  <2> QED
    BY <1>1, <1>3, <2>1, InRead DEF ReadsDisconnect
<1>4. CASE ReadsPacket
  BY <1>1, <1>4, InRead DEF ReadsPacket
<1> QED
  BY <1>2, <1>3, <1>4

\* What every read keeps to.
LEMMA ReadKeeps ==
    ASSUME IInv, KInv, Alive, Receives, srv' = srv
    PROVE  /\ mismatch' => mismatch \/ ~Ok
           /\ Ok /\ disc' => srv.phase = "gone"
           /\ Ok => ReadsNone \/ ReadsDisconnect \/ ReadsPacket
           /\ inbound' = inbound \/ (inbound # <<>> /\ inbound' = Tail(inbound))
<1>1. Ok => (mismatch' => mismatch) /\ (ReadsNone \/ ReadsDisconnect \/ ReadsPacket)
  BY ReadMoves DEF KInv
<1>2. Ok /\ disc' => srv.phase = "gone"
  BY <1>1 DEF ReadsNone, ReadsDisconnect, ReadsPacket, KInv, CallInv
<1> QED
  BY <1>1, <1>2, ReadShortens

\* In an exchange, what the server says leads on, and it has said it.
LEMMA Leading ==
    ASSUME IInv, KInv, Ok, Alive, ReadsPacket
    PROVE  \E a \in Stages, b \in Stages :
             /\ HeardInv(a) /\ Moves(InitType, OfferStage, hist, a, Head(inbound), b)
             /\ b.n <= srv.send[2]
<1>1. PICK w \in Stages, r \in Stages : Served(w, r) /\ InSide(w)
  BY DEF KInv, Agreement
<1>2. PICK a \in Stages : Joined(hist, inbound, a, w) /\ HeardInv(a)
  BY <1>1 DEF InSide
<1>3. PICK q \in Seq(Packets) : q = inbound /\ q # <<>>
  BY DEF IInv, Types, WireTypes, ReadsPacket
<1>4. PICK half, h : half = InitType /\ h = hist
  OBVIOUS
<1>5. PICK offer \in {"offered", "open"} : offer = OfferStage
  BY Conditions
<1>6. Path(half, offer, h, q, a, w)
  BY <1>2, <1>3, <1>4, <1>5 DEF Joined
<1>7. PICK b \in Stages : Moves(half, offer, h, a, Head(q), b) /\ Path(half, offer, h, Tail(q), b, w)
  BY <1>3, <1>6, PathTail
<1>8. Tail(q) \in Seq(Packets)
  BY <1>3
<1>9. Earlier(b, w)
  BY <1>7, <1>8, PathLeadsOn
<1>10. w.n = srv.send[2] /\ w.n \in Nat /\ b.n \in Nat
  BY <1>1 DEF Served, Stages
<1>11. b.n <= srv.send[2]
  BY <1>9, <1>10 DEF Earlier
<1> QED
  BY <1>2, <1>3, <1>4, <1>5, <1>7, <1>11

\* The packet that the exchange waits for comes.
LEMMA KexTakesRead ==
    ASSUME IInv, IInv', KInv, InKex, kx \in {"require", "group", "reply", "install"}, asked, srv' = srv,
           outbound' = outbound, pend' = pend, Receives, ReadRc = Wanted, KexTakes(ReadBrigade)
    PROVE  KInv'
<1>1. /\ SessionTypes /\ HeldInv /\ CallInv /\ CauseInv /\ Alive /\ ~Fresh /\ kx # "idle"
      /\ ServerTypes
  BY InExchange DEF IInv, Types, KInv
<1>2. /\ mismatch' => mismatch \/ ~Ok
      /\ Ok /\ disc' => srv.phase = "gone"
      /\ Ok => ReadsNone \/ ReadsDisconnect \/ ReadsPacket
      /\ inbound' = inbound \/ (inbound # <<>> /\ inbound' = Tail(inbound))
  BY <1>1, ReadKeeps
<1>3. brigade' = Without(ReadBrigade, Wanted)
  BY DEF KexTakes
<1>4. ReadRc \in Nat \ {0}
  <2>1. ReplyType \in {KEXDH_REPLY, KEX_DH_GEX_REPLY}
    BY DEF ReplyType
  <2> QED
    BY <2>1, WantedFacts, TypesDiffer
<1>5. Ok => ReadsPacket
  BY <1>2, <1>4, TypesDiffer DEF ReadsNone, ReadsDisconnect
<1>6. ASSUME Ok, NEW a \in Stages, NEW b \in Stages, HeardInv(a),
             Moves(InitType, OfferStage, hist, a, Head(inbound), b)
      PROVE  \E p \in Packets :
             /\ p \in {inbound[i] : i \in 1..Len(inbound)}
             /\ p.type = Wanted /\ a.n = ses.local[2] /\ b.st # "end" /\ ask(ReadBrigade, Wanted) = p
             /\ ~(kx = "reply" /\ Spoilt) => Tidy(Without(ReadBrigade, Wanted), ExchangePackets)
             /\ kx = "require" => b = Stage(OfferStage, a.n)
             /\ kx = "group" =>
                  /\ InitType = KEX_DH_GEX_INIT
                  /\ \/ p.ok /\ OfferStage = "open" /\ b = Stage("grouped", a.n)
                     \/ ~p.ok /\ OfferStage = "offered" /\ b = Stage("open", a.n)
             /\ kx = "reply" =>
                  /\ p.ok /\ ses.group => p.n = a.n + 1 /\ b = Stage("replied", a.n)
                  /\ ~ses.group => srv.offer.follows
             /\ kx = "install" => b = Stage("quiet", a.n + 1) /\ ses.from = a.n + 1
  BY <1>5, <1>6, WantedRead
<1>7. CASE kx = "require"
  <2>1. Agrees
    BY <1>7 DEF KexTakes
  <2>2. ASSUME NEW w \in Stages, Ok, InSide(w), ~Fresh', ses'.group, ses'.local = ses.local, hist' = hist,
               \/ kx' = "request" /\ InitType = KEX_DH_GEX_INIT
               \/ kx' = "init" /\ InitType = KEXDH_INIT
        PROVE  InSide(w)'
    <3>1. ASSUME NEW a \in Stages, NEW b \in Stages, HeardInv(a),
                 Moves(InitType, OfferStage, hist, a, Head(inbound), b)
          PROVE  HeardInv(b)'
      <4>1. /\ b = Stage(OfferStage, a.n) /\ a.n = ses.local[2] /\ b.st # "end"
            /\ Tidy(brigade', ExchangePackets)
        BY <1>3, <1>6, <1>7, <2>2, <3>1
      <4>2. PICK s : s = OfferStage
        OBVIOUS
      <4>3. Hears(s)'
        BY <2>2, <4>1, <4>2, MovesHeard
      <4>4. b.st = s /\ b.n = ses'.local[2]
        BY <2>2, <4>1, <4>2 DEF Stage
      <4> QED
        BY <4>1, <4>3, <4>4 DEF HeardInv
    <3>2. ReadsPacket /\ ~ReadsNone
      BY <1>4, <1>5, <2>2, TypesDiffer DEF ReadsNone
    <3> QED
      BY <2>2, <3>1, <3>2, ReadSide
  <2> QED
    BY <1>2, <1>7, <2>1, <2>2, AgreesAgrees
<1>8. CASE kx = "group"
  <2>1. PICK p : p = ask(ReadBrigade, Wanted)
    OBVIOUS
  <2>2. Goes("init", [ses EXCEPT !.group = p.ok])
    BY <1>8, <2>1 DEF KexTakes
  <2>3. PICK v : v = p.ok
    OBVIOUS
  <2>4. ses' = [ses EXCEPT !.group = v]
    BY <2>2, <2>3 DEF Goes
  <2>5. /\ ses'.group = v /\ ses'.local = ses.local /\ ses'.sid = ses.sid /\ ses'.burn = ses.burn
    BY <1>1, <2>4 DEF SessionTypes
  <2>6. kx' = "init" /\ UNCHANGED <<startup, flags, call, app, hist>>
    BY <2>2 DEF Goes
  <2>7. ~Fresh'
    BY <1>1, <2>6 DEF Fresh
  <2>8. ASSUME NEW w \in Stages, Ok, InSide(w) PROVE InSide(w)'
    <3>1. ASSUME NEW a \in Stages, NEW b \in Stages, HeardInv(a),
                 Moves(InitType, OfferStage, hist, a, Head(inbound), b)
          PROVE  HeardInv(b)'
      <4>1. /\ a.n = ses.local[2] /\ b.st # "end" /\ Tidy(brigade', ExchangePackets)
            /\ InitType = KEX_DH_GEX_INIT
            /\ \/ v /\ OfferStage = "open" /\ b = Stage("grouped", a.n)
               \/ ~v /\ OfferStage = "offered" /\ b = Stage("open", a.n)
        BY <1>3, <1>6, <1>8, <2>1, <2>3, <2>8, <3>1
      <4>2. PICK s : s = b.st
        OBVIOUS
      <4>3. Hears(s)'
        BY <2>5, <2>6, <2>7, <4>1, <4>2, MovesHeard DEF Stage
      <4>4. b.n = ses'.local[2]
        BY <2>5, <4>1 DEF Stage
      <4> QED
        BY <4>1, <4>2, <4>3, <4>4 DEF HeardInv
    <3>2. ReadsPacket /\ ~ReadsNone
      BY <1>4, <1>5, <2>8, TypesDiffer DEF ReadsNone
    <3> QED
      BY <2>6, <2>8, <3>1, <3>2, ReadSide
  <2>9. ASSUME Ok PROVE Speaks' = Speaks
    <3>1. Speaks = Stage("asked", ses.local[2])
      BY <1>8 DEF Speaks
    <3>2. InitType = KEX_DH_GEX_INIT
      <4>1. PICK a \in Stages, b \in Stages :
              HeardInv(a) /\ Moves(InitType, OfferStage, hist, a, Head(inbound), b)
        BY <1>1, <1>5, <2>9, Leading
      <4> QED
        BY <1>6, <1>8, <2>9, <4>1
    <3>3. InitType' = KEX_DH_GEX_INIT
      BY <3>2, SameConditions
    <3>4. Speaks' = Stage("asked", ses'.local[2])
      BY <2>6, <3>3, TypesDiffer DEF Speaks
    <3> QED
      BY <2>5, <3>1, <3>4
  <2> QED
    BY <1>2, <1>8, <2>5, <2>6, <2>8, <2>9, KexMovesOn
<1>9. CASE kx = "reply"
  <2>1. PICK p : p = ask(ReadBrigade, Wanted)
    OBVIOUS
  <2>2. Verifies(p)
    BY <1>9, <2>1 DEF KexTakes
  <2>3. CASE p.ok /\ ses.group
    <3>1. Goes("newkeys", [ses EXCEPT !.from = p.n])
      BY <2>2, <2>3 DEF Verifies
    <3>2. PICK n : n = p.n
      OBVIOUS
    <3>3. ses' = [ses EXCEPT !.from = n]
      BY <3>1, <3>2 DEF Goes
    <3>4. ses'.from = n /\ ses'.local = ses.local /\ ses'.sid = ses.sid /\ ses'.burn = ses.burn
      BY <1>1, <3>3 DEF SessionTypes
    <3>5. kx' = "newkeys" /\ UNCHANGED <<startup, flags, call, app, hist>>
      BY <3>1 DEF Goes
    <3>6. ~Fresh' /\ ~Spoilt
      BY <1>1, <2>3, <3>5 DEF Fresh, Spoilt
    <3>7. ASSUME NEW w \in Stages, Ok, InSide(w) PROVE InSide(w)'
      <4>1. ASSUME NEW a \in Stages, NEW b \in Stages, HeardInv(a),
                   Moves(InitType, OfferStage, hist, a, Head(inbound), b)
            PROVE  HeardInv(b)'
        <5>1. /\ a.n = ses.local[2] /\ b.st # "end" /\ Tidy(brigade', ExchangePackets)
              /\ n = a.n + 1 /\ b = Stage("replied", a.n)
          BY <1>3, <1>6, <1>9, <2>1, <2>3, <3>2, <3>6, <3>7, <4>1
        <5>2. PICK s : s = b.st
          OBVIOUS
        <5>3. s = "replied" /\ ses'.from = ses'.local[2] + 1 /\ b.n = ses'.local[2]
          BY <3>4, <5>1, <5>2 DEF Stage
        <5>4. Hears(s)'
          BY <3>5, <3>6, <5>1, <5>3, MovesHeard
        <5> QED
          BY <5>1, <5>2, <5>3, <5>4 DEF HeardInv
      <4>2. ReadsPacket /\ ~ReadsNone
        BY <1>4, <1>5, <3>7, TypesDiffer DEF ReadsNone
      <4> QED
        BY <3>5, <3>7, <4>1, <4>2, ReadSide
    <3>8. Speaks' = Speaks
      <4>1. Speaks = Stage("bound", ses.local[2])
        BY <1>9 DEF Speaks
      <4>2. Speaks' = Stage("bound", ses'.local[2])
        BY <3>5 DEF Speaks
      <4> QED
        BY <3>4, <4>1, <4>2
    <3> QED
      BY <1>2, <1>9, <3>4, <3>5, <3>7, <3>8, KexMovesOn
  <2>4. CASE ~(p.ok /\ ses.group)
    <3>1. KexReturns("FAIL") /\ ses' = ses
      BY <2>2, <2>4 DEF Verifies, Fails
    <3>2. ASSUME Ok PROVE FailureHasCause
      <4>1. PICK a \in Stages, b \in Stages :
              HeardInv(a) /\ Moves(InitType, OfferStage, hist, a, Head(inbound), b)
        BY <1>1, <1>5, <3>2, Leading
      <4>2. /\ p \in {inbound[i] : i \in 1..Len(inbound)} /\ p.type = Wanted
            /\ ~ses.group => srv.offer.follows
        BY <1>6, <1>9, <2>1, <3>2, <4>1
      <4>3. PICK i \in 1..Len(inbound) : inbound[i] = p
        BY <4>2
      <4>4. p.type = ReplyType
        BY <1>9, <4>2, WantedFacts
      <4>5. ~p.ok => srv.lied # {} \/ srv.offer.follows
        BY <1>1, <4>3, <4>4 DEF CauseInv
      <4> QED
        BY <2>4, <4>2, <4>5 DEF FailureHasCause
    <3> QED
      BY <1>2, <1>9, <3>1, <3>2, KexComesBack
  <2> QED
    BY <2>3, <2>4
<1>10. CASE kx = "install"
  <2>1. Installs
    BY <1>10 DEF KexTakes
  <2>2. ASSUME Ok PROVE ses.from = ses.local[2] + 1 /\ ses.from <= srv.send[2]
    <3>1. PICK a \in Stages, b \in Stages :
            /\ HeardInv(a) /\ Moves(InitType, OfferStage, hist, a, Head(inbound), b)
            /\ b.n <= srv.send[2]
      BY <1>1, <1>5, <2>2, Leading
    <3>2. b = Stage("quiet", a.n + 1) /\ ses.from = a.n + 1 /\ a.n = ses.local[2]
      BY <1>6, <1>10, <2>2, <3>1
    <3> QED
      BY <3>1, <3>2 DEF Stage
  <2>3. ASSUME NEW w \in Stages, Ok, InSide(w), ~Fresh', kx' = "idle", ses'.local[2] = ses.from, hist' = hist
        PROVE  InSide(w)'
    <3>1. ASSUME NEW a \in Stages, NEW b \in Stages, HeardInv(a),
                 Moves(InitType, OfferStage, hist, a, Head(inbound), b)
          PROVE  HeardInv(b)'
      <4>1. /\ b = Stage("quiet", a.n + 1) /\ ses.from = a.n + 1 /\ b.st # "end"
            /\ Tidy(brigade', ExchangePackets)
        BY <1>3, <1>6, <1>10, <2>3, <3>1
      <4>2. PICK s : s = "quiet"
        OBVIOUS
      <4>3. Hears(s)'
        BY <2>3, <4>1, <4>2, MovesHeard
      <4>4. b.st = s /\ b.n = ses'.local[2]
        BY <2>3, <4>1, <4>2 DEF Stage
      <4> QED
        BY <4>1, <4>3, <4>4 DEF HeardInv
    <3>2. ReadsPacket /\ ~ReadsNone
      BY <1>4, <1>5, <2>3, TypesDiffer DEF ReadsNone
    <3> QED
      BY <2>3, <3>1, <3>2, ReadSide
  <2> QED
    BY <1>2, <1>10, <2>1, <2>2, <2>3, InstallsAgrees
<1> QED
  BY <1>7, <1>8, <1>9, <1>10

\* Something else comes, or nothing.
LEMMA KexReadsAgrees ==
    ASSUME IInv, IInv', KInv, KexReads
    PROVE  KInv'
<1>1. /\ SessionTypes /\ HeldInv /\ CallInv /\ CauseInv /\ InKex /\ Alive /\ ~Fresh /\ kx # "idle"
      /\ kx \in {"require", "group", "reply", "install"} /\ asked /\ srv' = srv
      /\ outbound' = outbound /\ pend' = pend /\ Receives
  BY InExchange DEF IInv, Types, KInv, KexReads
<1>2. /\ mismatch' => mismatch \/ ~Ok
      /\ Ok /\ disc' => srv.phase = "gone"
      /\ Ok => ReadsNone \/ ReadsDisconnect \/ ReadsPacket
      /\ inbound' = inbound \/ (inbound # <<>> /\ inbound' = Tail(inbound))
  BY <1>1, ReadKeeps
<1>3. CASE ReadRc = Wanted
  <2>1. KexTakes(ReadBrigade)
    BY <1>3 DEF KexReads
  <2> QED
    BY <1>1, <1>3, <2>1, KexTakesRead
<1>4. CASE ReadRc # Wanted
  <2>1. brigade' = ReadBrigade /\ NotWanted
    BY <1>4 DEF KexReads
  <2>2. CASE ReadRc = EAGAIN
    <3>1. KexReturns("EAGAIN") /\ ses' = ses /\ asked' = asked
      BY <2>1, <2>2, TypesDiffer DEF NotWanted, Later
    <3>2. inbound' = inbound /\ brigade' = brigade /\ disc' = disc
      BY <1>1, <2>1, <2>2, ReadsNothing
    <3> QED
      BY <1>1, <1>2, <3>1, <3>2, KexComesBack
  <2>3. CASE ReadRc \in {FAIL, 0}
    <3>1. KexReturns("FAIL") /\ ses' = ses
      BY <2>1, <2>3, TypesDiffer DEF NotWanted, Fails
    <3>2. ASSUME Ok PROVE FailureHasCause
      <4>1. CASE ReadsNone
        BY <1>1, <2>3, <3>2, <4>1, TypesDiffer DEF ReadsNone, CallInv, FailureHasCause
      <4>2. CASE ReadsDisconnect
        BY <4>2 DEF ReadsDisconnect, FailureHasCause
      <4>3. CASE ReadsPacket
        <5>1. PICK a \in Stages, b \in Stages :
                HeardInv(a) /\ Moves(InitType, OfferStage, hist, a, Head(inbound), b)
          BY <1>1, <3>2, <4>3, Leading
        <5>2. PICK p \in Packets :
                /\ p = Head(inbound) /\ p.type # DISCONNECT /\ ReadRc = p.type /\ Hears(a.st)
          BY <4>3, <5>1, PacketRead
        <5>3. p.type \in Nat
          BY <1>1, <4>3, <5>2, ReadsNothing DEF ReadsPacket
        <5>4. p.type = BANNER
          BY <2>3, <5>2, <5>3, TypesDiffer
        <5>5. a.st = "fresh"
          BY <1>1, <5>1, <5>2, <5>4, HeardMove
        <5> QED
          BY <1>1, <5>2, <5>5, HearsNotFresh
      <4> QED
        BY <1>2, <3>2, <4>1, <4>2, <4>3
    <3> QED
      BY <1>1, <1>2, <3>1, <3>2, KexComesBack
  <2>4. CASE ReadRc \notin {EAGAIN, FAIL, 0}
    <3>1. UNCHANGED <<startup, kx, asked, flags, ses, call, app, hist>>
      BY <2>1, <2>4 DEF NotWanted, clientVars
    <3>2. Speaks' = Speaks
      BY <1>1, <3>1, SpeaksSame
    <3>3. ASSUME NEW w \in Stages, Ok, InSide(w) PROVE InSide(w)'
      <4>1. ReadsPacket /\ ~ReadsNone
        BY <1>2, <2>4, <3>3 DEF ReadsNone, ReadsDisconnect
      <4>2. ASSUME NEW a \in Stages, NEW b \in Stages, HeardInv(a),
                   Moves(InitType, OfferStage, hist, a, Head(inbound), b)
            PROVE  HeardInv(b)'
        BY <1>1, <1>4, <2>1, <3>1, <4>1, <4>2, StaysHeard
      <4> QED
        BY <1>1, <3>1, <3>3, <4>1, <4>2, ReadSide
    <3> QED
      BY <1>1, <1>2, <3>1, <3>2, <3>3, KexMovesOn
  <2> QED
    BY <2>2, <2>3, <2>4
<1> QED
  BY <1>3, <1>4

\* What the exchange waits for is looked for in the brigade, and found there if it was read
\* when the exchange began.
LEMMA KexAsksAgrees ==
    ASSUME IInv, IInv', KInv, KexAsks
    PROVE  KInv'
<1>1. /\ SessionTypes /\ HeldInv /\ CallInv /\ CauseInv /\ Agreement /\ InKex /\ Alive /\ ~Fresh /\ kx # "idle"
      /\ kx \in {"require", "group", "reply", "install"} /\ ~asked /\ srv' = srv
      /\ outbound' = outbound /\ pend' = pend /\ inbound' = inbound /\ mismatch' = mismatch /\ disc' = disc
      /\ brigade \in Seq(Packets)
  BY InExchange DEF IInv, Types, WireTypes, KInv, KexAsks
<1>2. Ok /\ disc' => srv.phase = "gone"
  BY <1>1 DEF CallInv
<1>3. CASE Asked(brigade, Wanted) = {}
  <2>1. asked' = TRUE /\ UNCHANGED <<brigade, startup, kx, flags, ses, call, wstate, app, hist>>
    BY <1>3 DEF KexAsks
  <2>2. Fresh' <=> Fresh
    BY <2>1 DEF Fresh
  <2>3. kx = "require" => ~Offered
    <3>1. ASSUME kx = "require", Offered PROVE FALSE
      <4>1. Len(brigade) \in DOMAIN brigade /\ brigade[Len(brigade)].type = KEXINIT
        BY <1>1, <3>1 DEF Offered
      <4>2. Wanted = KEXINIT
        BY <3>1 DEF Wanted
      <4> QED
        BY <1>3, <4>1, <4>2 DEF Asked
    <3> QED
      BY <3>1
  <2>4. \A a \in Stages : HeardInv(a) => HeardInv(a)'
    <3>1. ASSUME NEW a \in Stages, HeardInv(a) PROVE HeardInv(a)'
      <4>1. CASE a.st = "end"
        BY <1>1, <2>1, <3>1, <4>1 DEF HeardInv
      <4>2. CASE a.st # "end"
        <5>1. PICK s : s = a.st
          OBVIOUS
        <5>2. Hears(s)
          BY <3>1, <4>2, <5>1 DEF HeardInv
        <5>3. Hears(s)'
          BY <1>1, <2>1, <2>2, <2>3, <5>2, HeardStays
        <5> QED
          BY <2>1, <3>1, <4>2, <5>1, <5>3 DEF HeardInv
      <4> QED
        BY <4>1, <4>2
    <3> QED
      BY <3>1
  <2>5. \A w \in Stages : InSide(w) => InSide(w)'
    BY <1>1, <2>1, <2>4, InKept
  <2>6. Speaks' = Speaks
    BY <1>1, <2>1, SpeaksSame
  <2> QED
    BY <1>1, <1>2, <2>1, <2>5, <2>6, KexMovesOn
<1>4. CASE Asked(brigade, Wanted) # {}
  <2>1. KexTakes(brigade) /\ brigade' = Without(brigade, Wanted)
    BY <1>4 DEF KexAsks, KexTakes
  <2>2. ASSUME NEW a \in Stages, HeardInv(a), a.st # "end"
        PROVE  kx = "require" /\ a.st = OfferStage /\ Offered /\ a.n = ses.local[2]
    <3>1. PICK s : s = a.st
      OBVIOUS
    <3>2. Hears(s) /\ a.n = ses.local[2]
      BY <2>2, <3>1 DEF HeardInv
    <3>3. \A T : Wanted \in T => ~Tidy(brigade, T)
      BY <1>1, <1>4 DEF Asked, Tidy
    <3>4. Wanted \in ExchangePackets
      BY <1>1, WantedFacts, TypesDiffer
    <3>5. ~Tidy(brigade, ExchangePackets)
      BY <3>3, <3>4
    <3>6. kx = "require"
      <4>1. kx # "require" => kx = "reply" /\ Spoilt
        BY <1>1, <3>2, <3>5, Zenon DEF Hears
      <4>2. ASSUME kx = "reply", Spoilt PROVE FALSE
        <5>1. InitType = KEX_DH_GEX_INIT /\ Tidy(brigade, ExchangePackets \ {KEXDH_REPLY})
          BY <3>2, <4>2, Zenon DEF Hears, Spoilt
        <5>2. Wanted \in ExchangePackets \ {KEXDH_REPLY}
          BY <4>2, <5>1, WantedFacts, TypesDiffer
        <5> QED
          BY <3>3, <5>1, <5>2
      <4> QED
        BY <4>1, <4>2
    <3>7. s = OfferStage /\ Offered
      BY <3>2, <3>5, <3>6, Zenon DEF Hears
    <3> QED
      BY <3>1, <3>2, <3>6, <3>7
  <2>3. ASSUME Ok PROVE \E a \in Stages : HeardInv(a)
    BY <1>1, <2>3 DEF Agreement, InSide
  <2>4. Ok => kx = "require" \/ srv.phase = "gone"
    <3>1. ASSUME NEW a \in Stages, HeardInv(a), a.st = "end" PROVE disc
      BY <3>1 DEF HeardInv
    <3> QED
      BY <1>1, <1>2, <2>2, <2>3, <3>1
  <2>5. ASSUME ses'.local = ses.local, kx # "require", hist \subseteq hist', NEW w \in Stages, InSide(w)
        PROVE  InSide(w)'
    <3>1. ASSUME NEW a \in Stages, HeardInv(a) PROVE HeardInv(a)'
      <4>1. a.st = "end"
        BY <2>2, <2>5, <3>1
      <4> QED
        BY <1>1, <3>1, <4>1 DEF HeardInv
    <3> QED
      BY <1>1, <2>5, <3>1, InKept
  <2>6. CASE kx = "require"
    <3>1. Agrees
      BY <2>1, <2>6 DEF KexTakes
    <3>2. ASSUME NEW w \in Stages, Ok, InSide(w), ~Fresh', ses'.group, ses'.local = ses.local, hist' = hist,
                 \/ kx' = "request" /\ InitType = KEX_DH_GEX_INIT
                 \/ kx' = "init" /\ InitType = KEXDH_INIT
          PROVE  InSide(w)'
      <4>1. ASSUME NEW a \in Stages, HeardInv(a) PROVE HeardInv(a)'
        <5>1. CASE a.st = "end"
          BY <1>1, <4>1, <5>1 DEF HeardInv
        <5>2. CASE a.st # "end"
          <6>1. a.st = OfferStage /\ Offered /\ a.n = ses.local[2]
            BY <2>2, <4>1, <5>2
          <6>2. Tidy(brigade', ExchangePackets)
            <7>1. PICK b \in Seq(Packets) : b = brigade
              BY <1>1
            <7>2. /\ Len(b) > 0 /\ b[Len(b)].type = KEXINIT
                  /\ \A i \in 1..(Len(b) - 1) : b[i].type \notin ExchangePackets
              BY <6>1, <7>1 DEF Offered
            <7>3. /\ Len(Without(b, KEXINIT)) = Len(b) - 1
                  /\ \A i \in 1..(Len(b) - 1) : Without(b, KEXINIT)[i] = b[i]
              <8>1. \A i \in 1..(Len(b) - 1) : b[i].type # KEXINIT
                BY <7>2, TypesDiffer
              <8>2. PICK type : type = KEXINIT
                OBVIOUS
              <8> QED
                BY <7>2, <8>1, <8>2, TakeLast
            <7>4. Tidy(Without(b, KEXINIT), ExchangePackets)
              BY <7>2, <7>3 DEF Tidy
            <7> QED
              BY <2>1, <2>6, <7>1, <7>4 DEF Wanted
          <6>3. PICK s : s = OfferStage
            OBVIOUS
          <6>4. Hears(s)'
            BY <1>1, <3>2, <6>2, <6>3, MovesHeard
          <6> QED
            BY <1>1, <3>2, <5>2, <6>1, <6>3, <6>4 DEF HeardInv
        <5> QED
          BY <5>1, <5>2
      <4> QED
        BY <1>1, <3>2, <4>1, InKept
    <3> QED
      BY <1>1, <1>2, <2>6, <3>1, <3>2, AgreesAgrees
  <2>7. CASE kx = "group"
    <3>1. PICK v : v = ask(brigade, Wanted).ok
      OBVIOUS
    <3>2. Goes("init", [ses EXCEPT !.group = v])
      BY <2>1, <2>7, <3>1 DEF KexTakes
    <3>3. ses' = [ses EXCEPT !.group = v] /\ kx' = "init" /\ UNCHANGED <<startup, flags, call, app, hist>>
      BY <3>2 DEF Goes
    <3>4. ses'.local = ses.local /\ ses'.sid = ses.sid /\ ses'.burn = ses.burn
      BY <1>1, <3>3 DEF SessionTypes
    <3>5. ~(Ok /\ srv.phase # "gone")
      BY <2>4, <2>7
    <3>6. \A w \in Stages : InSide(w) => InSide(w)'
      BY <2>5, <2>7, <3>3, <3>4
    <3> QED
      BY <1>1, <1>2, <2>7, <3>3, <3>4, <3>5, <3>6, KexMovesOn
  <2>8. CASE kx = "reply"
    <3>1. PICK p : p = ask(brigade, Wanted)
      OBVIOUS
    <3>2. Verifies(p)
      BY <2>1, <2>8, <3>1 DEF KexTakes
    <3>3. ~(Ok /\ srv.phase # "gone")
      BY <2>4, <2>8
    <3>4. CASE Goes("newkeys", [ses EXCEPT !.from = p.n])
      <4>1. PICK n : n = p.n
        OBVIOUS
      <4>2. ses' = [ses EXCEPT !.from = n] /\ kx' = "newkeys" /\ UNCHANGED <<startup, flags, call, app, hist>>
        BY <3>4, <4>1 DEF Goes
      <4>3. ses'.local = ses.local /\ ses'.sid = ses.sid /\ ses'.burn = ses.burn
        BY <1>1, <4>2 DEF SessionTypes
      <4>4. \A w \in Stages : InSide(w) => InSide(w)'
        BY <2>5, <2>8, <4>2, <4>3
      <4> QED
        BY <1>1, <1>2, <2>8, <3>3, <4>2, <4>3, <4>4, KexMovesOn
    <3>5. CASE Fails
      <4>1. KexReturns("FAIL") /\ ses' = ses
        BY <3>5 DEF Fails
      <4>2. Ok => FailureHasCause
        BY <3>3 DEF FailureHasCause
      <4> QED
        BY <1>1, <1>2, <2>8, <4>1, <4>2, KexComesBack
    <3> QED
      BY <3>2, <3>4, <3>5 DEF Verifies
  <2>9. CASE kx = "install"
    <3>1. Installs
      BY <2>1, <2>9 DEF KexTakes
    <3>2. ~(Ok /\ srv.phase # "gone")
      BY <2>4, <2>9
    <3>3. ASSUME NEW w \in Stages, InSide(w), hist' = hist PROVE InSide(w)'
      <4>1. ASSUME NEW a \in Stages, HeardInv(a) PROVE HeardInv(a)'
        <5>1. a.st = "end"
          BY <2>2, <2>9, <4>1
        <5> QED
          BY <1>1, <4>1, <5>1 DEF HeardInv
      <4> QED
        BY <1>1, <3>3, <4>1, InKept
    <3> QED
      BY <1>1, <1>2, <2>9, <3>1, <3>2, <3>3, InstallsAgrees
  <2> QED
    BY <1>1, <2>6, <2>7, <2>8, <2>9
<1> QED
  BY <1>3, <1>4

\* The packet that the server sent ahead is burnt, whatever is burnt in its place.
LEMMA BurntHeard ==
    ASSUME srv' = srv, kx' = "reply", ses'.group = ses.group, ~Fresh', NEW s,
           \/ InitType = KEXDH_INIT /\ ses.group /\ s \in {OfferStage, "open"} /\ Tidy(brigade', ExchangePackets)
           \/ InitType = KEX_DH_GEX_INIT /\ Spoilt /\ s \in {"open", "grouped"}
              /\ Tidy(brigade', ExchangePackets \ {KEXDH_REPLY})
    PROVE  Hears(s)'
<1>1. InitType' = InitType /\ OfferStage' = OfferStage
  BY SameConditions
<1>2. Spoilt' <=> Spoilt
  BY DEF Spoilt
<1>3. Spoilt => ~ses.group
  BY DEF Spoilt
<1>4. CASE InitType = KEXDH_INIT /\ ses.group /\ s \in {OfferStage, "open"} /\ Tidy(brigade', ExchangePackets)
  BY <1>1, <1>4 DEF Hears
<1>5. CASE InitType = KEX_DH_GEX_INIT /\ Spoilt /\ s \in {"open", "grouped"}
              /\ Tidy(brigade', ExchangePackets \ {KEXDH_REPLY})
  BY <1>1, <1>2, <1>5 DEF Hears
<1> QED
  BY <1>4, <1>5

\* What is heard before a packet is burnt.
LEMMA BurnHears ==
    ASSUME kx = "burn", NEW s, Hears(s)
    PROVE  /\ OfferStage = "offered" /\ Tidy(brigade, ExchangePackets)
           /\ \/ InitType = KEXDH_INIT /\ ses.group /\ s = "offered"
              \/ InitType = KEX_DH_GEX_INIT /\ Spoilt /\ s = "open"
<1>1. OfferStage = "offered" /\ Tidy(brigade, ExchangePackets) /\ Grouped(s)
  BY Zenon DEF Hears
<1> QED
  BY <1>1 DEF Grouped

\* _libssh2_packet_burn.
LEMMA KexBurnsAgrees ==
    ASSUME IInv, IInv', KInv, KexBurns
    PROVE  KInv'
<1>1. /\ SessionTypes /\ HeldInv /\ CallInv /\ CauseInv /\ InKex /\ Alive /\ ~Fresh /\ kx # "idle"
      /\ kx = "burn" /\ srv' = srv /\ outbound' = outbound /\ pend' = pend /\ brigade \in Seq(Packets)
  BY InExchange DEF IInv, Types, WireTypes, KInv, KexBurns
<1>2. ASSUME Burnt
      PROVE  /\ kx' = "reply" /\ UNCHANGED <<startup, flags, call, app, hist>> /\ ~Fresh'
             /\ ses'.local = ses.local /\ ses'.sid = ses.sid /\ ses'.group = ses.group
             /\ (ses'.burn => ses.burn \/ srv.offer.follows) /\ Speaks' = Speaks
  <2>1. PICK v \in BOOLEAN : v = FALSE
    OBVIOUS
  <2>2. kx' = "reply" /\ ses' = [ses EXCEPT !.burn = v] /\ UNCHANGED <<startup, flags, call, app, hist>>
    BY <1>2, <2>1 DEF Burnt, Goes
  <2>3. ses'.local = ses.local /\ ses'.sid = ses.sid /\ ses'.group = ses.group /\ ses'.burn = v
    BY <1>1, <2>2 DEF SessionTypes
  <2>4. ~Fresh'
    BY <1>1, <2>2 DEF Fresh
  <2>5. Speaks = Stage("bound", ses.local[2])
    BY <1>1 DEF Speaks
  <2>6. Speaks' = Stage("bound", ses'.local[2])
    BY <2>2 DEF Speaks
  <2> QED
    BY <2>1, <2>2, <2>3, <2>4, <2>5, <2>6
<1>3. CASE ~asked
  <2>1. inbound' = inbound /\ disc' = disc /\ mismatch' = mismatch
    BY <1>3 DEF KexBurns
  <2>2. Ok /\ disc' => srv.phase = "gone"
    BY <1>1, <2>1 DEF CallInv
  <2>3. CASE brigade = <<>>
    <3>1. asked' = TRUE /\ UNCHANGED <<brigade, startup, kx, flags, ses, call, wstate, app, hist>>
      BY <1>3, <2>3 DEF KexBurns
    <3>2. Fresh' <=> Fresh
      BY <3>1 DEF Fresh
    <3>3. ASSUME NEW a \in Stages, HeardInv(a) PROVE HeardInv(a)'
      <4>1. CASE a.st = "end"
        BY <2>1, <3>1, <3>3, <4>1 DEF HeardInv
      <4>2. CASE a.st # "end"
        <5>1. PICK s : s = a.st
          OBVIOUS
        <5>2. Hears(s)
          BY <3>3, <4>2, <5>1 DEF HeardInv
        <5>3. Hears(s)'
          BY <1>1, <3>1, <3>2, <5>2, HeardStays
        <5> QED
          BY <3>1, <3>3, <4>2, <5>1, <5>3 DEF HeardInv
      <4> QED
        BY <4>1, <4>2
    <3>4. \A w \in Stages : InSide(w) => InSide(w)'
      BY <1>1, <2>1, <3>1, <3>3, InKept
    <3>5. Speaks' = Speaks
      BY <1>1, <3>1, SpeaksSame
    <3> QED
      BY <1>1, <2>1, <2>2, <3>1, <3>4, <3>5, KexMovesOn
  <2>4. CASE brigade # <<>>
    <3>1. brigade' = Without(brigade, Lowest(brigade)) /\ Burnt
      BY <1>3, <2>4 DEF KexBurns
    <3>2. \A T : Tidy(brigade, T) => Tidy(brigade', T)
      <4>1. PICK b \in Seq(Packets) : b = brigade
        BY <1>1
      <4>2. PICK type : type = Lowest(b)
        OBVIOUS
      <4>3. Asked(b, type) # {}
        <5>1. {b[i].type : i \in DOMAIN b} \subseteq Nat
          BY <1>1, <4>1 DEF IInv, TrafficInv, Fine
        <5>2. {b[i].type : i \in DOMAIN b} # {}
          <6>1. 1 \in DOMAIN b
            BY <2>4, <4>1
          <6> QED
            BY <6>1
        <5>3. type \in {b[i].type : i \in DOMAIN b}
          BY <4>2, <5>1, <5>2, MinFacts DEF Lowest
        <5> QED
          BY <5>3 DEF Asked
      <4>4. \A T : Tidy(b, T) => Tidy(Without(b, type), T)
        BY <4>3, TakeTidy
      <4> QED
        BY <3>1, <4>1, <4>2, <4>4
    <3>3. ASSUME NEW a \in Stages, HeardInv(a) PROVE HeardInv(a)'
      <4>1. CASE a.st = "end"
        BY <2>1, <3>3, <4>1 DEF HeardInv
      <4>2. CASE a.st # "end"
        <5>1. PICK s : s = a.st
          OBVIOUS
        <5>2. Hears(s)
          BY <3>3, <4>2, <5>1 DEF HeardInv
        <5>3. /\ OfferStage = "offered" /\ Tidy(brigade, ExchangePackets)
              /\ \/ InitType = KEXDH_INIT /\ ses.group /\ s = "offered"
                 \/ InitType = KEX_DH_GEX_INIT /\ Spoilt /\ s = "open"
          BY <1>1, <5>2, BurnHears
        <5>4. Tidy(brigade', ExchangePackets) /\ Tidy(brigade', ExchangePackets \ {KEXDH_REPLY})
          <6>1. Tidy(brigade, ExchangePackets \ {KEXDH_REPLY})
            BY <5>3 DEF Tidy
          <6> QED
            BY <3>2, <5>3, <6>1
        <5>5. Hears(s)'
          BY <1>1, <1>2, <3>1, <5>3, <5>4, BurntHeard
        <5> QED
          BY <1>2, <3>1, <3>3, <4>2, <5>1, <5>5 DEF HeardInv
      <4> QED
        BY <4>1, <4>2
    <3>4. \A w \in Stages : InSide(w) => InSide(w)'
      <4>1. hist \subseteq hist'
        BY <1>2, <3>1
      <4> QED
        BY <1>1, <2>1, <3>3, <4>1, InKept
    <3> QED
      BY <1>1, <1>2, <2>1, <2>2, <3>1, <3>4, KexMovesOn
  <2> QED
    BY <2>3, <2>4
<1>4. CASE asked
  <2>1. /\ Receives /\ brigade' = (IF ReadRc > 0 THEN Without(ReadBrigade, ReadRc) ELSE brigade)
        /\ CASE ReadRc = EAGAIN -> Later
             [] ReadRc \in {FAIL, 0} -> Fails
             [] OTHER -> Burnt
    BY <1>4 DEF KexBurns
  <2>2. /\ mismatch' => mismatch \/ ~Ok
        /\ Ok /\ disc' => srv.phase = "gone"
        /\ Ok => ReadsNone \/ ReadsDisconnect \/ ReadsPacket
        /\ inbound' = inbound \/ (inbound # <<>> /\ inbound' = Tail(inbound))
    BY <1>1, <2>1, ReadKeeps
  <2>3. CASE ReadRc = EAGAIN
    <3>1. KexReturns("EAGAIN") /\ ses' = ses /\ asked' = asked
      BY <2>1, <2>3, TypesDiffer DEF Later
    <3>2. inbound' = inbound /\ disc' = disc
      BY <2>1, <2>3, ReadsNothing
    <3>3. brigade' = brigade
      BY <2>1, <2>3, TypesDiffer
    <3> QED
      BY <1>1, <2>2, <3>1, <3>2, <3>3, KexComesBack
  <2>4. CASE ReadRc \in {FAIL, 0}
    <3>1. KexReturns("FAIL") /\ ses' = ses
      BY <2>1, <2>4, TypesDiffer DEF Fails
    <3>2. ASSUME Ok PROVE FailureHasCause
      <4>1. CASE ReadsNone
        BY <1>1, <2>4, <3>2, <4>1, TypesDiffer DEF ReadsNone, CallInv, FailureHasCause
      <4>2. CASE ReadsDisconnect
        BY <4>2 DEF ReadsDisconnect, FailureHasCause
      <4>3. CASE ReadsPacket
        <5>1. PICK a \in Stages, b \in Stages :
                HeardInv(a) /\ Moves(InitType, OfferStage, hist, a, Head(inbound), b)
          BY <1>1, <3>2, <4>3, Leading
        <5>2. PICK p \in Packets :
                /\ p = Head(inbound) /\ p.type # DISCONNECT /\ ReadRc = p.type /\ Hears(a.st)
          BY <4>3, <5>1, PacketRead
        <5>3. p.type \in Nat
          BY <2>1, <4>3, <5>2, ReadsNothing DEF ReadsPacket
        <5>4. p.type = BANNER
          BY <2>4, <5>2, <5>3, TypesDiffer
        <5>5. a.st = "fresh"
          BY <1>1, <5>1, <5>2, <5>4, HeardMove
        <5> QED
          BY <1>1, <5>2, <5>5, HearsNotFresh
      <4> QED
        BY <2>2, <3>2, <4>1, <4>2, <4>3
    <3> QED
      BY <1>1, <2>2, <3>1, <3>2, KexComesBack
  <2>5. CASE ReadRc \notin {EAGAIN, FAIL, 0}
    <3>1. Burnt
      BY <2>1, <2>5, TypesDiffer
    <3>2. ASSUME NEW w \in Stages, Ok, InSide(w) PROVE InSide(w)'
      <4>1. ReadsPacket /\ ~ReadsNone
        BY <2>2, <2>5, <3>2 DEF ReadsNone, ReadsDisconnect
      <4>2. ASSUME NEW a \in Stages, NEW b \in Stages, HeardInv(a),
                   Moves(InitType, OfferStage, hist, a, Head(inbound), b)
            PROVE  HeardInv(b)'
        <5>1. PICK p \in Packets :
               /\ p = Head(inbound) /\ p.type # DISCONNECT /\ ReadRc = p.type /\ b.st # "end"
               /\ ReadBrigade = IF p.type > 0 THEN Append(brigade, p) ELSE brigade
               /\ Hears(a.st) /\ a.n = ses.local[2] /\ ServerMoves(InitType, OfferStage, a, p, b)
               /\ InitType \in {30, 32} /\ OfferStage \in {"offered", "open"}
          BY <4>1, <4>2, PacketRead
        <5>2. PICK half \in {30, 32} : half = InitType
          BY <5>1
        <5>3. PICK offer \in {"offered", "open"} : offer = OfferStage
          BY <5>1
        <5>4. ServerMoves(half, offer, a, p, b)
          BY <5>1, <5>2, <5>3
        <5>5. /\ a.st = "offered" => p.type = KEXDH_REPLY /\ ~p.ok /\ b = Stage("open", a.n)
              /\ a.st = "open" =>
                   \/ p.type \in {CHANNEL_DATA, SERVICE_ACCEPT} /\ b = a
                   \/ half = KEX_DH_GEX_INIT /\ p.type = KEX_DH_GEX_GROUP /\ p.ok /\ b = Stage("grouped", a.n)
                   \/ half = KEXDH_INIT /\ p.type = KEXDH_REPLY /\ p.n = a.n + 1 /\ b = Stage("replied", a.n)
          BY <5>1, <5>4, StepFrom
        <5>6. PICK s : s = a.st
          OBVIOUS
        <5>7. /\ Tidy(brigade, ExchangePackets)
              /\ \/ half = KEXDH_INIT /\ ses.group /\ s = "offered"
                 \/ half = KEX_DH_GEX_INIT /\ Spoilt /\ s = "open"
          BY <1>1, <5>1, <5>2, <5>6, BurnHears
        <5>8. \/ /\ half = KEXDH_INIT /\ ses.group /\ b = Stage("open", a.n) /\ p.type = KEXDH_REPLY
              \/ /\ half = KEX_DH_GEX_INIT /\ Spoilt /\ b = Stage("grouped", a.n) /\ p.type = KEXDH_REPLY
              \/ /\ half = KEX_DH_GEX_INIT /\ Spoilt /\ b = a /\ s = "open"
                 /\ p.type \in {CHANNEL_DATA, SERVICE_ACCEPT}
          BY <5>5, <5>6, <5>7, TypesDiffer
        <5>9. p.type > 0 /\ brigade' = Without(Append(brigade, p), p.type)
          <6>1. p.type > 0
            BY <5>8, TypesDiffer
          <6> QED
            BY <2>1, <5>1, <6>1
        <5>10. Tidy(brigade', ExchangePackets)
          <6>1. CASE p.type = KEXDH_REPLY
            <7>1. \A i \in 1..Len(brigade) : brigade[i].type # p.type
              BY <5>7, <6>1, TypesDiffer DEF Tidy
            <7>2. \A T : Tidy(brigade, T) => Tidy(Without(Append(brigade, p), p.type), T)
              BY <1>1, <7>1, TakeRead
            <7> QED
              BY <5>7, <5>9, <7>2
          <6>2. CASE p.type \in {CHANNEL_DATA, SERVICE_ACCEPT}
            <7>1. PICK c \in Seq(Packets) : c = Append(brigade, p)
              BY <1>1, AppendProperties
            <7>2. p.type \notin ExchangePackets
              BY <6>2, TypesDiffer
            <7>3. Tidy(c, ExchangePackets)
              BY <1>1, <5>7, <7>1, <7>2, AppendTidy
            <7>4. Asked(c, p.type) # {}
              <8>1. Len(brigade) \in Nat /\ Len(brigade) + 1 \in DOMAIN c /\ c[Len(brigade) + 1] = p
                BY <1>1, <7>1, AppendProperties
              <8> QED
                BY <8>1 DEF Asked
            <7>5. Tidy(Without(c, p.type), ExchangePackets)
              BY <7>3, <7>4, TakeTidy
            <7> QED
              BY <5>9, <7>1, <7>5
          <6> QED
            BY <5>8, <6>1, <6>2
        <5>11. Tidy(brigade', ExchangePackets \ {KEXDH_REPLY})
          BY <5>10 DEF Tidy
        <5>12. PICK t : t = b.st
          OBVIOUS
        <5>13. /\ b.n = a.n
               /\ \/ half = KEXDH_INIT /\ ses.group /\ t = "open"
                  \/ half = KEX_DH_GEX_INIT /\ Spoilt /\ t \in {"open", "grouped"}
          BY <5>6, <5>8, <5>12 DEF Stage
        <5>14. Hears(t)'
          BY <1>1, <1>2, <3>1, <5>2, <5>10, <5>11, <5>13, BurntHeard
        <5> QED
          BY <1>2, <3>1, <5>1, <5>12, <5>13, <5>14 DEF HeardInv
      <4>3. hist' = hist
        BY <1>2, <3>1
      <4> QED
        BY <1>1, <3>2, <4>1, <4>2, <4>3, ReadSide
    <3> QED
      BY <1>1, <1>2, <2>2, <3>1, <3>2, KexMovesOn
  <2> QED
    BY <2>3, <2>4, <2>5
<1> QED
  BY <1>3, <1>4
-----------------------------------------------------------------------------
(***************************************************************************)
(* Steps outside of an exchange, and those that enter one.                 *)
(***************************************************************************)
\* What such a step has to show.
LEMMA OutsideAgrees ==
    ASSUME IInv, IInv', KInv, srv' = srv, hist \subseteq hist', "failed" \in hist' => "failed" \in hist,
           Alive' => Alive, UNCHANGED <<kx, flags, ses>>, CallInv', PendInv', CipherInv',
           inbound' = inbound \/ (inbound # <<>> /\ inbound' = Tail(inbound)), mismatch' => mismatch \/ ~Ok,
           \A w \in Stages : Ok' /\ Alive' /\ InSide(w) => InSide(w)',
           \A r \in Stages : Ok' /\ srv.phase # "gone" /\ OutSide(r) => OutSide(r)'
    PROVE  KInv'
<1>1. HeldInv /\ CauseInv /\ (Ok' => Ok)
  BY DEF KInv, Ok
<1>2. HeldInv'
  BY <1>1, HeldKept DEF HeldInv
<1>3. CauseInv'
  BY <1>1, CauseKept DEF CauseInv
<1> QED
  BY <1>1, <1>2, <1>3, ClientKeeps

\* A step that reads nothing leaves what there is to read.
LEMMA NothingRead ==
    ASSUME SessionTypes, srv' = srv, hist \subseteq hist', inbound' = inbound, disc => disc',
           UNCHANGED <<kx, ses, brigade, asked>>, Fresh' <=> Fresh
    PROVE  \A w \in Stages : InSide(w) => InSide(w)'
<1>1. \A a \in Stages : HeardInv(a) => HeardInv(a)'
  BY HeardSame
<1> QED
  BY <1>1, InKept

\* A step that writes nothing leaves what there is to hear.
LEMMA NothingWritten ==
    ASSUME SessionTypes, SessionTypes', srv' = srv, hist \subseteq hist', outbound' = outbound,
           UNCHANGED <<kx, ses>>, Alive' => Alive
    PROVE  \A r \in Stages : OutSide(r) => OutSide(r)'
<1>1. Speaks' = Speaks
  BY SpeaksSame
<1>2. ses'.local[2] \in {ses.local[2], ses.local[2] + 1}
  OBVIOUS
<1> QED
  BY <1>1, <1>2, OutKept

\* A packet that does not move the client on joins what there is to hear.
LEMMA SomethingWritten ==
    ASSUME SessionTypes, SessionTypes', outbound \in Seq(Packets), srv' = srv, hist \subseteq hist', Alive,
           UNCHANGED <<kx, ses>>, NEW p \in Packets, outbound' = Append(outbound, p),
           Moves(InitType, OfferStage, hist', Speaks, p, Speaks)
    PROVE  \A r \in Stages : OutSide(r) => OutSide(r)'
<1>1. Speaks' = Speaks
  BY SpeaksSame
<1>2. Moves(InitType, OfferStage, hist', Speaks, p, Speaks')
  BY <1>1
<1> QED
  BY <1>2, OutSent

\* Who is at work.
LEMMA AtFacts ==
    ASSUME CallInv
    PROVE  /\ At("startup") => call.op = "startup" /\ app = "starting" /\ Alive /\ call # Idle
           /\ \A at \in {"read", "write", "disconnect"} :
                At(at) => /\ call.op \in {"read", "write", "disconnect"} /\ app = "open" /\ Alive
                          /\ call # Idle /\ startup.state = "idle" /\ ~Fresh
BY DEF CallInv, At, Idle, None, Alive, Fresh

\* The start of a call.
LEMMA CallAgrees ==
    ASSUME IInv, IInv', KInv, NEW op \in {"startup", "read", "write", "disconnect"}, Call(op)
    PROVE  KInv'
<1>1. /\ SessionTypes /\ SessionTypes' /\ CallInv /\ PendInv /\ CipherInv /\ HeldInv
      /\ UNCHANGED <<kx, asked, flags, ses, wstate, app, wire, srv, mismatch, hist, counters>>
      /\ UNCHANGED <<brigade, inbound, outbound, pend, disc>>
  BY DEF IInv, Types, KInv, Call, wire
<1>2. startup' = startup \/ (startup.state = "idle" /\ startup' = [startup EXCEPT !.state = "created"] /\ op = "startup")
  BY DEF Call
<1>3. startup'.state = startup.state \/ (startup.state = "idle" /\ startup'.state = "created" /\ op = "startup")
  BY <1>1, <1>2 DEF SessionTypes
<1>4. (Fresh' <=> Fresh) /\ (Ok' <=> Ok) /\ (Alive' <=> Alive)
  BY <1>1, <1>3 DEF Fresh, Ok, Alive
<1>5. CallInv'
  <2>1. PICK at \in {op, "read", "write"} :
          /\ at = IF op # "write" THEN op ELSE IF wstate = "created" THEN "write" ELSE "read"
          /\ op # "write" => at = op
    OBVIOUS
  <2>2. call' = [Idle EXCEPT !.op = op, !.at = at]
    BY <2>1 DEF Call
  <2>3. call' = [op |-> op, at |-> at, by |-> None]
    BY <2>2 DEF Idle
  <2>4. call'.op = op /\ call'.at = at /\ call'.by = None
    BY <2>3
  <2>5. call' \in Calls
    BY <2>1, <2>3 DEF Calls, Operations
  <2>6. IF op = "startup" THEN app = "starting" ELSE app = "open"
    BY DEF Call
  <2>7. op = "startup" => at = "startup"
    BY <2>1
  <2>8. op # "startup" => at \in {"read", "write", "disconnect"}
    BY <2>1
  <2>9. call'.by # "startup"
    BY <2>4 DEF None
  <2>10. /\ \/ call' = Idle'
            \/ call'.op = "startup" /\ call'.at = "startup" /\ call'.by \in {None, "startup"} /\ app' = "starting"
            \/ call'.op \in {"read", "write", "disconnect"} /\ call'.at \in {"read", "write", "disconnect"}
               /\ call'.by \in {None, "redirect", "packetAdd"} /\ app' = "open"
    BY <1>1, <2>4, <2>6, <2>7, <2>8
  <2>11. /\ app = "starting" => srv.n <= 1 /\ (startup'.state # "sent1" => kx = "idle")
         /\ app = "starting" /\ startup'.state \in {"idle", "created", "sent", "sent1"} => ses.local = NoKeys
         /\ app = "open" => startup'.state = "idle"
         /\ Ok /\ disc => srv.phase = "gone"
         /\ app \in {"starting", "open", "failed", "closed"}
    BY <1>1, <1>3, <2>6 DEF CallInv
  <2> QED
    BY <1>1, <1>4, <2>5, <2>9, <2>10, <2>11 DEF CallInv
<1>6. PendInv'
  <2>1. KexPacket' = KexPacket
    BY <1>1 DEF KexPacket
  <2> QED
    BY <1>1, <1>3, <1>4, <2>1 DEF PendInv
<1>7. CipherInv'
  BY <1>1, SendCiphers
<1>8. \A w \in Stages : InSide(w) => InSide(w)'
  BY <1>1, <1>4, NothingRead
<1>9. \A r \in Stages : OutSide(r) => OutSide(r)'
  BY <1>1, <1>4, NothingWritten
<1> QED
  BY <1>1, <1>4, <1>5, <1>6, <1>7, <1>8, <1>9, OutsideAgrees

\* Half of a banner, or all of it.
LEMMA BannerAgrees ==
    ASSUME IInv, IInv', KInv, SendsBanner
    PROVE  KInv'
<1>1. /\ SessionTypes /\ SessionTypes' /\ CallInv /\ PendInv /\ CipherInv /\ HeldInv /\ outbound \in Seq(Packets)
      /\ UNCHANGED <<kx, asked, flags, ses, wstate, hist, brigade, inbound, pend, disc, srv, mismatch>>
      /\ At("startup") /\ startup.state = "created"
  BY DEF IInv, Types, WireTypes, KInv, SendsBanner, NoExchange
<1>2. call.op = "startup" /\ app = "starting" /\ Alive /\ kx = "idle" /\ ses.local = NoKeys
  BY <1>1, AtFacts DEF CallInv
<1>3. /\ startup'.state \in {"created", "sent"} /\ app' = app
      /\ call' = call \/ call' = Idle
      /\ outbound' = outbound \/ \E ok \in BOOLEAN : outbound' = Append(outbound, Banner(ok))
  <2>1. PICK r : IF r = BannerLen - startup.sent
           THEN /\ startup' = [startup EXCEPT !.state = "sent", !.sent = 0]
                /\ outbound' = Append(outbound, Banner(~startup.garbled))
                /\ UNCHANGED <<call, app, blocks>>
           ELSE /\ blocks < MaxBlocks /\ blocks' = blocks + 1
                /\ startup' = [startup EXCEPT !.sent = @ + r, !.garbled = @ \/ r = -1]
                /\ Started("EAGAIN") /\ UNCHANGED outbound
    BY Zenon DEF SendsBanner
  <2>2. CASE /\ startup' = [startup EXCEPT !.state = "sent", !.sent = 0]
             /\ outbound' = Append(outbound, Banner(~startup.garbled))
             /\ UNCHANGED <<call, app, blocks>>
    <3>1. startup'.state = "sent"
      BY <1>1, <2>2 DEF SessionTypes
    <3>2. PICK ok \in BOOLEAN : ok = ~startup.garbled
      OBVIOUS
    <3> QED
      BY <2>2, <3>1, <3>2
  <2>3. CASE /\ startup' = [startup EXCEPT !.sent = @ + r, !.garbled = @ \/ r = -1]
             /\ Started("EAGAIN") /\ UNCHANGED outbound
    <3>1. startup'.state = startup.state
      BY <1>1, <2>3 DEF SessionTypes
    <3> QED
      BY <1>1, <2>3, <3>1 DEF Started
  <2> QED
    BY <2>1, <2>2, <2>3
<1>4. (Fresh' <=> Fresh) /\ (Ok' <=> Ok) /\ (Alive' <=> Alive)
  BY <1>1, <1>3 DEF Fresh, Ok, Alive
<1>5. CallInv'
  BY <1>1, <1>2, <1>3, <1>4 DEF CallInv, Idle, Calls, Operations, None
<1>6. PendInv'
  <2>1. KexPacket' = KexPacket
    BY <1>1 DEF KexPacket
  <2>2. Ok => pend.type # SERVICE_REQUEST
    BY <1>1, <1>2 DEF PendInv
  <2> QED
    BY <1>1, <1>3, <1>4, <2>1, <2>2 DEF PendInv
<1>7. CASE outbound' = outbound
  <2>1. CipherInv'
    BY <1>1, <1>7, SendCiphers
  <2>2. \A w \in Stages : InSide(w) => InSide(w)'
    BY <1>1, <1>4, NothingRead
  <2>3. \A r \in Stages : OutSide(r) => OutSide(r)'
    BY <1>1, <1>4, <1>7, NothingWritten
  <2> QED
    BY <1>1, <1>4, <1>5, <1>6, <2>1, <2>2, <2>3, OutsideAgrees
<1>8. CASE \E ok \in BOOLEAN : outbound' = Append(outbound, Banner(ok))
  <2>1. PICK ok \in BOOLEAN : outbound' = Append(outbound, Banner(ok))
    BY <1>8
  <2>2. PICK p : p = Banner(ok)
    OBVIOUS
  <2>3. NoKeys \in Keys /\ None \in Methods(CryptMethods)
    BY DEF NoKeys, Keys, Methods
  <2>4. p \in Packets /\ p.type = BANNER /\ p.keys = NoKeys /\ p.crypt = None
    BY <2>2, <2>3 DEF Banner, Packets, BANNER
  <2>5. CipherInv'
    <3>1. \A keys : Cipher(keys)' = Cipher(keys)
      BY <1>1, SameConditions
    <3>2. p.crypt = Cipher(p.keys)
      BY <2>4 DEF Cipher
    <3>3. /\ Len(outbound) \in Nat /\ Len(outbound') = Len(outbound) + 1 /\ outbound'[Len(outbound) + 1] = p
          /\ \A i \in 1..Len(outbound) : outbound'[i] = outbound[i]
      BY <1>1, <2>1, <2>2, <2>4, AppendProperties
    <3>4. \A i \in 1..Len(outbound') : outbound'[i].crypt = Cipher(outbound'[i].keys)
      BY <1>1, <3>2, <3>3 DEF CipherInv
    <3> QED
      BY <1>1, <3>1, <3>4 DEF CipherInv
  <2>6. Moves(InitType, OfferStage, hist', Speaks, p, Speaks)
    <3>1. ses.local[2] = 0 /\ p.keys = KeysOf(0)
      BY <1>2, <2>4 DEF NoKeys, KeysOf
    <3>2. Speaks = Stage("idle", 0)
      BY <1>2, <3>1 DEF Speaks
    <3> QED
      BY <2>4, <3>1, <3>2 DEF Moves, Keyed, ClientMoves, Stage
  <2>7. \A w \in Stages : InSide(w) => InSide(w)'
    BY <1>1, <1>4, NothingRead
  <2>8. \A r \in Stages : OutSide(r) => OutSide(r)'
    BY <1>1, <1>2, <2>1, <2>2, <2>4, <2>6, SomethingWritten
  <2> QED
    BY <1>1, <1>4, <1>5, <1>6, <2>5, <2>7, <2>8, OutsideAgrees
<1> QED
  BY <1>3, <1>7, <1>8

\* The line of the server's that is read first.
LEMMA ReceivesBannerAgrees ==
    ASSUME IInv, IInv', KInv, ReceivesBanner
    PROVE  KInv'
<1>1. /\ SessionTypes /\ SessionTypes' /\ CallInv /\ PendInv /\ CipherInv /\ HeldInv /\ inbound \in Seq(Packets)
      /\ UNCHANGED <<kx, asked, flags, ses, wstate, hist, brigade, outbound, pend, disc, srv, mismatch>>
      /\ At("startup") /\ startup.state = "sent" /\ inbound # <<>> /\ inbound' = Tail(inbound)
  BY DEF IInv, Types, WireTypes, KInv, ReceivesBanner, NoExchange
<1>2. call.op = "startup" /\ app = "starting" /\ Alive /\ kx = "idle" /\ ses.local = NoKeys /\ Fresh
  BY <1>1, AtFacts DEF CallInv, Fresh
<1>3. \/ startup'.state = "sent1" /\ UNCHANGED <<call, app>>
      \/ startup' = startup /\ call' = Idle /\ app' = "failed"
  <2>1. \/ startup' = [startup EXCEPT !.state = "sent1"] /\ UNCHANGED <<call, app>>
        \/ Started("FAIL") /\ UNCHANGED startup
    BY DEF ReceivesBanner
  <2>2. startup' = [startup EXCEPT !.state = "sent1"] => startup'.state = "sent1"
    BY <1>1 DEF SessionTypes
  <2>3. Started("FAIL") => call' = Idle /\ app' = "failed"
    BY DEF Started
  <2> QED
    BY <2>1, <2>2, <2>3
<1>4. (Ok' <=> Ok) /\ (Alive' => Alive)
  BY <1>1, <1>2 DEF Ok
<1>5. CallInv'
  BY <1>1, <1>2, <1>3, <1>4 DEF CallInv, Idle, Calls, Operations, None
<1>6. PendInv'
  <2>1. KexPacket' = KexPacket
    BY <1>1 DEF KexPacket
  <2>2. Ok => pend.type # SERVICE_REQUEST
    BY <1>1, <1>2 DEF PendInv
  <2> QED
    BY <1>1, <1>4, <2>1, <2>2 DEF PendInv
<1>7. CipherInv'
  BY <1>1, SendCiphers
<1>8. ASSUME NEW w \in Stages, Alive', InSide(w) PROVE InSide(w)'
  <2>1. startup'.state = "sent1" /\ ~Fresh'
    BY <1>3, <1>8 DEF Alive, Fresh
  <2>2. ASSUME NEW a \in Stages, NEW b \in Stages, HeardInv(a),
               Moves(InitType, OfferStage, hist, a, Head(inbound), b)
        PROVE  HeardInv(b)'
    <3>1. PICK p \in Packets : p = Head(inbound)
      BY <1>1
    <3>2. /\ a.n = ses.local[2] /\ Hears(a.st) /\ ServerMoves(InitType, OfferStage, a, p, b)
      BY <1>1, <2>2, <3>1, HeardMove
    <3>3. a.st = "fresh" /\ Tidy(brigade, ExchangePackets)
      <4>1. (Fresh => a.st = "fresh")
        BY <3>2, Zenon DEF Hears
      <4>2. kx = "idle" => Tidy(brigade, ExchangePackets)
        <5>1. kx \notin {"kexinit", "require"} /\ ~(kx = "reply" /\ Spoilt) => Tidy(brigade, ExchangePackets)
          BY <3>2, Zenon DEF Hears
        <5> QED
          BY <5>1
      <4> QED
        BY <1>2, <4>1, <4>2
    <3>4. b = Stage("quiet", a.n)
      BY <3>2, <3>3 DEF ServerMoves, Ready
    <3>5. Tidy(brigade', ExchangePackets)
      BY <1>1, <3>3
    <3>6. PICK s : s = "quiet"
      OBVIOUS
    <3>7. Hears(s)'
      BY <1>1, <1>2, <2>1, <3>5, <3>6, MovesHeard
    <3>8. b.st = s /\ b.n = ses'.local[2] /\ b.st # "end"
      BY <1>1, <3>2, <3>4, <3>6 DEF Stage
    <3> QED
      BY <3>7, <3>8 DEF HeardInv
  <2> QED
    BY <1>1, <1>8, <2>2, InRead
<1>9. \A r \in Stages : OutSide(r) => OutSide(r)'
  BY <1>1, <1>4, NothingWritten
<1> QED
  BY <1>1, <1>4, <1>5, <1>6, <1>7, <1>8, <1>9, OutsideAgrees

\* Entering an exchange, the client that has read nothing is where it was.
LEMMA EntersHeard ==
    ASSUME SessionTypes, srv' = srv, NEW by, Enters(by, ses), UNCHANGED <<brigade, disc>>, ~Fresh,
           NEW a \in Stages, HeardInv(a)
    PROVE  HeardInv(a)'
<1>1. /\ kx' = (IF kx = "idle" THEN "kexinit" ELSE kx) /\ (asked' <=> asked /\ kx # "idle")
      /\ startup' = startup /\ app' = app
  BY DEF Enters
<1>2. ~Fresh'
  BY <1>1 DEF Fresh
<1>3. CASE kx # "idle"
  <2>1. ses' = ses /\ kx' = kx
    BY <1>1, <1>3 DEF Enters
  <2>2. asked' => asked
    BY <1>1
  <2> QED
    BY <1>2, <2>1, <2>2, HeardSame
<1>4. CASE kx = "idle"
  <2>1. ses'.local = ses.local
    BY DEF Enters, SessionTypes
  <2>2. ASSUME NEW s, Hears(s) PROVE Hears(s)'
    <3>1. s = "quiet"
      BY <1>4, <2>2, Zenon DEF Hears
    <3>2. kx \notin {"kexinit", "require"} /\ ~(kx = "reply" /\ Spoilt) => Tidy(brigade, ExchangePackets)
      BY <2>2, Zenon DEF Hears
    <3>3. Tidy(brigade', ExchangePackets)
      BY <1>4, <3>2
    <3>4. kx' = "kexinit"
      BY <1>1, <1>4
    <3> QED
      BY <1>2, <3>1, <3>3, <3>4 DEF Hears
  <2>3. a.st # "end" => Hears(a.st)'
    BY <2>2 DEF HeardInv
  <2> QED
    BY <2>1, <2>3 DEF HeardInv
<1> QED
  BY <1>3, <1>4

\* An exchange is entered.
LEMMA EntersAgrees ==
    ASSUME IInv, IInv', KInv, srv' = srv, NEW by, Enters(by, ses), outbound' = outbound, pend' = pend,
           \/ by = "startup" /\ At("startup") /\ startup.state = "sent1"
           \/ by \in {"redirect", "packetAdd"} /\ At("read"),
           inbound' = inbound \/ (inbound # <<>> /\ inbound' = Tail(inbound)), mismatch' => mismatch \/ ~Ok,
           Ok /\ disc' => srv.phase = "gone", \A w \in Stages : Ok /\ InSide(w) => InSide(w)'
    PROVE  KInv'
<1>1. /\ SessionTypes /\ SessionTypes' /\ HeldInv /\ CallInv /\ PendInv /\ CipherInv /\ CauseInv
      /\ UNCHANGED <<startup, app, hist>>
  BY DEF IInv, Types, KInv, Enters
<1>2. kx' = IF kx = "idle" THEN "kexinit" ELSE kx
  BY DEF Enters
<1>3. /\ ses'.local = ses.local /\ ses'.sid = ses.sid /\ ses'.burn = ses.burn
      /\ kx # "idle" => ses' = ses
  BY <1>1 DEF Enters, SessionTypes
<1>4. flags'.newkeys = flags.newkeys /\ (flags'.exchanging <=> kx' # "idle")
  <2>1. flags' = [flags EXCEPT !.active = TRUE, !.exchanging = @ \/ kx = "idle"]
    BY DEF Enters
  <2>2. flags'.newkeys = flags.newkeys /\ (flags'.exchanging <=> flags.exchanging \/ kx = "idle")
    BY <1>1, <2>1 DEF SessionTypes
  <2> QED
    BY <1>1, <1>2, <2>2 DEF HeldInv
<1>5. (Ok' <=> Ok) /\ (Alive' <=> Alive) /\ Alive
  BY <1>1, AtFacts DEF Ok, Alive
<1>6. HeldInv'
  BY <1>1, <1>3, <1>4, <1>5, HeldKept
<1>7. CallInv'
  <2>1. call' = [call EXCEPT !.by = by]
    BY DEF Enters
  <2>2. by \in {"startup", "redirect", "packetAdd"} /\ call \in Calls /\ call # Idle
    BY <1>1, AtFacts DEF CallInv
  <2>3. call' \in Calls /\ call'.by = by /\ call'.op = call.op /\ call'.at = call.at
    BY <2>1, <2>2 DEF Calls
  <2>4. CASE by = "startup"
    <3>1. startup.state = "sent1" /\ call.op = "startup" /\ call.at = "startup" /\ app = "starting"
      BY <1>1, <2>4, AtFacts DEF At
    <3>2. app' = "starting" /\ call'.op = "startup" /\ call'.at = "startup" /\ call'.by = "startup"
          /\ startup'.state = "sent1" /\ ses'.local = ses.local /\ srv' = srv
      BY <1>1, <1>3, <2>3, <2>4, <3>1
    <3>3. srv.n <= 1 /\ ses.local = NoKeys
      BY <1>1, <3>1 DEF CallInv
    <3> QED
      BY <1>5, <2>3, <3>2, <3>3 DEF CallInv
  <2>5. CASE by # "startup"
    <3>1. call.op \in {"read", "write", "disconnect"} /\ call.at = "read" /\ app = "open"
      BY <1>1, <2>5, AtFacts DEF At
    <3>2. /\ app' = "open" /\ call'.op \in {"read", "write", "disconnect"} /\ call'.at = "read"
          /\ call'.by \in {"redirect", "packetAdd"} /\ startup'.state = startup.state
      BY <1>1, <2>2, <2>3, <2>5, <3>1
    <3>3. startup.state = "idle"
      BY <1>1, <3>1 DEF CallInv
    <3> QED
      BY <1>5, <2>3, <3>2, <3>3 DEF CallInv
  <2> QED
    BY <2>4, <2>5
<1>8. PendInv'
  <2>1. Ok => pend.type # SERVICE_REQUEST
    <3>1. startup.state # "sent3"
      BY <1>1, AtFacts
    <3> QED
      BY <1>1, <1>5, <3>1 DEF PendInv
  <2>2. CASE kx = "idle"
    BY <1>1, <1>2, <1>3, <1>5, <2>1, <2>2 DEF PendInv
  <2>3. CASE kx # "idle"
    <3>1. KexPacket' = KexPacket /\ kx' = kx
      BY <1>2, <1>3, <2>3 DEF KexPacket
    <3> QED
      BY <1>1, <1>3, <1>5, <2>3, <3>1 DEF PendInv
  <2> QED
    BY <2>2, <2>3
<1>9. CipherInv'
  BY <1>1, SendCiphers
<1>10. CauseInv'
  BY <1>1, <1>3, CauseKept
<1>11. ASSUME NEW r \in Stages, OutSide(r) PROVE OutSide(r)'
  <2>1. Speaks' = Speaks
    <3>1. CASE kx = "idle"
      BY <1>2, <1>3, <3>1 DEF Speaks
    <3>2. CASE kx # "idle"
      BY <1>2, <1>3, <3>2, SpeaksSame
    <3> QED
      BY <3>1, <3>2
  <2>2. ses'.local[2] \in {ses.local[2], ses.local[2] + 1}
    BY <1>3
  <2> QED
    BY <1>1, <1>5, <1>11, <2>1, <2>2, OutKept
<1> QED
  BY <1>1, <1>5, <1>6, <1>7, <1>8, <1>9, <1>10, <1>11, ClientKeeps

\* kex_exchange is entered by session_startup, or by transport_read.
LEMMA StartsAgrees ==
    ASSUME IInv, IInv', KInv, StartsExchange \/ Redirects
    PROVE  KInv'
<1>1. PICK by : /\ Enters(by, ses)
                /\ \/ by = "startup" /\ At("startup") /\ startup.state = "sent1"
                   \/ by \in {"redirect", "packetAdd"} /\ At("read")
  BY DEF StartsExchange, Redirects
<1>2. srv' = srv /\ UNCHANGED <<brigade, inbound, outbound, pend, disc>> /\ mismatch' = mismatch
  BY DEF StartsExchange, Redirects, wire
<1>3. SessionTypes /\ CallInv /\ hist' = hist
  BY <1>1 DEF IInv, Types, KInv, Enters
<1>4. ~Fresh /\ (Ok /\ disc' => srv.phase = "gone")
  <2>1. ~Fresh
    BY <1>1, <1>3, AtFacts DEF Fresh
  <2> QED
    BY <1>2, <1>3, <2>1 DEF CallInv
<1>5. ASSUME NEW w \in Stages, InSide(w) PROVE InSide(w)'
  <2>1. \A a \in Stages : HeardInv(a) => HeardInv(a)'
    BY <1>1, <1>2, <1>3, <1>4, EntersHeard
  <2> QED
    BY <1>2, <1>3, <1>5, <2>1, InKept
<1> QED
  BY <1>1, <1>2, <1>4, <1>5, EntersAgrees

\* The request for the service.
LEMMA RequestsAgrees ==
    ASSUME IInv, IInv', KInv, RequestsService
    PROVE  KInv'
<1>1. /\ SessionTypes /\ SessionTypes' /\ CallInv /\ PendInv /\ CipherInv /\ HeldInv
      /\ outbound \in Seq(Packets) /\ pend \in Packets
      /\ UNCHANGED <<kx, asked, flags, ses, wstate, hist, brigade, inbound, disc, srv, mismatch>>
      /\ At("startup") /\ startup.state = "sent3"
  BY DEF IInv, Types, WireTypes, KInv, RequestsService, NoExchange
<1>2. call.op = "startup" /\ app = "starting" /\ Alive /\ kx = "idle" /\ ~Fresh
  BY <1>1, AtFacts DEF CallInv, Fresh
<1>3. PICK rc \in {"NONE", "EAGAIN", "FAIL"} :
         /\ Send(SERVICE_REQUEST, rc)
         /\ IF rc = "NONE" THEN startup' = [startup EXCEPT !.state = "sent4"] /\ UNCHANGED <<call, app>>
            ELSE Started(rc) /\ UNCHANGED startup
  BY DEF RequestsService
<1>4. PICK type \in Nat : type = SERVICE_REQUEST /\ type \notin {-1, CHANNEL_DATA, DISCONNECT}
  BY DEF SERVICE_REQUEST, CHANNEL_DATA, DISCONNECT
<1>5. /\ rc = "NONE" => startup'.state = "sent4" /\ UNCHANGED <<call, app>>
      /\ rc = "EAGAIN" => startup' = startup /\ call' = Idle /\ app' = app
      /\ rc = "FAIL" => startup' = startup /\ call' = Idle /\ app' = "failed"
  BY <1>1, <1>3 DEF Started, SessionTypes
<1>6. (Ok' <=> Ok) /\ (Alive' => Alive) /\ ~Fresh'
  <2>1. startup'.state \in {"sent3", "sent4"}
    BY <1>1, <1>5
  <2> QED
    BY <1>1, <1>2, <2>1 DEF Ok, Fresh
<1>7. CallInv'
  BY <1>1, <1>2, <1>5, <1>6 DEF CallInv, Idle, Calls, Operations, None
<1>8. CipherInv'
  BY <1>1, <1>3, <1>4, SendCiphers
<1>9. \A w \in Stages : InSide(w) => InSide(w)'
  BY <1>1, <1>2, <1>6, NothingRead
<1>10. CASE rc = "NONE"
  <2>1. PICK p \in Packets : p = IF pend.type = type THEN pend ELSE Packet(type)
    BY <1>1, <1>4, PacketFacts DEF KInv
  <2>2. outbound' = Append(outbound, p) /\ pend'.type = -1
    BY <1>3, <1>4, <1>10, <2>1 DEF Send, NoPacket
  <2>3. p.type = type /\ (Ok => p.keys = ses.local)
    BY <1>1, <1>2, <1>4, <2>1, PacketFacts DEF PendInv
  <2>4. PendInv'
    BY <2>2, PendNone
  <2>5. ASSUME NEW r \in Stages, Ok', OutSide(r) PROVE OutSide(r)'
    <3>1. PICK c \in Nat : c = ses.local[2]
      BY <1>1 DEF SessionTypes, Keys
    <3>2. p.keys = KeysOf(c)
      BY <1>1, <1>6, <2>3, <2>5, <3>1 DEF HeldInv
    <3>3. Speaks = Stage("idle", c)
      BY <1>2, <3>1 DEF Speaks
    <3>4. Moves(InitType, OfferStage, hist', Speaks, p, Speaks)
      BY <1>4, <2>3, <3>2, <3>3 DEF Moves, Keyed, ClientMoves, Stage
    <3> QED
      BY <1>1, <1>2, <2>2, <2>5, <3>4, SomethingWritten
  <2> QED
    BY <1>1, <1>6, <1>7, <1>8, <1>9, <2>4, <2>5, OutsideAgrees
<1>11. CASE rc \in {"EAGAIN", "FAIL"}
  <2>1. outbound' = outbound
    BY <1>3, <1>11 DEF Send
  <2>2. \A r \in Stages : OutSide(r) => OutSide(r)'
    BY <1>1, <1>6, <2>1, NothingWritten
  <2>3. PendInv'
    <3>1. CASE rc = "FAIL"
      BY <1>5, <3>1 DEF PendInv, Alive
    <3>2. CASE rc = "EAGAIN"
      <4>1. pend' = Packet(type) /\ startup'.state = "sent3"
        BY <1>1, <1>3, <1>4, <1>5, <3>2 DEF Send
      <4>2. pend'.type = type /\ pend'.keys = ses'.local
        BY <1>1, <1>4, <4>1, PacketFacts
      <4> QED
        BY <1>1, <1>2, <1>4, <4>1, <4>2 DEF PendInv
    <3> QED
      BY <1>11, <3>1, <3>2
  <2> QED
    BY <1>1, <1>6, <1>7, <1>8, <1>9, <2>2, <2>3, OutsideAgrees
<1> QED
  BY <1>10, <1>11

\* What the client may read outside of an exchange.
LEMMA QuietRead ==
    ASSUME IInv, kx = "idle", ~Fresh, ReadsPacket, NEW a \in Stages, NEW b \in Stages, HeardInv(a),
           Moves(InitType, OfferStage, hist, a, Head(inbound), b)
    PROVE  \E p \in Packets :
             /\ p = Head(inbound) /\ ReadRc = p.type /\ ReadBrigade = Append(brigade, p) /\ a.st = "quiet"
             /\ a.n = ses.local[2] /\ b.st # "end" /\ Tidy(brigade, ExchangePackets)
             /\ \/ p.type \in {CHANNEL_DATA, SERVICE_ACCEPT} /\ b = a
                \/ p.type = KEXINIT /\ b = Stage(OfferStage, a.n)
<1>1. PICK p \in Packets :
             /\ p = Head(inbound) /\ p.type # DISCONNECT /\ ReadRc = p.type /\ b.st # "end"
             /\ p \in {inbound[i] : i \in 1..Len(inbound)}
             /\ ReadBrigade = IF p.type > 0 THEN Append(brigade, p) ELSE brigade
             /\ Hears(a.st) /\ a.n = ses.local[2] /\ ServerMoves(InitType, OfferStage, a, p, b)
             /\ InitType \in {30, 32} /\ OfferStage \in {"offered", "open"}
  BY PacketRead
<1>2. a.st = "quiet"
  BY <1>1, Zenon DEF Hears
<1>3. Tidy(brigade, ExchangePackets)
  <2>1. kx \notin {"kexinit", "require"} /\ ~(kx = "reply" /\ Spoilt) => Tidy(brigade, ExchangePackets)
    BY <1>1, Zenon DEF Hears
  <2> QED
    BY <2>1
<1>4. \/ p.type = KEXINIT /\ b = Stage(OfferStage, a.n)
      \/ p.type \in {CHANNEL_DATA, SERVICE_ACCEPT} /\ b = a
  <2>1. PICK half \in {30, 32}, offer \in {"offered", "open"} : half = InitType /\ offer = OfferStage
    BY <1>1
  <2>2. ServerMoves(half, offer, a, p, b)
    BY <1>1, <2>1
  <2>3. \/ p.type = KEXINIT /\ b = Stage(offer, a.n)
        \/ p.type \in {CHANNEL_DATA, SERVICE_ACCEPT} /\ b = a
    BY <1>1, <1>2, <2>2, StepFrom
  <2> QED
    BY <2>1, <2>3
<1>5. p.type > 0
  BY <1>4 DEF KEXINIT, CHANNEL_DATA, SERVICE_ACCEPT
<1> QED
  BY <1>1, <1>2, <1>3, <1>4, <1>5

\* Whatever else than KEXINIT it reads, it stays outside.
LEMMA QuietSide ==
    ASSUME IInv, KInv, Ok, kx = "idle", ~Fresh, ~Fresh', srv' = srv, hist \subseteq hist', UNCHANGED <<kx, ses, asked>>,
           ReadsNone \/ ReadsDisconnect \/ ReadsPacket, ReadRc # KEXINIT,
           ~ReadsPacket => brigade' = ReadBrigade,
           ReadsPacket /\ Tidy(brigade, ExchangePackets) => Tidy(brigade', ExchangePackets),
           NEW w \in Stages, InSide(w)
    PROVE  InSide(w)'
<1>1. SessionTypes
  BY DEF IInv, Types
<1>2. ASSUME ReadsNone PROVE \A a \in Stages : HeardInv(a) => HeardInv(a)'
  <2>1. (ReadRc = 0 /\ disc) \/ ReadRc = EAGAIN
    BY <1>2 DEF ReadsNone
  <2>2. CASE ReadsPacket
    <3>1. disc /\ ReadRc = 0
      BY <1>2, <2>1, <2>2, ReadsNothing DEF ReadsPacket, ReadsNone, EAGAIN
    <3> QED
      BY <2>2, <3>1 DEF ReadsPacket
  <2>3. CASE ~ReadsPacket
    <3>1. brigade' = brigade /\ (disc => disc')
      BY <1>2, <2>3 DEF ReadsNone
    <3> QED
      BY <3>1, HeardSame
  <2> QED
    BY <2>2, <2>3
<1>3. ASSUME ReadsPacket, NEW a \in Stages, NEW b \in Stages, HeardInv(a),
             Moves(InitType, OfferStage, hist, a, Head(inbound), b)
      PROVE  HeardInv(b)'
  <2>1. PICK p \in Packets :
             /\ p = Head(inbound) /\ ReadRc = p.type /\ ReadBrigade = Append(brigade, p) /\ a.st = "quiet"
             /\ a.n = ses.local[2] /\ b.st # "end" /\ Tidy(brigade, ExchangePackets)
             /\ \/ p.type \in {CHANNEL_DATA, SERVICE_ACCEPT} /\ b = a
                \/ p.type = KEXINIT /\ b = Stage(OfferStage, a.n)
    BY <1>3, QuietRead
  <2>2. b = a /\ Tidy(brigade', ExchangePackets)
    BY <1>3, <2>1
  <2>3. PICK s : s = "quiet"
    OBVIOUS
  <2>4. Hears(s)'
    BY <2>2, <2>3, MovesHeard
  <2> QED
    BY <2>1, <2>2, <2>3, <2>4 DEF HeardInv
<1> QED
  BY <1>1, <1>2, <1>3, ReadSide

\* The last step of the start: the service is accepted.
LEMMA AwaitsAgrees ==
    ASSUME IInv, IInv', KInv, AwaitsService
    PROVE  KInv'
<1>1. /\ SessionTypes /\ SessionTypes' /\ SessionInv /\ TrafficInv /\ CallInv /\ PendInv /\ CipherInv /\ HeldInv
      /\ brigade \in Seq(Packets) /\ srv.n \in Nat /\ inbound \in Seq(Packets)
      /\ UNCHANGED <<kx, asked, flags, ses, wstate, hist, outbound, pend, srv>>
      /\ At("startup") /\ startup.state = "sent4" /\ Receives
  BY DEF IInv, Types, ServerTypes, WireTypes, KInv, AwaitsService, NoExchange
<1>2. call.op = "startup" /\ app = "starting" /\ Alive /\ kx = "idle" /\ ~Fresh
  BY <1>1, AtFacts DEF CallInv, Fresh
<1>3. /\ startup'.state \in {"idle", "sent4"} /\ app' \in {"starting", "open", "failed"}
      /\ call' = call \/ call' = Idle
      /\ app' = "open" => startup'.state = "idle" /\ call' = Idle
      /\ app' = "starting" => startup' = startup
      /\ app' = "failed" => call' = Idle
  <2>1. CASE ReadRc = SERVICE_ACCEPT
    <3>1. startup' = [startup EXCEPT !.state = "idle"] /\ Started("NONE")
      BY <2>1 DEF AwaitsService
    <3>2. startup'.state = "idle" /\ call' = Idle /\ app' = "open"
      BY <1>1, <3>1 DEF Started, SessionTypes
    <3> QED
      BY <3>2
  <2>2. CASE ReadRc # SERVICE_ACCEPT
    <3>1. startup' = startup
      BY <2>2 DEF AwaitsService
    <3>2. CASE ReadRc = EAGAIN
      <4>1. Started("EAGAIN")
        BY <2>2, <3>2 DEF AwaitsService, EAGAIN, FAIL
      <4> QED
        BY <1>1, <1>2, <3>1, <4>1 DEF Started
    <3>3. CASE ReadRc \in {FAIL, 0}
      <4>1. Started("FAIL")
        BY <2>2, <3>3 DEF AwaitsService, EAGAIN, FAIL
      <4> QED
        BY <1>1, <1>2, <3>1, <4>1 DEF Started
    <3>4. CASE ReadRc # EAGAIN /\ ReadRc \notin {FAIL, 0}
      <4>1. UNCHANGED <<call, app>>
        BY <2>2, <3>4 DEF AwaitsService
      <4> QED
        BY <1>1, <1>2, <3>1, <4>1
    <3> QED
      BY <3>2, <3>3, <3>4
  <2> QED
    BY <2>1, <2>2
<1>4. (Ok' <=> Ok) /\ (Alive' => Alive)
  BY <1>1, <1>2 DEF Ok
<1>5. /\ mismatch' => mismatch \/ ~Ok
      /\ Ok /\ disc' => srv.phase = "gone"
      /\ Ok => ReadsNone \/ ReadsDisconnect \/ ReadsPacket
      /\ inbound' = inbound \/ (inbound # <<>> /\ inbound' = Tail(inbound))
  BY <1>1, <1>2, ReadKeeps
<1>6. CallInv'
  BY <1>1, <1>2, <1>3, <1>4, <1>5 DEF CallInv, Idle, Calls, Operations, None
<1>7. PendInv'
  <2>1. KexPacket' = KexPacket
    BY <1>1 DEF KexPacket
  <2>2. Ok => pend.type # SERVICE_REQUEST
    BY <1>1, <1>2 DEF PendInv
  <2> QED
    BY <1>1, <1>4, <2>1, <2>2 DEF PendInv
<1>8. CipherInv'
  BY <1>1, <1>5, SendCiphers
<1>9. ASSUME NEW w \in Stages, Ok, Alive', InSide(w) PROVE InSide(w)'
  <2>1. ~Fresh'
    BY <1>1, <1>3 DEF Fresh
  <2>2. ReadRc # KEXINIT
    <3>1. SUFFICES ASSUME ReadRc = KEXINIT PROVE FALSE
      OBVIOUS
    <3>2. ReadRc > 0
      BY <3>1 DEF KEXINIT
    <3>3. inbound # <<>> /\ Head(inbound).type = KEXINIT
      BY <1>1, <3>1, <3>2, ReadFacts
    <3>4. PICK p \in Packets : p = inbound[1] /\ p.type = KEXINIT /\ 1 \in 1..Len(inbound)
      BY <1>1, <3>3
    <3>5. Newer(p.n) /\ p.n <= srv.n
      BY <1>1, <3>4 DEF TrafficInv, Fine
    <3>6. ses.local[2] \in Nat /\ p.n \in Nat /\ ses.local[2] < p.n
      BY <1>1, <3>5 DEF Newer, SessionTypes, Keys, Packets
    <3>7. srv.n <= 1
      BY <1>1, <1>2 DEF CallInv
    <3>8. ses.local[2] = 0
      BY <1>1, <3>5, <3>6, <3>7
    <3>9. ses.local = NoKeys
      BY <1>1, <3>8 DEF HeldInv, KeysOf
    <3> QED
      BY <1>1, <3>9 DEF HeldInv, SessionInv
  <2>3. ~ReadsPacket => brigade' = ReadBrigade
    <3>1. SERVICE_ACCEPT \in Nat \ {0}
      BY TypesDiffer
    <3>2. ReadRc = SERVICE_ACCEPT => ReadsPacket
      BY <1>5, <1>9, <3>1, TypesDiffer DEF ReadsNone, ReadsDisconnect
    <3> QED
      BY <3>2 DEF AwaitsService
  <2>4. ASSUME ReadsPacket, Tidy(brigade, ExchangePackets) PROVE Tidy(brigade', ExchangePackets)
    <3>1. PICK a \in Stages, b \in Stages :
            /\ HeardInv(a) /\ Moves(InitType, OfferStage, hist, a, Head(inbound), b)
      BY <1>2, <1>9, <2>4, Leading
    <3>2. PICK p \in Packets :
             /\ p = Head(inbound) /\ ReadRc = p.type /\ ReadBrigade = Append(brigade, p)
             /\ \/ p.type \in {CHANNEL_DATA, SERVICE_ACCEPT} /\ b = a
                \/ p.type = KEXINIT /\ b = Stage(OfferStage, a.n)
      BY <1>2, <2>4, <3>1, QuietRead
    <3>3. p.type \notin ExchangePackets
      BY <2>2, <3>2, TypesDiffer
    <3>4. PICK T : T = ExchangePackets
      OBVIOUS
    <3>5. Tidy(ReadBrigade, T) /\ ReadBrigade \in Seq(Packets)
      BY <1>1, <2>4, <3>2, <3>3, <3>4, AppendTidy
    <3>6. CASE ReadRc = SERVICE_ACCEPT
      <4>1. PICK q \in Seq(Packets) : q = ReadBrigade
        BY <3>5
      <4>2. brigade' = Without(q, SERVICE_ACCEPT)
        BY <3>6, <4>1 DEF AwaitsService
      <4>3. Asked(q, SERVICE_ACCEPT) # {}
        <5>1. ReadRc > 0
          BY <3>6, TypesDiffer
        <5> QED
          BY <1>1, <3>6, <4>1, <5>1, ReadFacts
      <4>4. Tidy(q, T)
        BY <3>5, <4>1
      <4>5. Tidy(Without(q, SERVICE_ACCEPT), T)
        BY <4>3, <4>4, TakeTidy
      <4> QED
        BY <3>4, <4>2, <4>5
    <3>7. CASE ReadRc # SERVICE_ACCEPT
      BY <3>4, <3>5, <3>7 DEF AwaitsService
    <3> QED
      BY <3>6, <3>7
  <2> QED
    BY <1>1, <1>2, <1>5, <1>9, <2>1, <2>2, <2>3, <2>4, QuietSide
<1>10. \A r \in Stages : OutSide(r) => OutSide(r)'
  BY <1>1, <1>4, NothingWritten
<1> QED
  BY <1>1, <1>4, <1>5, <1>6, <1>7, <1>8, <1>9, <1>10, OutsideAgrees

\* The last packet of the brigade is the server's KEXINIT.
LEMMA OfferRead ==
    ASSUME brigade \in Seq(Packets), NEW p \in Packets, p.type = KEXINIT, Tidy(brigade, ExchangePackets),
           brigade' = Append(brigade, p)
    PROVE  Offered'
<1>1. PICK b \in Seq(Packets) : b = brigade
  OBVIOUS
<1>2. PICK c \in Seq(Packets) : c = Append(b, p)
  <2>1. Append(b, p) \in Seq(Packets)
    BY AppendProperties
  <2> QED
    BY <2>1
<1>3. /\ Len(b) \in Nat /\ Len(c) = Len(b) + 1 /\ c[Len(b) + 1] = p
      /\ \A i \in 1..Len(b) : c[i] = b[i]
  BY <1>2, AppendProperties
<1>4. \A i \in 1..Len(b) : b[i].type \notin ExchangePackets
  BY <1>1 DEF Tidy
<1>5. Len(c) > 0 /\ c[Len(c)].type = KEXINIT /\ \A i \in 1..(Len(c) - 1) : c[i].type \notin ExchangePackets
  <2>1. PICK n \in Nat : n = Len(b)
    BY <1>3
  <2>2. Len(c) = n + 1 /\ Len(c) - 1 = n
    BY <1>3, <2>1
  <2>3. c[n + 1].type = KEXINIT /\ \A i \in 1..n : c[i].type \notin ExchangePackets
    BY <1>3, <1>4, <2>1
  <2> QED
    BY <2>2, <2>3
<1>6. brigade' = c
  BY <1>1, <1>2
<1> QED
  BY <1>5, <1>6 DEF Offered

\* A reader of packets.
LEMMA ReadsAgrees ==
    ASSUME IInv, IInv', KInv, Reads
    PROVE  KInv'
<1>1. /\ SessionTypes /\ SessionTypes' /\ CallInv /\ PendInv /\ CipherInv /\ HeldInv /\ brigade \in Seq(Packets)
      /\ UNCHANGED <<outbound, pend, srv>> /\ brigade' = ReadBrigade
      /\ At("read") /\ ~flags.exchanging /\ Receives
  BY DEF IInv, Types, WireTypes, KInv, Reads
<1>2. /\ call.op \in {"read", "write", "disconnect"} /\ app = "open" /\ Alive /\ call # Idle /\ kx = "idle"
      /\ startup.state = "idle" /\ ~Fresh
  BY <1>1, AtFacts DEF HeldInv
<1>3. /\ mismatch' => mismatch \/ ~Ok
      /\ Ok /\ disc' => srv.phase = "gone"
      /\ Ok => ReadsNone \/ ReadsDisconnect \/ ReadsPacket
      /\ inbound' = inbound \/ (inbound # <<>> /\ inbound' = Tail(inbound))
  BY <1>1, <1>2, ReadKeeps
<1>4. CASE ReadRc = KEXINIT
  <2>1. Enters("packetAdd", ses)
    BY <1>4 DEF Reads
  <2>2. kx' = "kexinit" /\ hist' = hist /\ UNCHANGED <<startup, app>>
    BY <1>2, <2>1 DEF Enters
  <2>3. ses'.local = ses.local
    BY <1>1, <2>1 DEF Enters, SessionTypes
  <2>4. ~Fresh'
    BY <1>2, <2>2 DEF Fresh
  <2>5. ASSUME NEW w \in Stages, Ok, InSide(w) PROVE InSide(w)'
    <3>1. ReadsPacket /\ ~ReadsNone
      BY <1>3, <1>4, <2>5, TypesDiffer DEF ReadsNone, ReadsDisconnect
    <3>2. ASSUME NEW a \in Stages, NEW b \in Stages, HeardInv(a),
                 Moves(InitType, OfferStage, hist, a, Head(inbound), b)
          PROVE  HeardInv(b)'
      <4>1. PICK p \in Packets :
             /\ p = Head(inbound) /\ ReadRc = p.type /\ ReadBrigade = Append(brigade, p) /\ a.st = "quiet"
             /\ a.n = ses.local[2] /\ b.st # "end" /\ Tidy(brigade, ExchangePackets)
             /\ \/ p.type \in {CHANNEL_DATA, SERVICE_ACCEPT} /\ b = a
                \/ p.type = KEXINIT /\ b = Stage(OfferStage, a.n)
        BY <1>2, <3>1, <3>2, QuietRead
      <4>2. p.type = KEXINIT /\ b = Stage(OfferStage, a.n)
        BY <1>4, <4>1, TypesDiffer
      <4>3. Offered'
        BY <1>1, <4>1, <4>2, OfferRead
      <4>4. PICK s : s = OfferStage
        OBVIOUS
      <4>5. s = OfferStage'
        BY <1>1, <4>4, SameConditions
      <4>6. Hears(s)'
        BY <2>2, <2>4, <4>3, <4>5 DEF Hears
      <4>7. b.st = s /\ b.n = ses'.local[2]
        BY <2>3, <4>1, <4>2, <4>4 DEF Stage
      <4> QED
        BY <4>1, <4>6, <4>7 DEF HeardInv
    <3> QED
      BY <1>1, <2>2, <2>5, <3>1, <3>2, ReadSide
  <2> QED
    BY <1>1, <1>3, <2>1, <2>5, EntersAgrees
<1>5. CASE ReadRc # KEXINIT
  <2>1. ReadEnds(ReadRc) /\ UNCHANGED <<kx, asked, flags, ses, wstate, hist>> /\ UNCHANGED startup
    BY <1>5 DEF Reads, NoExchange
  <2>2. /\ call' \in Calls
        /\ \/ call' = Idle
           \/ call'.op \in {"read", "write", "disconnect"} /\ call'.at \in {"read", "write", "disconnect"}
              /\ call'.by = None /\ app' = app
        /\ app' = app \/ app' = "failed"
    BY <1>1, <1>2, <2>1, ReadEndsFacts
  <2>3. (Ok' <=> Ok) /\ (Alive' => Alive) /\ ~Fresh'
    <3>1. Ok' <=> Ok
      BY <2>1 DEF Ok
    <3>2. startup'.state = "idle" /\ app' \in {"open", "failed"}
      BY <1>2, <2>1, <2>2
    <3> QED
      BY <1>2, <3>1, <3>2 DEF Fresh
  <2>4. CallInv'
    <3>1. /\ call' = Idle => call'.by = None
          /\ None # "startup"
      BY DEF Idle, None
    <3> QED
      BY <1>1, <1>2, <1>3, <2>1, <2>2, <2>3, <3>1 DEF CallInv
  <2>5. PendInv'
    <3>1. KexPacket' = KexPacket
      BY <2>1 DEF KexPacket
    <3> QED
      BY <1>1, <2>1, <2>3, <3>1 DEF PendInv
  <2>6. CipherInv'
    BY <1>1, <1>3, SendCiphers
  <2>7. ASSUME NEW w \in Stages, Ok, InSide(w) PROVE InSide(w)'
    <3>1. ASSUME ReadsPacket, Tidy(brigade, ExchangePackets) PROVE Tidy(brigade', ExchangePackets)
      <4>1. PICK a \in Stages, b \in Stages :
            /\ HeardInv(a) /\ Moves(InitType, OfferStage, hist, a, Head(inbound), b)
        BY <1>2, <2>7, <3>1, Leading
      <4>2. PICK p \in Packets :
             /\ p = Head(inbound) /\ ReadRc = p.type /\ ReadBrigade = Append(brigade, p)
             /\ \/ p.type \in {CHANNEL_DATA, SERVICE_ACCEPT} /\ b = a
                \/ p.type = KEXINIT /\ b = Stage(OfferStage, a.n)
        BY <1>2, <3>1, <4>1, QuietRead
      <4>3. p.type \notin ExchangePackets
        BY <1>5, <4>2, TypesDiffer
      <4>4. brigade' = Append(brigade, p)
        BY <1>1, <4>2
      <4> QED
        BY <1>1, <3>1, <4>3, <4>4, DataTidy
    <3> QED
      BY <1>1, <1>2, <1>3, <1>5, <2>1, <2>3, <2>7, <3>1, QuietSide
  <2>8. \A r \in Stages : OutSide(r) => OutSide(r)'
    BY <1>1, <2>1, <2>3, NothingWritten
  <2> QED
    BY <1>1, <1>3, <2>1, <2>3, <2>4, <2>5, <2>6, <2>7, <2>8, OutsideAgrees
<1> QED
  BY <1>4, <1>5

\* What may be written at any time.
LEMMA RudeAgrees ==
    ASSUME IInv, IInv', KInv, NEW at \in {"write", "disconnect"}, At(at), NEW type \in {CHANNEL_DATA, DISCONNECT},
           NEW rc \in {"NONE", "EAGAIN", "FAIL"}, Send(type, rc), hist' = Rude(rc), call' = Idle,
           app' = app \/ app' \in {"failed", "closed"}, rc = "FAIL" => app' \in {"failed", "closed"},
           UNCHANGED <<startup, kx, asked, flags, ses, brigade, inbound, disc, srv, mismatch>>
    PROVE  KInv'
<1>1. /\ SessionTypes /\ SessionTypes' /\ CallInv /\ PendInv /\ CipherInv /\ HeldInv
      /\ outbound \in Seq(Packets) /\ pend \in Packets
  BY DEF IInv, Types, WireTypes, KInv
<1>2. app = "open" /\ Alive /\ ~Fresh /\ startup.state = "idle"
  BY <1>1, AtFacts
<1>3. /\ hist \subseteq hist' /\ (Ok' <=> Ok) /\ (Alive' => Alive) /\ ~Fresh'
      /\ "failed" \in hist' => "failed" \in hist
      /\ rc # "FAIL" /\ kx # "idle" => "rude" \in hist'
  BY <1>1, <1>2 DEF Rude, Ok, Fresh, HeldInv
<1>4. type \in Nat /\ type \notin {-1, SERVICE_REQUEST}
  BY DEF CHANNEL_DATA, DISCONNECT, SERVICE_REQUEST
<1>5. CallInv'
  BY <1>1, <1>2, <1>3 DEF CallInv, Idle, Calls, Operations, None
<1>6. CipherInv'
  BY <1>1, <1>4, SendCiphers
<1>7. \A w \in Stages : InSide(w) => InSide(w)'
  BY <1>1, <1>2, <1>3, NothingRead
<1>8. CASE rc = "NONE"
  <2>1. PICK p \in Packets : p = IF pend.type = type THEN pend ELSE Packet(type)
    BY <1>1, <1>4, PacketFacts
  <2>2. outbound' = Append(outbound, p) /\ pend'.type = -1
    BY <1>4, <1>8, <2>1 DEF Send, NoPacket
  <2>3. p.type = type /\ (Ok => p.keys = ses.local \/ "rude" \in hist')
    BY <1>1, <1>2, <1>3, <1>4, <2>1, PacketFacts DEF PendInv
  <2>4. PendInv'
    BY <2>2, PendNone
  <2>5. ASSUME NEW r \in Stages, Ok', OutSide(r) PROVE OutSide(r)'
    <3>1. PICK c \in Nat : c = ses.local[2] /\ ses.local = KeysOf(c)
      BY <1>1 DEF SessionTypes, Keys, HeldInv
    <3>2. PICK a \in Stages : a = Speaks /\ a.st \in ClientStages
      BY <1>1, SpeaksFacts DEF SpeaksTyped
    <3>3. p.keys = KeysOf(a.n) \/ "rude" \in hist'
      <4>1. CASE kx = "idle"
        <5>1. a.n = c
          BY <3>1, <3>2, <4>1 DEF Speaks, Stage
        <5> QED
          BY <1>3, <2>3, <2>5, <3>1, <5>1
      <4>2. CASE kx # "idle"
        BY <1>3, <1>8, <4>2
      <4> QED
        BY <4>1, <4>2
    <3>4. Moves(InitType, OfferStage, hist', a, p, a)
      BY <2>3, <3>2, <3>3 DEF Moves, Keyed, ClientMoves
    <3> QED
      BY <1>1, <1>2, <1>3, <2>2, <2>5, <3>2, <3>4, SomethingWritten
  <2> QED
    BY <1>1, <1>3, <1>5, <1>6, <1>7, <2>4, <2>5, OutsideAgrees
<1>9. CASE rc \in {"EAGAIN", "FAIL"}
  <2>1. outbound' = outbound
    BY <1>9 DEF Send
  <2>2. \A r \in Stages : OutSide(r) => OutSide(r)'
    BY <1>1, <1>3, <2>1, NothingWritten
  <2>3. PendInv'
    <3>1. CASE rc = "FAIL"
      BY <3>1 DEF PendInv, Alive
    <3>2. CASE rc = "EAGAIN"
      <4>1. pend' = Packet(type)
        BY <3>2 DEF Send
      <4>2. pend'.type = type /\ pend'.keys = ses'.local
        BY <1>1, <1>4, <4>1, PacketFacts
      <4>3. "rude" \in hist' \/ kx' = "idle"
        BY <1>3, <3>2
      <4> QED
        BY <1>4, <4>2, <4>3 DEF PendInv
    <3> QED
      BY <1>9, <3>1, <3>2
  <2> QED
    BY <1>1, <1>3, <1>5, <1>6, <1>7, <2>2, <2>3, OutsideAgrees
<1> QED
  BY <1>8, <1>9

\* _libssh2_channel_write and session_disconnect.
LEMMA WritesAgrees ==
    ASSUME IInv, IInv', KInv, WritesData \/ Disconnects
    PROVE  KInv'
<1>1. CASE WritesData
  <2>1. PICK rc \in {"NONE", "EAGAIN", "FAIL"} :
           /\ Send(CHANNEL_DATA, rc) /\ hist' = Rude(rc) /\ app' = IF rc = "FAIL" THEN "failed" ELSE app
    BY <1>1 DEF WritesData
  <2>2. /\ At("write") /\ call' = Idle
        /\ UNCHANGED <<startup, kx, asked, flags, ses, brigade, inbound, disc, srv, mismatch>>
    BY <1>1 DEF WritesData
  <2> QED
    BY <2>1, <2>2, RudeAgrees
<1>2. CASE Disconnects
  <2>1. PICK rc \in {"NONE", "EAGAIN", "FAIL"} :
           /\ Send(DISCONNECT, rc) /\ hist' = Rude(rc) /\ app' = IF rc = "EAGAIN" THEN app ELSE "closed"
    BY <1>2 DEF Disconnects
  <2>2. /\ At("disconnect") /\ call' = Idle
        /\ UNCHANGED <<startup, kx, asked, flags, ses, brigade, inbound, disc, srv, mismatch>>
    BY <1>2 DEF Disconnects
  <2> QED
    BY <2>1, <2>2, RudeAgrees
<1> QED
  BY <1>1, <1>2

\* Nothing happens.
LEMMA IdleAgrees ==
    ASSUME IInv, IInv', KInv, UNCHANGED vars
    PROVE  KInv'
<1>1. /\ SessionTypes /\ SessionTypes' /\ CallInv /\ PendInv /\ CipherInv /\ HeldInv
      /\ UNCHANGED <<startup, kx, asked, flags, ses, call, wstate, app>>
      /\ UNCHANGED <<brigade, inbound, outbound, pend, disc, srv, mismatch, hist>>
  BY DEF IInv, Types, KInv, vars, clientVars, wire
<1>2. (Fresh' <=> Fresh) /\ (Ok' <=> Ok) /\ (Alive' <=> Alive)
  BY <1>1 DEF Fresh, Ok, Alive
<1>3. CallInv'
  BY <1>1, <1>2 DEF CallInv
<1>4. PendInv'
  <2>1. KexPacket' = KexPacket
    BY <1>1 DEF KexPacket
  <2> QED
    BY <1>1, <1>2, <2>1 DEF PendInv
<1>5. CipherInv'
  BY <1>1, SendCiphers
<1>6. \A w \in Stages : InSide(w) => InSide(w)'
  BY <1>1, <1>2, NothingRead
<1>7. \A r \in Stages : OutSide(r) => OutSide(r)'
  BY <1>1, <1>2, NothingWritten
<1> QED
  BY <1>1, <1>2, <1>3, <1>4, <1>5, <1>6, <1>7, OutsideAgrees

\* The client keeps what the two sides have agreed on.
LEMMA ClientStepAgrees ==
    ASSUME IInv, IInv', KInv, Startup \/ Exchange \/ Use \/ UNCHANGED vars
    PROVE  KInv'
<1>1. CASE Startup
  BY <1>1, CallAgrees, BannerAgrees, ReceivesBannerAgrees, StartsAgrees, RequestsAgrees, AwaitsAgrees DEF Startup
<1>2. CASE Exchange
  BY <1>2, KexWritesAgrees, KexAsksAgrees, KexReadsAgrees, KexBurnsAgrees DEF Exchange
<1>3. CASE Use
  BY <1>3, CallAgrees, StartsAgrees, ReadsAgrees, WritesAgrees DEF Use
<1> QED
  BY <1>1, <1>2, <1>3, IdleAgrees
-----------------------------------------------------------------------------
(***************************************************************************)
(* Steps of the server.                                                    *)
(***************************************************************************)
\* What a packet of the server carries.
LEMMA ServerPacket ==
    ASSUME IInv, CipherInv, NEW type \in Nat, NEW n \in Nat, NEW ok \in BOOLEAN
    PROVE  \E p \in Packets :
             /\ p = FromServer(type, n, ok) /\ p.type = type /\ p.n = n /\ p.ok = ok
             /\ p.keys = srv.send /\ p.crypt = Cipher(p.keys)
<1>1. srv.send \in Keys /\ srv.crypt \in Methods(CryptMethods) /\ srv.crypt = Cipher(srv.send)
  BY DEF IInv, Types, ServerTypes, CipherInv
<1>2. PICK keys \in Keys, crypt \in Methods(CryptMethods) : keys = srv.send /\ crypt = srv.crypt /\ crypt = Cipher(keys)
  BY <1>1
<1>3. PICK p \in Packets : p = [type |-> type, keys |-> keys, crypt |-> crypt, n |-> n, ok |-> ok]
  <2>1. type \in Int
    OBVIOUS
  <2>2. [type |-> type, keys |-> keys, crypt |-> crypt, n |-> n, ok |-> ok] \in Packets
    BY <2>1 DEF Packets
  <2> QED
    BY <2>2
<1>4. p.type = type /\ p.n = n /\ p.ok = ok /\ p.keys = keys /\ p.crypt = crypt
  BY <1>3
<1>5. p = FromServer(type, n, ok)
  BY <1>2, <1>3 DEF FromServer
<1> QED
  BY <1>2, <1>4, <1>5

\* What a step of the server has to keep.
LEMMA ServerKeeps ==
    ASSUME IInv, IInv', KInv, UNCHANGED <<clientVars, brigade, pend, disc, hist>>, srv.phase # "gone",
           srv'.offer = srv.offer, app = "starting" => srv'.n <= 1, Ok /\ disc => srv'.phase = "gone",
           Ok /\ srv'.phase # "gone" => srv.send[2] <= srv'.send[2], srv'.crypt = Cipher(srv'.send),
           outbound' = outbound \/ (outbound # <<>> /\ outbound' = Tail(outbound)),
           NEW s \in Seq(Packets), inbound' = inbound \o s,
           \A i \in 1..Len(s) : /\ s[i].crypt = Cipher(s[i].keys)
                                /\ s[i].type = ReplyType /\ ~s[i].ok => srv'.lied # {} \/ srv.offer.follows,
           srv.lied \subseteq srv'.lied, mismatch' => mismatch \/ ~Ok \/ "rude" \in hist, Agreement'
    PROVE  KInv'
<1>1. /\ HeldInv /\ CallInv /\ PendInv /\ CipherInv /\ CauseInv /\ KeysAgree
      /\ UNCHANGED <<startup, kx, asked, flags, ses, call, wstate, app, brigade, pend, disc, hist>>
      /\ inbound \in Seq(Packets) /\ outbound \in Seq(Packets)
      /\ srv.send \in Keys /\ srv'.send \in Keys /\ ses.local \in Keys
  BY DEF IInv, Types, ServerTypes, SessionTypes, WireTypes, KInv, clientVars
<1>2. (Ok' <=> Ok) /\ (Alive' <=> Alive) /\ ReplyType' = ReplyType /\ \A keys : Cipher(keys)' = Cipher(keys)
  BY <1>1, SameConditions DEF Ok, Alive
<1>3. HeldInv'
  <2>1. PICK m \in Nat, n \in Nat, k \in Nat : m = ses.local[2] /\ n = srv.send[2] /\ k = srv'.send[2]
    BY <1>1 DEF Keys
  <2>2. Ok /\ srv'.phase # "gone" => m <= k
    <3>1. SUFFICES ASSUME Ok, srv'.phase # "gone" PROVE m <= k
      OBVIOUS
    <3>2. m <= n
      BY <1>1, <2>1, <3>1 DEF HeldInv
    <3>3. n <= k
      BY <2>1, <3>1
    <3> QED
      BY <3>2, <3>3
  <2>3. ses'.local[2] = m
    BY <1>1, <2>1
  <2>4. Ok' /\ srv'.phase # "gone" => ses'.local[2] <= srv'.send[2]
    BY <1>2, <2>1, <2>2, <2>3
  <2> QED
    BY <1>1, <2>4 DEF HeldInv
<1>4. CallInv'
  BY <1>1, <1>2 DEF CallInv
<1>5. PendInv'
  <2>1. KexPacket' = KexPacket
    BY <1>1 DEF KexPacket
  <2> QED
    BY <1>1, <1>2, <2>1 DEF PendInv
<1>6. /\ Len(inbound) \in Nat /\ Len(s) \in Nat /\ Len(inbound') = Len(inbound) + Len(s)
      /\ \A i \in 1..Len(inbound') :
           \/ i \in 1..Len(inbound) /\ inbound'[i] = inbound[i]
           \/ \E j \in 1..Len(s) : inbound'[i] = s[j]
  <2>1. /\ Len(inbound \o s) = Len(inbound) + Len(s)
        /\ \A i \in 1..(Len(inbound) + Len(s)) :
             (inbound \o s)[i] = IF i <= Len(inbound) THEN inbound[i] ELSE s[i - Len(inbound)]
    BY <1>1, ConcatProperties
  <2>2. PICK m \in Nat, n \in Nat : m = Len(inbound) /\ n = Len(s)
    BY <1>1
  <2>3. ASSUME NEW i \in 1..(m + n)
        PROVE  (i \in 1..m /\ inbound'[i] = inbound[i]) \/ \E j \in 1..n : inbound'[i] = s[j]
    <3>1. inbound'[i] = IF i <= m THEN inbound[i] ELSE s[i - m]
      BY <2>1, <2>2
    <3>2. CASE i <= m
      BY <3>1, <3>2
    <3>3. CASE ~(i <= m)
      <4>1. i - m \in 1..n
        BY <3>3
      <4> QED
        BY <3>1, <3>3, <4>1
    <3> QED
      BY <3>2, <3>3
  <2> QED
    BY <2>1, <2>2, <2>3
<1>7. CipherInv'
  <2>1. \A i \in 1..Len(inbound') : inbound'[i].crypt = Cipher(inbound'[i].keys)
    BY <1>1, <1>6 DEF CipherInv
  <2>2. \A i \in 1..Len(outbound') : outbound'[i].crypt = Cipher(outbound'[i].keys)
    <3>1. CASE outbound' = outbound
      BY <1>1, <3>1 DEF CipherInv
    <3>2. CASE outbound # <<>> /\ outbound' = Tail(outbound)
      <4>1. /\ Len(outbound) \in Nat /\ Len(outbound') = Len(outbound) - 1
            /\ \A i \in 1..Len(outbound') : i + 1 \in 1..Len(outbound) /\ outbound'[i] = outbound[i + 1]
        BY <1>1, <3>2
      <4> QED
        BY <1>1, <4>1 DEF CipherInv
    <3> QED
      BY <3>1, <3>2
  <2>3. pend'.crypt = Cipher(pend'.keys)
    BY <1>1 DEF CipherInv
  <2> QED
    BY <1>2, <2>1, <2>2, <2>3 DEF CipherInv
<1>8. CauseInv'
  <2>1. "failed" \in hist' => FailureHasCause'
    BY <1>1 DEF CauseInv, FailureHasCause
  <2>2. ASSUME NEW i \in 1..Len(inbound'), inbound'[i].type = ReplyType, ~inbound'[i].ok
        PROVE  srv'.lied # {} \/ srv.offer.follows
    <3>1. CASE i \in 1..Len(inbound) /\ inbound'[i] = inbound[i]
      BY <1>1, <2>2, <3>1 DEF CauseInv
    <3>2. CASE \E j \in 1..Len(s) : inbound'[i] = s[j]
      BY <2>2, <3>2
    <3> QED
      BY <1>6, <3>1, <3>2
  <2>3. ses'.burn => srv'.offer.follows
    BY <1>1 DEF CauseInv
  <2> QED
    BY <1>2, <2>1, <2>2, <2>3 DEF CauseInv
<1>9. KeysAgree'
  BY <1>1 DEF KeysAgree, Ok
<1> QED
  BY <1>3, <1>4, <1>5, <1>7, <1>8, <1>9 DEF KInv

\* The client hears what the server says after what it said before.
LEMMA Says ==
    ASSUME IInv, UNCHANGED <<clientVars, brigade, disc, hist>>, srv'.offer = srv.offer,
           NEW w \in Stages, NEW v \in Stages, InSide(w),
           \/ inbound' = inbound /\ v = w
           \/ \E p \in Packets : inbound' = Append(inbound, p) /\ Moves(InitType, OfferStage, hist, w, p, v)
           \/ \E p \in Packets, q \in Packets, u \in Stages :
                /\ inbound' = Append(Append(inbound, p), q)
                /\ Moves(InitType, OfferStage, hist, w, p, u) /\ Moves(InitType, OfferStage, hist, u, q, v)
    PROVE  InSide(v)'
<1>1. UNCHANGED <<startup, kx, asked, ses, app, brigade, disc, hist>>
  BY DEF clientVars
<1>2. Fresh' <=> Fresh
  BY <1>1 DEF Fresh
<1>3. PICK a \in Stages : Joined(hist, inbound, a, w) /\ HeardInv(a)
  BY DEF InSide
<1>4. HeardInv(a)'
  BY <1>1, <1>2, <1>3, HeardSame
<1>5. PICK q \in Seq(Packets) : q = inbound
  BY DEF IInv, Types, WireTypes
<1>6. PICK half, offer, h : half = InitType /\ offer = OfferStage /\ h = hist
  OBVIOUS
<1>7. Path(half, offer, h, q, a, w)
  BY <1>3, <1>5, <1>6 DEF Joined
<1>8. Path(half, offer, h, inbound', a, v)
  <2>1. CASE inbound' = inbound /\ v = w
    BY <1>5, <1>7, <2>1
  <2>2. CASE \E p \in Packets : inbound' = Append(inbound, p) /\ Moves(InitType, OfferStage, hist, w, p, v)
    <3>1. PICK p \in Packets : inbound' = Append(q, p) /\ Moves(half, offer, h, w, p, v)
      BY <1>5, <1>6, <2>2
    <3>2. Path(half, offer, h, Append(q, p), a, v)
      BY <1>7, <3>1, PathAppend
    <3> QED
      BY <3>1, <3>2
  <2>3. CASE \E p \in Packets, t \in Packets, u \in Stages :
                /\ inbound' = Append(Append(inbound, p), t)
                /\ Moves(InitType, OfferStage, hist, w, p, u) /\ Moves(InitType, OfferStage, hist, u, t, v)
    <3>1. PICK p \in Packets, t \in Packets, u \in Stages :
                /\ inbound' = Append(Append(q, p), t)
                /\ Moves(half, offer, h, w, p, u) /\ Moves(half, offer, h, u, t, v)
      BY <1>5, <1>6, <2>3
    <3>2. Path(half, offer, h, Append(q, p), a, u) /\ Append(q, p) \in Seq(Packets)
      BY <1>7, <3>1, PathAppend, AppendProperties
    <3>3. Path(half, offer, h, Append(Append(q, p), t), a, v)
      BY <3>1, <3>2, PathAppend
    <3> QED
      BY <3>1, <3>3
  <2> QED
    BY <2>1, <2>2, <2>3
<1>9. Joined(hist, inbound, a, v)'
  <2>1. Joined(hist, inbound, a, v)' <=> Path(InitType, OfferStage, hist', inbound', a, v)
    BY SameConditions
  <2> QED
    BY <1>1, <1>6, <1>8, <2>1
<1> QED
  BY <1>4, <1>9 DEF InSide

\* The server hears the next of what the client has said, or nothing.
LEMMA Silence ==
    ASSUME IInv, UNCHANGED <<clientVars, hist>>, srv'.offer = srv.offer, outbound' = outbound, NEW r \in Stages, OutSide(r)
    PROVE  OutSide(r)'
<1>1. UNCHANGED <<kx, ses, app, hist>>
  BY DEF clientVars
<1>2. Speaks' = Speaks
  BY <1>1, SpeaksSame
<1>3. PICK b \in Stages : Joined(hist, outbound, r, b) /\ Limit(b) /\ (Alive => b = Speaks)
  BY DEF OutSide
<1>4. Joined(hist, outbound, r, b)'
  <2>1. Joined(hist, outbound, r, b)' <=> Path(InitType, OfferStage, hist', outbound', r, b)
    BY SameConditions
  <2> QED
    BY <1>1, <1>3, <2>1 DEF Joined
<1>5. Limit(b)' /\ (Alive' => b = Speaks')
  BY <1>1, <1>2, <1>3 DEF Limit, Alive
<1> QED
  BY <1>4, <1>5 DEF OutSide

\* The server hears the next of what the client has said.
LEMMA Listens ==
    ASSUME IInv, UNCHANGED <<clientVars, hist>>, srv'.offer = srv.offer, outbound # <<>>, outbound' = Tail(outbound),
           NEW r \in Stages, OutSide(r)
    PROVE  \E c \in Stages, b \in Stages :
             /\ Moves(InitType, OfferStage, hist, r, Head(outbound), c) /\ OutSide(c)'
             /\ Earlier(c, b) /\ Limit(b)
<1>1. UNCHANGED <<kx, ses, app, hist>>
  BY DEF clientVars
<1>2. Speaks' = Speaks
  BY <1>1, SpeaksSame
<1>3. PICK b \in Stages : Joined(hist, outbound, r, b) /\ Limit(b) /\ (Alive => b = Speaks)
  BY DEF OutSide
<1>4. PICK q \in Seq(Packets) : q = outbound /\ q # <<>>
  BY DEF IInv, Types, WireTypes
<1>5. PICK half, h : half = InitType /\ h = hist
  OBVIOUS
<1>6. PICK offer \in {"offered", "open"} : offer = OfferStage
  BY Conditions
<1>7. Path(half, offer, h, q, r, b)
  BY <1>3, <1>4, <1>5, <1>6 DEF Joined
<1>8. PICK c \in Stages : Moves(half, offer, h, r, Head(q), c) /\ Path(half, offer, h, Tail(q), c, b)
  BY <1>4, <1>7, PathTail
<1>9. Tail(q) \in Seq(Packets)
  BY <1>4
<1>10. Earlier(c, b)
  BY <1>8, <1>9, PathLeadsOn
<1>11. Joined(hist, outbound, c, b)'
  <2>1. Joined(hist, outbound, c, b)' <=> Path(InitType, OfferStage, hist', outbound', c, b)
    BY SameConditions
  <2> QED
    BY <1>1, <1>4, <1>5, <1>6, <1>8, <2>1
<1>12. Limit(b)' /\ (Alive' => b = Speaks')
  BY <1>1, <1>2, <1>3 DEF Limit, Alive
<1>13. OutSide(c)'
  BY <1>11, <1>12 DEF OutSide
<1> QED
  BY <1>3, <1>4, <1>5, <1>6, <1>8, <1>10, <1>13

\* A packet or two at the end of a sequence.
LEMMA OneMore ==
    ASSUME NEW q \in Seq(Packets), NEW p \in Packets
    PROVE  /\ q \o <<p>> = Append(q, p) /\ <<p>> \in Seq(Packets)
           /\ \A i \in 1..Len(<<p>>) : <<p>>[i] = p
OBVIOUS

\* Two packets at the end of a sequence.
LEMMA TwoMore ==
    ASSUME NEW q \in Seq(Packets), NEW p \in Packets, NEW t \in Packets
    PROVE  /\ q \o <<p, t>> = Append(Append(q, p), t) /\ <<p, t>> \in Seq(Packets)
           /\ \A i \in 1..Len(<<p, t>>) : <<p, t>>[i] \in {p, t}
<1>1. <<p, t>> \in Seq(Packets) /\ Len(<<p, t>>) = 2 /\ <<p, t>>[1] = p /\ <<p, t>>[2] = t
  OBVIOUS
<1>2. PICK m \in Nat : m = Len(q)
  OBVIOUS
<1>3. PICK r \in Seq(Packets) : r = Append(q, p)
  <2>1. Append(q, p) \in Seq(Packets)
    BY AppendProperties
  <2> QED
    BY <2>1
<1>4. Len(r) = m + 1 /\ r[m + 1] = p /\ \A i \in 1..m : r[i] = q[i]
  BY <1>2, <1>3, AppendProperties
<1>5. PICK l \in Seq(Packets) : l = Append(r, t)
  <2>1. Append(r, t) \in Seq(Packets)
    BY AppendProperties
  <2> QED
    BY <2>1
<1>6. Len(l) = m + 2 /\ l[m + 2] = t /\ \A i \in 1..(m + 1) : l[i] = r[i]
  <2>1. Len(l) = Len(r) + 1 /\ l[Len(r) + 1] = t /\ \A i \in 1..Len(r) : l[i] = r[i]
    BY <1>5, AppendProperties
  <2> QED
    BY <1>2, <1>4, <2>1
<1>7. PICK s \in Seq(Packets) : s = q \o <<p, t>>
  <2>1. q \o <<p, t>> \in Seq(Packets)
    BY <1>1, ConcatProperties
  <2> QED
    BY <2>1
<1>8. Len(s) = m + 2 /\ \A i \in 1..(m + 2) : s[i] = IF i <= m THEN q[i] ELSE <<p, t>>[i - m]
  BY <1>1, <1>2, <1>7, ConcatProperties
<1>9. \A i \in 1..(m + 2) : s[i] = l[i]
  <2>1. \A i \in 1..m : s[i] = q[i] /\ l[i] = q[i]
    BY <1>4, <1>6, <1>8
  <2>2. s[m + 1] = p /\ s[m + 2] = t
    <3>1. (m + 1) - m = 1 /\ (m + 2) - m = 2 /\ ~(m + 1 <= m) /\ ~(m + 2 <= m)
      OBVIOUS
    <3>2. m + 1 \in 1..(m + 2) /\ m + 2 \in 1..(m + 2)
      OBVIOUS
    <3> QED
      BY <1>1, <1>8, <3>1, <3>2
  <2>3. l[m + 1] = p /\ l[m + 2] = t
    BY <1>4, <1>6
  <2>4. \A i \in 1..(m + 2) : i \in 1..m \/ i = m + 1 \/ i = m + 2
    OBVIOUS
  <2> QED
    BY <2>1, <2>2, <2>3, <2>4
<1>10. s = l
  BY <1>6, <1>8, <1>9, SeqEqual
<1>11. \A i \in 1..Len(<<p, t>>) : <<p, t>>[i] \in {p, t}
  BY <1>1
<1> QED
  BY <1>1, <1>3, <1>5, <1>7, <1>10, <1>11

\* Where the server is in what it says and in what it hears.
LEMMA ServedFacts ==
    ASSUME IInv, NEW w \in Stages, NEW r \in Stages, Served(w, r), srv.phase # "gone", NEW n \in Nat, n = srv.n
    PROVE  /\ w.n \in Nat /\ r.n \in Nat /\ srv.send = KeysOf(w.n) /\ srv.recv = KeysOf(r.n)
           /\ srv.send[2] = w.n /\ srv.recv[2] = r.n
           /\ w.st \in {"quiet", "open", "grouped", "replied"} /\ r.st \in ClientStages
           /\ srv.phase = "quiet" => w = Stage("quiet", n) /\ r = Stage("idle", n)
           /\ srv.phase = "offered" => w = Stage("open", n - 1) /\ r = Stage("idle", n - 1)
           /\ srv.phase = "agreed" => \/ w = Stage("open", n - 1) /\ r = Stage("agreed", n - 1)
                                      \/ w = Stage("grouped", n - 1) /\ r = Stage("asked", n - 1)
           /\ srv.phase = "replied" => /\ w = Stage("replied", n - 1) \/ w = Stage("quiet", n)
                                       /\ r = Stage("bound", n - 1) \/ r = Stage("idle", n)
                                       /\ w = Stage("replied", n - 1) \/ r = Stage("bound", n - 1)
<1>1. /\ w.n = srv.send[2] /\ srv.send = KeysOf(w.n) /\ r.n = srv.recv[2] /\ srv.recv = KeysOf(r.n)
      /\ w.n \in Nat /\ r.n \in Nat
  BY DEF Served, Stages
<1>2. srv.phase \in {"quiet", "offered", "agreed", "replied"}
  BY DEF IInv, Types, ServerTypes
<1>3. CASE srv.phase = "quiet"
  <2>1. w = Stage("quiet", n) /\ r = Stage("idle", n)
    BY <1>3 DEF Served
  <2> QED
    BY <1>1, <1>3, <2>1 DEF Stage, ClientStages
<1>4. CASE srv.phase = "offered"
  <2>1. w = Stage("open", n - 1) /\ r = Stage("idle", n - 1)
    BY <1>4 DEF Served
  <2> QED
    BY <1>1, <1>4, <2>1 DEF Stage, ClientStages
<1>5. CASE srv.phase = "agreed"
  <2>1. \/ w = Stage("open", n - 1) /\ r = Stage("agreed", n - 1)
        \/ w = Stage("grouped", n - 1) /\ r = Stage("asked", n - 1)
    BY <1>5 DEF Served
  <2>2. w.st \in {"quiet", "open", "grouped", "replied"} /\ r.st \in ClientStages
    BY <2>1 DEF Stage, ClientStages
  <2> QED
    BY <1>1, <1>5, <2>1, <2>2
<1>6. CASE srv.phase = "replied"
  <2>1. \/ w = Stage("replied", n - 1) /\ r = Stage("bound", n - 1)
        \/ w = Stage("quiet", n) /\ r = Stage("bound", n - 1)
        \/ w = Stage("replied", n - 1) /\ r = Stage("idle", n)
    BY <1>6 DEF Served
  <2>2. w.st \in {"quiet", "open", "grouped", "replied"} /\ r.st \in ClientStages
    BY <2>1 DEF Stage, ClientStages
  <2> QED
    BY <1>1, <1>6, <2>1, <2>2
<1> QED
  BY <1>2, <1>3, <1>4, <1>5, <1>6

\* KEXINIT of the server, and perhaps a packet ahead.
LEMMA OffersAgrees ==
    ASSUME IInv, IInv', KInv, ServerOffers
    PROVE  KInv'
<1>1. /\ ServerTypes /\ CallInv /\ CipherInv /\ srv.phase = "quiet" /\ inbound \in Seq(Packets)
      /\ UNCHANGED <<clientVars, brigade, outbound, pend, disc, mismatch, hist>>
      /\ srv.n > 0 => app = "open"
  BY DEF IInv, Types, WireTypes, KInv, ServerOffers
<1>2. PICK n \in Nat : n = srv.n
  BY <1>1 DEF ServerTypes
<1>3. srv' = [srv EXCEPT !.phase = "offered", !.n = @ + 1]
  BY DEF ServerOffers
<1>4. /\ srv'.phase = "offered" /\ srv'.n = n + 1 /\ srv'.send = srv.send /\ srv'.recv = srv.recv
      /\ srv'.offer = srv.offer /\ srv'.crypt = srv.crypt /\ srv'.lied = srv.lied
  BY <1>1, <1>2, <1>3 DEF ServerTypes
<1>5. PICK p \in Packets :
        p = FromServer(KEXINIT, n + 1, TRUE) /\ p.type = KEXINIT /\ p.ok /\ p.keys = srv.send /\ p.crypt = Cipher(p.keys)
  <2>0. CipherInv
    BY <1>1
  <2>1. PICK m \in Nat : m = n + 1
    OBVIOUS
  <2>2. PICK type \in Nat, yes \in BOOLEAN : type = KEXINIT /\ yes = TRUE
    BY DEF KEXINIT
  <2>3. \E t \in Packets : /\ t = FromServer(type, m, yes) /\ t.type = type /\ t.n = m /\ t.ok = yes
                           /\ t.keys = srv.send /\ t.crypt = Cipher(t.keys)
    BY ONLY IInv, <2>0, type \in Nat, m \in Nat, yes \in BOOLEAN, ServerPacket
  <2> QED
    BY <2>1, <2>2, <2>3
<1>6. PICK q \in Packets :
        q = FromServer(31, n + 1, FALSE) /\ q.type = KEXDH_REPLY /\ ~q.ok /\ q.keys = srv.send /\ q.crypt = Cipher(q.keys)
  <2>0. CipherInv
    BY <1>1
  <2>1. PICK m \in Nat : m = n + 1
    OBVIOUS
  <2>2. PICK type \in Nat, no \in BOOLEAN : type = KEXDH_REPLY /\ type = 31 /\ no = FALSE
    BY DEF KEXDH_REPLY
  <2>3. \E t \in Packets : /\ t = FromServer(type, m, no) /\ t.type = type /\ t.n = m /\ t.ok = no
                           /\ t.keys = srv.send /\ t.crypt = Cipher(t.keys)
    BY ONLY IInv, <2>0, type \in Nat, m \in Nat, no \in BOOLEAN, ServerPacket
  <2> QED
    BY <2>1, <2>2, <2>3
<1>7. inbound' = inbound \o (IF srv.offer.follows THEN <<p, q>> ELSE <<p>>)
  BY <1>2, <1>5, <1>6 DEF ServerOffers, ServerSends
<1>8. /\ srv.offer.follows => inbound' = Append(Append(inbound, p), q)
      /\ ~srv.offer.follows => inbound' = Append(inbound, p)
  BY <1>1, <1>7, OneMore, TwoMore
<1>9. Agreement'
  <2>1. SUFFICES ASSUME Ok' PROVE \E w \in Stages, r \in Stages :
            Served(w, r)' /\ (Alive' => InSide(w)') /\ (srv'.phase # "gone" => OutSide(r)')
    BY DEF Agreement
  <2>2. Ok /\ (Alive' <=> Alive)
    BY <1>1, <2>1 DEF Ok, Alive, clientVars
  <2>3. PICK w \in Stages, r \in Stages : Served(w, r) /\ (Alive => InSide(w)) /\ OutSide(r)
    BY <1>1, <2>2 DEF KInv, Agreement
  <2>4. /\ w = Stage("quiet", n) /\ r = Stage("idle", n) /\ srv.send = KeysOf(n) /\ srv.recv = KeysOf(n)
        /\ srv.send[2] = n /\ srv.recv[2] = n
    BY <1>1, <1>2, <2>3, ServedFacts DEF Stage
  <2>5. PICK v \in Stages, u \in Stages : v = Stage("open", n) /\ u = Stage("offered", n)
    BY DEF Stage, Stages, ServerStages
  <2>6. Served(v, r)'
    <3>1. (n + 1) - 1 = n
      OBVIOUS
    <3>2. v = Stage("open", srv'.n - 1) /\ r = Stage("idle", srv'.n - 1)
      BY <1>4, <2>4, <2>5, <3>1
    <3>3. v.n = n /\ r.n = n
      BY <2>4, <2>5 DEF Stage
    <3> QED
      BY <1>4, <2>4, <3>2, <3>3 DEF Served
  <2>7. ASSUME Alive PROVE InSide(v)'
    <3>1. p.keys = KeysOf(w.n) /\ w.st = "quiet" /\ w.n = n
      BY <1>5, <2>4 DEF Stage
    <3>2. CASE srv.offer.follows
      <4>1. OfferStage = "offered"
        BY <3>2 DEF OfferStage
      <4>2. Moves(InitType, OfferStage, hist, w, p, u)
        BY <1>5, <2>5, <3>1, <4>1 DEF Moves, Keyed, ServerMoves
      <4>3. q.keys = KeysOf(u.n) /\ u.st = "offered" /\ u.n = n
        BY <1>6, <2>4, <2>5 DEF Stage
      <4>4. Moves(InitType, OfferStage, hist, u, q, v)
        BY <1>6, <2>5, <4>3 DEF Moves, Keyed, ServerMoves
      <4> QED
        BY <1>1, <1>4, <1>8, <2>3, <2>7, <3>2, <4>2, <4>4, Says
    <3>3. CASE ~srv.offer.follows
      <4>1. OfferStage = "open"
        BY <3>3 DEF OfferStage
      <4>2. Moves(InitType, OfferStage, hist, w, p, v)
        BY <1>5, <2>5, <3>1, <4>1 DEF Moves, Keyed, ServerMoves
      <4> QED
        BY <1>1, <1>4, <1>8, <2>3, <2>7, <3>3, <4>2, Says
    <3> QED
      BY <3>2, <3>3
  <2>8. OutSide(r)'
    BY <1>1, <1>4, <2>3, Silence
  <2> QED
    BY <2>2, <2>6, <2>7, <2>8
<1>10. PICK s \in Seq(Packets) :
         /\ inbound' = inbound \o s
         /\ \A i \in 1..Len(s) : s[i] = p \/ (s[i] = q /\ srv.offer.follows)
  <2>1. CASE srv.offer.follows
    <3>1. <<p, q>> \in Seq(Packets) /\ \A i \in 1..Len(<<p, q>>) : <<p, q>>[i] \in {p, q}
      BY TwoMore, <1>1
    <3> QED
      BY <1>7, <2>1, <3>1
  <2>2. CASE ~srv.offer.follows
    <3>1. <<p>> \in Seq(Packets) /\ \A i \in 1..Len(<<p>>) : <<p>>[i] = p
      BY OneMore, <1>1
    <3> QED
      BY <1>7, <2>2, <3>1
  <2> QED
    BY <2>1, <2>2
<1>11. app = "starting" => srv'.n <= 1
  <2>1. app = "starting" => n = 0
    BY <1>1, <1>2
  <2> QED
    BY <1>4, <2>1
<1>12. srv'.crypt = Cipher(srv'.send)
  BY <1>1, <1>4 DEF CipherInv
<1>13. \A i \in 1..Len(s) : /\ s[i].crypt = Cipher(s[i].keys)
                            /\ s[i].type = ReplyType /\ ~s[i].ok => srv'.lied # {} \/ srv.offer.follows
  BY <1>5, <1>6, <1>10
<1>14. srv.send[2] <= srv'.send[2]
  BY <1>1, <1>4 DEF ServerTypes, Keys
<1>15. ~(Ok /\ disc)
  BY <1>1 DEF CallInv
<1> QED
  BY <1>1, <1>4, <1>9, <1>10, <1>11, <1>12, <1>13, <1>14, <1>15, ServerKeeps

\* A step in which the server says one thing, or nothing.
LEMMA OneSaid ==
    ASSUME IInv, IInv', KInv, UNCHANGED <<clientVars, brigade, pend, disc, hist>>, srv.phase # "gone",
           srv'.offer = srv.offer, srv'.n = srv.n, Ok /\ srv'.phase # "gone" => srv.send[2] <= srv'.send[2],
           srv'.crypt = Cipher(srv'.send), srv.lied \subseteq srv'.lied,
           outbound' = outbound \/ (outbound # <<>> /\ outbound' = Tail(outbound)),
           NEW type \in Nat, NEW n \in Nat, NEW ok \in BOOLEAN,
           inbound' = inbound \o <<FromServer(type, n, ok)>> \/ inbound' = inbound \o <<>>,
           type = ReplyType /\ ~ok => srv'.lied # {},
           mismatch' => mismatch \/ ~Ok \/ "rude" \in hist, Agreement'
    PROVE  KInv'
<1>1. CallInv /\ CipherInv
  BY DEF KInv
<1>2. app = "starting" => srv'.n <= 1
  BY <1>1 DEF CallInv
<1>3. Ok /\ disc => srv'.phase = "gone"
  BY <1>1 DEF CallInv
<1>4. PICK p \in Packets :
             /\ p = FromServer(type, n, ok) /\ p.type = type /\ p.n = n /\ p.ok = ok
             /\ p.keys = srv.send /\ p.crypt = Cipher(p.keys)
  BY ONLY <1>1, IInv, type \in Nat, n \in Nat, ok \in BOOLEAN, ServerPacket
<1>5. PICK s \in Seq(Packets) : inbound' = inbound \o s /\ \A i \in 1..Len(s) : s[i] = p
  <2>1. <<p>> \in Seq(Packets) /\ \A i \in 1..Len(<<p>>) : <<p>>[i] = p
    BY OneMore
  <2>2. <<>> \in Seq(Packets) /\ \A i \in 1..Len(<<>>) : <<>>[i] = p
    OBVIOUS
  <2> QED
    BY <1>4, <2>1, <2>2
<1>6. \A i \in 1..Len(s) : /\ s[i].crypt = Cipher(s[i].keys)
                           /\ s[i].type = ReplyType /\ ~s[i].ok => srv'.lied # {} \/ srv.offer.follows
  BY <1>4, <1>5
<1> QED
  BY <1>2, <1>3, <1>5, <1>6, ServerKeeps

\* What it says leads the client on.
LEMMA SaysOne ==
    ASSUME IInv, KInv, UNCHANGED <<clientVars, brigade, disc, hist>>, srv'.offer = srv.offer,
           NEW type \in Nat, NEW n \in Nat, NEW ok \in BOOLEAN, inbound' = inbound \o <<FromServer(type, n, ok)>>,
           NEW w \in Stages, NEW v \in Stages, InSide(w), srv.send = KeysOf(w.n),
           \A p \in Packets : p.type = type /\ p.n = n /\ p.ok = ok => ServerMoves(InitType, OfferStage, w, p, v)
    PROVE  InSide(v)'
<1>1. inbound \in Seq(Packets) /\ CipherInv
  BY DEF IInv, Types, WireTypes, KInv
<1>2. PICK p \in Packets :
             /\ p = FromServer(type, n, ok) /\ p.type = type /\ p.n = n /\ p.ok = ok
             /\ p.keys = srv.send /\ p.crypt = Cipher(p.keys)
  BY <1>1, ServerPacket
<1>3. inbound' = Append(inbound, p)
  BY <1>1, <1>2, OneMore
<1>4. Moves(InitType, OfferStage, hist, w, p, v)
  BY <1>2 DEF Moves, Keyed
<1> QED
  BY <1>3, <1>4, Says

\* The server's side of what is agreed on, before a step.
LEMMA BothSides ==
    ASSUME KInv, Ok, srv.phase # "gone"
    PROVE  \E w \in Stages, r \in Stages : Served(w, r) /\ (Alive => InSide(w)) /\ OutSide(r)
BY DEF KInv, Agreement

\* Keys of different exchanges differ.
LEMMA KeysDiffer ==
    /\ \A m \in Nat : KeysOf(m)[2] = m /\ (m > 0 => KeysOf(m) = <<1, m>>)
    /\ \A keys : keys # NoKeys => Cipher(keys) = Crypt
BY DEF KeysOf, NoKeys, Cipher

\* NEWKEYS of the server.
LEMMA SwitchesAgrees ==
    ASSUME IInv, IInv', KInv, ServerSwitches
    PROVE  KInv'
<1>1. /\ ServerTypes /\ ServerInv /\ CipherInv /\ srv.phase = "replied" /\ srv.send # <<1, srv.n>>
      /\ UNCHANGED <<clientVars, brigade, outbound, pend, disc, mismatch, hist>>
  BY DEF IInv, Types, KInv, ServerSwitches
<1>2. PICK n \in Nat : n = srv.n /\ n > 0
  BY <1>1 DEF ServerTypes, ServerInv
<1>3. PICK phase : phase = IF srv.recv = <<1, n>> THEN "quiet" ELSE "replied"
  OBVIOUS
<1>4. PICK crypt : crypt = Chosen(CryptMethods, srv.offer.crypt)
  OBVIOUS
<1>5. srv' = [srv EXCEPT !.send = <<1, n>>, !.crypt = crypt, !.phase = phase]
  BY <1>1, <1>2, <1>3, <1>4 DEF ServerSwitches
<1>6. /\ srv'.phase = phase /\ srv'.n = n /\ srv'.send = <<1, n>> /\ srv'.recv = srv.recv
      /\ srv'.offer = srv.offer /\ srv'.crypt = crypt /\ srv'.lied = srv.lied
  BY <1>1, <1>2, <1>5 DEF ServerTypes
<1>7. crypt = Cipher(<<1, n>>)
  <2>1. crypt = Crypt
    BY <1>4, SameChoice DEF Crypt
  <2>2. <<1, n>> # NoKeys
    BY DEF NoKeys
  <2> QED
    BY <2>1, <2>2, KeysDiffer
<1>8. inbound' = inbound \o <<FromServer(NEWKEYS, n, TRUE)>>
  BY <1>2 DEF ServerSwitches, ServerSends
<1>9. PICK type \in Nat, ok \in BOOLEAN : type = NEWKEYS /\ ok = TRUE
  BY DEF NEWKEYS
<1>10. Agreement'
  <2>1. SUFFICES ASSUME Ok' PROVE \E w \in Stages, r \in Stages :
            Served(w, r)' /\ (Alive' => InSide(w)') /\ (srv'.phase # "gone" => OutSide(r)')
    BY DEF Agreement
  <2>2. Ok /\ (Alive' <=> Alive)
    BY <1>1, <2>1 DEF Ok, Alive, clientVars
  <2>3. PICK w \in Stages, r \in Stages : Served(w, r) /\ (Alive => InSide(w)) /\ OutSide(r)
    BY <1>1, <2>2, BothSides
  <2>4. /\ w.n \in Nat /\ r.n \in Nat /\ srv.send = KeysOf(w.n) /\ srv.recv = KeysOf(r.n)
        /\ w = Stage("replied", n - 1) \/ w = Stage("quiet", n)
        /\ r = Stage("bound", n - 1) \/ r = Stage("idle", n)
    BY <1>1, <1>2, <2>3, ServedFacts
  <2>5. w = Stage("replied", n - 1) /\ w.n = n - 1 /\ w.st = "replied"
    <3>1. w # Stage("quiet", n)
      <4>1. w = Stage("quiet", n) => w.n = n
        BY DEF Stage
      <4> QED
        BY <1>1, <1>2, <2>4, <4>1, KeysDiffer
    <3> QED
      BY <2>4, <3>1 DEF Stage
  <2>6. PICK v \in Stages : v = Stage("quiet", n)
    BY DEF Stage, Stages, ServerStages
  <2>7. Served(v, r)'
    <3>1. srv'.send = KeysOf(v.n) /\ v.n = srv'.send[2]
      <4>1. v.n = n
        BY <2>6 DEF Stage
      <4> QED
        BY <1>2, <1>6, <4>1, KeysDiffer
    <3>2. srv'.recv = KeysOf(r.n) /\ r.n = srv'.recv[2]
      BY <1>6, <2>4, KeysDiffer
    <3>3. CASE r = Stage("bound", n - 1)
      <4>1. r.n = n - 1
        BY <3>3 DEF Stage
      <4>2. srv.recv # <<1, n>>
        <5>1. KeysOf(r.n)[2] = n - 1
          BY <2>4, <4>1, KeysDiffer
        <5> QED
          BY <2>4, <5>1
      <4>3. srv'.phase = "replied"
        BY <1>3, <1>6, <4>2
      <4> QED
        BY <1>6, <2>6, <3>1, <3>2, <3>3, <4>3 DEF Served
    <3>4. CASE r = Stage("idle", n)
      <4>1. r.n = n
        BY <3>4 DEF Stage
      <4>2. srv.recv = <<1, n>>
        BY <1>2, <2>4, <4>1, KeysDiffer
      <4>3. srv'.phase = "quiet"
        BY <1>3, <1>6, <4>2
      <4> QED
        BY <1>6, <2>6, <3>1, <3>2, <3>4, <4>3 DEF Served
    <3> QED
      BY <2>4, <3>3, <3>4
  <2>8. ASSUME Alive PROVE InSide(v)'
    <3>1. ASSUME NEW p \in Packets, p.type = type /\ p.n = n /\ p.ok = ok
          PROVE  ServerMoves(InitType, OfferStage, w, p, v)
      <4>1. w.n + 1 = n
        BY <2>5
      <4> QED
        BY <1>9, <2>5, <2>6, <3>1, <4>1 DEF ServerMoves
    <3> QED
      <4>1. InSide(w) /\ srv.send = KeysOf(w.n) /\ inbound' = inbound \o <<FromServer(type, n, ok)>>
        BY <1>8, <1>9, <2>3, <2>4, <2>8
      <4>2. UNCHANGED <<clientVars, brigade, disc, hist>> /\ srv'.offer = srv.offer
        BY <1>1, <1>6
      <4>3. \A p \in Packets : p.type = type /\ p.n = n /\ p.ok = ok => ServerMoves(InitType, OfferStage, w, p, v)
        BY <3>1
      <4> QED
        BY <4>1, <4>2, <4>3, SaysOne
  <2>9. OutSide(r)'
    BY <1>1, <1>6, <2>3, Silence
  <2> QED
    BY <2>2, <2>7, <2>8, <2>9
<1>11. Ok /\ srv'.phase # "gone" => srv.send[2] <= srv'.send[2]
  <2>1. SUFFICES ASSUME Ok PROVE srv.send[2] <= n
    BY <1>6
  <2>2. PICK w \in Stages, r \in Stages : Served(w, r)
    BY <1>1, <2>1, BothSides
  <2>3. w.n = srv.send[2] /\ (w = Stage("replied", n - 1) \/ w = Stage("quiet", n))
    BY <1>1, <1>2, <2>2, ServedFacts
  <2> QED
    BY <2>3 DEF Stage
<1> QED
  BY <1>1, <1>2, <1>6, <1>7, <1>8, <1>9, <1>10, <1>11, OneSaid

\* Data of the server.
LEMMA DataAgrees ==
    ASSUME IInv, IInv', KInv, ServerSendsData
    PROVE  KInv'
<1>1. /\ ServerTypes /\ CipherInv /\ srv.phase \in {"quiet", "replied"} /\ srv.send = <<1, srv.n>> /\ srv.phase # "gone"
      /\ UNCHANGED <<clientVars, brigade, outbound, pend, disc, srv, mismatch, hist>>
      /\ inbound' = inbound \o <<FromServer(CHANNEL_DATA, srv.n, TRUE)>>
  BY DEF IInv, Types, KInv, ServerSendsData, ServerSends
<1>2. PICK n \in Nat : n = srv.n
  BY <1>1 DEF ServerTypes
<1>3. PICK type \in Nat, ok \in BOOLEAN : type = CHANNEL_DATA /\ ok = TRUE
  BY DEF CHANNEL_DATA
<1>4. Agreement'
  <2>1. SUFFICES ASSUME Ok' PROVE \E w \in Stages, r \in Stages :
            Served(w, r)' /\ (Alive' => InSide(w)') /\ (srv'.phase # "gone" => OutSide(r)')
    BY DEF Agreement
  <2>2. Ok /\ (Alive' <=> Alive)
    BY <1>1, <2>1 DEF Ok, Alive, clientVars
  <2>3. PICK w \in Stages, r \in Stages : Served(w, r) /\ (Alive => InSide(w)) /\ OutSide(r)
    BY <1>1, <2>2, BothSides
  <2>4. /\ w.n \in Nat /\ srv.send = KeysOf(w.n)
        /\ w = Stage("quiet", n) \/ w = Stage("replied", n - 1)
    BY <1>1, <1>2, <2>3, ServedFacts
  <2>5. w.st = "quiet"
    <3>1. w.n = n
      <4>1. KeysOf(w.n)[2] = w.n
        BY <2>4, KeysDiffer
      <4>2. KeysOf(w.n)[2] = n
        BY <1>1, <1>2, <2>4
      <4> QED
        BY <4>1, <4>2
    <3>2. w # Stage("replied", n - 1)
      <4>1. w = Stage("replied", n - 1) => w.n = n - 1
        BY DEF Stage
      <4>2. n # n - 1
        OBVIOUS
      <4> QED
        BY <3>1, <4>1, <4>2
    <3> QED
      BY <2>4, <3>2 DEF Stage
  <2>6. Served(w, r)'
    BY <1>1, <2>3 DEF Served
  <2>7. ASSUME Alive PROVE InSide(w)'
    <3>1. \A p \in Packets : p.type = type /\ p.n = n /\ p.ok = ok => ServerMoves(InitType, OfferStage, w, p, w)
      BY <1>3, <2>5 DEF ServerMoves
    <3>2. InSide(w) /\ srv.send = KeysOf(w.n) /\ inbound' = inbound \o <<FromServer(type, n, ok)>>
      BY <1>1, <1>2, <1>3, <2>3, <2>4, <2>7
    <3>3. UNCHANGED <<clientVars, brigade, disc, hist>> /\ srv'.offer = srv.offer
      BY <1>1
    <3> QED
      BY <3>1, <3>2, <3>3, SaysOne
  <2>8. OutSide(r)'
    BY <1>1, <2>3, Silence
  <2> QED
    BY <2>2, <2>6, <2>7, <2>8
<1>5. srv'.crypt = Cipher(srv'.send) /\ srv.send[2] <= srv'.send[2]
  <2>1. srv'.crypt = Cipher(srv'.send)
    BY <1>1 DEF CipherInv
  <2>2. PICK k \in Nat : k = srv.send[2]
    BY <1>1 DEF ServerTypes, Keys
  <2>3. srv'.send[2] = k
    BY <1>1, <2>2
  <2> QED
    BY <2>1, <2>2, <2>3
<1> QED
  BY <1>1, <1>2, <1>3, <1>4, <1>5, OneSaid

\* The server leaves, and says so unless the client has left.
LEMMA GoneAgrees ==
    ASSUME IInv, IInv', KInv, UNCHANGED <<clientVars, brigade, pend, disc, hist>>, srv.phase # "gone", srv' = Leaves,
           outbound' = outbound \/ (outbound # <<>> /\ outbound' = Tail(outbound)),
           \/ inbound' = inbound \o <<FromServer(DISCONNECT, 0, TRUE)>>
           \/ inbound' = inbound \o <<>> /\ ~Alive,
           mismatch' => mismatch \/ ~Ok \/ "rude" \in hist
    PROVE  KInv'
<1>1. ServerTypes /\ CipherInv
  BY DEF IInv, Types, KInv
<1>2. /\ srv'.phase = "gone" /\ srv'.n = srv.n /\ srv'.send = srv.send /\ srv'.recv = srv.recv
      /\ srv'.offer = srv.offer /\ srv'.crypt = srv.crypt /\ srv'.lied = srv.lied
  BY <1>1 DEF Leaves, ServerTypes
<1>3. PICK type \in Nat, n \in Nat, ok \in BOOLEAN : type = DISCONNECT /\ n = 0 /\ ok = TRUE
  BY DEF DISCONNECT
<1>4. Agreement'
  <2>1. SUFFICES ASSUME Ok' PROVE \E w \in Stages, r \in Stages :
            Served(w, r)' /\ (Alive' => InSide(w)') /\ (srv'.phase # "gone" => OutSide(r)')
    BY DEF Agreement
  <2>2. Ok /\ (Alive' <=> Alive)
    BY <2>1 DEF Ok, Alive, clientVars
  <2>3. PICK w \in Stages, r \in Stages : Served(w, r) /\ (Alive => InSide(w)) /\ OutSide(r)
    BY <2>2, BothSides
  <2>4. PICK m \in Nat : m = srv.n
    BY <1>1 DEF ServerTypes
  <2>5. /\ w.n \in Nat /\ srv.send = KeysOf(w.n) /\ r.n \in Nat /\ srv.recv = KeysOf(r.n)
        /\ srv.send[2] = w.n /\ srv.recv[2] = r.n
        /\ w.st \in {"quiet", "open", "grouped", "replied"}
    BY <2>3, <2>4, ServedFacts
  <2>6. PICK v \in Stages : v = Stage("end", w.n)
    BY <2>5 DEF Stage, Stages, ServerStages
  <2>7. Served(v, r)'
    BY <1>2, <2>5, <2>6 DEF Served, Stage
  <2>8. ASSUME Alive PROVE InSide(v)'
    <3>1. \A p \in Packets : p.type = type /\ p.n = n /\ p.ok = ok => ServerMoves(InitType, OfferStage, w, p, v)
      BY <1>3, <2>5, <2>6 DEF ServerMoves, ServerStages
    <3>2. InSide(w) /\ srv.send = KeysOf(w.n) /\ inbound' = inbound \o <<FromServer(type, n, ok)>>
      BY <1>3, <2>3, <2>5, <2>8
    <3> QED
      BY <1>2, <3>1, <3>2, SaysOne
  <2> QED
    BY <1>2, <2>2, <2>7, <2>8
<1>5. srv'.crypt = Cipher(srv'.send) /\ srv.send[2] <= srv'.send[2]
  BY <1>1, <1>2 DEF CipherInv, ServerTypes, Keys
<1> QED
  BY <1>2, <1>3, <1>4, <1>5, OneSaid

\* The server leaves of its own accord.
LEMMA LeavesAgrees ==
    ASSUME IInv, IInv', KInv, ServerLeaves
    PROVE  KInv'
BY GoneAgrees DEF ServerLeaves, ServerSends

\* Where a packet of the client leads, stage by stage.
LEMMA ClientStepFrom ==
    ASSUME NEW half \in {30, 32}, NEW offer, NEW h, NEW r, r.st \in ClientStages, NEW p, NEW c,
           Moves(half, offer, h, r, p, c)
    PROVE  /\ p.type \in {BANNER, SERVICE_REQUEST, CHANNEL_DATA, DISCONNECT, KEXINIT, KEX_DH_GEX_REQUEST, NEWKEYS,
                          KEXDH_INIT, KEX_DH_GEX_INIT}
           /\ p.type \in {BANNER, SERVICE_REQUEST} => r.st = "idle"
           /\ p.type \in {BANNER, SERVICE_REQUEST, CHANNEL_DATA, DISCONNECT} => c = r
           /\ p.type = KEXINIT => r.st = "idle" /\ c = Stage("agreed", r.n)
           /\ p.type = KEX_DH_GEX_REQUEST => half = KEX_DH_GEX_INIT /\ r.st = "agreed" /\ c = Stage("asked", r.n)
           /\ p.type \in {KEXDH_INIT, KEX_DH_GEX_INIT} =>
                /\ p.type = half /\ c = Stage("bound", r.n)
                /\ r.st = IF half = KEXDH_INIT THEN "agreed" ELSE "asked"
           /\ p.type = NEWKEYS => r.st = "bound" /\ c = Stage("idle", r.n + 1)
<1>1. ~ServerMoves(half, offer, r, p, c)
  <2>1. r.st \notin {"fresh", "quiet", "open", "grouped", "replied", "offered"} /\ r.st \notin ServerStages
        /\ r.st \notin Ready(half) \ ClientStages
    BY DEF ClientStages, ServerStages
  <2> QED
    BY <2>1 DEF ServerMoves
<1>2. ClientMoves(half, r, p, c)
  BY <1>1 DEF Moves
<1>3. half = KEXDH_INIT \/ half = KEX_DH_GEX_INIT
  BY DEF KEXDH_INIT, KEX_DH_GEX_INIT
<1>4. r.st \in Ready(half) \ ServerStages => r.st = IF half = KEXDH_INIT THEN "agreed" ELSE "asked"
  BY DEF Ready, ServerStages
<1> QED
  BY <1>2, <1>3, <1>4 DEF ClientMoves, BANNER, SERVICE_REQUEST, CHANNEL_DATA, DISCONNECT, KEXINIT, KEX_DH_GEX_REQUEST,
     NEWKEYS, KEXDH_INIT, KEX_DH_GEX_INIT

\* What the server answers, and when.
LEMMA AnswerFacts ==
    ASSUME NEW p, Answers(p)
    PROVE  \/ srv' = Leaves /\ inbound' = inbound \o <<FromServer(DISCONNECT, 0, TRUE)>> /\ p.type = BANNER
           \/ srv' = Leaves /\ inbound' = inbound \o <<>> /\ p.type = DISCONNECT
           \/ p.type = KEXINIT /\ srv.phase = "offered" /\ srv' = Accepts /\ inbound' = inbound \o <<>>
           \/ /\ p.type = KEX_DH_GEX_REQUEST /\ srv.phase = "agreed" /\ srv' = srv
              /\ inbound' = inbound \o <<FromServer(KEX_DH_GEX_GROUP, srv.n, TRUE)>>
           \/ /\ p.type \in {KEXDH_INIT, KEX_DH_GEX_INIT} /\ srv.phase = "agreed"
              /\ \E ok \in BOOLEAN : srv' = Concludes(ok) /\ inbound' = inbound \o <<FromServer(p.type + 1, srv.n, ok)>>
           \/ p.type = NEWKEYS /\ srv.phase = "replied" /\ srv' = Renews /\ inbound' = inbound \o <<>>
           \/ /\ p.type = SERVICE_REQUEST /\ srv' = srv
              /\ inbound' = inbound \o <<FromServer(SERVICE_ACCEPT, 0, TRUE)>>
           \/ /\ srv' = srv /\ inbound' = inbound \o <<>> /\ p.type # DISCONNECT /\ p.type # SERVICE_REQUEST
              /\ p.type = KEXINIT => srv.phase # "offered"
              /\ p.type \in {KEX_DH_GEX_REQUEST, KEXDH_INIT, KEX_DH_GEX_INIT} => srv.phase # "agreed"
              /\ p.type = NEWKEYS => srv.phase # "replied"
<1> USE DEF BANNER, KEXINIT, KEX_DH_GEX_REQUEST, KEXDH_INIT, KEX_DH_GEX_INIT, NEWKEYS, SERVICE_REQUEST, DISCONNECT
<1>1. CASE p.type = BANNER /\ ~p.ok
  <2>1. srv' = Leaves /\ ServerSends(<<FromServer(DISCONNECT, 0, TRUE)>>)
    BY <1>1 DEF Answers
  <2>2. srv' = Leaves /\ inbound' = inbound \o <<FromServer(DISCONNECT, 0, TRUE)>>
    BY <2>1 DEF ServerSends
  <2> QED
    BY <1>1, <2>2
<1>2. CASE p.type = KEXINIT /\ srv.phase = "offered"
  <2>1. srv' = Accepts /\ inbound' = inbound \o <<>>
    BY <1>2 DEF Answers, ServerSends
  <2> QED
    BY <1>2, <2>1
<1>3. CASE p.type = KEX_DH_GEX_REQUEST /\ srv.phase = "agreed"
  <2>1. srv' = srv /\ ServerSends(<<FromServer(KEX_DH_GEX_GROUP, srv.n, TRUE)>>)
    BY <1>3 DEF Answers
  <2>2. srv' = srv /\ inbound' = inbound \o <<FromServer(KEX_DH_GEX_GROUP, srv.n, TRUE)>>
    BY <2>1 DEF ServerSends
  <2> QED
    BY <1>3, <2>2
<1>4. CASE p.type \in {KEXDH_INIT, KEX_DH_GEX_INIT} /\ srv.phase = "agreed"
  <2>1. \E ok \in BOOLEAN : srv' = Concludes(ok) /\ inbound' = inbound \o <<FromServer(p.type + 1, srv.n, ok)>>
    BY <1>4 DEF Answers, ServerSends
  <2> QED
    BY <1>4, <2>1
<1>5. CASE p.type = NEWKEYS /\ srv.phase = "replied"
  <2>1. srv' = Renews /\ inbound' = inbound \o <<>>
    BY <1>5 DEF Answers, ServerSends
  <2> QED
    BY <1>5, <2>1
<1>6. CASE p.type = SERVICE_REQUEST
  <2>1. srv' = srv /\ ServerSends(<<FromServer(SERVICE_ACCEPT, 0, TRUE)>>)
    BY <1>6 DEF Answers
  <2>2. srv' = srv /\ inbound' = inbound \o <<FromServer(SERVICE_ACCEPT, 0, TRUE)>>
    BY <2>1 DEF ServerSends
  <2> QED
    BY <1>6, <2>2
<1>7. CASE p.type = DISCONNECT
  <2>1. srv' = Leaves /\ inbound' = inbound \o <<>>
    BY <1>7 DEF Answers, ServerSends
  <2> QED
    BY <1>7, <2>1
<1>8. CASE /\ ~(p.type = BANNER /\ ~p.ok) /\ ~(p.type = KEXINIT /\ srv.phase = "offered")
           /\ ~(p.type = KEX_DH_GEX_REQUEST /\ srv.phase = "agreed")
           /\ ~(p.type \in {KEXDH_INIT, KEX_DH_GEX_INIT} /\ srv.phase = "agreed")
           /\ ~(p.type = NEWKEYS /\ srv.phase = "replied") /\ p.type # SERVICE_REQUEST /\ p.type # DISCONNECT
  <2>1. srv' = srv /\ inbound' = inbound \o <<>>
    BY <1>8 DEF Answers, ServerSends
  <2> QED
    BY <1>8, <2>1
<1> QED
  BY <1>1, <1>2, <1>3, <1>4, <1>5, <1>6, <1>7, <1>8

\* The server reads a packet that leads the client from r to c, and goes on itself from w
\* to v.
Follows(w, r, c, v, type, n, ok) ==
    /\ Served(v, c)'
    /\ \/ v = w /\ inbound' = inbound \o <<>>
       \/ /\ inbound' = inbound \o <<FromServer(type, n, ok)>>
          /\ \A p \in Packets : p.type = type /\ p.n = n /\ p.ok = ok => ServerMoves(InitType, OfferStage, w, p, v)
AllFollow(type, n, ok) ==
    \A w \in Stages, r \in Stages, c \in Stages, b \in Stages :
      /\ Ok /\ Served(w, r) /\ Moves(InitType, OfferStage, hist, r, Head(outbound), c)
      /\ Earlier(c, b) /\ Limit(b)
      => \E v \in Stages : Follows(w, r, c, v, type, n, ok)

\* An answer that leads both sides on keeps what they have agreed on.
LEMMA AnswerAgrees ==
    ASSUME IInv, IInv', KInv, UNCHANGED <<clientVars, brigade, pend, disc, mismatch, hist>>,
           srv.phase # "gone", outbound # <<>>, outbound' = Tail(outbound),
           srv'.offer = srv.offer, srv'.n = srv.n, srv'.send = srv.send, srv'.crypt = srv.crypt,
           srv.lied \subseteq srv'.lied, NEW type \in Nat, NEW n \in Nat, NEW ok \in BOOLEAN,
           inbound' = inbound \o <<FromServer(type, n, ok)>> \/ inbound' = inbound \o <<>>,
           type = ReplyType /\ ~ok => srv'.lied # {},
           AllFollow(type, n, ok)
    PROVE  KInv'
<1>1. ServerTypes /\ CipherInv /\ inbound \in Seq(Packets)
  BY DEF IInv, Types, WireTypes, KInv
<1>2. srv'.crypt = Cipher(srv'.send)
  BY <1>1 DEF CipherInv
<1>3. srv.send[2] <= srv'.send[2]
  <2>1. PICK k \in Nat : k = srv.send[2]
    BY <1>1 DEF ServerTypes, Keys
  <2>2. srv'.send[2] = k
    BY <2>1
  <2> QED
    BY <2>1, <2>2
<1>4. Agreement'
  <2>1. SUFFICES ASSUME Ok' PROVE \E w \in Stages, r \in Stages :
            Served(w, r)' /\ (Alive' => InSide(w)') /\ (srv'.phase # "gone" => OutSide(r)')
    BY DEF Agreement
  <2>2. Ok /\ (Alive' <=> Alive)
    BY <2>1 DEF Ok, Alive, clientVars
  <2>3. PICK w \in Stages, r \in Stages : Served(w, r) /\ (Alive => InSide(w)) /\ OutSide(r)
    BY <2>2, BothSides
  <2>4. PICK c \in Stages, b \in Stages :
             /\ Moves(InitType, OfferStage, hist, r, Head(outbound), c) /\ OutSide(c)'
             /\ Earlier(c, b) /\ Limit(b)
    BY <2>3, Listens
  <2>5. PICK v \in Stages : Follows(w, r, c, v, type, n, ok)
    BY <2>2, <2>3, <2>4 DEF AllFollow
  <2>6. PICK m \in Nat : m = srv.n
    BY <1>1 DEF ServerTypes
  <2>7. srv.send = KeysOf(w.n)
    BY <2>3, <2>6, ServedFacts
  <2>8. ASSUME Alive PROVE InSide(v)'
    <3>1. InSide(w)
      BY <2>3, <2>8
    <3>2. CASE v = w /\ inbound' = inbound \o <<>>
      <4>1. inbound' = inbound
        BY <1>1, <3>2
      <4> QED
        BY <3>1, <3>2, <4>1, Says
    <3>3. CASE inbound' = inbound \o <<FromServer(type, n, ok)>> /\
               \A p \in Packets : p.type = type /\ p.n = n /\ p.ok = ok => ServerMoves(InitType, OfferStage, w, p, v)
      <4>1. inbound' = inbound \o <<FromServer(type, n, ok)>>
        BY <3>3
      <4>2. \A p \in Packets : p.type = type /\ p.n = n /\ p.ok = ok => ServerMoves(InitType, OfferStage, w, p, v)
        BY <3>3
      <4>3. UNCHANGED <<clientVars, brigade, disc, hist>>
        OBVIOUS
      <4> QED
        BY ONLY IInv, KInv, type \in Nat, n \in Nat, ok \in BOOLEAN, srv'.offer = srv.offer, w \in Stages, v \in Stages,
           <2>7, <3>1, <4>1, <4>2, <4>3, SaysOne
    <3> QED
      BY <2>5, <3>2, <3>3 DEF Follows
  <2> QED
    BY <2>2, <2>4, <2>5, <2>8 DEF Follows
<1> QED
  BY <1>2, <1>3, <1>4, OneSaid

\* What the server becomes.
LEMMA Becomes ==
    ASSUME ServerTypes
    PROVE  /\ srv' = Accepts => /\ srv'.phase = "agreed" /\ srv'.recv = srv.recv /\ srv'.send = srv.send
                                /\ srv'.n = srv.n /\ srv'.offer = srv.offer /\ srv'.crypt = srv.crypt
                                /\ srv'.lied = srv.lied
           /\ \A ok \in BOOLEAN : srv' = Concludes(ok) =>
                /\ srv'.phase = "replied" /\ srv'.recv = srv.recv /\ srv'.send = srv.send
                /\ srv'.n = srv.n /\ srv'.offer = srv.offer /\ srv'.crypt = srv.crypt
                /\ srv.lied \subseteq srv'.lied /\ (~ok => srv'.lied # {})
           /\ srv' = Renews => /\ srv'.phase = (IF srv.send = <<1, srv.n>> THEN "quiet" ELSE srv.phase)
                               /\ srv'.recv = <<1, srv.n>> /\ srv'.send = srv.send
                               /\ srv'.n = srv.n /\ srv'.offer = srv.offer /\ srv'.crypt = srv.crypt
                               /\ srv'.lied = srv.lied
<1>1. ASSUME srv' = Accepts
      PROVE  /\ srv'.phase = "agreed" /\ srv'.recv = srv.recv /\ srv'.send = srv.send
             /\ srv'.n = srv.n /\ srv'.offer = srv.offer /\ srv'.crypt = srv.crypt /\ srv'.lied = srv.lied
  BY <1>1 DEF ServerTypes, Accepts
<1>2. ASSUME NEW ok \in BOOLEAN, srv' = Concludes(ok)
      PROVE  /\ srv'.phase = "replied" /\ srv'.recv = srv.recv /\ srv'.send = srv.send
             /\ srv'.n = srv.n /\ srv'.offer = srv.offer /\ srv'.crypt = srv.crypt
             /\ srv.lied \subseteq srv'.lied /\ (~ok => srv'.lied # {})
  <2>1. PICK lied : lied = srv.lied \cup IF ok THEN {} ELSE {srv.n}
    OBVIOUS
  <2>2. srv' = [srv EXCEPT !.phase = "replied", !.lied = lied]
    BY <1>2, <2>1 DEF Concludes
  <2>3. srv.lied \subseteq lied /\ (~ok => lied # {})
    BY <2>1
  <2> HIDE DEF ServerTypes
  <2> QED
    BY <2>2, <2>3 DEF ServerTypes
<1>3. ASSUME srv' = Renews
      PROVE  /\ srv'.phase = (IF srv.send = <<1, srv.n>> THEN "quiet" ELSE srv.phase)
             /\ srv'.recv = <<1, srv.n>> /\ srv'.send = srv.send
             /\ srv'.n = srv.n /\ srv'.offer = srv.offer /\ srv'.crypt = srv.crypt /\ srv'.lied = srv.lied
  BY <1>3 DEF ServerTypes, Renews
<1> QED
  BY <1>1, <1>2, <1>3

\* Something is wrong with a packet only if the client was rude, or failed.
LEMMA MismatchHasCause ==
    ASSUME IInv, KInv, srv.phase # "gone", outbound # <<>>, UNCHANGED <<clientVars, hist>>,
           srv'.offer = srv.offer, outbound' = Tail(outbound), NEW cipher,
           cipher = IF srv.recv = NoKeys THEN None ELSE Chosen(CryptMethods, srv.offer.crypt),
           Head(outbound).keys # srv.recv \/ Head(outbound).crypt # cipher
    PROVE  ~Ok \/ "rude" \in hist
<1> SUFFICES ASSUME Ok, "rude" \notin hist PROVE FALSE
  OBVIOUS
<1>1. ServerTypes /\ CipherInv /\ outbound \in Seq(Packets)
  BY DEF IInv, Types, WireTypes, KInv
<1>2. PICK p \in Packets : p = Head(outbound) /\ p = outbound[1]
  BY <1>1
<1>3. p.crypt = Cipher(p.keys)
  <2>1. 1 \in 1..Len(outbound)
    BY <1>1
  <2> QED
    BY <1>1, <1>2, <2>1 DEF CipherInv
<1>4. cipher = Cipher(srv.recv)
  BY SameChoice DEF Cipher, Crypt
<1>5. PICK w \in Stages, r \in Stages : Served(w, r) /\ OutSide(r)
  BY BothSides
<1>6. PICK c \in Stages : Moves(InitType, OfferStage, hist, r, Head(outbound), c)
  BY <1>5, Listens
<1>7. p.keys = KeysOf(r.n)
  BY <1>2, <1>6 DEF Moves, Keyed
<1>8. PICK m \in Nat : m = srv.n
  BY <1>1 DEF ServerTypes
<1>9. srv.recv = KeysOf(r.n)
  BY <1>5, <1>8, ServedFacts
<1> QED
  BY <1>2, <1>3, <1>4, <1>7, <1>9

\* The types of packets that the server tells apart.
LEMMA ServerTells ==
    /\ KEX_DH_GEX_GROUP = 31 /\ SERVICE_ACCEPT \in Nat /\ DISCONNECT \in Nat
    /\ KEXDH_INIT = 30 /\ KEX_DH_GEX_INIT = 32
    /\ BANNER \notin {DISCONNECT, SERVICE_REQUEST, KEXINIT, KEX_DH_GEX_REQUEST, NEWKEYS, KEXDH_INIT, KEX_DH_GEX_INIT}
    /\ SERVICE_ACCEPT \notin {31, 33} /\ DISCONNECT \notin {31, 33}
BY DEF KEX_DH_GEX_GROUP, SERVICE_ACCEPT, DISCONNECT, KEXDH_INIT, KEX_DH_GEX_INIT, BANNER, SERVICE_REQUEST, KEXINIT,
       KEX_DH_GEX_REQUEST, NEWKEYS

\* Where the server is when a packet of the client leads on from r.
LEMMA ServedWhen ==
    ASSUME IInv, NEW w \in Stages, NEW r \in Stages, Served(w, r), srv.phase # "gone", NEW n \in Nat, n = srv.n
    PROVE  /\ r.st = "agreed" => srv.phase = "agreed" /\ w = Stage("open", n - 1) /\ r.n = n - 1 /\ w.n = n - 1
           /\ r.st = "asked" => srv.phase = "agreed" /\ w = Stage("grouped", n - 1) /\ r.n = n - 1 /\ w.n = n - 1
           /\ r.st = "bound" => /\ srv.phase = "replied" /\ r.n = n - 1 /\ n > 0
                                /\ w = Stage("replied", n - 1) \/ w = Stage("quiet", n)
           /\ r.st = "idle" => \/ srv.phase = "quiet"
                               \/ srv.phase = "offered" /\ w = Stage("open", n - 1) /\ r.n = n - 1
                               \/ srv.phase = "replied" /\ w = Stage("replied", n - 1) /\ r.n = n /\ w.n = n - 1
<1>1. /\ r.n \in Nat
      /\ srv.phase = "quiet" => r = Stage("idle", n)
      /\ srv.phase = "offered" => w = Stage("open", n - 1) /\ r = Stage("idle", n - 1)
      /\ srv.phase = "agreed" => \/ w = Stage("open", n - 1) /\ r = Stage("agreed", n - 1)
                                 \/ w = Stage("grouped", n - 1) /\ r = Stage("asked", n - 1)
      /\ srv.phase = "replied" => /\ w = Stage("replied", n - 1) \/ w = Stage("quiet", n)
                                  /\ r = Stage("bound", n - 1) \/ r = Stage("idle", n)
                                  /\ w = Stage("replied", n - 1) \/ r = Stage("bound", n - 1)
  BY ServedFacts
<1>2. srv.phase \in {"quiet", "offered", "agreed", "replied"}
  BY DEF IInv, Types, ServerTypes
<1>3. CASE srv.phase = "quiet"
  BY <1>1, <1>3 DEF Stage
<1>4. CASE srv.phase = "offered"
  BY <1>1, <1>4 DEF Stage
<1>5. CASE srv.phase = "agreed"
  BY <1>1, <1>5 DEF Stage
<1>6. CASE srv.phase = "replied"
  <2>1. CASE r = Stage("bound", n - 1)
    <3>1. r.n = n - 1 /\ r.st = "bound"
      BY <2>1 DEF Stage
    <3>2. n > 0
      BY <1>1, <3>1
    <3> QED
      BY <1>1, <1>6, <3>1, <3>2
  <2>2. CASE r = Stage("idle", n)
    <3>1. r.n = n /\ r.st = "idle" /\ r # Stage("bound", n - 1)
      BY <2>2 DEF Stage
    <3>2. w = Stage("replied", n - 1) /\ w.n = n - 1
      BY <1>1, <1>6, <3>1 DEF Stage
    <3> QED
      BY <1>6, <3>1, <3>2
  <2> QED
    BY <1>1, <1>6, <2>1, <2>2
<1> QED
  BY <1>2, <1>3, <1>4, <1>5, <1>6

\* The server reads a packet that is as it should be.
ServerHears(p) ==
    /\ srv.phase # "gone" /\ outbound # <<>> /\ p = Head(outbound) /\ outbound' = Tail(outbound)
    /\ p.type = KEXINIT => srv.phase # "quiet"
    /\ Answers(p) /\ mismatch' = mismatch
    /\ UNCHANGED <<clientVars, brigade, pend, disc, hist, counters>>

\* The packets that the server has an answer for.
LEMMA OfferAnswered ==
    ASSUME IInv, IInv', KInv, NEW p \in Packets, ServerHears(p),
           p.type = KEXINIT, srv.phase = "offered", srv' = Accepts, inbound' = inbound \o <<>>
    PROVE  KInv'
<1>1. ServerTypes
  BY DEF IInv, Types
<1>2. PICK n \in Nat : n = srv.n
  BY <1>1 DEF ServerTypes
<1>3. /\ srv'.phase = "agreed" /\ srv'.recv = srv.recv /\ srv'.send = srv.send
      /\ srv'.n = srv.n /\ srv'.offer = srv.offer /\ srv'.crypt = srv.crypt /\ srv'.lied = srv.lied
  BY <1>1, Becomes
<1>4. PICK type \in Nat, ok \in BOOLEAN : ok = TRUE
  OBVIOUS
<1>5. ASSUME NEW w \in Stages, NEW r \in Stages, NEW c \in Stages, Served(w, r),
             Moves(InitType, OfferStage, hist, r, p, c)
      PROVE  \E v \in Stages : Follows(w, r, c, v, type, n, ok)
  <2>1. w = Stage("open", n - 1) /\ r = Stage("idle", n - 1) /\ r.st \in ClientStages /\ r.n \in Nat /\ w.n \in Nat
        /\ srv.send = KeysOf(w.n) /\ srv.recv = KeysOf(r.n) /\ srv.send[2] = w.n /\ srv.recv[2] = r.n
    BY <1>2, <1>5, ServedFacts
  <2>2. c = Stage("agreed", r.n)
    BY <1>5, <2>1, Conditions, ClientStepFrom
  <2>3. w.n = n - 1 /\ r.n = n - 1 /\ c.n = n - 1
    BY <2>1, <2>2 DEF Stage
  <2>4. c = Stage("agreed", n - 1) /\ c.n = r.n
    BY <2>2, <2>3
  <2>5. Served(w, c)'
    BY <1>2, <1>3, <2>1, <2>4 DEF Served
  <2> QED
    BY <2>5 DEF Follows
<1>9. AllFollow(type, n, ok)
  BY <1>5 DEF AllFollow, ServerHears
<1> QED
  BY <1>3, <1>4, <1>9, AnswerAgrees DEF ServerHears

\* A group is asked for, and given.
LEMMA GroupAsked ==
    ASSUME IInv, IInv', KInv, NEW p \in Packets, ServerHears(p),
           p.type = KEX_DH_GEX_REQUEST, srv.phase = "agreed", srv' = srv,
           inbound' = inbound \o <<FromServer(KEX_DH_GEX_GROUP, srv.n, TRUE)>>
    PROVE  KInv'
<1>1. PICK n \in Nat : n = srv.n
  BY DEF IInv, Types, ServerTypes
<1>2. PICK type \in Nat, ok \in BOOLEAN : type = KEX_DH_GEX_GROUP /\ ok = TRUE
  BY ServerTells
<1>3. inbound' = inbound \o <<FromServer(type, n, ok)>>
  BY <1>1, <1>2
<1>4. ASSUME NEW w \in Stages, NEW r \in Stages, NEW c \in Stages, Served(w, r),
             Moves(InitType, OfferStage, hist, r, p, c)
      PROVE  \E v \in Stages : Follows(w, r, c, v, type, n, ok)
  <2>1. r.st \in ClientStages /\ r.n \in Nat /\ w.n \in Nat
        /\ srv.send = KeysOf(w.n) /\ srv.recv = KeysOf(r.n) /\ srv.send[2] = w.n /\ srv.recv[2] = r.n
    BY <1>1, <1>4, ServedFacts
  <2>2. r.st = "agreed" /\ c = Stage("asked", r.n) /\ InitType = KEX_DH_GEX_INIT
    BY <1>4, <2>1, Conditions, ClientStepFrom
  <2>3. w = Stage("open", n - 1) /\ r.n = n - 1 /\ w.n = n - 1
    BY <1>1, <1>4, <2>2, ServedWhen
  <2>4. c = Stage("asked", n - 1) /\ c.n = r.n
    BY <2>2, <2>3 DEF Stage
  <2>5. PICK v \in Stages : v = Stage("grouped", n - 1) /\ v.n = w.n
    <3>1. PICK k \in Nat : k = w.n /\ k = n - 1
      BY <2>1, <2>3
    <3>2. PICK v \in Stages : v = Stage("grouped", k)
      BY DEF Stage, Stages, ServerStages
    <3>3. v.n = k
      BY <3>2 DEF Stage
    <3> QED
      BY <3>1, <3>2, <3>3
  <2>6. Served(v, c)'
    BY <1>1, <2>1, <2>4, <2>5 DEF Served
  <2>7. ASSUME NEW q \in Packets, q.type = type, q.n = n, q.ok = ok
        PROVE  ServerMoves(InitType, OfferStage, w, q, v)
    <3>1. w.st = "open" /\ v = Stage("grouped", w.n)
      BY <2>3, <2>5 DEF Stage
    <3> QED
      BY <1>2, <2>2, <2>7, <3>1 DEF ServerMoves
  <2> QED
    BY <1>3, <2>6, <2>7 DEF Follows
<1>5. srv.lied \subseteq srv'.lied
  OBVIOUS
<1>6. type = ReplyType /\ ~ok => srv'.lied # {}
  BY <1>2
<1>9. AllFollow(type, n, ok)
  BY <1>4 DEF AllFollow, ServerHears
<1> QED
  BY <1>3, <1>5, <1>6, <1>9, AnswerAgrees DEF ServerHears

\* Our half of the secret is answered with the other half, signed well or not.
LEMMA HalfAnswered ==
    ASSUME IInv, IInv', KInv, NEW p \in Packets, ServerHears(p),
           p.type \in {KEXDH_INIT, KEX_DH_GEX_INIT}, srv.phase = "agreed",
           NEW ok \in BOOLEAN, srv' = Concludes(ok), inbound' = inbound \o <<FromServer(p.type + 1, srv.n, ok)>>
    PROVE  KInv'
<1>1. ServerTypes
  BY DEF IInv, Types
<1>2. PICK n \in Nat : n = srv.n
  BY <1>1 DEF ServerTypes
<1>3. /\ srv'.phase = "replied" /\ srv'.recv = srv.recv /\ srv'.send = srv.send
      /\ srv'.n = srv.n /\ srv'.offer = srv.offer /\ srv'.crypt = srv.crypt
      /\ srv.lied \subseteq srv'.lied /\ (~ok => srv'.lied # {})
  BY <1>1, Becomes
<1>4. PICK type \in Nat : type = p.type + 1
  BY ServerTells
<1>5. inbound' = inbound \o <<FromServer(type, n, ok)>>
  BY <1>2, <1>4
<1>6. ASSUME NEW w \in Stages, NEW r \in Stages, NEW c \in Stages, Served(w, r),
             Moves(InitType, OfferStage, hist, r, p, c)
      PROVE  \E v \in Stages : Follows(w, r, c, v, type, n, ok)
  <2>1. r.st \in ClientStages /\ r.n \in Nat /\ w.n \in Nat
        /\ srv.send = KeysOf(w.n) /\ srv.recv = KeysOf(r.n) /\ srv.send[2] = w.n /\ srv.recv[2] = r.n
    BY <1>2, <1>6, ServedFacts
  <2>2. /\ p.type = InitType /\ c = Stage("bound", r.n)
        /\ r.st = IF InitType = KEXDH_INIT THEN "agreed" ELSE "asked"
    BY <1>6, <2>1, Conditions, ClientStepFrom
  <2>3. r.n = n - 1 /\ w.n = n - 1 /\ w = Stage(IF InitType = KEXDH_INIT THEN "open" ELSE "grouped", n - 1)
    BY <1>2, <1>6, <2>2, ServedWhen
  <2>4. c = Stage("bound", n - 1) /\ c.n = r.n
    BY <2>2, <2>3 DEF Stage
  <2>5. PICK v \in Stages : v = Stage("replied", n - 1) /\ v.n = w.n
    <3>1. PICK k \in Nat : k = w.n /\ k = n - 1
      BY <2>1, <2>3
    <3>2. PICK v \in Stages : v = Stage("replied", k)
      BY DEF Stage, Stages, ServerStages
    <3>3. v.n = k
      BY <3>2 DEF Stage
    <3> QED
      BY <3>1, <3>2, <3>3
  <2>6. Served(v, c)'
    BY <1>2, <1>3, <2>1, <2>4, <2>5 DEF Served
  <2>7. ASSUME NEW q \in Packets, q.type = type, q.n = n, q.ok = ok
        PROVE  ServerMoves(InitType, OfferStage, w, q, v)
    <3>1. w.st = (IF InitType = KEXDH_INIT THEN "open" ELSE "grouped") /\ v = Stage("replied", w.n)
      BY <2>3, <2>5 DEF Stage
    <3>2. w.st \in Ready(InitType) \ ClientStages
      BY <3>1 DEF Ready, ClientStages
    <3>3. q.n = w.n + 1
      BY <2>3, <2>7
    <3>4. q.type = InitType + 1
      BY <1>4, <2>2, <2>7
    <3> QED
      BY <3>1, <3>2, <3>3, <3>4 DEF ServerMoves
  <2> QED
    BY <1>5, <2>6, <2>7 DEF Follows
<1>9. AllFollow(type, n, ok)
  BY <1>6 DEF AllFollow, ServerHears
<1> QED
  BY <1>3, <1>5, <1>9, AnswerAgrees DEF ServerHears

\* NEWKEYS of the client.
LEMMA KeysTaken ==
    ASSUME IInv, IInv', KInv, NEW p \in Packets, ServerHears(p),
           p.type = NEWKEYS, srv.phase = "replied", srv' = Renews, inbound' = inbound \o <<>>
    PROVE  KInv'
<1>1. ServerTypes
  BY DEF IInv, Types
<1>2. PICK n \in Nat : n = srv.n
  BY <1>1 DEF ServerTypes
<1>3. /\ srv'.phase = (IF srv.send = <<1, n>> THEN "quiet" ELSE srv.phase)
      /\ srv'.recv = <<1, n>> /\ srv'.send = srv.send
      /\ srv'.n = srv.n /\ srv'.offer = srv.offer /\ srv'.crypt = srv.crypt /\ srv'.lied = srv.lied
  BY <1>1, <1>2, Becomes
<1>4. PICK type \in Nat, ok \in BOOLEAN : ok = TRUE
  OBVIOUS
<1>5. ASSUME NEW w \in Stages, NEW r \in Stages, NEW c \in Stages, Served(w, r),
             Moves(InitType, OfferStage, hist, r, p, c)
      PROVE  \E v \in Stages : Follows(w, r, c, v, type, n, ok)
  <2>1. r.st \in ClientStages /\ r.n \in Nat /\ w.n \in Nat
        /\ srv.send = KeysOf(w.n) /\ srv.recv = KeysOf(r.n) /\ srv.send[2] = w.n /\ srv.recv[2] = r.n
    BY <1>2, <1>5, ServedFacts
  <2>2. r.st = "bound" /\ c = Stage("idle", r.n + 1)
    BY <1>5, <2>1, Conditions, ClientStepFrom
  <2>3. r.n = n - 1 /\ n > 0 /\ (w = Stage("replied", n - 1) \/ w = Stage("quiet", n))
    BY <1>2, <1>5, <2>2, ServedWhen
  <2>4. c = Stage("idle", n) /\ c.n = n
    <3>1. r.n + 1 = n
      BY <2>3
    <3> QED
      BY <2>2, <3>1 DEF Stage
  <2>5. KeysOf(c.n) = <<1, n>> /\ <<1, n>>[2] = n
    BY <2>3, <2>4, KeysDiffer
  <2>6. CASE w = Stage("replied", n - 1)
    <3>1. w.n = n - 1
      BY <2>6 DEF Stage
    <3>2. srv.send # <<1, n>>
      <4>1. <<1, n>>[2] # n - 1
        BY <2>5
      <4> QED
        BY <2>1, <3>1, <4>1
    <3>3. srv'.phase = "replied"
      BY <1>3, <3>2
    <3>4. Served(w, c)'
      BY <1>2, <1>3, <2>1, <2>4, <2>5, <2>6, <3>3 DEF Served
    <3> QED
      BY <3>4 DEF Follows
  <2>7. CASE w = Stage("quiet", n)
    <3>1. w.n = n
      BY <2>7 DEF Stage
    <3>2. srv.send = <<1, n>>
      BY <2>1, <2>4, <2>5, <3>1
    <3>3. srv'.phase = "quiet"
      BY <1>3, <3>2
    <3>4. Served(w, c)'
      BY <1>2, <1>3, <2>1, <2>4, <2>5, <2>7, <3>3 DEF Served
    <3> QED
      BY <3>4 DEF Follows
  <2> QED
    BY <2>3, <2>6, <2>7
<1>9. AllFollow(type, n, ok)
  BY <1>5 DEF AllFollow, ServerHears
<1> QED
  BY <1>3, <1>4, <1>9, AnswerAgrees DEF ServerHears

\* The service is asked for, and given.
LEMMA ServiceGiven ==
    ASSUME IInv, IInv', KInv, NEW p \in Packets, ServerHears(p),
           p.type = SERVICE_REQUEST, srv' = srv, inbound' = inbound \o <<FromServer(SERVICE_ACCEPT, 0, TRUE)>>
    PROVE  KInv'
<1>1. PICK m \in Nat : m = srv.n
  BY DEF IInv, Types, ServerTypes
<1>2. PICK type \in Nat, n \in Nat, ok \in BOOLEAN : type = SERVICE_ACCEPT /\ n = 0 /\ ok = TRUE
  BY ServerTells
<1>3. inbound' = inbound \o <<FromServer(type, n, ok)>>
  BY <1>2
<1>4. ASSUME NEW w \in Stages, NEW r \in Stages, NEW c \in Stages, Served(w, r),
             Moves(InitType, OfferStage, hist, r, p, c)
      PROVE  \E v \in Stages : Follows(w, r, c, v, type, n, ok)
  <2>1. r.st \in ClientStages /\ w.st \in {"quiet", "open", "grouped", "replied"} /\ ServerHears(p)
    BY <1>1, <1>4, ServedFacts DEF ServerHears
  <2>2. c = r
    BY <1>4, <2>1, Conditions, ClientStepFrom
  <2>3. Served(w, c)'
    BY <1>4, <2>2 DEF Served
  <2>4. ASSUME NEW q \in Packets, q.type = type, q.n = n, q.ok = ok
        PROVE  ServerMoves(InitType, OfferStage, w, q, w)
    BY <1>2, <2>1, <2>4 DEF ServerMoves
  <2> QED
    BY <1>3, <2>3, <2>4 DEF Follows
<1>5. srv.lied \subseteq srv'.lied
  OBVIOUS
<1>6. type = ReplyType /\ ~ok => srv'.lied # {}
  BY <1>2
<1>9. AllFollow(type, n, ok)
  BY <1>4 DEF AllFollow, ServerHears
<1> QED
  BY <1>3, <1>5, <1>6, <1>9, AnswerAgrees DEF ServerHears

\* The packets that it lets pass.
LEMMA NothingAnswered ==
    ASSUME IInv, IInv', KInv, NEW p \in Packets, ServerHears(p), srv' = srv, inbound' = inbound \o <<>>,
           p.type # DISCONNECT, p.type # SERVICE_REQUEST,
           p.type = KEXINIT => srv.phase # "offered",
           p.type \in {KEX_DH_GEX_REQUEST, KEXDH_INIT, KEX_DH_GEX_INIT} => srv.phase # "agreed",
           p.type = NEWKEYS => srv.phase # "replied"
    PROVE  KInv'
<1>1. PICK n \in Nat : n = srv.n
  BY DEF IInv, Types, ServerTypes
<1>2. PICK m \in Nat, k \in Nat : m = ses.local[2] /\ k = srv.send[2]
  BY DEF IInv, Types, ServerTypes, SessionTypes, Keys
<1>3. PICK type \in Nat, ok \in BOOLEAN : ok = TRUE
  OBVIOUS
<1>4. ASSUME NEW w \in Stages, NEW r \in Stages, NEW c \in Stages, NEW b \in Stages, Ok, Served(w, r),
             Moves(InitType, OfferStage, hist, r, p, c), Earlier(c, b), Limit(b)
      PROVE  \E v \in Stages : Follows(w, r, c, v, type, n, ok)
  <2>1. r.st \in ClientStages /\ w.n = k
    BY <1>1, <1>2, <1>4, ServedFacts DEF ServerHears
  <2>2. /\ p.type \in {BANNER, SERVICE_REQUEST, CHANNEL_DATA, DISCONNECT, KEXINIT, KEX_DH_GEX_REQUEST, NEWKEYS,
                       KEXDH_INIT, KEX_DH_GEX_INIT}
        /\ p.type \in {BANNER, CHANNEL_DATA} => c = r
        /\ p.type = KEXINIT => r.st = "idle" /\ c = Stage("agreed", r.n)
        /\ p.type = KEX_DH_GEX_REQUEST => r.st = "agreed"
        /\ p.type \in {KEXDH_INIT, KEX_DH_GEX_INIT} => r.st \in {"agreed", "asked"}
        /\ p.type = NEWKEYS => r.st = "bound"
    BY <1>4, <2>1, Conditions, ClientStepFrom
  <2>3. /\ r.st \in {"agreed", "asked"} => srv.phase = "agreed"
        /\ r.st = "bound" => srv.phase = "replied"
        /\ r.st = "idle" => srv.phase \in {"quiet", "offered"} \/ (r.n = n /\ w.n = n - 1)
    BY <1>1, <1>4, ServedWhen DEF ServerHears
  <2>4. p.type # KEXINIT
    <3>1. SUFFICES ASSUME p.type = KEXINIT PROVE FALSE
      OBVIOUS
    <3>2. r.n = n /\ w.n = n - 1 /\ c = Stage("agreed", n)
      BY <2>2, <2>3, <3>1 DEF ServerHears
    <3>3. m <= k
      BY <1>2, <1>4 DEF KInv, HeldInv, ServerHears
    <3>4. m + 1 <= n
      BY <2>1, <3>2, <3>3
    <3>5. c.n = n /\ c.st = "agreed" /\ b.n \in Nat
      BY <3>2 DEF Stage, Stages
    <3>6. b.n <= m \/ (b.n = m + 1 /\ b.st = "idle")
      BY <1>2, <1>4 DEF Limit, Stage
    <3>7. n < b.n \/ (n = b.n /\ b.st # "idle")
      BY <1>4, <3>5 DEF Earlier
    <3> QED
      BY <3>4, <3>5, <3>6, <3>7
  <2>5. c = r
    BY <2>2, <2>3, <2>4
  <2>6. Served(w, c)'
    BY <1>4, <2>5 DEF Served
  <2> QED
    BY <2>6 DEF Follows
<1>5. srv.lied \subseteq srv'.lied
  OBVIOUS
<1>6. type = ReplyType /\ ~ok => srv'.lied # {}
  BY <1>3
<1>7. /\ UNCHANGED <<clientVars, brigade, pend, disc, mismatch, hist>> /\ srv.phase # "gone"
      /\ outbound # <<>> /\ outbound' = Tail(outbound) /\ p = Head(outbound)
  BY DEF ServerHears
<1>8. srv'.offer = srv.offer /\ srv'.n = srv.n /\ srv'.send = srv.send /\ srv'.crypt = srv.crypt
  OBVIOUS
<1>9. AllFollow(type, n, ok)
  BY <1>4, <1>7 DEF AllFollow
<1>10. inbound' = inbound \o <<FromServer(type, n, ok)>> \/ inbound' = inbound \o <<>>
  OBVIOUS
<1> QED
  BY ONLY IInv, IInv', KInv, type \in Nat, n \in Nat, ok \in BOOLEAN, <1>5, <1>6, <1>7, <1>8, <1>9, <1>10, AnswerAgrees

\* The server reads a packet, as it should be or not, and answers it.
LEMMA ServerReadsAgrees ==
    ASSUME IInv, IInv', KInv, ByeInv, ServerReads
    PROVE  KInv'
<1>1. outbound # <<>> /\ srv.phase # "gone" /\ outbound' = Tail(outbound) /\ outbound \in Seq(Packets)
      /\ UNCHANGED <<clientVars, brigade, pend, disc, hist, counters>> /\ ServerTypes
  BY DEF ServerReads, IInv, Types, WireTypes
<1>2. PICK p \in Packets : p = Head(outbound) /\ p = outbound[1]
  BY <1>1
<1>3. PICK cipher : cipher = IF srv.recv = NoKeys THEN None ELSE Chosen(CryptMethods, srv.offer.crypt)
  OBVIOUS
<1>4. srv' = Leaves => srv'.offer = srv.offer
  BY <1>1 DEF Leaves, ServerTypes
<1>5. CASE p.keys # srv.recv \/ p.crypt # cipher
  <2>1. srv' = Leaves /\ inbound' = inbound \o <<FromServer(DISCONNECT, 0, TRUE)>>
    BY <1>2, <1>3, <1>5 DEF ServerReads, ServerSends
  <2>2. ~Ok \/ "rude" \in hist
    BY <1>1, <1>2, <1>3, <1>4, <1>5, <2>1, MismatchHasCause
  <2> QED
    BY <1>1, <2>1, <2>2, GoneAgrees
<1>6. CASE ~(p.keys # srv.recv \/ p.crypt # cipher)
  <2>1. Answers(p) /\ mismatch' = mismatch /\ (p.type = KEXINIT => srv.phase # "quiet")
    BY <1>2, <1>3, <1>6 DEF ServerReads
  <2>2. ServerHears(p)
    BY <1>1, <1>2, <2>1 DEF ServerHears
  <2>3. CASE srv' = Leaves /\ inbound' = inbound \o <<FromServer(DISCONNECT, 0, TRUE)>>
    BY <1>1, <2>1, <2>3, GoneAgrees
  <2>4. CASE srv' = Leaves /\ inbound' = inbound \o <<>> /\ p.type = DISCONNECT
    <3>1. 1 \in 1..Len(outbound)
      BY <1>1
    <3>2. ~Alive
      BY <1>2, <2>4, <3>1 DEF ByeInv
    <3> QED
      BY <1>1, <2>1, <2>4, <3>2, GoneAgrees
  <2>5. CASE p.type = KEXINIT /\ srv.phase = "offered" /\ srv' = Accepts /\ inbound' = inbound \o <<>>
    BY <2>2, <2>5, OfferAnswered
  <2>6. CASE p.type = KEX_DH_GEX_REQUEST /\ srv.phase = "agreed" /\ srv' = srv
             /\ inbound' = inbound \o <<FromServer(KEX_DH_GEX_GROUP, srv.n, TRUE)>>
    BY <2>2, <2>6, GroupAsked
  <2>7. ASSUME NEW ok \in BOOLEAN, p.type \in {KEXDH_INIT, KEX_DH_GEX_INIT}, srv.phase = "agreed",
               srv' = Concludes(ok), inbound' = inbound \o <<FromServer(p.type + 1, srv.n, ok)>>
        PROVE  KInv'
    BY <2>2, <2>7, HalfAnswered
  <2>8. CASE p.type = NEWKEYS /\ srv.phase = "replied" /\ srv' = Renews /\ inbound' = inbound \o <<>>
    BY <2>2, <2>8, KeysTaken
  <2>9. CASE p.type = SERVICE_REQUEST /\ srv' = srv /\ inbound' = inbound \o <<FromServer(SERVICE_ACCEPT, 0, TRUE)>>
    BY <2>2, <2>9, ServiceGiven
  <2>10. CASE /\ srv' = srv /\ inbound' = inbound \o <<>> /\ p.type # DISCONNECT /\ p.type # SERVICE_REQUEST
              /\ p.type = KEXINIT => srv.phase # "offered"
              /\ p.type \in {KEX_DH_GEX_REQUEST, KEXDH_INIT, KEX_DH_GEX_INIT} => srv.phase # "agreed"
              /\ p.type = NEWKEYS => srv.phase # "replied"
    BY <2>2, <2>10, NothingAnswered
  <2>11. \/ srv' = Leaves /\ inbound' = inbound \o <<FromServer(DISCONNECT, 0, TRUE)>>
         \/ srv' = Leaves /\ inbound' = inbound \o <<>> /\ p.type = DISCONNECT
         \/ p.type = KEXINIT /\ srv.phase = "offered" /\ srv' = Accepts /\ inbound' = inbound \o <<>>
         \/ /\ p.type = KEX_DH_GEX_REQUEST /\ srv.phase = "agreed" /\ srv' = srv
            /\ inbound' = inbound \o <<FromServer(KEX_DH_GEX_GROUP, srv.n, TRUE)>>
         \/ /\ p.type \in {KEXDH_INIT, KEX_DH_GEX_INIT} /\ srv.phase = "agreed"
            /\ \E ok \in BOOLEAN : srv' = Concludes(ok) /\ inbound' = inbound \o <<FromServer(p.type + 1, srv.n, ok)>>
         \/ p.type = NEWKEYS /\ srv.phase = "replied" /\ srv' = Renews /\ inbound' = inbound \o <<>>
         \/ p.type = SERVICE_REQUEST /\ srv' = srv /\ inbound' = inbound \o <<FromServer(SERVICE_ACCEPT, 0, TRUE)>>
         \/ /\ srv' = srv /\ inbound' = inbound \o <<>> /\ p.type # DISCONNECT /\ p.type # SERVICE_REQUEST
            /\ p.type = KEXINIT => srv.phase # "offered"
            /\ p.type \in {KEX_DH_GEX_REQUEST, KEXDH_INIT, KEX_DH_GEX_INIT} => srv.phase # "agreed"
            /\ p.type = NEWKEYS => srv.phase # "replied"
    BY ONLY <2>1, AnswerFacts
  <2> QED
    BY <2>3, <2>4, <2>5, <2>6, <2>7, <2>8, <2>9, <2>10, <2>11
<1> QED
  BY <1>5, <1>6
-----------------------------------------------------------------------------
(***************************************************************************)
(* The last word of the client.                                            *)
(***************************************************************************)
LEMMA ByeStays ==
    ASSUME IInv, ByeInv, Alive' => Alive,
           \/ outbound' = outbound
           \/ outbound # <<>> /\ outbound' = Tail(outbound)
           \/ \E p \in Packets : outbound' = Append(outbound, p) /\ (p.type = DISCONNECT => ~Alive')
    PROVE  ByeInv'
<1>1. outbound \in Seq(Packets)
  BY DEF IInv, Types, WireTypes
<1>2. CASE outbound' = outbound
  BY <1>2 DEF ByeInv
<1>3. CASE outbound # <<>> /\ outbound' = Tail(outbound)
  <2>1. \A i \in 1..Len(outbound') : i + 1 \in 1..Len(outbound) /\ outbound'[i] = outbound[i + 1]
    BY <1>1, <1>3
  <2> QED
    BY <2>1 DEF ByeInv
<1>4. CASE \E p \in Packets : outbound' = Append(outbound, p) /\ (p.type = DISCONNECT => ~Alive')
  <2>1. PICK p \in Packets : outbound' = Append(outbound, p) /\ (p.type = DISCONNECT => ~Alive')
    BY <1>4
  <2>2. /\ Len(outbound) \in Nat /\ Len(outbound') = Len(outbound) + 1 /\ outbound'[Len(outbound) + 1] = p
        /\ \A i \in 1..Len(outbound) : outbound'[i] = outbound[i]
    BY <1>1, <2>1, AppendProperties
  <2> QED
    BY <2>1, <2>2 DEF ByeInv
<1> QED
  BY <1>2, <1>3, <1>4

\* What the client sends is not DISCONNECT, or is its last packet.
LEMMA ByeSend ==
    ASSUME IInv, KInv, ByeInv, NEW type \in Nat, NEW rc, Send(type, rc), Alive' => Alive,
           type = DISCONNECT /\ rc = "NONE" => ~Alive'
    PROVE  ByeInv'
<1>1. pend \in Packets /\ HeldInv
  BY DEF IInv, Types, WireTypes, KInv
<1>2. PICK p \in Packets : p = (IF pend.type = type THEN pend ELSE Packet(type)) /\ p.type = type
  BY <1>1, PacketFacts
<1>3. outbound' = outbound \/ (outbound' = Append(outbound, p) /\ rc = "NONE")
  BY <1>2 DEF Send
<1> QED
  BY <1>2, <1>3, ByeStays

\* Who takes a step of the client is at work.
LEMMA ByeKept ==
    ASSUME IInv, KInv, ByeInv, [Next]_vars
    PROVE  ByeInv'
<1>1. CallInv
  BY DEF KInv
<1>2. CASE \/ \E op \in {"startup", "read", "write", "disconnect"} : Call(op)
           \/ ReceivesBanner \/ StartsExchange \/ AwaitsService
           \/ KexAsks \/ KexReads \/ KexBurns \/ Redirects \/ Reads
  <2>1. outbound' = outbound
    BY <1>2 DEF Call, ReceivesBanner, StartsExchange, AwaitsService, KexAsks, KexReads, KexBurns, Redirects, Reads, wire
  <2>2. Alive
    BY <1>1, <1>2, AtFacts, InExchange DEF Call, ReceivesBanner, StartsExchange, AwaitsService, KexAsks, KexReads,
       KexBurns, Redirects, Reads, Alive
  <2> QED
    BY <2>1, <2>2, ByeStays
<1>3. CASE SendsBanner
  <2>1. Alive
    BY <1>1, <1>3, AtFacts DEF SendsBanner
  <2>2. Banner(~startup.garbled) \in Packets /\ Banner(~startup.garbled).type = BANNER
    BY DEF Banner, Packets, BANNER, NoKeys, Keys, None, Methods
  <2>3. PICK p \in Packets : p = Banner(~startup.garbled) /\ p.type # DISCONNECT
    BY <2>2, ServerTells
  <2>4. outbound' = outbound \/ outbound' = Append(outbound, p)
    BY <1>3, <2>3 DEF SendsBanner
  <2> QED
    BY <2>1, <2>3, <2>4, ByeStays
<1>4. CASE RequestsService
  <2>1. Alive
    BY <1>1, <1>4, AtFacts DEF RequestsService
  <2>2. PICK type \in Nat : type = SERVICE_REQUEST /\ type # DISCONNECT
    BY DEF SERVICE_REQUEST, DISCONNECT
  <2>3. PICK rc : Send(type, rc)
    BY <1>4, <2>2 DEF RequestsService
  <2> QED
    BY <2>1, <2>2, <2>3, ByeSend
<1>5. CASE KexWrites
  <2>1. Alive
    BY <1>1, <1>5, InExchange DEF KexWrites
  <2>2. PICK type \in Nat : type = KexPacket /\ type # DISCONNECT
    BY <1>5, KexPacketFacts DEF KexWrites
  <2>3. PICK rc : Send(type, rc)
    BY <1>5, <2>2 DEF KexWrites
  <2> QED
    BY <2>1, <2>2, <2>3, ByeSend
<1>6. CASE WritesData
  <2>1. Alive
    BY <1>1, <1>6, AtFacts DEF WritesData
  <2>2. PICK type \in Nat : type = CHANNEL_DATA /\ type # DISCONNECT
    BY DEF CHANNEL_DATA, DISCONNECT
  <2>3. PICK rc : Send(type, rc)
    BY <1>6, <2>2 DEF WritesData
  <2> QED
    BY <2>1, <2>2, <2>3, ByeSend
<1>7. CASE Disconnects
  <2>1. Alive
    BY <1>1, <1>7, AtFacts DEF Disconnects
  <2>2. PICK type \in Nat : type = DISCONNECT
    BY DEF DISCONNECT
  <2>3. PICK rc : Send(type, rc) /\ (rc = "NONE" => app' = "closed")
    BY <1>7, <2>2 DEF Disconnects
  <2>4. rc = "NONE" => ~Alive'
    BY <2>3 DEF Alive
  <2> QED
    BY <2>1, <2>3, <2>4, ByeSend
<1>8. CASE Server \/ ServerSendsData \/ ServerLeaves \/ UNCHANGED vars
  <2>1. app' = app /\ (outbound' = outbound \/ (outbound # <<>> /\ outbound' = Tail(outbound)))
    BY <1>8 DEF Server, ServerOffers, ServerSwitches, ServerReads, ServerSendsData, ServerLeaves, clientVars, vars, wire
  <2>2. Alive' => Alive
    BY <2>1 DEF Alive
  <2> QED
    BY <2>1, <2>2, ByeStays
<1> QED
  BY <1>2, <1>3, <1>4, <1>5, <1>6, <1>7, <1>8 DEF Next, Startup, Exchange, Use
-----------------------------------------------------------------------------
(***************************************************************************)
(* The session as a whole.                                                 *)
(***************************************************************************)
LEMMA InitAgreement == Init => KInv /\ ByeInv
<1> SUFFICES ASSUME Init PROVE KInv /\ ByeInv
  OBVIOUS
<1>1. /\ kx = "idle" /\ app = "starting" /\ call = Idle /\ ses.local = NoKeys /\ ses.sid = 0 /\ ses.burn = FALSE
      /\ brigade = <<>> /\ outbound = <<>> /\ pend = NoPacket /\ disc = FALSE /\ mismatch = FALSE /\ hist = {}
      /\ startup.state = "idle" /\ flags.newkeys = FALSE /\ flags.exchanging = FALSE
      /\ srv.phase = "quiet" /\ srv.n = 0 /\ srv.send = NoKeys /\ srv.recv = NoKeys /\ srv.crypt = None
  BY DEF Init
<1>2. PICK ok \in BOOLEAN : inbound = <<Banner(ok)>>
  BY DEF Init
<1>3. PICK p \in Packets : p = Banner(ok) /\ p.type = BANNER /\ p.keys = NoKeys /\ p.crypt = None
  <2>1. Banner(ok) \in Packets
    BY DEF Banner, Packets, BANNER, NoKeys, Keys, None, Methods
  <2> QED
    BY <2>1 DEF Banner
<1>4. NoKeys = KeysOf(0) /\ NoKeys[2] = 0
  BY DEF NoKeys, KeysOf
<1>5. HeldInv
  <2>1. ses.local[2] <= srv.send[2]
    BY <1>1, <1>4
  <2> QED
    BY <1>1, <1>4, <2>1 DEF HeldInv
<1>6. CallInv
  <2>1. call \in Calls
    BY <1>1 DEF Idle, Calls, Operations
  <2>2. srv.n <= 1
    BY <1>1
  <2> QED
    BY <1>1, <2>1, <2>2 DEF CallInv, Idle, None
<1>7. PendInv
  BY <1>1 DEF PendInv, NoPacket, SERVICE_REQUEST, CHANNEL_DATA, DISCONNECT
<1>8. Len(inbound) = 1 /\ inbound[1] = p
  BY <1>2, <1>3
<1>9. CipherInv
  <2>1. \A i \in 1..Len(inbound) : inbound[i].crypt = Cipher(inbound[i].keys)
    BY <1>3, <1>8 DEF Cipher
  <2>2. \A i \in 1..Len(outbound) : outbound[i].crypt = Cipher(outbound[i].keys)
    BY <1>1
  <2>3. srv.crypt = Cipher(srv.send) /\ pend.crypt = Cipher(pend.keys)
    BY <1>1 DEF Cipher, NoPacket
  <2> QED
    BY <2>1, <2>2, <2>3 DEF CipherInv
<1>10. Agreement
  <2>1. PICK w \in Stages, r \in Stages, a \in Stages :
          w = Stage("quiet", 0) /\ r = Stage("idle", 0) /\ a = Stage("fresh", 0)
    BY DEF Stage, Stages, ServerStages, ClientStages
  <2>2. Served(w, r)
    <3>1. w.n = 0 /\ r.n = 0
      BY <2>1 DEF Stage
    <3> QED
      BY <1>1, <1>4, <2>1, <3>1 DEF Served
  <2>3. InSide(w)
    <3>1. PICK half, offer, h : half = InitType /\ offer = OfferStage /\ h = hist
      OBVIOUS
    <3>2. Moves(half, offer, h, a, p, w)
      <4>1. a.st = "fresh" /\ a.n = 0 /\ w = Stage("quiet", a.n)
        BY <2>1 DEF Stage
      <4>2. p.keys = KeysOf(a.n)
        BY <1>3, <1>4, <4>1
      <4> QED
        BY <1>3, <4>1, <4>2 DEF Moves, Keyed, ServerMoves
    <3>3. Path(half, offer, h, <<>>, a, a)
      BY PathNil
    <3>4. <<>> \in Seq(Packets) /\ Append(<<>>, p) = inbound
      BY <1>2, <1>3
    <3>5. Path(half, offer, h, inbound, a, w)
      <4>1. Path(half, offer, h, Append(<<>>, p), a, w)
        BY <3>2, <3>3, <3>4, PathAppend
      <4> QED
        BY <3>4, <4>1
    <3>6. HeardInv(a)
      <4>1. a.st = "fresh" /\ a.n = 0 /\ a.n = ses.local[2]
        BY <1>1, <1>4, <2>1 DEF Stage
      <4>2. Fresh
        BY <1>1 DEF Fresh
      <4>3. Hears(a.st)
        <5>1. Tidy(brigade, ExchangePackets)
          BY <1>1 DEF Tidy
        <5>2. PICK s : s = a.st /\ s = "fresh"
          BY <4>1
        <5>3. Hears(s)
          BY <1>1, <4>2, <5>1, <5>2, Zenon DEF Hears
        <5> QED
          BY <5>2, <5>3
      <4> QED
        BY <4>1, <4>3 DEF HeardInv
    <3> QED
      BY <3>1, <3>5, <3>6 DEF InSide, Joined
  <2>4. OutSide(r)
    <3>1. Speaks = r
      BY <1>1, <1>4, <2>1 DEF Speaks
    <3>2. Limit(r)
      <4>1. r.n = 0 /\ ses.local[2] = 0
        BY <1>1, <1>4, <2>1 DEF Stage
      <4> QED
        BY <4>1 DEF Limit
    <3>3. Joined(hist, outbound, r, r)
      BY <1>1, PathNil DEF Joined
    <3> QED
      BY <3>1, <3>2, <3>3 DEF OutSide
  <2> QED
    BY <2>2, <2>3, <2>4 DEF Agreement
<1>11. CauseInv
  <2>1. \A i \in 1..Len(inbound) : ~(inbound[i].type = ReplyType)
    BY <1>3, <1>8, Conditions DEF BANNER
  <2> QED
    BY <1>1, <2>1 DEF CauseInv
<1>12. KeysAgree /\ ByeInv
  BY <1>1 DEF KeysAgree, ByeInv
<1> QED
  BY <1>5, <1>6, <1>7, <1>9, <1>10, <1>11, <1>12 DEF KInv

\* The invariant of both sides is inductive, given the one of the keys.
THEOREM SidesAgree == Spec => [](KInv /\ ByeInv)
<1>1. Init => KInv /\ ByeInv
  BY InitAgreement
<1>2. IInv /\ IInv' /\ KInv /\ ByeInv /\ [Next]_vars => (KInv /\ ByeInv)'
  <2> SUFFICES ASSUME IInv, IInv', KInv, ByeInv, [Next]_vars PROVE KInv' /\ ByeInv'
    OBVIOUS
  <2>1. ByeInv'
    BY ByeKept
  <2>2. CASE Startup \/ Exchange \/ Use \/ UNCHANGED vars
    BY <2>1, <2>2, ClientStepAgrees
  <2>3. CASE ServerOffers
    BY <2>1, <2>3, OffersAgrees
  <2>4. CASE ServerSwitches
    BY <2>1, <2>4, SwitchesAgrees
  <2>5. CASE ServerReads
    BY <2>1, <2>5, ServerReadsAgrees
  <2>6. CASE ServerSendsData
    BY <2>1, <2>6, DataAgrees
  <2>7. CASE ServerLeaves
    BY <2>1, <2>7, LeavesAgrees
  <2> QED
    BY <2>2, <2>3, <2>4, <2>5, <2>6, <2>7 DEF Next, Server
<1> QED
  BY <1>1, <1>2, InvariantHolds, PTL DEF Spec

\* However calls, packets and returns of EAGAIN interleave, and through however many
\* exchanges: no packet is read with keys or a cipher it was not made with, unless data or
\* DISCONNECT was written during an exchange, or one failed and packet_add let it pass.
THEOREM KeysOfBothSidesAgree == Spec => []KeysAgree
<1>1. KInv /\ ByeInv => KeysAgree
  BY DEF KInv
<1> QED
  BY <1>1, SidesAgree, PTL

\* Where the client waits for nothing, what the server has sent since is data.
LEMMA QuietTurns ==
    ASSUME NEW half, NEW offer, NEW h, NEW q \in Seq(Packets), NEW a \in Stages, NEW w \in Stages,
           Path(half, offer, h, q, a, w), a.st = "quiet", w.st # "end", a # w
    PROVE  \E i \in 1..Len(q) : q[i].type = KEXINIT
<1>1. PICK i \in 1..Len(q), c \in Stages :
             /\ c # a /\ Moves(half, offer, h, a, q[i], c)
             /\ c = w \/ \E p \in Packets, d \in Stages : Moves(half, offer, h, c, p, d)
  BY PathTurns
<1>2. ~ClientMoves(half, a, q[i], c) /\ a.st \notin Ready(half)
  BY DEF ClientMoves, ClientStages, Ready
<1>3. ServerMoves(half, offer, a, q[i], c)
  BY <1>1, <1>2 DEF Moves
<1>4. q[i].type = KEXINIT \/ c = Stage("end", a.n)
  BY <1>1, <1>2, <1>3 DEF ServerMoves
<1>5. c # Stage("end", a.n)
  <2>1. SUFFICES ASSUME c.st = "end" PROVE FALSE
    BY DEF Stage
  <2>2. \A p, d : ~ServerMoves(half, offer, c, p, d) /\ ~ClientMoves(half, c, p, d)
    BY <2>1 DEF ServerMoves, ClientMoves, ClientStages, ServerStages, Ready
  <2> QED
    BY <1>1, <2>1, <2>2 DEF Moves
<1> QED
  BY <1>4, <1>5

\* A client that has bound itself goes on with NEWKEYS alone.
LEMMA BoundTurns ==
    ASSUME NEW half, NEW offer, NEW h, NEW q \in Seq(Packets), NEW r \in Stages, NEW b \in Stages,
           Path(half, offer, h, q, r, b), r.st = "bound", r # b
    PROVE  \E i \in 1..Len(q) : q[i].type = NEWKEYS
<1>1. PICK i \in 1..Len(q), c \in Stages : c # r /\ Moves(half, offer, h, r, q[i], c)
  BY PathTurns
<1>2. r.st \notin Ready(half) /\ ~ServerMoves(half, offer, r, q[i], c)
  BY DEF ServerMoves, ServerStages, Ready
<1>3. ClientMoves(half, r, q[i], c)
  BY <1>1, <1>2 DEF Moves
<1> QED
  BY <1>1, <1>2, <1>3 DEF ClientMoves

\* An exchange that the server asks for is under way at the client, on its way to it, or
\* done with by it, unless it failed or the server left; and it fails only for a cause.
THEOREM OffersAreAnswered == Spec => []OfferIsAnswered
<1>1. IInv /\ KInv /\ ByeInv => OfferIsAnswered
  <2> SUFFICES ASSUME IInv, KInv PROVE OfferIsAnswered
    OBVIOUS
  <2>1. HeldInv /\ CauseInv /\ SessionTypes /\ inbound \in Seq(Packets) /\ outbound \in Seq(Packets)
    BY DEF IInv, Types, WireTypes, KInv
  <2>2. "failed" \in hist => FailureHasCause
    BY <2>1 DEF CauseInv
  <2>3. ASSUME srv.phase \in {"offered", "agreed", "replied"}, app = "open", kx = "idle", Ok, ~disc,
               \A i \in 1..Len(inbound) : inbound[i].type # KEXINIT
        PROVE  srv.phase = "replied" /\ \E i \in 1..Len(outbound) : outbound[i].type = NEWKEYS
    <3>1. Alive /\ ~Fresh /\ srv.phase # "gone"
      BY <2>3 DEF Alive, Fresh
    <3>2. PICK w \in Stages, r \in Stages : Served(w, r) /\ InSide(w) /\ OutSide(r)
      BY <2>3, <3>1, BothSides
    <3>3. PICK a \in Stages : Joined(hist, inbound, a, w) /\ HeardInv(a)
      BY <3>2 DEF InSide
    <3>4. PICK b \in Stages : Joined(hist, outbound, r, b) /\ b = Speaks
      BY <3>1, <3>2 DEF OutSide
    <3>5. PICK m \in Nat, n \in Nat : m = ses.local[2] /\ n = srv.n
      BY DEF IInv, Types, SessionTypes, ServerTypes, Keys
    <3>6. a.st = "quiet" /\ a.n = m
      <4>1. a.st # "end" /\ a.n = m
        BY <2>3, <3>3, <3>5 DEF HeardInv
      <4>2. PICK s : s = a.st
        OBVIOUS
      <4>3. Hears(s)
        BY <3>3, <4>1, <4>2 DEF HeardInv
      <4>4. s = "quiet"
        BY <2>3, <3>1, <4>3, Zenon DEF Hears
      <4> QED
        BY <4>1, <4>2, <4>4
    <3>7. /\ w.st \in {"quiet", "open", "grouped", "replied"} /\ r.n \in Nat
          /\ srv.phase = "offered" => w = Stage("open", n - 1) /\ r = Stage("idle", n - 1)
          /\ srv.phase = "agreed" => \/ w = Stage("open", n - 1) /\ r = Stage("agreed", n - 1)
                                     \/ w = Stage("grouped", n - 1) /\ r = Stage("asked", n - 1)
          /\ srv.phase = "replied" => /\ w = Stage("replied", n - 1) \/ w = Stage("quiet", n)
                                      /\ r = Stage("bound", n - 1) \/ r = Stage("idle", n)
                                      /\ w = Stage("replied", n - 1) \/ r = Stage("bound", n - 1)
      BY <3>1, <3>2, <3>5, ServedFacts
    <3>8. a = w
      <4>1. PICK q \in Seq(Packets) : q = inbound
        BY <2>1
      <4>2. Path(InitType, OfferStage, hist, q, a, w)
        BY <3>3, <4>1 DEF Joined
      <4>3. w.st # "end"
        BY <3>7
      <4> QED
        BY <2>3, <3>6, <4>1, <4>2, <4>3, QuietTurns
    <3>9. srv.phase = "replied" /\ w = Stage("quiet", n) /\ r = Stage("bound", n - 1)
      <4>1. w.st = "quiet"
        BY <3>6, <3>8
      <4>2. \A k : w # Stage("open", k) /\ w # Stage("grouped", k) /\ w # Stage("replied", k)
        BY <4>1 DEF Stage
      <4> QED
        BY <2>3, <3>7, <4>2
    <3>10. r.st = "bound" /\ b.st = "idle"
      BY <2>3, <3>4, <3>9 DEF Speaks, Stage
    <3>11. PICK q \in Seq(Packets) : q = outbound
      BY <2>1
    <3>12. Path(InitType, OfferStage, hist, q, r, b) /\ r # b
      BY <3>4, <3>10, <3>11 DEF Joined
    <3> QED
      BY <3>9, <3>10, <3>11, <3>12, BoundTurns
  <2>4. /\ DOMAIN inbound = 1..Len(inbound) /\ DOMAIN outbound = 1..Len(outbound)
        /\ (flags.exchanging /\ kx # "idle") \/ kx = "idle"
        /\ ~Ok => "failed" \in hist
    BY <2>1 DEF HeldInv, Ok
  <2> QED
    BY <2>2, <2>3, <2>4 DEF OfferIsAnswered
<1> QED
  BY <1>1, InvariantHolds, SidesAgree, PTL
=============================================================================
