------------------------- MODULE SshTransportProofs -------------------------
(***************************************************************************)
(* Proofs about the transport of libssh2, for every block size, length of  *)
(* the MAC, size of the read buffer and size of the packets: the reader    *)
(* stays in step with the stream, the writer never mixes packets, and the  *)
(* transport implements the packet link.                                   *)
(***************************************************************************)
EXTENDS SshTransport, FiniteSetTheorems, SequenceTheorems, TLAPS

\* Where the stream of the peer stands after c packets.
Offset(c) == IF c = 0 THEN 0 ELSE peer[c].to

\* The packets of the peer lie one behind the other, and are built with the keys that
\* the library has, or will have when it comes to them.
StreamLaid ==
    /\ Len(peer) <= MaxIn
    /\ \A i \in 1..Len(peer) :
         /\ peer[i].from = Offset(i - 1)
         /\ peer[i].to = peer[i].from + peer[i].size + Mac(peer[i].enc)
         /\ peer[i].kind = "corrupt" => peer[i].enc
    /\ \A i \in 1..cut : peer[i].kind = "newkeys" => newkeys
    /\ \A i \in (cut + 1)..Len(peer) :
         peer[i].enc = (newkeys \/ \E j \in 1..(i - 1) : peer[j].kind = "newkeys")

\* The reader has the header of p and data bytes behind it.  With a cipher, what lies
\* before the MAC has been taken in whole blocks, all of them decrypted.
Within(r, p) ==
    /\ r.total = p.size - Header + Mac(p.enc)
    /\ r.total > 0 /\ r.data <= r.total
    /\ IF ~p.enc THEN r.decrypted = 0
       ELSE IF Header + r.data <= p.size
              THEN (Header + r.data) % BlockSize = 0 /\ r.decrypted = Header + r.data
              ELSE r.decrypted = p.size

\* With n bytes received, the buffer r begins where the reader stands: between two
\* packets, or within one.
InStep(r, n) ==
    /\ r.total = 0 => r.data = 0 /\ n - r.held = Offset(cut)
    /\ r.total > 0 => /\ cut < Len(peer)
                      /\ Within(r, peer[cut + 1])
                      /\ n - r.held = peer[cut + 1].from + Header + r.data

\* The reader is in step, and looks only at packets that are complete.
ReaderInSync ==
    /\ ~garbled
    /\ InStep(rd, got)
    /\ call.at = "full" => call.op = Read /\ up /\ rd.total > 0 /\ rd.total = rd.data
    /\ jump1 => /\ up /\ rd.total > 0 /\ rd.total = rd.data
                /\ macstate = "confirmed" /\ peer[cut + 1].kind = "request"

\* A packet with a wrong MAC is the last that anything is taken from.
VerdictStands ==
    /\ macstate = "confirmed" => jump1 \/ ~up
    /\ macstate = "invalid" => newkeys
    /\ macstate # "invalid" => \A i \in 1..cut : peer[i].kind # "corrupt"
    /\ \A i \in 1..cut : peer[i].kind = "corrupt" => taken < i

\* What the writer has kept is the rest of the last packet on the wire, unless the
\* socket has failed.
WriterInSync ==
    /\ dead => closed /\ out.buf
    /\ out.buf => wire # <<>>
    /\ \A i \in 1..Len(wire) :
         /\ wire[i].sent <= wire[i].total
         /\ wire[i].sent < wire[i].total => i = Len(wire) /\ out.buf
    /\ out.buf /\ ~dead =>
         /\ out.odata = wire[Len(wire)].msg
         /\ out.total = wire[Len(wire)].total /\ out.sent = wire[Len(wire)].sent
         /\ out.sent < out.total

\* In a blocking session a packet that is kept belongs to the call being executed.
CallOwnsPacket ==
    block /\ ~closed =>
        /\ ~misuse /\ ~unanswered
        /\ jump1 => out.buf
        /\ out.buf =>
             /\ call.at # "idle"
             /\ \/ call.op \in Messages /\ call.op = out.odata /\ ~jump1
                \/ call.op = Read /\ jump1 /\ out.odata = Reply(cut + 1)

IInv == TypeOK /\ StreamLaid /\ ReaderInSync /\ VerdictStands /\ WriterInSync /\ CallOwnsPacket

-----------------------------------------------------------------------------
\* The smaller and the larger of two integers.
LEMMA MinMaxOfTwo ==
    ASSUME NEW a \in Int, NEW b \in Int
    PROVE  /\ Min({a, b}) = IF a <= b THEN a ELSE b
           /\ Max({a, b}) = IF a <= b THEN b ELSE a
<1>1. \E x \in {a, b} : \A y \in {a, b} : x <= y
  OBVIOUS
<1>2. \E x \in {a, b} : \A y \in {a, b} : y <= x
  OBVIOUS
<1>3. Min({a, b}) \in {a, b} /\ \A y \in {a, b} : Min({a, b}) <= y
  BY <1>1 DEF Min
<1>4. Max({a, b}) \in {a, b} /\ \A y \in {a, b} : y <= Max({a, b})
  BY <1>2 DEF Max
<1> QED
  BY <1>3, <1>4

\* Whole blocks: a remainder is less than a block, what is left without it is aligned,
\* and sums and differences of aligned numbers are aligned.
LEMMA WholeBlocks ==
    ASSUME NEW a \in Nat, NEW b \in Nat
    PROVE  /\ a % BlockSize \in 0..(BlockSize - 1)
           /\ a % BlockSize <= a
           /\ a % BlockSize = 0 => (a + (b - (b % BlockSize))) % BlockSize = 0
           /\ a % BlockSize = 0 /\ (a + b) % BlockSize = 0 => b % BlockSize = 0
<1> DEFINE B == BlockSize
<1>1. B \in Nat /\ B > 0
  BY TransportAssumption DEF Header
<1> HIDE DEF B
<1>2. ASSUME NEW x \in Nat
      PROVE  /\ x % B \in 0..(B - 1) /\ x \div B \in Nat /\ B * (x \div B) \in Nat
             /\ x = B * (x \div B) + (x % B)
  BY <1>1
<1>3. \A x \in Nat, q \in Nat : x = B * q => x % B = 0
  <2> TAKE x \in Nat, q \in Nat
  <2> HAVE x = B * q
  <2>1. x % B = B * (q - (x \div B))
    BY <1>1, <1>2
  <2> DEFINE d == q - (x \div B)
  <2>2. d \in Int /\ x % B = B * d /\ 0 <= x % B /\ x % B < B
    BY <1>1, <1>2, <2>1
  <2> HIDE DEF d
  <2>3. CASE d >= 1
    <3>1. B * d >= B
      BY <1>1, <2>2, <2>3
    <3> QED
      BY <1>1, <2>2, <3>1
  <2>4. CASE d <= -1
    <3>1. B * d <= -B
      BY <1>1, <2>2, <2>4
    <3> QED
      BY <1>1, <2>2, <3>1
  <2>5. CASE d = 0
    BY <1>1, <2>2, <2>5
  <2> QED
    BY <2>2, <2>3, <2>4, <2>5
<1>4. a % B \in 0..(B - 1) /\ a % B <= a
  <2>1. B * (a \div B) \in Nat /\ a % B \in 0..(B - 1) /\ a = B * (a \div B) + (a % B)
    BY <1>2
  <2> HIDE DEF B
  <2> QED
    BY <1>1, <2>1
<1>5. ASSUME a % B = 0
      PROVE  (a + (b - (b % B))) % B = 0
  <2>1. a = B * (a \div B) /\ b - (b % B) = B * (b \div B)
    BY <1>1, <1>2, <1>5
  <2>2. a + (b - (b % B)) = B * ((a \div B) + (b \div B))
    BY <1>1, <1>2, <2>1
  <2>3. (a \div B) + (b \div B) \in Nat
    BY <1>2
  <2>4. B * ((a \div B) + (b \div B)) \in Nat
    BY <1>1, <2>3
  <2> QED
    BY <1>3, <2>2, <2>3, <2>4
<1>6. ASSUME a % B = 0, (a + b) % B = 0
      PROVE  b % B = 0
  <2> DEFINE q == ((a + b) \div B) - (a \div B)
  <2>1. a = B * (a \div B) /\ a + b = B * ((a + b) \div B)
    BY <1>1, <1>2, <1>6
  <2>2. b = B * q /\ q \in Int
    BY <1>1, <1>2, <2>1
  <2> HIDE DEF q
  <2>3. CASE q < 0
    <3>1. B * q < 0
      BY <1>1, <2>2, <2>3
    <3> QED
      BY <2>2, <3>1
  <2>4. CASE q >= 0
    BY <1>3, <2>2, <2>4
  <2> QED
    BY <2>2, <2>3, <2>4
<1> QED
  BY <1>4, <1>5, <1>6 DEF B

-----------------------------------------------------------------------------
Buffer == [held : Nat, total : Nat, data : Nat, decrypted : Nat]

\* A packet of the peer as the reader meets it.
Met(p) == p.size \in Sizes /\ p.enc \in BOOLEAN /\ p.enc = newkeys

\* A packet of the peer is whole blocks, and at least one.
LEMMA SizeFacts ==
    ASSUME NEW size \in Sizes
    PROVE  /\ size \in Nat /\ size >= BlockSize /\ size % BlockSize = 0
           /\ BlockSize \in Nat /\ BlockSize > Header /\ Header \in Nat /\ Header > 0
           /\ \A b : Mac(b) \in Nat
           /\ Mac(FALSE) = 0
BY TransportAssumption DEF Header, Mac

\* n bytes move from the buffer to the packet.
Moved(r, n) == [r EXCEPT !.held = @ - n, !.data = @ + n]

\* Moving bytes that are there keeps a buffer a buffer.
LEMMA MovedBuffer ==
    ASSUME NEW r \in Buffer, NEW n \in Nat, n <= r.held
    PROVE  /\ Moved(r, n) \in Buffer
           /\ Moved(r, n).held = r.held - n /\ Moved(r, n).data = r.data + n
           /\ Moved(r, n).total = r.total /\ Moved(r, n).decrypted = r.decrypted
<1>1. r.held - n \in Nat /\ r.data + n \in Nat
  BY DEF Buffer
<1>2. Moved(r, n) \in Buffer
  BY <1>1 DEF Buffer, Moved
<1>3. /\ Moved(r, n).held = r.held - n /\ Moved(r, n).data = r.data + n
      /\ Moved(r, n).total = r.total /\ Moved(r, n).decrypted = r.decrypted
  BY DEF Buffer, Moved
<1> QED
  BY <1>2, <1>3

\* m bytes of the packet decrypted.
LEMMA DecryptedBuffer ==
    ASSUME NEW r \in Buffer, NEW m \in Nat
    PROVE  /\ Decrypt(r, m) \in Buffer
           /\ Decrypt(r, m).held = r.held /\ Decrypt(r, m).data = r.data
           /\ Decrypt(r, m).total = r.total /\ Decrypt(r, m).decrypted = r.decrypted + m
<1>1. r.decrypted + m \in Nat
  BY DEF Buffer
<1>2. Decrypt(r, m) \in Buffer
  BY <1>1 DEF Buffer, Decrypt
<1>3. /\ Decrypt(r, m).held = r.held /\ Decrypt(r, m).data = r.data
      /\ Decrypt(r, m).total = r.total /\ Decrypt(r, m).decrypted = r.decrypted + m
  BY DEF Buffer, Decrypt
<1> QED
  BY <1>2, <1>3

\* Filling the payload of a packet keeps the reader within it, moves no byte that the
\* buffer does not hold, and completes the decryption with the packet.
LEMMA FilledStays ==
    ASSUME NEW r \in Buffer, NEW p, Met(p), Within(r, p)
    PROVE  /\ Filled(r) \in Buffer
           /\ Within(Filled(r), p)
           /\ Filled(r).held <= r.held
           /\ Filled(r).held + Filled(r).data = r.held + r.data
           /\ newkeys /\ Filled(r).total = Filled(r).data => Filled(r).decrypted = p.size
<1> DEFINE numbytes == Min({r.held, r.total - r.data})
           toMac == r.total - Mac(newkeys)
           numdecrypt == numbytes - (numbytes % BlockSize)
           f == Filled(r)
<1>1. /\ r.held \in Nat /\ r.total \in Nat /\ r.data \in Nat /\ r.decrypted \in Nat
      /\ r.data <= r.total /\ r.total > 0 /\ r.total = p.size - Header + Mac(p.enc)
  BY DEF Buffer, Within
<1>2. /\ p.size \in Nat /\ p.size >= BlockSize
      /\ BlockSize \in Nat /\ BlockSize > Header /\ Header \in Nat /\ Header > 0
      /\ Mac(p.enc) \in Nat /\ Mac(newkeys) = Mac(p.enc)
  BY SizeFacts DEF Met
<1>3. numbytes \in Nat /\ numbytes <= r.held /\ numbytes <= r.total - r.data
  BY <1>1, MinMaxOfTwo
<1>4. toMac = p.size - Header /\ toMac \in Nat
  BY <1>1, <1>2
<1> HIDE DEF numbytes, toMac
<1>5. CASE ~newkeys
  <2>1. f = Moved(r, numbytes)
    BY <1>5 DEF Filled, numbytes, Moved
  <2>2. /\ f \in Buffer /\ f.held = r.held - numbytes /\ f.data = r.data + numbytes
        /\ f.total = r.total /\ f.decrypted = r.decrypted
    BY <1>3, <2>1, MovedBuffer
  <2>3. ~p.enc /\ r.decrypted = 0
    BY <1>5 DEF Met, Within
  <2>4. f.data <= f.total
    BY <1>1, <1>3, <2>2
  <2>5. Within(f, p)
    BY <1>1, <2>2, <2>3, <2>4 DEF Within
  <2> QED
    BY <1>1, <1>3, <1>5, <2>2, <2>5
<1>6. CASE newkeys /\ r.data + numbytes > toMac
  <2> DEFINE rest == Max({toMac - r.data, 0})
  <2>1. rest = (IF toMac - r.data <= 0 THEN 0 ELSE toMac - r.data) /\ rest \in Nat
    <3> DEFINE d == toMac - r.data
    <3>1. d \in Int /\ 0 \in Int
      BY <1>1, <1>4
    <3> HIDE DEF d
    <3>2. Max({d, 0}) = IF d <= 0 THEN 0 ELSE d
      BY <3>1, MinMaxOfTwo
    <3>3. Max({d, 0}) \in Nat
      BY <3>1, <3>2
    <3> QED
      BY <3>2, <3>3 DEF d
  <2>2. f = Decrypt(Moved(r, numbytes), rest)
    BY <1>6 DEF Filled, numbytes, toMac, Moved
  <2> HIDE DEF rest
  <2>3. /\ f \in Buffer /\ f.held = r.held - numbytes /\ f.data = r.data + numbytes
        /\ f.total = r.total /\ f.decrypted = r.decrypted + rest
    <3>1. /\ Moved(r, numbytes) \in Buffer
          /\ Moved(r, numbytes).held = r.held - numbytes
          /\ Moved(r, numbytes).data = r.data + numbytes
          /\ Moved(r, numbytes).total = r.total /\ Moved(r, numbytes).decrypted = r.decrypted
      BY <1>3, MovedBuffer
    <3> QED
      BY <2>1, <2>2, <3>1, DecryptedBuffer
  <2>4. p.enc /\ Header + f.data > p.size
    BY <1>1, <1>2, <1>3, <1>4, <1>6, <2>3 DEF Met
  <2>5. f.decrypted = p.size
    <3>1. CASE Header + r.data <= p.size
      <4>1. r.decrypted = Header + r.data
        BY <2>4, <3>1 DEF Within
      <4> QED
        BY <1>1, <1>2, <1>4, <2>1, <2>3, <3>1, <4>1
    <3>2. CASE Header + r.data > p.size
      <4>1. r.decrypted = p.size
        BY <1>1, <1>2, <2>4, <3>2 DEF Within
      <4> QED
        BY <1>1, <1>2, <1>4, <2>1, <2>3, <3>2, <4>1
    <3> QED
      BY <1>1, <1>2, <3>1, <3>2
  <2>6. f.data <= f.total /\ ~(Header + f.data <= p.size)
    <3>1. f.data \in Nat
      BY <1>1, <1>3, <2>3
    <3>2. f.data <= f.total
      BY <1>1, <1>3, <2>3
    <3> QED
      BY <1>2, <2>4, <3>1, <3>2
  <2>7. Within(f, p)
    BY <1>1, <2>3, <2>4, <2>5, <2>6 DEF Within
  <2> QED
    BY <1>1, <1>3, <2>3, <2>5, <2>7
<1>7. CASE newkeys /\ ~(r.data + numbytes > toMac)
  <2>1. f = Decrypt(Moved(r, numdecrypt), numdecrypt)
    BY <1>7 DEF Filled, numbytes, toMac, Moved
  <2>2. numdecrypt \in Nat /\ numdecrypt <= numbytes
    BY <1>2, <1>3, WholeBlocks
  <2>3. (Header + r.data) % BlockSize = 0 /\ r.decrypted = Header + r.data /\ p.enc
    <3>1. Header + r.data <= p.size
      BY <1>1, <1>2, <1>3, <1>4, <1>7
    <3> QED
      BY <1>7, <3>1 DEF Within, Met
  <2>4. ((Header + r.data) + numdecrypt) % BlockSize = 0
    BY <1>1, <1>2, <1>3, <2>3, WholeBlocks
  <2> HIDE DEF numdecrypt
  <2>5. /\ f \in Buffer /\ f.held = r.held - numdecrypt /\ f.data = r.data + numdecrypt
        /\ f.total = r.total /\ f.decrypted = r.decrypted + numdecrypt
    <3>1. numdecrypt <= r.held
      BY <1>1, <1>3, <2>2
    <3> QED
      BY <2>1, <2>2, <3>1, MovedBuffer, DecryptedBuffer
  <2>6. /\ Header + f.data = (Header + r.data) + numdecrypt
        /\ f.decrypted = Header + f.data /\ f.data <= f.total /\ Header + f.data <= p.size
    <3>1. r.decrypted = Header + r.data /\ ~(r.data + numbytes > toMac)
      BY <1>7, <2>3
    <3> HIDE DEF f
    <3>2. f.data \in Nat /\ f.decrypted \in Nat /\ f.data <= f.total
      BY <1>1, <1>3, <2>2, <2>5
    <3>3. Header + f.data = (Header + r.data) + numdecrypt
      BY <1>1, <1>2, <2>2, <2>5
    <3>4. f.decrypted = Header + f.data
      BY <1>1, <1>2, <2>2, <2>5, <3>1
    <3>5. Header + f.data <= p.size
      BY <1>1, <1>2, <1>3, <1>4, <2>2, <2>5, <3>1
    <3> QED
      BY <3>2, <3>3, <3>4, <3>5
  <2>7. Within(f, p)
    BY <1>1, <2>3, <2>4, <2>5, <2>6 DEF Within
  <2>8. f.total = f.data => f.decrypted = p.size
    BY <1>1, <1>2, <2>5, <2>6
  <2> QED
    BY <1>1, <1>3, <2>2, <2>5, <2>7, <2>8
<1> QED
  BY <1>5, <1>6, <1>7

\* The first block of a packet.
LEMMA HeaderStays ==
    ASSUME NEW r \in Buffer, NEW p, Met(p), r.held >= ReadBlock
    PROVE  /\ WithHeader(r, p) \in Buffer
           /\ Within(WithHeader(r, p), p)
           /\ WithHeader(r, p).held <= r.held
           /\ WithHeader(r, p).held + WithHeader(r, p).data + Header = r.held
<1> DEFINE f == WithHeader(r, p)
<1>1. r.held \in Nat /\ r.total \in Nat /\ r.data \in Nat /\ r.decrypted \in Nat
  BY DEF Buffer
<1>2. /\ p.size \in Nat /\ p.size >= BlockSize
      /\ BlockSize \in Nat /\ BlockSize > Header /\ Header \in Nat /\ Header > 0
      /\ Mac(p.enc) \in Nat /\ Mac(newkeys) = Mac(p.enc)
  BY SizeFacts DEF Met
<1>3. newkeys \in BOOLEAN /\ newkeys = p.enc
  BY DEF Met
<1>4. ReadBlock \in Nat /\ ReadBlock >= Header /\ ReadBlock <= p.size
  BY <1>2 DEF ReadBlock
<1>5. /\ r.held - ReadBlock \in Nat /\ p.size - Header + Mac(newkeys) \in Nat
      /\ ReadBlock - Header \in Nat
  BY <1>1, <1>2, <1>4
<1>6. (IF newkeys THEN ReadBlock ELSE 0) \in Nat
  BY <1>4
<1>7. f \in Buffer
  BY <1>5, <1>6 DEF Buffer, WithHeader
<1>8. /\ f.held = r.held - ReadBlock /\ f.total = p.size - Header + Mac(newkeys)
      /\ f.data = ReadBlock - Header /\ f.decrypted = IF newkeys THEN ReadBlock ELSE 0
  BY DEF Buffer, WithHeader
<1> HIDE DEF f
<1>9. f.total > 0 /\ f.data <= f.total /\ Header + f.data = ReadBlock
  BY <1>2, <1>4, <1>5, <1>8
<1>10. Within(f, p)
  <2>1. CASE ~newkeys
    BY <1>2, <1>3, <1>8, <1>9, <2>1 DEF Within
  <2>2. CASE newkeys
    <3>1. ReadBlock = BlockSize /\ BlockSize % BlockSize = 0
      BY <1>2, <2>2 DEF ReadBlock
    <3> QED
      BY <1>2, <1>3, <1>4, <1>8, <1>9, <2>2, <3>1 DEF Within
  <2> QED
    BY <1>3, <2>1, <2>2
<1>11. f.held <= r.held /\ f.held + f.data + Header = r.held
  BY <1>1, <1>2, <1>4, <1>8
<1> QED
  BY <1>7, <1>10, <1>11 DEF f

\* The packet the reader comes to is built with the keys it has.
LEMMA NextPacketMet ==
    ASSUME TypeOK, StreamLaid, cut < Len(peer)
    PROVE  /\ peer[cut + 1] \in [kind : Kinds, size : Sizes, enc : BOOLEAN, from : Nat, to : Nat]
           /\ Met(peer[cut + 1])
           /\ peer[cut + 1].from = Offset(cut)
           /\ peer[cut + 1].to = Offset(cut) + peer[cut + 1].size + Mac(newkeys)
<1>1. cut \in Nat /\ cut + 1 \in 1..Len(peer) /\ cut + 1 \in (cut + 1)..Len(peer)
  BY DEF TypeOK
<1>2. peer[cut + 1] \in [kind : Kinds, size : Sizes, enc : BOOLEAN, from : Nat, to : Nat]
  BY <1>1, ElementOfSeq DEF TypeOK
<1>3. (cut + 1) - 1 = cut
  BY <1>1
<1>4. peer[cut + 1].enc = (newkeys \/ \E j \in 1..cut : peer[j].kind = "newkeys")
  BY <1>1, <1>3 DEF StreamLaid
<1>5. peer[cut + 1].enc = newkeys
  BY <1>2, <1>4 DEF StreamLaid, TypeOK
<1>6. /\ peer[cut + 1].from = Offset(cut)
      /\ peer[cut + 1].to = Offset(cut) + peer[cut + 1].size + Mac(newkeys)
  BY <1>1, <1>3, <1>5 DEF StreamLaid
<1> QED
  BY <1>2, <1>5, <1>6 DEF Met

\* What Returns makes of the call.
LEMMA ReturnFacts ==
    ASSUME TypeOK, NEW rc, Returns(rc)
    PROVE  /\ call' \in [op : Outgoing \cup {Read, None}, at : {"idle", "run", "select", "full"}]
           /\ call'.at \in {"idle", "select"}
           /\ rc = "EAGAIN" /\ block => call' = [call EXCEPT !.at = "select"]
           /\ ~(rc = "EAGAIN" /\ block) => call' = Idle
<1>1. Idle \in [op : Outgoing \cup {Read, None}, at : {"idle", "run", "select", "full"}]
  BY DEF Idle
<1>2. /\ [call EXCEPT !.at = "select"]
           \in [op : Outgoing \cup {Read, None}, at : {"idle", "run", "select", "full"}]
      /\ [call EXCEPT !.at = "select"].at = "select"
  BY DEF TypeOK
<1> QED
  BY <1>1, <1>2 DEF Returns, Idle

\* One turn of the read loop.
LEMMA TurnInStep ==
    ASSUME TypeOK, StreamLaid, NEW r \in Buffer, NEW n \in 0..StreamEnd, r.held <= BufSize,
           r.data <= r.total, InStep(r, n), ~garbled, Turn(r, n), UNCHANGED <<peer, cut>>
    PROVE  /\ rd' \in [held : 0..BufSize, total : Nat, data : Nat, decrypted : Nat]
           /\ rd'.data <= rd'.total
           /\ InStep(rd, got)'
           /\ ~garbled'
           /\ got' = n
           /\ \/ \E rc : Returns(rc)
              \/ call' = [call EXCEPT !.at = "full"] /\ rd'.total > 0 /\ rd'.total = rd'.data
              \/ call' = call
           /\ dirs' \in {dirs, dirs \cup {"in"}}
<1> DEFINE p == peer[cut + 1]
           start == r.total = 0
           f == Filled(IF start THEN WithHeader(r, p) ELSE r)
<1>1. got' = n /\ r.held \in Nat /\ r.data \in Nat /\ r.total \in Nat /\ n \in Nat
  BY DEF Turn, Buffer
<1>2. BufSize \in Nat
  BY TransportAssumption
<1>3. CASE start /\ r.held < ReadBlock
  <2>1. rd' = r /\ garbled' = garbled /\ Returns("EAGAIN") /\ dirs' = dirs \cup {"in"}
    BY <1>3 DEF Turn
  <2>2. InStep(rd, got)'
    BY <1>1, <2>1 DEF InStep, Offset
  <2>3. rd' \in [held : 0..BufSize, total : Nat, data : Nat, decrypted : Nat]
    BY <1>1, <1>2, <2>1 DEF Buffer
  <2> QED
    BY <1>1, <2>1, <2>2, <2>3
<1>4. CASE ~(start /\ r.held < ReadBlock)
  <2>1. cut < Len(peer)
    <3>1. CASE start
      <4>1. r.held >= ReadBlock /\ ReadBlock > 0 /\ ReadBlock \in Nat
        BY <1>1, <1>4, <3>1, TransportAssumption DEF ReadBlock, Header
      <4>2. n - r.held = Offset(cut)
        BY <3>1 DEF InStep
      <4>3. CASE cut = Len(peer)
        <5>1. Offset(cut) = StreamEnd /\ StreamEnd \in Nat
          <6>1. CASE peer = <<>>
            BY <4>3, <6>1 DEF Offset, StreamEnd
          <6>2. CASE peer # <<>>
            <7> DEFINE Packet == [kind : Kinds, size : Sizes, enc : BOOLEAN, from : Nat, to : Nat]
            <7>1. peer \in Seq(Packet)
              BY DEF TypeOK
            <7> HIDE DEF Packet
            <7>2. Len(peer) \in Nat \ {0}
              BY <6>2, <7>1, EmptySeq
            <7>3. Len(peer) \in 1..Len(peer)
              BY <7>2
            <7>4. peer[Len(peer)] \in Packet
              BY <7>1, <7>3, ElementOfSeq
            <7>5. peer[Len(peer)].to \in Nat
              BY <7>4 DEF Packet
            <7> QED
              BY <4>3, <6>2, <7>2, <7>5 DEF Offset, StreamEnd
          <6> QED
            BY <6>1, <6>2
        <5> QED
          BY <1>1, <4>1, <4>2, <5>1
      <4> QED
        BY <4>3 DEF TypeOK
    <3>2. CASE ~start
      BY <1>1, <3>2 DEF InStep
    <3> QED
      BY <3>1, <3>2
  <2>2. /\ p \in [kind : Kinds, size : Sizes, enc : BOOLEAN, from : Nat, to : Nat]
        /\ Met(p) /\ p.from = Offset(cut) /\ p.to = Offset(cut) + p.size + Mac(newkeys)
    BY <2>1, NextPacketMet
  <2>3. /\ p.size \in Nat /\ p.from \in Nat /\ p.to \in Nat /\ p.enc = newkeys
        /\ Header \in Nat /\ Mac(newkeys) \in Nat
    BY <2>2, SizeFacts DEF Met
  <2> DEFINE g == IF start THEN WithHeader(r, p) ELSE r
  <2>4. /\ g \in Buffer /\ Within(g, p) /\ g.held <= r.held
        /\ n - g.held = p.from + Header + g.data
    <3>1. CASE start
      <4>1. r.held >= ReadBlock
        BY <1>1, <1>4, <3>1, TransportAssumption DEF ReadBlock, Header
      <4>2. /\ WithHeader(r, p) \in Buffer /\ Within(WithHeader(r, p), p)
            /\ WithHeader(r, p).held <= r.held
            /\ WithHeader(r, p).held + WithHeader(r, p).data + Header = r.held
        BY <2>2, <4>1, HeaderStays
      <4>3. n - r.held = p.from
        BY <2>2, <3>1 DEF InStep
      <4> DEFINE h == WithHeader(r, p)
      <4>4. h.held \in Nat /\ h.data \in Nat /\ h.held + h.data + Header = r.held
        BY <4>2 DEF Buffer
      <4> HIDE DEF h
      <4>5. n - h.held = p.from + Header + h.data
        BY <1>1, <2>3, <4>3, <4>4
      <4> QED
        BY <3>1, <4>2, <4>5 DEF h
    <3>2. CASE ~start
      BY <1>1, <3>2 DEF InStep
    <3> QED
      BY <3>1, <3>2
  <2> HIDE DEF g
  <2>5. /\ f \in Buffer /\ Within(f, p) /\ f.held <= g.held
        /\ f.held + f.data = g.held + g.data
        /\ newkeys /\ f.total = f.data => f.decrypted = p.size
    BY <2>2, <2>4, FilledStays DEF g
  <2>6. rd' = f
    BY <1>4 DEF Turn
  <2> HIDE DEF f, p
  <2>7. /\ f.held \in Nat /\ f.data \in Nat /\ f.total \in Nat /\ f.decrypted \in Nat
        /\ g.held \in Nat /\ g.data \in Nat
    BY <2>4, <2>5 DEF Buffer
  <2>8. n - f.held = p.from + Header + f.data
    BY <1>1, <2>3, <2>4, <2>5, <2>7
  <2>9. f.total > 0 /\ f.data <= f.total /\ f.total = p.size - Header + Mac(newkeys)
    BY <2>3, <2>5 DEF Within
  <2>10. f.total = f.data => n - f.held = p.to
    BY <2>2, <2>3, <2>7, <2>8, <2>9
  <2>11. start => n - r.held = p.from
    BY <2>2 DEF InStep
  <2>12. ~garbled'
    BY <1>4, <2>3, <2>5, <2>10, <2>11 DEF Turn, f, p
  <2>13. /\ call' = (IF f.total = f.data THEN [call EXCEPT !.at = "full"] ELSE call)
         /\ dirs' = dirs
    BY <1>4 DEF Turn, f, p
  <2>14. InStep(rd, got)'
    <3>1. rd' = f /\ got' = n /\ cut' = cut /\ peer' = peer /\ p = peer[cut + 1]
      BY <1>1, <2>6 DEF p
    <3> QED
      BY <2>1, <2>5, <2>7, <2>8, <2>9, <3>1 DEF InStep
  <2>15. f.held <= BufSize
    BY <1>1, <1>2, <2>4, <2>5, <2>7
  <2>16. rd' \in [held : 0..BufSize, total : Nat, data : Nat, decrypted : Nat]
    BY <1>2, <2>5, <2>6, <2>7, <2>15 DEF Buffer
  <2> QED
    BY <1>1, <2>6, <2>9, <2>12, <2>13, <2>14, <2>16
<1> QED
  BY <1>3, <1>4

-----------------------------------------------------------------------------
Record == [msg : Outgoing, total : Nat, sent : Nat]
Pending == [buf : BOOLEAN, odata : Outgoing \cup {NoData}, total : Nat, sent : Nat]

\* A packet on the wire is never empty.
LEMMA OutSizeFacts ==
    ASSUME NEW m \in Outgoing, newkeys \in BOOLEAN
    PROVE  OutSize(m[2]) \in Nat /\ OutSize(m[2]) > 0
<1>1. m[2] \in Nat /\ m[2] > 0
  <2>1. CASE m \in Messages
    BY <2>1, TransportAssumption
  <2>2. CASE m \in {Reply(k) : k \in 1..MaxIn}
    BY <2>2 DEF Reply
  <2> QED
    BY <2>1, <2>2 DEF Outgoing
<1> DEFINE b == IF newkeys THEN BlockSize ELSE 8
           x == m[2] + Header
<1>2. b \in Nat /\ b > 0 /\ x \in Nat
  BY <1>1, TransportAssumption DEF Header
<1>3. x % b \in 0..(b - 1)
  BY <1>2
<1> DEFINE least == b - (x % b)
<1>4. least \in Nat
  BY <1>2, <1>3
<1> HIDE DEF b, x, least
<1>5. PaddingLength(m[2], b) = IF least < 4 THEN least + b ELSE least
  BY DEF PaddingLength, least, x
<1>6. PaddingLength(m[2], b) \in Nat
  BY <1>2, <1>4, <1>5
<1>7. Mac(newkeys) \in Nat
  BY TransportAssumption DEF Mac
<1>8. OutSize(m[2]) = m[2] + Header + PaddingLength(m[2], b) + Mac(newkeys)
  BY DEF OutSize, b
<1> QED
  BY <1>1, <1>6, <1>7, <1>8 DEF Header

\* What send() can return for length bytes.
LEMMA SendFacts ==
    ASSUME NEW length \in Nat, length > 0, NEW res \in SendResults(length)
    PROVE  /\ res.n \in 0..length
           /\ res.rc \in {"sent", "EAGAIN", "error"}
           /\ res.rc # "sent" => res.n = 0
           /\ res.rc = "sent" => res.n > 0
           /\ res.rc = "error" => closed
           /\ dead => res.rc = "error"
BY DEF SendResults

\* A socket fails only after the peer has closed the connection, and then for good.
LEMMA SocketFails ==
    ASSUME NEW length, NEW res \in SendResults(length)
    PROVE  /\ res.rc = "error" => closed /\ res.n = 0
           /\ dead => res.rc = "error"
BY DEF SendResults

\* The invariant of the writer in terms of the last packet.
LEMMA WireFacts ==
    ASSUME TypeOK, WriterInSync, out.buf
    PROVE  /\ Len(wire) \in 1..Len(wire) /\ Len(wire) \in Nat
           /\ wire[Len(wire)] \in Record
<1>1. wire \in Seq(Record)
  BY DEF TypeOK, Record
<1>2. Len(wire) \in Nat \ {0}
  BY <1>1, EmptySeq DEF WriterInSync
<1>3. Len(wire) \in 1..Len(wire)
  BY <1>2
<1> QED
  BY <1>1, <1>2, <1>3, ElementOfSeq

\* Sending more of the last packet.
LEMMA GrowFacts ==
    ASSUME TypeOK, WriterInSync, out.buf, NEW n \in Nat,
           wire[Len(wire)].sent + n <= wire[Len(wire)].total
    PROVE  /\ GrowWire(n) \in Seq(Record)
           /\ Len(GrowWire(n)) = Len(wire)
           /\ \A i \in 1..Len(wire) :
                /\ GrowWire(n)[i].msg = wire[i].msg /\ GrowWire(n)[i].total = wire[i].total
                /\ GrowWire(n)[i].sent = IF i = Len(wire) THEN wire[i].sent + n ELSE wire[i].sent
<1> DEFINE k == Len(wire)
           e == [wire[k] EXCEPT !.sent = @ + n]
<1>1. k \in 1..Len(wire) /\ wire[k] \in Record /\ wire \in Seq(Record)
  BY WireFacts DEF TypeOK, Record
<1>2. wire[k].sent \in Nat /\ wire[k].sent + n \in Nat
  BY <1>1 DEF Record
<1>3. e \in Record /\ e.msg = wire[k].msg /\ e.total = wire[k].total /\ e.sent = wire[k].sent + n
  BY <1>1, <1>2 DEF Record
<1>4. GrowWire(n) = [wire EXCEPT ![k] = e]
  BY <1>1 DEF GrowWire
<1> HIDE DEF e
<1>5. /\ [wire EXCEPT ![k] = e] \in Seq(Record) /\ Len([wire EXCEPT ![k] = e]) = Len(wire)
      /\ \A i \in 1..Len(wire) : [wire EXCEPT ![k] = e][i] = IF i = k THEN e ELSE wire[i]
  BY <1>1, <1>3, ExceptSeq
<1> QED
  BY <1>3, <1>4, <1>5

\* The complete packets of a wire, as Completed counts them.
CompletedOf(w) ==
    LET whole == {i \in DOMAIN w : w[i].sent = w[i].total}
    IN  [i \in 1..Cardinality(whole) |-> w[i].msg]

MessagesOf(w, k) == [i \in 1..k |-> w[i].msg]

\* If the first k packets are the complete ones, Completed is their messages.
LEMMA CompletedIs ==
    ASSUME NEW w \in Seq(Record), NEW k \in 0..Len(w),
           \A i \in 1..Len(w) : w[i].sent = w[i].total <=> i <= k
    PROVE  CompletedOf(w) = MessagesOf(w, k)
<1>1. k \in Nat /\ Len(w) \in Nat /\ DOMAIN w = 1..Len(w)
  OBVIOUS
<1>2. {i \in DOMAIN w : w[i].sent = w[i].total} = 1..k
  BY <1>1
<1>3. Cardinality(1..k) = k
  BY <1>1, FS_Interval
<1> QED
  BY <1>2, <1>3 DEF CompletedOf, MessagesOf

\* One complete packet more is one message more.
LEMMA MessagesGrow ==
    ASSUME NEW v \in Seq(Record), NEW w \in Seq(Record), NEW k \in Nat,
           k <= Len(v), k < Len(w), \A i \in 1..k : w[i].msg = v[i].msg
    PROVE  /\ MessagesOf(v, k) \in Seq(Outgoing)
           /\ MessagesOf(w, k) = MessagesOf(v, k)
           /\ MessagesOf(w, k + 1) = Append(MessagesOf(v, k), w[k + 1].msg)
<1>1. \A i \in 1..k : v[i] \in Record
  BY ElementOfSeq
<1>2. \A i \in 1..k : v[i].msg \in Outgoing
  BY <1>1 DEF Record
<1>3. w[k + 1] \in Record
  BY ElementOfSeq
<1>4. w[k + 1].msg \in Outgoing
  BY <1>3 DEF Record
<1>5. MessagesOf(v, k) \in Seq(Outgoing) /\ Len(MessagesOf(v, k)) = k
  BY <1>2 DEF MessagesOf
<1>6. MessagesOf(w, k) = MessagesOf(v, k)
  BY DEF MessagesOf
<1> DEFINE s == Append(MessagesOf(v, k), w[k + 1].msg)
           t == MessagesOf(w, k + 1)
<1>7. /\ s \in Seq(Outgoing) /\ Len(s) = k + 1
      /\ \A i \in 1..k : s[i] = MessagesOf(v, k)[i]
      /\ s[k + 1] = w[k + 1].msg
  BY <1>4, <1>5, AppendProperties
<1>8. \A i \in 1..(k + 1) : t[i] = w[i].msg
  BY DEF MessagesOf
<1>9. \A i \in 1..k : MessagesOf(v, k)[i] = v[i].msg
  BY DEF MessagesOf
<1>10. \A i \in 1..(k + 1) : w[i].msg \in Outgoing
  BY <1>2, <1>4
<1>11. t \in Seq(Outgoing) /\ Len(t) = k + 1
  BY <1>10 DEF MessagesOf
<1> HIDE DEF s, t
<1>12. \A i \in 1..Len(s) : s[i] = t[i]
  BY <1>7, <1>8, <1>9
<1>13. s = t
  BY <1>7, <1>11, <1>12, SeqEqual
<1> QED
  BY <1>5, <1>6, <1>13 DEF s, t

\* What a write call for m that returns rc leaves behind: the writer in step with the
\* wire; a refusal only of a packet that is not the pending one; a packet kept exactly
\* when the call would block, as long as the connection is up; and one complete packet
\* more exactly when the call succeeds.
WriteOutcome(m, rc) ==
    /\ out' \in Pending /\ wire' \in Seq(Record) /\ dirs' \subseteq {"in", "out"}
    /\ WriterInSync'
    /\ (out.buf => m = out.odata) => misuse' = misuse /\ rc # "BADUSE"
    /\ ~closed => /\ rc # "FAIL"
                  /\ rc = "NONE" => ~out'.buf
                  /\ rc = "EAGAIN" => out'.buf /\ out'.odata = m
    /\ Completed' = IF rc = "NONE" THEN Append(Completed, m) ELSE Completed

\* A new packet.
LEMMA SendNewKeeps ==
    ASSUME TypeOK, WriterInSync, ~out.buf, NEW m \in Outgoing, NEW rc, SendNew(m, rc),
           UNCHANGED closed
    PROVE  WriteOutcome(m, rc) /\ dead' \in BOOLEAN /\ misuse' \in BOOLEAN
<1> DEFINE total == OutSize(m[2])
           k == Len(wire)
<1>1. total \in Nat /\ total > 0
  BY OutSizeFacts DEF TypeOK
<1>2. PICK res \in SendResults(total) :
         /\ wire' = Append(wire, [msg |-> m, total |-> total, sent |-> res.n])
         /\ dead' = (res.rc = "error")
         /\ rc = CASE res.n = total -> "NONE"
                   [] res.rc = "error" -> "FAIL"
                   [] OTHER -> "EAGAIN"
         /\ out' = CASE rc = "NONE" -> [out EXCEPT !.odata = NoData]
                     [] rc = "FAIL" -> [out EXCEPT !.buf = TRUE]
                     [] OTHER -> [buf |-> TRUE, odata |-> m, total |-> total, sent |-> res.n]
         /\ dirs' = IF rc = "EAGAIN" THEN dirs \cup {"out"} ELSE dirs \ {"out"}
  BY DEF SendNew
<1> HIDE DEF total
<1>3. /\ res.n \in Nat /\ res.n <= total /\ res.rc \in {"sent", "EAGAIN", "error"}
      /\ res.rc = "error" => closed /\ res.n = 0
  BY <1>1, <1>2, SendFacts
<1>4. wire \in Seq(Record) /\ k \in Nat
  BY DEF TypeOK, Record
<1> DEFINE e == [msg |-> m, total |-> total, sent |-> res.n]
<1>5. e \in Record /\ e.msg = m /\ e.total = total /\ e.sent = res.n
  BY <1>1, <1>3 DEF Record
<1>6. wire' = Append(wire, e)
  BY <1>2
<1> HIDE DEF e
<1>7. /\ wire' \in Seq(Record) /\ Len(wire') = k + 1 /\ wire'[k + 1] = e
      /\ \A i \in 1..k : wire'[i] = wire[i]
  BY <1>4, <1>5, <1>6, AppendProperties
<1>8. \A i \in 1..k : wire[i].sent = wire[i].total
  <2> TAKE i \in 1..k
  <2>1. wire[i] \in Record
    BY <1>4, ElementOfSeq
  <2>2. wire[i].sent \in Nat /\ wire[i].total \in Nat
    BY <2>1 DEF Record
  <2>3. wire[i].sent <= wire[i].total /\ ~(wire[i].sent < wire[i].total)
    BY DEF WriterInSync
  <2> QED
    BY <2>2, <2>3
<1>9. \A i \in 1..(k + 1) : IF i = k + 1 THEN wire'[i] = e ELSE wire'[i] = wire[i]
  BY <1>4, <1>7
<1>10. Completed = MessagesOf(wire, k)
  <2>1. CompletedOf(wire) = MessagesOf(wire, k)
    BY <1>4, <1>8, CompletedIs
  <2> QED
    BY <2>1 DEF Completed, CompletedOf
<1>11. Completed' = CompletedOf(wire')
  BY DEF Completed, CompletedOf
<1>12. MessagesOf(wire', k) = MessagesOf(wire, k) /\ MessagesOf(wire', k + 1) = Append(MessagesOf(wire, k), m)
  BY <1>4, <1>5, <1>7, MessagesGrow
<1>13. Completed' = IF res.n = total THEN Append(Completed, m) ELSE Completed
  <2>1. CASE res.n = total
    <3>1. \A i \in 1..Len(wire') : wire'[i].sent = wire'[i].total <=> i <= k + 1
      BY <1>4, <1>5, <1>7, <1>8, <1>9, <2>1
    <3>2. k + 1 \in 0..Len(wire')
      BY <1>4, <1>7
    <3>3. CompletedOf(wire') = MessagesOf(wire', k + 1)
      BY <1>7, <3>1, <3>2, CompletedIs
    <3> QED
      BY <1>10, <1>11, <1>12, <2>1, <3>3
  <2>2. CASE res.n # total
    <3>1. \A i \in 1..Len(wire') : wire'[i].sent = wire'[i].total <=> i <= k
      BY <1>4, <1>5, <1>7, <1>8, <1>9, <2>2
    <3>2. k \in 0..Len(wire')
      BY <1>4, <1>7
    <3>3. CompletedOf(wire') = MessagesOf(wire', k)
      BY <1>7, <3>1, <3>2, CompletedIs
    <3> QED
      BY <1>10, <1>11, <1>12, <2>2, <3>3
  <2> QED
    BY <2>1, <2>2
<1>14. \A i \in 1..Len(wire') : /\ wire'[i].sent <= wire'[i].total
                                /\ wire'[i].sent < wire'[i].total => i = k + 1 /\ res.n < total
  <2> TAKE i \in 1..Len(wire')
  <2>1. CASE i = k + 1
    BY <1>1, <1>3, <1>5, <1>7, <2>1
  <2>2. CASE i # k + 1
    <3>1. i \in 1..k /\ wire'[i] = wire[i]
      BY <1>4, <1>7, <2>2
    <3>2. wire[i] \in Record
      BY <1>4, <3>1, ElementOfSeq
    <3>3. wire[i].sent \in Nat /\ wire[i].total \in Nat /\ wire[i].sent = wire[i].total
      BY <1>8, <3>1, <3>2 DEF Record
    <3> QED
      BY <3>1, <3>3
  <2> QED
    BY <2>1, <2>2
<1>15. wire' # <<>>
  BY <1>4, <1>7
<1>16. out \in Pending /\ ~dead
  BY DEF TypeOK, Pending, WriterInSync
<1>17. CASE res.n = total
  <2>1. rc = "NONE" /\ res.rc # "error"
    BY <1>1, <1>2, <1>3, <1>17
  <2>2. out' = [out EXCEPT !.odata = NoData]
    BY <1>2, <2>1
  <2>3. out' \in Pending /\ ~out'.buf
    BY <1>16, <2>2 DEF Pending
  <2>4. ~dead'
    BY <1>2, <2>1
  <2>5. WriterInSync'
    BY <1>1, <1>14, <1>17, <2>3, <2>4 DEF WriterInSync
  <2> QED
    BY <1>2, <1>7, <1>13, <1>17, <2>1, <2>3, <2>4, <2>5 DEF WriteOutcome, SendNew, TypeOK
<1>18. CASE res.n # total /\ res.rc = "error"
  <2>1. rc = "FAIL" /\ closed
    BY <1>2, <1>3, <1>18
  <2>2. out' = [out EXCEPT !.buf = TRUE]
    BY <1>2, <2>1
  <2>3. out' \in Pending /\ out'.buf
    BY <1>16, <2>2 DEF Pending
  <2>4. dead'
    BY <1>2, <1>18
  <2>5. WriterInSync'
    BY <1>7, <1>14, <1>15, <2>1, <2>3, <2>4 DEF WriterInSync
  <2> QED
    BY <1>2, <1>7, <1>13, <1>18, <2>1, <2>3, <2>4, <2>5 DEF WriteOutcome, SendNew, TypeOK
<1>19. CASE res.n # total /\ res.rc # "error"
  <2>1. rc = "EAGAIN"
    BY <1>2, <1>19
  <2>2. out' = [buf |-> TRUE, odata |-> m, total |-> total, sent |-> res.n]
    BY <1>2, <2>1
  <2>3. out' \in Pending /\ out'.buf /\ out'.odata = m /\ out'.total = total /\ out'.sent = res.n
    BY <1>1, <1>3, <2>2 DEF Pending
  <2>4. ~dead'
    BY <1>2, <1>19
  <2>5. res.n < total
    BY <1>1, <1>3, <1>19
  <2>6. WriterInSync'
    BY <1>5, <1>7, <1>14, <1>15, <2>3, <2>4, <2>5 DEF WriterInSync
  <2> QED
    BY <1>2, <1>7, <1>13, <1>19, <2>1, <2>3, <2>4, <2>6 DEF WriteOutcome, SendNew, TypeOK
<1> QED
  BY <1>17, <1>18, <1>19

\* A pending packet.
LEMMA SendExistingKeeps ==
    ASSUME TypeOK, WriterInSync, out.buf, NEW m \in Outgoing, NEW rc, SendExisting(m, rc),
           UNCHANGED closed
    PROVE  WriteOutcome(m, rc) /\ dead' \in BOOLEAN /\ misuse' \in BOOLEAN
<1> DEFINE k == Len(wire)
           rest == out.total - out.sent
<1>1. /\ wire \in Seq(Record) /\ k \in Nat /\ k \in 1..k /\ wire[k] \in Record
      /\ out \in Pending
  BY WireFacts DEF TypeOK, Record, Pending
<1> DEFINE Refused == /\ m # out.odata
                      /\ rc = "BADUSE"
                      /\ misuse' = TRUE
                      /\ UNCHANGED <<out, wire, dirs, dead>>
           GoesOn == /\ m = out.odata
                     /\ UNCHANGED misuse
                     /\ \E res \in SendResults(rest) : Resumes(res, rc)
<1>4. \/ Refused
      \/ GoesOn
  BY DEF SendExisting
<1>2. CASE Refused
  <2>1. rc = "BADUSE" /\ misuse' = TRUE /\ UNCHANGED <<out, wire, dirs, dead>> /\ m # out.odata
    BY <1>2
  <2>2. WriterInSync'
    BY <2>1 DEF WriterInSync
  <2>3. Completed' = Completed
    BY <2>1 DEF Completed
  <2> QED
    BY <1>1, <2>1, <2>2, <2>3 DEF WriteOutcome, TypeOK
<1>3. CASE GoesOn
  <2>1. misuse' = misuse /\ m = out.odata
    BY <1>3
  <2>2. PICK res \in SendResults(rest) : Resumes(res, rc)
    BY <1>3
  <2>w. wire' = IF res.n > 0 THEN GrowWire(res.n) ELSE wire
    BY <2>2 DEF Resumes
  <2>d. dead' = (res.rc = "error")
    BY <2>2 DEF Resumes
  <2>e. dirs' \in {dirs, dirs \cup {"out"}}
    BY <2>2 DEF Resumes
  <2>3. /\ out.total \in Nat /\ out.sent \in Nat /\ wire[k].sent \in Nat /\ wire[k].total \in Nat
    BY <1>1 DEF Pending, Record
  <2>4. dirs' \subseteq {"in", "out"} /\ dead' \in BOOLEAN /\ misuse' \in BOOLEAN
    BY <2>1, <2>d, <2>e DEF TypeOK
  <2>5. CASE res.rc = "error"
    <3>1. res.n = 0 /\ closed
      BY <2>2, <2>5, SocketFails
    <3>2. wire' = wire /\ dead' /\ rc = "FAIL" /\ out' = [out EXCEPT !.sent = @ + res.n]
      <4>1. wire' = wire /\ dead'
        <5>1. ~(res.n > 0)
          BY <3>1
        <5> QED
          BY <2>w, <2>d, <2>5, <5>1
      <4>2. rc = "FAIL" /\ out' = [out EXCEPT !.sent = @ + res.n]
        BY <2>2, <2>5 DEF Resumes
      <4> QED
        BY <4>1, <4>2
    <3>3. out' = out
      <4>1. out.sent + 0 = out.sent
        BY <2>3
      <4>2. out' = [out EXCEPT !.sent = out.sent]
        BY <3>1, <3>2, <4>1
      <4> QED
        BY <1>1, <4>2 DEF Pending
    <3>4. WriterInSync'
      BY <3>1, <3>2, <3>3 DEF WriterInSync
    <3>5. Completed' = Completed
      BY <3>2 DEF Completed
    <3> QED
      BY <1>1, <2>1, <2>4, <3>1, <3>2, <3>3, <3>4, <3>5 DEF WriteOutcome
  <2>6. CASE res.rc # "error"
    <3>1. ~dead /\ ~dead'
      BY <2>2, <2>d, <2>6, SocketFails
    <3>2. /\ out.odata = wire[k].msg /\ out.total = wire[k].total /\ out.sent = wire[k].sent
          /\ out.sent < out.total
      BY <3>1 DEF WriterInSync
    <3>3. rest \in Nat /\ rest > 0 /\ wire[k].sent + rest = wire[k].total
      BY <2>3, <3>2
    <3> HIDE DEF rest
    <3>4. res.n \in Nat /\ res.n <= rest /\ res.rc \in {"sent", "EAGAIN", "error"}
          /\ (res.rc # "sent" => res.n = 0)
      BY <2>2, <3>3, SendFacts
    <3>5. wire[k].sent + res.n <= wire[k].total
      BY <2>3, <3>3, <3>4
    <3>6. /\ wire' \in Seq(Record) /\ Len(wire') = k
          /\ \A i \in 1..k :
               /\ wire'[i].msg = wire[i].msg /\ wire'[i].total = wire[i].total
               /\ wire'[i].sent = IF i = k THEN wire[i].sent + res.n ELSE wire[i].sent
      <4>1. CASE res.n > 0
        BY <2>w, <3>4, <3>5, <4>1, GrowFacts
      <4>2. CASE ~(res.n > 0)
        <5>1. wire' = wire /\ wire[k].sent + res.n = wire[k].sent
          BY <2>w, <2>3, <3>4, <4>2
        <5> QED
          BY <1>1, <5>1
      <4> QED
        BY <4>1, <4>2
    <3>7. \A i \in 1..k : i # k => wire[i].sent = wire[i].total
      <4> TAKE i \in 1..k
      <4> HAVE i # k
      <4>1. wire[i] \in Record
        BY <1>1, ElementOfSeq
      <4>2. wire[i].sent \in Nat /\ wire[i].total \in Nat
        BY <4>1 DEF Record
      <4>3. wire[i].sent <= wire[i].total /\ ~(wire[i].sent < wire[i].total)
        BY DEF WriterInSync
      <4> QED
        BY <4>2, <4>3
    <3>8. Completed = MessagesOf(wire, k - 1)
      <4>1. \A i \in 1..k : wire[i].sent = wire[i].total <=> i <= k - 1
        BY <1>1, <2>3, <3>2, <3>7
      <4>2. k - 1 \in 0..k
        BY <1>1
      <4>3. CompletedOf(wire) = MessagesOf(wire, k - 1)
        BY <1>1, <4>1, <4>2, CompletedIs
      <4> QED
        BY <4>3 DEF Completed, CompletedOf
    <3>9. Completed' = CompletedOf(wire')
      BY DEF Completed, CompletedOf
    <3>10. /\ MessagesOf(wire', k - 1) = MessagesOf(wire, k - 1)
           /\ MessagesOf(wire', k) = Append(MessagesOf(wire, k - 1), m)
      <4> DEFINE j == k - 1
      <4>1. j \in Nat /\ j + 1 = k /\ j <= Len(wire) /\ j < Len(wire')
        BY <1>1, <3>6
      <4>2. \A i \in 1..j : wire'[i].msg = wire[i].msg
        BY <3>6, <4>1
      <4>3. wire'[j + 1].msg = m
        BY <1>1, <2>1, <3>2, <3>6, <4>1
      <4> HIDE DEF j
      <4>4. /\ MessagesOf(wire', j) = MessagesOf(wire, j)
            /\ MessagesOf(wire', j + 1) = Append(MessagesOf(wire, j), wire'[j + 1].msg)
        BY <1>1, <3>6, <4>1, <4>2, MessagesGrow
      <4> QED
        BY <4>1, <4>3, <4>4 DEF j
    <3>11. wire' # <<>>
      BY <1>1, <3>6
    <3>12. wire'[k].sent = wire[k].sent + res.n /\ wire'[k].msg = wire[k].msg
           /\ wire'[k].total = wire[k].total
      BY <1>1, <3>6
    <3>13. CASE res.rc = "sent" /\ res.n = rest
      <4>1. rc = "NONE" /\ out' = [out EXCEPT !.buf = FALSE, !.total = 0, !.sent = @ + res.n] /\ dirs' = dirs
        BY <2>2, <3>13 DEF Resumes, rest
      <4>2. out.sent + res.n \in Nat
        BY <2>3, <3>4
      <4>3. out' \in Pending /\ ~out'.buf
        BY <1>1, <4>1, <4>2 DEF Pending
      <4>4. \A i \in 1..k : wire'[i].sent = wire'[i].total
        BY <2>3, <3>3, <3>6, <3>7, <3>13
      <4>5. \A i \in 1..k : wire'[i].sent \in Nat /\ wire'[i].total \in Nat
        <5> TAKE i \in 1..k
        <5>1. wire'[i] \in Record
          BY <3>6, ElementOfSeq
        <5> QED
          BY <5>1 DEF Record
      <4>6. \A i \in 1..Len(wire') :
              wire'[i].sent <= wire'[i].total /\ ~(wire'[i].sent < wire'[i].total)
        BY <3>6, <4>4, <4>5
      <4>7. WriterInSync'
        BY <3>1, <4>3, <4>6 DEF WriterInSync
      <4>8. CompletedOf(wire') = MessagesOf(wire', k)
        <5>1. \A i \in 1..Len(wire') : wire'[i].sent = wire'[i].total <=> i <= k
          BY <1>1, <3>6, <4>4
        <5>2. k \in 0..Len(wire')
          BY <1>1, <3>6
        <5> QED
          BY <3>6, <5>1, <5>2, CompletedIs
      <4>9. Completed' = Append(Completed, m)
        BY <3>8, <3>9, <3>10, <4>8
      <4> QED
        BY <2>1, <2>4, <3>6, <4>1, <4>3, <4>7, <4>9 DEF WriteOutcome
    <3>14. CASE ~(res.rc = "sent" /\ res.n = rest)
      <4>1. rc = "EAGAIN" /\ out' = [out EXCEPT !.sent = @ + res.n]
        BY <2>2, <2>6, <3>14 DEF Resumes, rest
      <4>2. out.sent + res.n \in Nat /\ res.n < rest
        BY <2>3, <3>3, <3>4, <3>14
      <4>3. out' \in Pending /\ out'.buf /\ out'.odata = out.odata /\ out'.total = out.total
            /\ out'.sent = out.sent + res.n
        BY <1>1, <4>1, <4>2 DEF Pending
      <4>4. wire'[k].sent < wire'[k].total
        BY <2>3, <3>3, <3>4, <3>12, <4>2
      <4>5. \A i \in 1..k : i # k => wire'[i].sent = wire'[i].total
        BY <3>6, <3>7
      <4>6. \A i \in 1..k : wire'[i].sent \in Nat /\ wire'[i].total \in Nat
        <5> TAKE i \in 1..k
        <5>1. wire'[i] \in Record
          BY <3>6, ElementOfSeq
        <5> QED
          BY <5>1 DEF Record
      <4>7. \A i \in 1..Len(wire') :
              wire'[i].sent <= wire'[i].total /\ (wire'[i].sent < wire'[i].total => i = Len(wire'))
        <5> TAKE i \in 1..Len(wire')
        <5>1. i \in 1..k /\ wire'[i].sent \in Nat /\ wire'[i].total \in Nat
          BY <3>6, <4>6
        <5>2. CASE i = k
          BY <3>6, <4>4, <5>1, <5>2
        <5>3. CASE i # k
          BY <4>5, <5>1, <5>3
        <5> QED
          BY <5>2, <5>3
      <4>8. out'.odata = wire'[k].msg /\ out'.total = wire'[k].total /\ out'.sent = wire'[k].sent
            /\ out'.sent < out'.total
        BY <3>2, <3>12, <4>3, <4>4
      <4>9. WriterInSync'
        BY <3>1, <3>6, <3>11, <4>3, <4>7, <4>8 DEF WriterInSync
      <4>10. CompletedOf(wire') = MessagesOf(wire', k - 1)
        <5>1. \A i \in 1..Len(wire') : wire'[i].sent = wire'[i].total <=> i <= k - 1
          BY <1>1, <3>6, <4>4, <4>5, <4>6
        <5>2. k - 1 \in 0..Len(wire')
          BY <1>1, <3>6
        <5> QED
          BY <3>6, <5>1, <5>2, CompletedIs
      <4>11. Completed' = Completed
        BY <3>8, <3>9, <3>10, <4>10
      <4> QED
        BY <2>1, <2>4, <3>6, <4>1, <4>3, <4>9, <4>11 DEF WriteOutcome
    <3> QED
      BY <3>13, <3>14
  <2> QED
    BY <2>5, <2>6
<1> HIDE DEF Refused, GoesOn
<1> QED
  BY <1>2, <1>3, <1>4

\* A write call.
LEMMA WritesKeep ==
    ASSUME TypeOK, WriterInSync, NEW m \in Outgoing, NEW rc, Writes(m, rc), UNCHANGED closed
    PROVE  WriteOutcome(m, rc) /\ dead' \in BOOLEAN /\ misuse' \in BOOLEAN
BY SendNewKeeps, SendExistingKeeps DEF Writes

-----------------------------------------------------------------------------
(***************************************************************************)
(* The inductive invariant, action by action.                              *)
(***************************************************************************)
Packet == [kind : Kinds, size : Sizes, enc : BOOLEAN, from : Nat, to : Nat]
Calls == [op : Outgoing \cup {Read, None}, at : {"idle", "run", "select", "full"}]

\* The two halves of the type invariant: flags, and data.
TypeFlags ==
    /\ closed \in BOOLEAN /\ dead \in BOOLEAN /\ readable \in BOOLEAN
    /\ jump1 \in BOOLEAN /\ newkeys \in BOOLEAN /\ up \in BOOLEAN /\ block \in BOOLEAN
    /\ misuse \in BOOLEAN /\ unanswered \in BOOLEAN /\ garbled \in BOOLEAN

TypeData ==
    /\ peer \in Seq(Packet)
    /\ got \in 0..StreamEnd
    /\ rd \in [held : 0..BufSize, total : Nat, data : Nat, decrypted : Nat]
    /\ rd.data <= rd.total
    /\ call \in Calls
    /\ macstate \in {"idle", "confirmed", "invalid"}
    /\ cut \in 0..Len(peer) /\ taken \in 0..cut
    /\ out \in Pending
    /\ wire \in Seq(Record)
    /\ dirs \subseteq {"in", "out"}

\* They make up the type invariant.
LEMMA TypeHalves ==
    /\ TypeOK <=> TypeFlags /\ TypeData
    /\ TypeOK' <=> TypeFlags' /\ TypeData'
BY DEF TypeOK, TypeFlags, TypeData, Packet, Calls, Pending, Record

\* No message of the layers above is a reply or one of the names of no message.
LEMMA MessagesApart ==
    /\ Read \notin Messages /\ None \notin Messages
    /\ \A k \in 1..MaxIn : Reply(k) \notin Messages
BY TransportAssumption DEF Read, None, Reply

\* The initial states.
LEMMA InitIInv == Init => IInv
<1> SUFFICES ASSUME Init PROVE IInv
  OBVIOUS
<1>1. Len(peer) = 0 /\ peer = <<>> /\ wire = <<>> /\ Len(wire) = 0
  BY DEF Init
<1>2. TypeFlags
  BY DEF Init, TypeFlags
<1>3. TypeData
  <2>1. rd \in [held : 0..BufSize, total : Nat, data : Nat, decrypted : Nat] /\ rd.data <= rd.total
    BY TransportAssumption DEF Init
  <2>2. call \in Calls /\ out \in Pending
    BY DEF Init, Calls, Pending, Idle
  <2>3. got = 0 /\ StreamEnd = 0 /\ cut = 0 /\ taken = 0 /\ dirs = {} /\ macstate = "idle"
    BY <1>1 DEF Init, StreamEnd
  <2> QED
    BY <1>1, <2>1, <2>2, <2>3 DEF TypeData
<1>4. StreamLaid
  BY <1>1, TransportAssumption DEF Init, StreamLaid
<1>5. ReaderInSync
  BY DEF Init, ReaderInSync, InStep, Offset, Idle
<1>6. VerdictStands
  BY DEF Init, VerdictStands
<1>7. WriterInSync
  BY <1>1 DEF Init, WriterInSync
<1>8. CallOwnsPacket
  BY DEF Init, CallOwnsPacket
<1> QED
  BY <1>2, <1>3, <1>4, <1>5, <1>6, <1>7, <1>8, TypeHalves DEF IInv

\* The end of the stream.
LEMMA StreamEndFacts ==
    ASSUME peer \in Seq(Packet)
    PROVE  StreamEnd \in Nat /\ StreamEnd = Offset(Len(peer))
<1>1. CASE peer = <<>>
  BY <1>1 DEF StreamEnd, Offset
<1>2. CASE peer # <<>>
  <2>1. Len(peer) \in 1..Len(peer) /\ Len(peer) # 0
    BY <1>2, EmptySeq
  <2>2. peer[Len(peer)] \in Packet
    BY <2>1, ElementOfSeq
  <2>3. peer[Len(peer)].to \in Nat
    BY <2>2 DEF Packet
  <2> QED
    BY <1>2, <2>1, <2>3 DEF StreamEnd, Offset
<1> QED
  BY <1>1, <1>2

\* The peer sends a packet: it is laid behind the others.
LEMMA PeerSendsKeeps ==
    ASSUME IInv, NEW kind \in Kinds, NEW size \in Sizes, PeerSends(kind, size)
    PROVE  IInv'
<1> DEFINE enc == newkeys \/ \E i \in DOMAIN peer : peer[i].kind = "newkeys"
           e == [kind |-> kind, size |-> size, enc |-> enc,
                 from |-> StreamEnd, to |-> StreamEnd + size + Mac(enc)]
           k == Len(peer)
<1>1. /\ TypeFlags /\ TypeData /\ StreamLaid /\ ReaderInSync /\ VerdictStands
      /\ WriterInSync /\ CallOwnsPacket
  BY TypeHalves DEF IInv
<1>2. UNCHANGED <<closed, readable, reader, call, writer, dirs, block, unanswered>>
  BY DEF PeerSends
<1>3. peer' = Append(peer, e) /\ (kind = "newkeys" => ~enc) /\ (kind = "corrupt" => enc) /\ k < MaxIn
  BY DEF PeerSends
<1>4. peer \in Seq(Packet) /\ k \in Nat /\ DOMAIN peer = 1..k /\ StreamEnd \in Nat
      /\ StreamEnd = Offset(k)
  BY <1>1, StreamEndFacts DEF TypeData
<1>5. enc \in BOOLEAN
  OBVIOUS
<1> HIDE DEF enc
<1>6. StreamEnd + size + Mac(enc) \in Nat /\ StreamEnd + size + Mac(enc) >= StreamEnd /\ size \in Nat
      /\ Mac(enc) \in Nat
  <2>1. size \in Nat /\ Mac(enc) \in Nat
    BY SizeFacts
  <2> QED
    BY <1>4, <2>1
<1>7. /\ e \in Packet /\ e.kind = kind /\ e.size = size /\ e.enc = enc /\ e.from = StreamEnd
      /\ e.to = StreamEnd + size + Mac(enc)
  BY <1>4, <1>5, <1>6 DEF Packet
<1> HIDE DEF e
<1>8. /\ peer' \in Seq(Packet) /\ Len(peer') = k + 1 /\ peer'[k + 1] = e
      /\ \A i \in 1..k : peer'[i] = peer[i]
  BY <1>3, <1>4, <1>7, AppendProperties
<1>9. peer' # <<>> /\ StreamEnd' = e.to
  BY <1>4, <1>8 DEF StreamEnd
<1>10. \A i \in 0..k : Offset(i)' = Offset(i)
  BY <1>8 DEF Offset
<1>11. /\ got' = got /\ rd' = rd /\ jump1' = jump1 /\ macstate' = macstate /\ newkeys' = newkeys
       /\ up' = up /\ cut' = cut /\ taken' = taken /\ garbled' = garbled /\ out' = out
       /\ wire' = wire /\ misuse' = misuse /\ dead' = dead /\ closed' = closed /\ call' = call
       /\ dirs' = dirs /\ block' = block /\ unanswered' = unanswered
  BY <1>2 DEF reader, writer
<1>12. cut \in Nat /\ cut <= k /\ got \in Nat /\ got <= StreamEnd
  BY <1>1, <1>4 DEF TypeData
<1>13. TypeFlags'
  BY <1>1, <1>2 DEF TypeFlags, reader, writer
<1>14. TypeData'
  <2>1. got' \in 0..StreamEnd'
    <3>1. StreamEnd' = StreamEnd + size + Mac(enc)
      BY <1>7, <1>9
    <3> QED
      BY <1>4, <1>6, <1>11, <1>12, <3>1
  <2>2. cut' \in 0..Len(peer') /\ taken' \in 0..cut'
    BY <1>1, <1>4, <1>8, <1>11, <1>12 DEF TypeData
  <2> QED
    BY <1>1, <1>8, <1>11, <2>1, <2>2 DEF TypeData
<1>15. StreamLaid'
  <2>1. Len(peer') <= MaxIn
    BY <1>3, <1>4, <1>8, TransportAssumption
  <2>2. \A i \in 1..Len(peer') :
         /\ peer'[i].from = Offset(i - 1)'
         /\ peer'[i].to = peer'[i].from + peer'[i].size + Mac(peer'[i].enc)
         /\ peer'[i].kind = "corrupt" => peer'[i].enc
    <3> TAKE i \in 1..Len(peer')
    <3>1. CASE i = k + 1
      <4>1. i - 1 = k /\ k \in 0..k
        BY <1>4, <3>1
      <4>2. Offset(i - 1)' = StreamEnd
        BY <1>4, <1>10, <4>1
      <4> QED
        BY <1>3, <1>7, <1>8, <3>1, <4>2
    <3>2. CASE i # k + 1
      <4>1. i \in 1..k /\ i - 1 \in 0..k
        BY <1>4, <1>8, <3>2
      <4>2. Offset(i - 1)' = Offset(i - 1) /\ peer'[i] = peer[i]
        BY <1>8, <1>10, <4>1
      <4> QED
        BY <1>1, <4>1, <4>2 DEF StreamLaid
    <3> QED
      BY <3>1, <3>2
  <2>3. \A i \in 1..cut' : peer'[i].kind = "newkeys" => newkeys'
    <3>1. \A i \in 1..cut : i \in 1..k /\ (peer[i].kind = "newkeys" => newkeys)
      BY <1>1, <1>4, <1>12 DEF StreamLaid
    <3> QED
      BY <1>8, <1>11, <3>1
  <2>4. \A i \in (cut' + 1)..Len(peer') :
           peer'[i].enc = (newkeys' \/ \E j \in 1..(i - 1) : peer'[j].kind = "newkeys")
    <3> TAKE i \in (cut' + 1)..Len(peer')
    <3>1. CASE i = k + 1
      <4>1. i - 1 = k
        BY <1>4, <3>1
      <4>2. peer'[i].enc = enc
        BY <1>7, <1>8, <3>1
      <4> QED
        BY <1>4, <1>8, <1>11, <4>1, <4>2 DEF enc
    <3>2. CASE i # k + 1
      <4>1. i \in 1..k /\ i \in (cut + 1)..k
        BY <1>4, <1>8, <1>11, <1>12, <3>2
      <4>2. \A j \in 1..(i - 1) : peer'[j] = peer[j]
        BY <1>4, <1>8, <4>1
      <4>3. peer[i].enc = (newkeys \/ \E j \in 1..(i - 1) : peer[j].kind = "newkeys")
        BY <1>1, <4>1 DEF StreamLaid
      <4> QED
        BY <1>8, <1>11, <4>1, <4>2, <4>3
    <3> QED
      BY <3>1, <3>2
  <2> QED
    BY <2>1, <2>2, <2>3, <2>4 DEF StreamLaid
<1>16. ReaderInSync'
  <2>1. Offset(cut)' = Offset(cut)
    BY <1>10, <1>11, <1>12 DEF Offset
  <2>2. cut < k => peer'[cut + 1] = peer[cut + 1]
    BY <1>4, <1>8, <1>12
  <2>3. rd.total \in Nat
    BY <1>1 DEF TypeData
  <2>4. InStep(rd, got)
    BY <1>1 DEF ReaderInSync
  <2>5. InStep(rd, got)'
    BY <1>4, <1>8, <1>11, <1>12, <2>1, <2>2, <2>4 DEF InStep, Within
  <2>6. rd.total > 0 => cut < k
    BY <2>4 DEF InStep
  <2> QED
    BY <1>1, <1>11, <2>2, <2>5, <2>6 DEF ReaderInSync
<1>17. VerdictStands'
  BY <1>1, <1>8, <1>11, <1>12 DEF VerdictStands
<1>18. WriterInSync'
  BY <1>1, <1>11 DEF WriterInSync
<1>19. CallOwnsPacket'
  BY <1>1, <1>11 DEF CallOwnsPacket
<1> QED
  BY <1>13, <1>14, <1>15, <1>16, <1>17, <1>18, <1>19, TypeHalves DEF IInv

\* The parts of the invariant depend only on the state they speak of.
LEMMA StreamFrame ==
    ASSUME StreamLaid, UNCHANGED <<peer, cut, newkeys>>
    PROVE  StreamLaid'
BY DEF StreamLaid, Offset

\* The reader, if the call does not come to fullpacket.
LEMMA ReaderFrame ==
    ASSUME ReaderInSync, UNCHANGED <<peer, garbled, rd, got, cut, up, jump1, macstate>>,
           call'.at = "full" => call'.op = Read /\ up /\ rd.total > 0 /\ rd.total = rd.data
    PROVE  ReaderInSync'
<1>1. InStep(rd, got)'
  BY DEF ReaderInSync, InStep, Offset
<1> QED
  BY <1>1 DEF ReaderInSync

\* The verdict on the packets.
LEMMA VerdictFrame ==
    ASSUME VerdictStands, UNCHANGED <<peer, cut, newkeys, taken, macstate, jump1, up>>
    PROVE  VerdictStands'
BY DEF VerdictStands

\* The writer.
LEMMA WriterFrame ==
    ASSUME WriterInSync, UNCHANGED writer, closed => closed'
    PROVE  WriterInSync'
BY DEF WriterInSync, writer

\* The types, if the stream and the reader stay as they are.
LEMMA TypeFrame ==
    ASSUME TypeOK, UNCHANGED <<peer, reader>>, closed' \in BOOLEAN, dead' \in BOOLEAN,
           readable' \in BOOLEAN, block' = block, misuse' \in BOOLEAN, unanswered' \in BOOLEAN,
           call' \in Calls, out' \in Pending, wire' \in Seq(Record), dirs' \subseteq {"in", "out"}
    PROVE  TypeOK'
<1>1. TypeFlags /\ TypeData
  BY TypeHalves
<1>2. TypeFlags'
  BY <1>1 DEF TypeFlags, reader
<1>3. TypeData'
  BY <1>1 DEF TypeData, reader, StreamEnd
<1> QED
  BY <1>2, <1>3, TypeHalves

\* Bytes arrive, or the peer closes the connection.
LEMMA NetworkKeeps ==
    ASSUME IInv, BytesArrive \/ PeerCloses
    PROVE  IInv'
<1>1. /\ TypeOK /\ TypeFlags /\ TypeData /\ StreamLaid /\ ReaderInSync /\ VerdictStands
      /\ WriterInSync /\ CallOwnsPacket
  BY TypeHalves DEF IInv
<1>2. /\ UNCHANGED <<peer, reader, call, writer, dirs, block, unanswered>>
      /\ closed => closed'
      /\ closed' = closed \/ closed' = TRUE
      /\ readable' = readable \/ readable' = TRUE
  BY DEF BytesArrive, PeerCloses, peerVars
<1>3. TypeOK'
  <2>1. closed' \in BOOLEAN /\ readable' \in BOOLEAN
    BY <1>1, <1>2 DEF TypeFlags
  <2>2. dead' \in BOOLEAN /\ misuse' \in BOOLEAN /\ unanswered' \in BOOLEAN
    BY <1>1, <1>2 DEF TypeFlags, writer
  <2>3. call' \in Calls /\ out' \in Pending /\ wire' \in Seq(Record) /\ dirs' \subseteq {"in", "out"}
    BY <1>1, <1>2 DEF TypeData, writer
  <2> QED
    BY <1>1, <1>2, <2>1, <2>2, <2>3, TypeFrame
<1>4. StreamLaid'
  BY <1>1, <1>2, StreamFrame DEF reader
<1>5. ReaderInSync'
  <2>1. UNCHANGED <<peer, garbled, rd, got, cut, up, jump1, macstate>> /\ call' = call
    BY <1>2 DEF reader
  <2>2. call'.at = "full" => call'.op = Read /\ up /\ rd.total > 0 /\ rd.total = rd.data
    BY <1>1, <2>1 DEF ReaderInSync
  <2> QED
    BY <1>1, <2>1, <2>2, ReaderFrame
<1>6. VerdictStands'
  BY <1>1, <1>2, VerdictFrame DEF reader
<1>7. WriterInSync'
  BY <1>1, <1>2, WriterFrame
<1>8. CallOwnsPacket'
  BY <1>1, <1>2 DEF CallOwnsPacket, reader, writer
<1> QED
  BY <1>3, <1>4, <1>5, <1>6, <1>7, <1>8 DEF IInv

\* Steps that change nothing but the call and the directions it waits for: they leave
\* the invariant alone if the call owns the packet that is kept.
LEMMA CallStepKeeps ==
    ASSUME IInv, UNCHANGED <<peerVars, readable, reader, writer, block, unanswered>>,
           call' \in Calls, dirs' \subseteq {"in", "out"},
           call'.at = "full" => call'.op = Read /\ up /\ rd.total > 0 /\ rd.total = rd.data,
           block /\ ~closed /\ out.buf => call'.at # "idle" /\ call'.op = call.op
    PROVE  IInv'
<1>1. /\ TypeOK /\ TypeFlags /\ TypeData /\ StreamLaid /\ ReaderInSync /\ VerdictStands
      /\ WriterInSync /\ CallOwnsPacket
  BY TypeHalves DEF IInv
<1>2. UNCHANGED <<peer, closed, readable, reader, writer, block, unanswered>>
  BY DEF peerVars
<1>3. TypeOK'
  <2>1. closed' \in BOOLEAN /\ readable' \in BOOLEAN
    BY <1>1, <1>2 DEF TypeFlags
  <2>2. dead' \in BOOLEAN /\ misuse' \in BOOLEAN /\ unanswered' \in BOOLEAN
    BY <1>1, <1>2 DEF TypeFlags, writer
  <2>3. out' \in Pending /\ wire' \in Seq(Record)
    BY <1>1, <1>2 DEF TypeData, writer
  <2> QED
    BY <1>1, <1>2, <2>1, <2>2, <2>3, TypeFrame
<1>4. StreamLaid'
  BY <1>1, <1>2, StreamFrame DEF reader
<1>5. ReaderInSync'
  <2>1. UNCHANGED <<peer, garbled, rd, got, cut, up, jump1, macstate>>
    BY <1>2 DEF reader
  <2> QED
    BY <1>1, <2>1, ReaderFrame
<1>6. VerdictStands'
  BY <1>1, <1>2, VerdictFrame DEF reader
<1>7. WriterInSync'
  BY <1>1, <1>2, WriterFrame
<1>8. CallOwnsPacket'
  BY <1>1, <1>2 DEF CallOwnsPacket, reader, writer
<1> QED
  BY <1>3, <1>4, <1>5, <1>6, <1>7, <1>8 DEF IInv

\* A call is made, waits, goes on with a reply, or finds the session disconnected.
LEMMA CallsKeep ==
    ASSUME IInv,
           \/ \E m \in Messages : CallWrite(m)
           \/ CallRead \/ WaitSocket \/ ReadResumes \/ ReadDisconnected
    PROVE  IInv'
<1>1. TypeOK /\ TypeFlags /\ TypeData /\ ReaderInSync /\ CallOwnsPacket
  BY TypeHalves DEF IInv
<1>2. call \in Calls /\ dirs \subseteq {"in", "out"}
  BY <1>1 DEF TypeData
<1>3. ASSUME NEW m \in Messages, CallWrite(m) PROVE IInv'
  <2>1. call' \in Calls /\ call'.at = "run" /\ call.at = "idle"
    BY <1>3 DEF CallWrite, Calls, Outgoing, Idle
  <2>2. ~(block /\ ~closed /\ out.buf)
    BY <1>1, <2>1 DEF CallOwnsPacket
  <2>3. UNCHANGED <<peerVars, readable, reader, writer, block, unanswered>> /\ dirs' = dirs
    BY <1>3 DEF CallWrite
  <2> QED
    BY <1>2, <2>1, <2>2, <2>3, CallStepKeeps
<1>4. CASE CallRead
  <2>1. call' \in Calls /\ call'.at = "run" /\ call.at = "idle"
    BY <1>4 DEF CallRead, Calls, Idle
  <2>2. ~(block /\ ~closed /\ out.buf)
    BY <1>1, <2>1 DEF CallOwnsPacket
  <2>3. UNCHANGED <<peerVars, readable, reader, writer, block, unanswered>> /\ dirs' = dirs \ {"in"}
    BY <1>4 DEF CallRead
  <2> QED
    BY <1>2, <2>1, <2>2, <2>3, CallStepKeeps
<1>5. CASE WaitSocket
  <2>1. call' \in Calls /\ call'.at = "run" /\ call'.op = call.op
    BY <1>2, <1>5 DEF WaitSocket, Calls
  <2>2. UNCHANGED <<peerVars, readable, reader, writer, block, unanswered>>
    BY <1>5 DEF WaitSocket
  <2>3. dirs' \subseteq {"in", "out"}
    BY <1>2, <1>5 DEF WaitSocket
  <2> QED
    BY <2>1, <2>2, <2>3, CallStepKeeps
<1>6. CASE ReadResumes
  <2>1. call' \in Calls /\ call'.at = "full" /\ call'.op = call.op /\ call.op = Read
    BY <1>2, <1>6 DEF ReadResumes, Calls
  <2>2. UNCHANGED <<peerVars, readable, reader, writer, block, unanswered>> /\ dirs' = dirs
    BY <1>6 DEF ReadResumes
  <2>3. up /\ rd.total > 0 /\ rd.total = rd.data
    BY <1>1, <1>6 DEF ReadResumes, ReaderInSync
  <2> QED
    BY <1>2, <2>1, <2>2, <2>3, CallStepKeeps
<1>7. CASE ReadDisconnected
  <2>1. call' \in Calls /\ call'.at = "idle" /\ call.op = Read /\ ~jump1
    BY <1>1, <1>2, <1>7, ReturnFacts DEF ReadDisconnected, Calls, Idle
  <2>2. UNCHANGED <<peerVars, readable, reader, writer, block, unanswered>> /\ dirs' = dirs
    BY <1>7 DEF ReadDisconnected
  <2>3. ~(block /\ ~closed /\ out.buf)
    BY <1>1, <2>1, MessagesApart DEF CallOwnsPacket
  <2> QED
    BY <1>2, <2>1, <2>2, <2>3, CallStepKeeps
<1> QED
  BY <1>3, <1>4, <1>5, <1>6, <1>7

\* A write call.
LEMMA TransportWriteKeeps ==
    ASSUME IInv, TransportWrite
    PROVE  IInv'
<1>1. /\ TypeOK /\ TypeFlags /\ TypeData /\ StreamLaid /\ ReaderInSync /\ VerdictStands
      /\ WriterInSync /\ CallOwnsPacket
  BY TypeHalves DEF IInv
<1>2. PICK rc \in {"NONE", "EAGAIN", "FAIL", "BADUSE"} : Writes(call.op, rc) /\ Returns(rc)
  BY DEF TransportWrite
<1>3. /\ UNCHANGED <<peerVars, readable, reader, block, unanswered>>
      /\ call.op \in Messages /\ call.at = "run"
  BY DEF TransportWrite
<1>4. UNCHANGED <<peer, closed, readable, reader, block, unanswered>>
  BY <1>3 DEF peerVars
<1>5. call.op \in Outgoing /\ closed' = closed
  BY <1>3, <1>4 DEF Outgoing
<1>6. WriteOutcome(call.op, rc) /\ dead' \in BOOLEAN /\ misuse' \in BOOLEAN
  BY <1>1, <1>2, <1>5, WritesKeep
<1>7. /\ call' \in Calls /\ call'.at \in {"idle", "select"}
      /\ (rc = "EAGAIN" /\ block => call' = [call EXCEPT !.at = "select"])
      /\ (~(rc = "EAGAIN" /\ block) => call' = Idle)
  BY <1>1, <1>2, ReturnFacts DEF Calls
<1>8. TypeOK'
  <2>1. closed' \in BOOLEAN /\ readable' \in BOOLEAN /\ unanswered' \in BOOLEAN
    BY <1>1, <1>4 DEF TypeFlags
  <2>2. out' \in Pending /\ wire' \in Seq(Record) /\ dirs' \subseteq {"in", "out"}
    BY <1>6 DEF WriteOutcome
  <2> QED
    BY <1>1, <1>4, <1>6, <1>7, <2>1, <2>2, TypeFrame
<1>9. StreamLaid'
  BY <1>1, <1>4, StreamFrame DEF reader
<1>10. ReaderInSync'
  <2>1. UNCHANGED <<peer, garbled, rd, got, cut, up, jump1, macstate>>
    BY <1>4 DEF reader
  <2> QED
    BY <1>1, <1>7, <2>1, ReaderFrame
<1>11. VerdictStands'
  BY <1>1, <1>4, VerdictFrame DEF reader
<1>12. WriterInSync'
  BY <1>6 DEF WriteOutcome
<1>13. CallOwnsPacket'
  <2> SUFFICES ASSUME block, ~closed
               PROVE  CallOwnsPacket'
    BY <1>4 DEF CallOwnsPacket
  <2>1. call.op # Read
    BY <1>3, MessagesApart
  <2>2. ~misuse /\ ~unanswered /\ ~jump1 /\ (out.buf => call.op = out.odata)
    BY <1>1, <2>1 DEF CallOwnsPacket
  <2>3. misuse' = misuse /\ rc # "BADUSE" /\ rc # "FAIL"
    BY <1>6, <2>2 DEF WriteOutcome
  <2>4. ~misuse' /\ ~unanswered' /\ ~jump1'
    BY <1>4, <2>2, <2>3 DEF reader
  <2>5. CASE rc = "NONE"
    <3>1. ~out'.buf
      BY <1>6, <2>5 DEF WriteOutcome
    <3> QED
      BY <2>4, <3>1 DEF CallOwnsPacket
  <2>6. CASE rc = "EAGAIN"
    <3>1. out'.buf /\ out'.odata = call.op
      BY <1>6, <2>6 DEF WriteOutcome
    <3>2. call'.at = "select" /\ call'.op = call.op
      BY <1>1, <1>7, <2>6 DEF TypeData, Calls
    <3> QED
      BY <1>3, <2>4, <3>1, <3>2 DEF CallOwnsPacket
  <2> QED
    BY <1>2, <2>3, <2>5, <2>6
<1> QED
  BY <1>8, <1>9, <1>10, <1>11, <1>12, <1>13 DEF IInv

\* A turn of the read loop.
LEMMA ReadLoopKeeps ==
    ASSUME IInv, ReadLoop
    PROVE  IInv'
<1>1. /\ TypeOK /\ TypeFlags /\ TypeData /\ StreamLaid /\ ReaderInSync /\ VerdictStands
      /\ WriterInSync /\ CallOwnsPacket
  BY TypeHalves DEF IInv
<1>2. /\ UNCHANGED <<peerVars, jump1, macstate, newkeys, up, cut, taken, writer, block, unanswered>>
      /\ call = [op |-> Read, at |-> "run"] /\ ~jump1 /\ up
  BY DEF ReadLoop
<1>3. /\ UNCHANGED <<peer, closed, jump1, macstate, newkeys, up, cut, taken, block, unanswered>>
      /\ UNCHANGED writer
  BY <1>2 DEF peerVars
<1>4. UNCHANGED <<out, wire, misuse, dead>>
  BY <1>3 DEF writer
<1>5. /\ rd \in [held : 0..BufSize, total : Nat, data : Nat, decrypted : Nat]
      /\ rd.data <= rd.total /\ InStep(rd, got) /\ got \in 0..StreamEnd /\ ~garbled
      /\ dirs \subseteq {"in", "out"} /\ call \in Calls /\ readable \in BOOLEAN
      /\ BufSize \in Nat /\ StreamEnd \in Nat
  BY <1>1, TransportAssumption, StreamEndFacts DEF TypeData, TypeFlags, ReaderInSync
<1>6. /\ rd.held \in Nat /\ rd.held <= BufSize /\ rd.data \in Nat /\ rd.total \in Nat
      /\ rd.decrypted \in Nat /\ got \in Nat /\ got <= StreamEnd /\ rd \in Buffer
  BY <1>5 DEF Buffer
<1> DEFINE Stays ==
             /\ rd' \in [held : 0..BufSize, total : Nat, data : Nat, decrypted : Nat]
             /\ rd'.data <= rd'.total
             /\ InStep(rd, got)'
             /\ ~garbled'
             /\ got' \in 0..StreamEnd
             /\ \/ \E rc : Returns(rc)
                \/ call' = [call EXCEPT !.at = "full"] /\ rd'.total > 0 /\ rd'.total = rd'.data
                \/ call' = call
             /\ dirs' \in {dirs, dirs \cup {"in"}}
             /\ readable' \in BOOLEAN
<1>7. Stays
  <2>1. CASE Turn(rd, got) /\ UNCHANGED readable
    BY <1>1, <1>3, <1>5, <1>6, <2>1, TurnInStep
  <2>2. ASSUME NEW n \in 1..Min({StreamEnd - got, BufSize - rd.held}),
               Turn([rd EXCEPT !.held = @ + n], got + n),
               readable' \in IF got + n < StreamEnd THEN BOOLEAN ELSE {FALSE}
        PROVE  Stays
    <3> DEFINE r == [rd EXCEPT !.held = @ + n]
    <3>1. n \in Nat /\ got + n <= StreamEnd /\ rd.held + n <= BufSize
      <4>1. StreamEnd - got \in Int /\ BufSize - rd.held \in Int
        BY <1>5, <1>6
      <4>2. Min({StreamEnd - got, BufSize - rd.held}) \in Int
        BY <4>1, MinMaxOfTwo
      <4>3. n \in Nat /\ n <= StreamEnd - got /\ n <= BufSize - rd.held
        BY <4>1, <4>2, MinMaxOfTwo
      <4> QED
        BY <1>5, <1>6, <4>3
    <3>2. got + n \in 0..StreamEnd /\ rd.held + n \in Nat
      BY <1>5, <1>6, <3>1
    <3>3. /\ r \in Buffer /\ r.held = rd.held + n /\ r.total = rd.total /\ r.data = rd.data
          /\ r.decrypted = rd.decrypted
      BY <1>6, <3>2 DEF Buffer
    <3> HIDE DEF r
    <3>4. (got + n) - r.held = got - rd.held
      BY <1>6, <3>1, <3>3
    <3>5. InStep(r, got + n)
      BY <1>5, <3>3, <3>4 DEF InStep, Within
    <3>6. Turn(r, got + n)
      BY <2>2 DEF r
    <3>7. r.held <= BufSize /\ r.data <= r.total
      BY <1>5, <3>1, <3>3
    <3>8. readable' \in BOOLEAN
      BY <2>2
    <3> QED
      BY <1>1, <1>3, <1>5, <3>2, <3>3, <3>5, <3>6, <3>7, <3>8, TurnInStep
  <2>3. CASE /\ IF closed /\ got = StreamEnd
                  THEN Returns("FAIL") /\ UNCHANGED dirs
                  ELSE Returns("EAGAIN") /\ dirs' = dirs \cup {"in"}
             /\ UNCHANGED <<readable, got, rd, garbled>>
    <3>1. InStep(rd, got)'
      BY <1>3, <1>5, <2>3 DEF InStep, Offset
    <3>2. \E rc : Returns(rc)
      BY <2>3
    <3>3. dirs' \in {dirs, dirs \cup {"in"}}
      BY <2>3
    <3>4. readable' \in BOOLEAN /\ ~garbled'
      BY <1>5, <2>3
    <3> QED
      BY <1>5, <2>3, <3>1, <3>2, <3>3, <3>4
  <2> QED
    BY <2>1, <2>2, <2>3 DEF ReadLoop
<1> HIDE DEF Stays
<1>8. StreamEnd' = StreamEnd
  BY <1>3 DEF StreamEnd
<1>9. /\ call' \in Calls
      /\ call'.at = "full" => call'.op = Read /\ rd'.total > 0 /\ rd'.total = rd'.data
  <2>1. CASE \E rc : Returns(rc)
    BY <1>1, <2>1, ReturnFacts DEF Calls
  <2>2. CASE call' = [call EXCEPT !.at = "full"] /\ rd'.total > 0 /\ rd'.total = rd'.data
    BY <1>2, <1>5, <2>2 DEF Calls
  <2>3. CASE call' = call
    BY <1>2, <1>5, <2>3 DEF Calls
  <2> QED
    BY <1>7, <2>1, <2>2, <2>3 DEF Stays
<1>10. TypeOK'
  <2>1. readable' \in BOOLEAN /\ garbled' = FALSE
    BY <1>7, <1>1 DEF Stays, TypeFlags
  <2>2. TypeFlags'
    BY <1>1, <1>3, <1>4, <2>1 DEF TypeFlags
  <2>3. TypeData'
    <3>1. /\ rd' \in [held : 0..BufSize, total : Nat, data : Nat, decrypted : Nat]
          /\ rd'.data <= rd'.total /\ got' \in 0..StreamEnd' /\ dirs' \subseteq {"in", "out"}
      BY <1>5, <1>7, <1>8 DEF Stays
    <3> QED
      BY <1>1, <1>3, <1>4, <1>9, <3>1 DEF TypeData
  <2> QED
    BY <2>2, <2>3, TypeHalves
<1>11. StreamLaid'
  BY <1>1, <1>3, StreamFrame
<1>12. ReaderInSync'
  BY <1>2, <1>3, <1>7, <1>9 DEF ReaderInSync, Stays
<1>13. VerdictStands'
  BY <1>1, <1>3, VerdictFrame
<1>14. WriterInSync'
  BY <1>1, <1>3, WriterFrame
<1>15. CallOwnsPacket'
  <2> SUFFICES ASSUME block, ~closed
               PROVE  CallOwnsPacket'
    BY <1>3 DEF CallOwnsPacket
  <2>1. ~out.buf /\ ~misuse /\ ~unanswered
    BY <1>1, <1>2, MessagesApart DEF CallOwnsPacket
  <2> QED
    BY <1>2, <1>3, <1>4, <2>1 DEF CallOwnsPacket
<1> QED
  BY <1>10, <1>11, <1>12, <1>13, <1>14, <1>15 DEF IInv

\* A complete packet ends where the reader stands.
LEMMA FullPacketMet ==
    ASSUME IInv, call = [op |-> Read, at |-> "full"]
    PROVE  /\ cut < Len(peer) /\ cut \in Nat /\ Len(peer) \in Nat /\ cut + 1 \in 1..MaxIn /\ up
           /\ peer[cut + 1] \in Packet /\ peer[cut + 1].enc = newkeys
           /\ got - rd.held = Offset(cut + 1)
<1>1. TypeOK /\ TypeData /\ StreamLaid /\ ReaderInSync
  BY TypeHalves DEF IInv
<1>2. up /\ rd.total > 0 /\ rd.total = rd.data /\ InStep(rd, got)
  BY <1>1 DEF ReaderInSync
<1>3. /\ cut < Len(peer) /\ Within(rd, peer[cut + 1])
      /\ got - rd.held = peer[cut + 1].from + Header + rd.data
  BY <1>2 DEF InStep
<1>4. cut \in Nat /\ Len(peer) \in Nat /\ Len(peer) <= MaxIn /\ cut + 1 # 0
  BY <1>1 DEF TypeData, StreamLaid
<1>5. cut + 1 \in 1..MaxIn
  BY <1>3, <1>4, TransportAssumption
<1>6. /\ peer[cut + 1] \in Packet /\ Met(peer[cut + 1])
      /\ peer[cut + 1].from = Offset(cut)
      /\ peer[cut + 1].to = Offset(cut) + peer[cut + 1].size + Mac(newkeys)
  BY <1>1, <1>3, NextPacketMet DEF Packet
<1>7. /\ peer[cut + 1].size \in Nat /\ peer[cut + 1].from \in Nat /\ Mac(newkeys) \in Nat
      /\ Header \in Nat /\ peer[cut + 1].enc = newkeys
  BY <1>6, SizeFacts DEF Packet, Met
<1>8. rd.data = peer[cut + 1].size - Header + Mac(newkeys)
  BY <1>2, <1>3, <1>7 DEF Within
<1>9. got - rd.held = peer[cut + 1].to
  <2> DEFINE p == peer[cut + 1]
  <2>1. /\ p.size \in Nat /\ p.from \in Nat /\ Mac(newkeys) \in Nat /\ Header \in Nat
        /\ got - rd.held = p.from + Header + rd.data /\ rd.data = p.size - Header + Mac(newkeys)
        /\ p.to = p.from + p.size + Mac(newkeys)
    BY <1>3, <1>6, <1>7, <1>8
  <2> HIDE DEF p
  <2>2. p.from + Header + (p.size - Header + Mac(newkeys)) = p.from + p.size + Mac(newkeys)
    BY <2>1
  <2>3. got - rd.held = p.to
    BY <2>1, <2>2
  <2> QED
    BY <2>3 DEF p
<1> QED
  BY <1>2, <1>3, <1>4, <1>5, <1>6, <1>7, <1>9 DEF Offset

\* Once it is done with, the reader stands between two packets.
LEMMA DoneInStep ==
    ASSUME IInv, call = [op |-> Read, at |-> "full"], PacketDone, UNCHANGED <<peer, got>>
    PROVE  /\ rd' \in [held : 0..BufSize, total : Nat, data : Nat, decrypted : Nat]
           /\ rd'.data <= rd'.total
           /\ cut' = cut + 1 /\ cut' \in 0..Len(peer)
           /\ InStep(rd, got)'
<1>1. /\ cut < Len(peer) /\ cut \in Nat /\ Len(peer) \in Nat
      /\ got - rd.held = Offset(cut + 1) /\ cut' = cut + 1
  BY FullPacketMet DEF PacketDone
<1>2. rd \in [held : 0..BufSize, total : Nat, data : Nat, decrypted : Nat]
  BY TypeHalves DEF IInv, TypeData
<1>3. rd' = [rd EXCEPT !.total = 0, !.data = 0, !.decrypted = 0]
  BY DEF PacketDone
<1>4. rd' \in [held : 0..BufSize, total : Nat, data : Nat, decrypted : Nat]
  BY <1>2, <1>3
<1>5. rd'.held = rd.held /\ rd'.total = 0 /\ rd'.data = 0
  BY <1>2, <1>3
<1>6. Offset(cut)' = Offset(cut + 1)
  BY <1>1 DEF Offset
<1>7. InStep(rd, got)'
  BY <1>1, <1>5, <1>6 DEF InStep
<1> QED
  BY <1>1, <1>4, <1>5, <1>7

\* The stream behind a packet that is done with.
LEMMA DoneLaid ==
    ASSUME IInv, cut < Len(peer), cut' = cut + 1, UNCHANGED peer,
           newkeys' = (newkeys \/ peer[cut + 1].kind = "newkeys")
    PROVE  StreamLaid'
<1>1. TypeData /\ TypeFlags /\ StreamLaid /\ cut \in Nat /\ Len(peer) \in Nat
  BY TypeHalves DEF IInv, TypeData
<1>2. \A i \in 1..Len(peer') : Offset(i - 1)' = Offset(i - 1)
  BY DEF Offset
<1>3. \A i \in 1..cut' : peer'[i].kind = "newkeys" => newkeys'
  <2> TAKE i \in 1..cut'
  <2>1. i \in 1..cut \/ i = cut + 1
    BY <1>1
  <2>2. CASE i \in 1..cut
    BY <1>1, <2>2 DEF StreamLaid
  <2>3. CASE i = cut + 1
    BY <2>3
  <2> QED
    BY <2>1, <2>2, <2>3
<1>4. \A i \in (cut' + 1)..Len(peer') :
        peer'[i].enc = (newkeys' \/ \E j \in 1..(i - 1) : peer'[j].kind = "newkeys")
  <2> TAKE i \in (cut' + 1)..Len(peer')
  <2>1. i \in (cut + 1)..Len(peer) /\ cut + 1 \in 1..(i - 1)
    BY <1>1
  <2>2. peer[i].enc = (newkeys \/ \E j \in 1..(i - 1) : peer[j].kind = "newkeys")
    BY <1>1, <2>1 DEF StreamLaid
  <2> QED
    BY <1>1, <2>1, <2>2 DEF TypeFlags
<1> QED
  BY <1>1, <1>2, <1>3, <1>4 DEF StreamLaid

\* The types after fullpacket.
LEMMA FullTypes ==
    ASSUME IInv, UNCHANGED <<peerVars, readable, got, garbled, block>>,
           rd' \in [held : 0..BufSize, total : Nat, data : Nat, decrypted : Nat],
           rd'.data <= rd'.total, cut' \in 0..Len(peer), taken' \in 0..cut', call' \in Calls,
           macstate' \in {"idle", "confirmed", "invalid"}, jump1' \in BOOLEAN,
           newkeys' \in BOOLEAN, up' \in BOOLEAN, unanswered' \in BOOLEAN,
           dead' \in BOOLEAN, misuse' \in BOOLEAN, out' \in Pending, wire' \in Seq(Record),
           dirs' \subseteq {"in", "out"}
    PROVE  TypeOK'
<1>1. TypeData /\ TypeFlags
  BY TypeHalves DEF IInv
<1>2. TypeFlags'
  BY <1>1 DEF TypeFlags, peerVars
<1>3. TypeData'
  BY <1>1 DEF TypeData, peerVars, StreamEnd
<1> QED
  BY <1>2, <1>3, TypeHalves

\* Fullpacket: what the next packet of the peer makes the library do.
LEMMA FullPacketKeeps ==
    ASSUME IInv, FullPacket
    PROVE  IInv'
<1> DEFINE p == peer[cut + 1]
           state == IF macstate # "idle" THEN macstate
                    ELSE IF p.kind = "corrupt" THEN "invalid" ELSE "confirmed"
<1>1. /\ TypeOK /\ TypeFlags /\ TypeData /\ StreamLaid /\ ReaderInSync /\ VerdictStands
      /\ WriterInSync /\ CallOwnsPacket
  BY TypeHalves DEF IInv
<1>2. /\ call = [op |-> Read, at |-> "full"] /\ call.op = Read /\ call.at = "full"
      /\ UNCHANGED <<peerVars, readable, got, garbled, block>>
  BY DEF FullPacket
<1>3. peer' = peer /\ closed' = closed /\ got' = got /\ garbled' = garbled /\ block' = block
  BY <1>2 DEF peerVars
<1>4. /\ cut < Len(peer) /\ cut \in Nat /\ Len(peer) \in Nat /\ cut + 1 \in 1..MaxIn /\ up
      /\ p \in Packet /\ p.enc = newkeys
  BY <1>2, FullPacketMet
<1>5. taken \in Nat /\ taken <= cut
  BY <1>1, <1>4 DEF TypeData
<1>6. /\ jump1 => macstate = "confirmed" /\ p.kind = "request"
      /\ macstate = "confirmed" => jump1
      /\ macstate = "invalid" => newkeys
      /\ state = "confirmed" => \A i \in 1..cut : peer[i].kind # "corrupt"
      /\ state = "confirmed" => p.kind # "corrupt"
  BY <1>1, <1>4 DEF ReaderInSync, VerdictStands
<1>7. block /\ ~closed => ~misuse /\ ~unanswered /\ (out.buf => jump1 /\ out.odata = Reply(cut + 1))
  BY <1>1, <1>2, MessagesApart DEF CallOwnsPacket
<1>8. \A i \in 1..(cut + 1) : i \in 1..cut \/ i = cut + 1
  BY <1>4
<1> HIDE DEF p
<1>9. CASE /\ state = "invalid"
           /\ PacketDone
           /\ macstate' = state
           /\ Returns("FAIL")
           /\ UNCHANGED <<taken, jump1, newkeys, up, writer, dirs, unanswered>>
  <2>1. /\ rd' \in [held : 0..BufSize, total : Nat, data : Nat, decrypted : Nat]
        /\ rd'.data <= rd'.total /\ cut' = cut + 1 /\ cut' \in 0..Len(peer) /\ InStep(rd, got)'
    BY <1>2, <1>3, <1>9, DoneInStep
  <2>2. call' \in Calls /\ call'.at # "full"
    BY <1>1, <1>9, ReturnFacts DEF Calls
  <2>3. ~jump1 /\ (p.kind = "newkeys" => newkeys) /\ newkeys /\ macstate' = "invalid"
    BY <1>1, <1>4, <1>6, <1>9 DEF p, StreamLaid
  <2>4. /\ UNCHANGED <<taken, jump1, newkeys, up, dirs, unanswered>>
        /\ UNCHANGED <<out, wire, misuse, dead>>
    BY <1>9 DEF writer
  <2>5. TypeOK'
    <3>1. taken' \in 0..cut'
      BY <1>4, <1>5, <2>1, <2>4
    <3>2. out' \in Pending /\ wire' \in Seq(Record) /\ dirs' \subseteq {"in", "out"}
      BY <1>1, <2>4 DEF TypeData
    <3>3. /\ jump1' \in BOOLEAN /\ newkeys' \in BOOLEAN /\ up' \in BOOLEAN
          /\ unanswered' \in BOOLEAN /\ dead' \in BOOLEAN /\ misuse' \in BOOLEAN
      BY <1>1, <2>4 DEF TypeFlags
    <3> QED
      BY <1>2, <2>1, <2>2, <2>3, <3>1, <3>2, <3>3, FullTypes
  <2>6. StreamLaid'
    <3>1. newkeys' = (newkeys \/ peer[cut + 1].kind = "newkeys")
      BY <2>3, <2>4, <1>1 DEF TypeFlags
    <3> QED
      BY <1>3, <1>4, <2>1, <3>1, DoneLaid
  <2>7. ReaderInSync'
    BY <1>1, <1>3, <2>1, <2>2, <2>3, <2>4 DEF ReaderInSync
  <2>8. VerdictStands'
    <3>1. \A i \in 1..cut' : peer'[i].kind = "corrupt" => taken' < i
      BY <1>1, <1>3, <1>4, <1>5, <1>8, <2>1, <2>4 DEF VerdictStands
    <3> QED
      BY <2>3, <2>4, <3>1 DEF VerdictStands
  <2>9. WriterInSync'
    BY <1>1, <1>3, <2>4, WriterFrame DEF writer
  <2>10. CallOwnsPacket'
    BY <1>3, <1>7, <2>3, <2>4 DEF CallOwnsPacket
  <2> QED
    BY <2>5, <2>6, <2>7, <2>8, <2>9, <2>10 DEF IInv
<1>10. ASSUME state = "confirmed", Dealt(p), macstate' \in {"idle", "confirmed"},
              up' \in BOOLEAN, macstate' = "confirmed" => ~up',
              call' \in Calls, call'.at # "full", out' \in Pending, wire' \in Seq(Record),
              dirs' \subseteq {"in", "out"}, dead' \in BOOLEAN, misuse' \in BOOLEAN,
              unanswered' \in BOOLEAN, WriterInSync',
              block /\ ~closed => ~misuse' /\ ~unanswered' /\ ~out'.buf
       PROVE  IInv'
  <2>1. PacketDone /\ taken' = taken + 1 /\ jump1' = FALSE /\ newkeys' = (newkeys \/ p.kind = "newkeys")
    BY <1>10 DEF Dealt
  <2>2. /\ rd' \in [held : 0..BufSize, total : Nat, data : Nat, decrypted : Nat]
        /\ rd'.data <= rd'.total /\ cut' = cut + 1 /\ cut' \in 0..Len(peer) /\ InStep(rd, got)'
    BY <1>2, <1>3, <2>1, DoneInStep
  <2>3. TypeOK'
    <3>1. taken' \in 0..cut'
      BY <1>4, <1>5, <2>1, <2>2
    <3>2. jump1' \in BOOLEAN /\ newkeys' \in BOOLEAN
      BY <2>1
    <3> QED
      BY <1>2, <1>10, <2>2, <3>1, <3>2, FullTypes
  <2>4. StreamLaid'
    BY <1>3, <1>4, <2>1, <2>2, DoneLaid DEF p
  <2>5. ReaderInSync'
    BY <1>1, <1>3, <1>10, <2>1, <2>2 DEF ReaderInSync
  <2>6. VerdictStands'
    <3>1. \A i \in 1..cut' : peer'[i].kind # "corrupt"
      BY <1>3, <1>6, <1>8, <1>10, <2>2 DEF p
    <3> QED
      BY <1>10, <3>1 DEF VerdictStands
  <2>7. CallOwnsPacket'
    BY <1>3, <1>10, <2>1 DEF CallOwnsPacket
  <2> QED
    BY <1>10, <2>3, <2>4, <2>5, <2>6, <2>7 DEF IInv
<1>11. ASSUME state = "confirmed", p.kind # "request", Dealt(p),
              \/ macstate' = "confirmed" /\ up' = FALSE
              \/ macstate' = "idle" /\ up' = up,
              NEW rc, rc # "EAGAIN", Returns(rc), UNCHANGED <<writer, dirs, unanswered>>
       PROVE  IInv'
  <2>1. UNCHANGED <<out, wire, misuse, dead, dirs, unanswered>>
    BY <1>11 DEF writer
  <2>2. call' \in Calls /\ call'.at # "full"
    BY <1>1, <1>11, ReturnFacts DEF Calls
  <2>3. out' \in Pending /\ wire' \in Seq(Record) /\ dirs' \subseteq {"in", "out"}
    BY <1>1, <2>1 DEF TypeData
  <2>4. dead' \in BOOLEAN /\ misuse' \in BOOLEAN /\ unanswered' \in BOOLEAN
    BY <1>1, <2>1 DEF TypeFlags
  <2>5. WriterInSync'
    BY <1>1, <1>3, <1>11, WriterFrame
  <2>6. block /\ ~closed => ~misuse' /\ ~unanswered' /\ ~out'.buf
    BY <1>6, <1>7, <1>11, <2>1
  <2>7. macstate' \in {"idle", "confirmed"} /\ up' \in BOOLEAN /\ (macstate' = "confirmed" => ~up')
    BY <1>1, <1>11 DEF TypeFlags
  <2> QED
    BY <1>10, <1>11, <2>2, <2>3, <2>4, <2>5, <2>6, <2>7
<1>12. ASSUME state = "confirmed", p.kind = "request",
              NEW rc \in {"NONE", "EAGAIN", "FAIL", "BADUSE"}, Writes(Reply(cut + 1), rc),
              Returns(IF rc = "EAGAIN" THEN rc ELSE "NONE"), Answered(p, rc), UNCHANGED up
       PROVE  IInv'
  <2>1. Reply(cut + 1) \in Outgoing
    BY <1>4 DEF Outgoing
  <2>2. WriteOutcome(Reply(cut + 1), rc) /\ dead' \in BOOLEAN /\ misuse' \in BOOLEAN
    BY <1>1, <1>3, <1>12, <2>1, WritesKeep
  <2>3. out' \in Pending /\ wire' \in Seq(Record) /\ dirs' \subseteq {"in", "out"} /\ WriterInSync'
    BY <2>2 DEF WriteOutcome
  <2>4. ASSUME block, ~closed
        PROVE  /\ misuse' = misuse /\ ~misuse /\ ~unanswered /\ rc \in {"NONE", "EAGAIN"}
               /\ rc = "NONE" => ~out'.buf
               /\ rc = "EAGAIN" => out'.buf /\ out'.odata = Reply(cut + 1)
    BY <1>7, <1>12, <2>2, <2>4 DEF WriteOutcome
  <2>5. CASE rc = "EAGAIN"
    <3>1. /\ jump1' = TRUE /\ macstate' = "confirmed" /\ up' = up
          /\ UNCHANGED <<cut, taken, rd, newkeys, unanswered>>
      BY <1>12, <2>5 DEF Answered
    <3>2. call' \in Calls /\ call'.at # "full" /\ (block => call' = [call EXCEPT !.at = "select"])
      BY <1>1, <1>12, <2>5, ReturnFacts DEF Calls
    <3>3. TypeOK'
      <4>1. /\ rd' \in [held : 0..BufSize, total : Nat, data : Nat, decrypted : Nat]
            /\ rd'.data <= rd'.total /\ cut' \in 0..Len(peer) /\ taken' \in 0..cut'
        BY <1>1, <3>1 DEF TypeData
      <4>2. /\ jump1' \in BOOLEAN /\ newkeys' \in BOOLEAN /\ up' \in BOOLEAN
            /\ unanswered' \in BOOLEAN
        BY <1>1, <3>1 DEF TypeFlags
      <4> QED
        BY <1>2, <2>2, <2>3, <3>1, <3>2, <4>1, <4>2, FullTypes
    <3>4. StreamLaid'
      BY <1>1, <1>3, <3>1, StreamFrame
    <3>5. ReaderInSync'
      <4>1. InStep(rd, got)'
        BY <1>1, <1>3, <3>1 DEF ReaderInSync, InStep, Offset
      <4>2. rd.total > 0 /\ rd.total = rd.data /\ ~garbled
        BY <1>1, <1>2 DEF ReaderInSync
      <4>3. peer'[cut' + 1].kind = "request"
        BY <1>3, <1>12, <3>1 DEF p
      <4> QED
        BY <1>3, <1>4, <3>1, <3>2, <4>1, <4>2, <4>3 DEF ReaderInSync
    <3>6. VerdictStands'
      BY <1>1, <1>3, <1>6, <1>12, <3>1 DEF VerdictStands
    <3>7. CallOwnsPacket'
      <4> SUFFICES ASSUME block, ~closed
                   PROVE  CallOwnsPacket'
        BY <1>3 DEF CallOwnsPacket
      <4>1. call'.at = "select" /\ call'.op = Read
        BY <1>2, <3>2
      <4>2. ~misuse' /\ ~unanswered' /\ out'.buf /\ out'.odata = Reply(cut' + 1) /\ jump1'
        BY <2>4, <2>5, <3>1
      <4> QED
        BY <4>1, <4>2 DEF CallOwnsPacket
    <3> QED
      BY <2>3, <3>3, <3>4, <3>5, <3>6, <3>7 DEF IInv
  <2>6. CASE rc # "EAGAIN"
    <3>1. Dealt(p) /\ macstate' = "idle" /\ unanswered' = (unanswered \/ rc # "NONE")
      BY <1>12, <2>6 DEF Answered
    <3>2. call' \in Calls /\ call'.at # "full"
      BY <1>1, <1>12, ReturnFacts DEF Calls
    <3>3. up' \in BOOLEAN /\ unanswered' \in BOOLEAN
      BY <1>1, <1>12, <3>1 DEF TypeFlags
    <3>4. block /\ ~closed => ~misuse' /\ ~unanswered' /\ ~out'.buf
      BY <2>4, <2>6, <3>1
    <3> QED
      BY <1>10, <1>12, <2>2, <2>3, <3>1, <3>2, <3>3, <3>4
  <2> QED
    BY <2>5, <2>6
<1> QED
  BY <1>9, <1>11, <1>12 DEF FullPacket, p

\* Every step keeps the invariant.
LEMMA NextIInv == IInv /\ [Next]_vars => IInv'
<1> SUFFICES ASSUME IInv, [Next]_vars PROVE IInv'
  OBVIOUS
<1>1. CASE Next
  BY <1>1, PeerSendsKeeps, NetworkKeeps, CallsKeep, TransportWriteKeeps, ReadLoopKeeps, FullPacketKeeps
     DEF Next, Library
<1>2. CASE UNCHANGED vars
  <2>1. UNCHANGED <<peerVars, readable, reader, writer, block, unanswered>> /\ call' = call /\ dirs' = dirs
    BY <1>2 DEF vars
  <2>2. call \in Calls /\ dirs \subseteq {"in", "out"} /\ ReaderInSync /\ CallOwnsPacket
    BY TypeHalves DEF IInv, TypeData
  <2>3. call.at = "full" => call.op = Read /\ up /\ rd.total > 0 /\ rd.total = rd.data
    BY <2>2 DEF ReaderInSync
  <2>4. block /\ ~closed /\ out.buf => call.at # "idle"
    BY <2>2 DEF CallOwnsPacket
  <2> QED
    BY <2>1, <2>2, <2>3, <2>4, CallStepKeeps
<1> QED
  BY <1>1, <1>2

\* The inductive invariant holds in every reachable state.
THEOREM InvariantHolds == Spec => []IInv
BY InitIInv, NextIInv, PTL DEF Spec

\* The types of the transport's state: in particular the read buffer never holds more
\* than PACKETBUFSIZE, and never more of a packet than its length (transport.c).
THEOREM TypeCorrect == Spec => []TypeOK
<1>1. IInv => TypeOK
  BY DEF IInv
<1> QED
  BY <1>1, InvariantHolds, PTL

\* Whatever recv() returns, the reader cuts every packet where the peer put it, decrypts
\* all of it but the MAC exactly once, and takes nothing from a packet whose MAC is
\* wrong or from one behind it (_libssh2_transport_read).
THEOREM ReaderStaysInSync == Spec => []StreamInSync
<1>1. IInv => StreamInSync
  BY DEF IInv, ReaderInSync, VerdictStands, StreamInSync
<1> QED
  BY <1>1, InvariantHolds, PTL

\* Whatever send() takes and whoever calls in between, packets leave whole and one after
\* the other (_libssh2_transport_write, send_existing).
THEOREM WireStaysWhole == Spec => []WireIsWhole
<1>1. IInv => WireIsWhole
  <2> SUFFICES ASSUME IInv PROVE WireIsWhole
    OBVIOUS
  <2>1. WriterInSync /\ wire \in Seq(Record)
    BY TypeHalves DEF IInv, TypeData
  <2>2. DOMAIN wire = 1..Len(wire)
    BY <2>1
  <2>3. \A i \in DOMAIN wire : wire[i].sent < wire[i].total => i = Len(wire) /\ out.buf
    <3>1. \A i \in 1..Len(wire) : wire[i].sent < wire[i].total => i = Len(wire) /\ out.buf
      BY <2>1 DEF WriterInSync
    <3> QED
      BY <2>2, <3>1, Zenon
  <2>4. out.buf /\ ~closed => ~dead
    BY <2>1 DEF WriterInSync
  <2>5. out.buf /\ ~closed => /\ out.odata = wire[Len(wire)].msg
                              /\ out.total = wire[Len(wire)].total
                              /\ out.sent = wire[Len(wire)].sent
    BY <2>1, <2>4 DEF WriterInSync
  <2> QED
    BY <2>3, <2>5 DEF WireIsWhole
<1> QED
  BY <1>1, InvariantHolds, PTL

\* While the connection is up, a blocking session never has a call refused as a misuse
\* and never drops a reply it owes (BLOCK_ADJUST, PACKET_BADUSE).
THEOREM BlockingIsSafe == Spec => []BlockingNeverMisuses
<1>1. IInv => BlockingNeverMisuses
  BY DEF IInv, CallOwnsPacket, BlockingNeverMisuses
<1> QED
  BY <1>1, InvariantHolds, PTL

-----------------------------------------------------------------------------
(***************************************************************************)
(* The transport implements the packet link.                               *)
(***************************************************************************)
KindsSent == [i \in DOMAIN peer |-> peer[i].kind]

\* A packet of the peer is one message more on the link.
LEMMA SentGrows ==
    ASSUME IInv, NEW kind \in Kinds, NEW size \in Sizes, PeerSends(kind, size)
    PROVE  KindsSent' = Append(KindsSent, kind)
<1> DEFINE enc == newkeys \/ \E i \in DOMAIN peer : peer[i].kind = "newkeys"
           e == [kind |-> kind, size |-> size, enc |-> enc,
                 from |-> StreamEnd, to |-> StreamEnd + size + Mac(enc)]
           k == Len(peer)
<1>1. peer \in Seq(Packet) /\ k \in Nat /\ DOMAIN peer = 1..k
  BY TypeHalves DEF IInv, TypeData
<1>2. IInv' /\ peer' \in Seq(Packet)
  BY PeerSendsKeeps, TypeHalves DEF IInv, TypeData
<1>3. peer' = Append(peer, e) /\ e.kind = kind
  BY DEF PeerSends
<1> HIDE DEF e
<1>4. Len(peer') = k + 1 /\ DOMAIN peer' = 1..(k + 1)
  BY <1>1, <1>3
<1>5. peer'[k + 1] = e /\ \A i \in 1..k : peer'[i] = peer[i]
  BY <1>1, <1>3
<1>6. \A i \in 1..k : peer[i].kind \in Kinds
  <2> TAKE i \in 1..k
  <2>1. peer[i] \in Packet
    BY <1>1, ElementOfSeq
  <2> QED
    BY <2>1 DEF Packet
<1> DEFINE s == Append(KindsSent, kind)
           t == KindsSent'
<1>7. KindsSent \in Seq(Kinds) /\ Len(KindsSent) = k /\ \A i \in 1..k : KindsSent[i] = peer[i].kind
  BY <1>1, <1>6 DEF KindsSent
<1>8. s \in Seq(Kinds) /\ Len(s) = k + 1 /\ s[k + 1] = kind /\ \A i \in 1..k : s[i] = KindsSent[i]
  BY <1>7, AppendProperties
<1>9. \A i \in 1..(k + 1) : i \in 1..k \/ i = k + 1
  BY <1>1
<1>10. \A i \in 1..(k + 1) : peer'[i].kind \in Kinds
  BY <1>3, <1>5, <1>6, <1>9
<1>11. t = [i \in 1..(k + 1) |-> peer'[i].kind]
  BY <1>4 DEF KindsSent
<1>12. t \in Seq(Kinds) /\ Len(t) = k + 1 /\ \A i \in 1..(k + 1) : t[i] = peer'[i].kind
  <2> HIDE DEF t
  <2> QED
    BY <1>1, <1>10, <1>11
<1> HIDE DEF s, t
<1>13. \A i \in 1..Len(s) : s[i] = t[i]
  BY <1>3, <1>5, <1>7, <1>8, <1>9, <1>12
<1>14. s = t
  BY <1>8, <1>12, <1>13, SeqEqual
<1> QED
  BY <1>14 DEF s, t

\* A step of the transport is a step of the link, or none.
LEMMA StepOfLink ==
    ASSUME IInv, [Next]_vars
    PROVE  \/ \E m \in Kinds : KindsSent' = Append(KindsSent, m) /\ taken' = taken /\ Completed' = Completed
           \/ /\ taken < Len(KindsSent) /\ taken' = taken + 1 /\ KindsSent' = KindsSent
              /\ Completed' = Completed \/ \E m \in Outgoing : Completed' = Append(Completed, m)
           \/ \E m \in Outgoing : Completed' = Append(Completed, m) /\ KindsSent' = KindsSent /\ taken' = taken
           \/ KindsSent' = KindsSent /\ taken' = taken /\ Completed' = Completed
<1>1. TypeOK /\ TypeFlags /\ TypeData /\ StreamLaid /\ WriterInSync /\ CallOwnsPacket
  BY TypeHalves DEF IInv
<1>2. taken \in Nat /\ cut \in Nat /\ taken <= cut /\ Len(peer) \in Nat /\ Len(KindsSent) = Len(peer)
  BY <1>1 DEF TypeData, KindsSent
<1>3. wire' = wire => Completed' = Completed
  BY DEF Completed
<1>4. peer' = peer => KindsSent' = KindsSent
  BY DEF KindsSent
<1>5. ASSUME NEW kind \in Kinds, NEW size \in Sizes, PeerSends(kind, size)
      PROVE  KindsSent' = Append(KindsSent, kind) /\ taken' = taken /\ Completed' = Completed
  <2>1. taken' = taken /\ wire' = wire
    BY <1>5 DEF PeerSends, reader, writer
  <2> QED
    BY <1>3, <1>5, <2>1, SentGrows
<1>6. ASSUME \/ BytesArrive \/ PeerCloses \/ \E m \in Messages : CallWrite(m)
             \/ CallRead \/ WaitSocket \/ ReadResumes \/ ReadDisconnected \/ ReadLoop
             \/ UNCHANGED vars
      PROVE  KindsSent' = KindsSent /\ taken' = taken /\ Completed' = Completed
  <2>1. peer' = peer /\ taken' = taken /\ wire' = wire
    BY <1>6 DEF BytesArrive, PeerCloses, CallWrite, CallRead, WaitSocket, ReadResumes,
                ReadDisconnected, ReadLoop, vars, peerVars, reader, writer
  <2> QED
    BY <1>3, <1>4, <2>1
<1>7. ASSUME TransportWrite
      PROVE  /\ KindsSent' = KindsSent /\ taken' = taken
             /\ Completed' = Completed \/ \E m \in Outgoing : Completed' = Append(Completed, m)
  <2>1. PICK rc \in {"NONE", "EAGAIN", "FAIL", "BADUSE"} : Writes(call.op, rc) /\ Returns(rc)
    BY <1>7 DEF TransportWrite
  <2>2. call.op \in Outgoing /\ peer' = peer /\ closed' = closed /\ taken' = taken
    BY <1>7 DEF TransportWrite, Outgoing, peerVars, reader
  <2>3. WriteOutcome(call.op, rc)
    BY <1>1, <2>1, <2>2, WritesKeep
  <2> QED
    BY <1>4, <2>2, <2>3 DEF WriteOutcome
<1>8. ASSUME FullPacket
      PROVE  /\ KindsSent' = KindsSent
             /\ \/ taken' = taken /\ Completed' = Completed
                \/ /\ taken < Len(KindsSent) /\ taken' = taken + 1
                   /\ Completed' = Completed \/ \E m \in Outgoing : Completed' = Append(Completed, m)
  <2>1. call = [op |-> Read, at |-> "full"] /\ peer' = peer /\ closed' = closed
    BY <1>8 DEF FullPacket, peerVars
  <2>2. cut < Len(peer) /\ cut + 1 \in 1..MaxIn
    BY <2>1, FullPacketMet
  <2>3. taken < Len(KindsSent)
    BY <1>2, <2>2
  <2>4. Reply(cut + 1) \in Outgoing
    BY <2>2 DEF Outgoing
  <2>5. CASE taken' = taken /\ UNCHANGED writer
    BY <1>3, <1>4, <2>1, <2>5 DEF writer
  <2>6. CASE Dealt(peer[cut + 1]) /\ UNCHANGED writer
    BY <1>3, <1>4, <2>1, <2>3, <2>6 DEF writer, Dealt
  <2>7. ASSUME NEW rc, Writes(Reply(cut + 1), rc), Answered(peer[cut + 1], rc)
        PROVE  /\ KindsSent' = KindsSent
               /\ \/ taken' = taken /\ Completed' = Completed
                  \/ /\ taken < Len(KindsSent) /\ taken' = taken + 1
                     /\ Completed' = Completed \/ \E m \in Outgoing : Completed' = Append(Completed, m)
    <3>1. WriteOutcome(Reply(cut + 1), rc)
      BY <1>1, <2>1, <2>4, <2>7, WritesKeep
    <3>2. Completed' = IF rc = "NONE" THEN Append(Completed, Reply(cut + 1)) ELSE Completed
      BY <3>1 DEF WriteOutcome
    <3>3. CASE rc = "EAGAIN"
      <4>1. taken' = taken
        BY <2>7, <3>3 DEF Answered
      <4> QED
        BY <1>4, <2>1, <3>2, <3>3, <4>1
    <3>4. CASE rc # "EAGAIN"
      <4>1. taken' = taken + 1
        BY <2>7, <3>4 DEF Answered, Dealt
      <4> QED
        BY <1>4, <2>1, <2>3, <2>4, <3>2, <4>1
    <3> QED
      BY <3>3, <3>4
  <2> QED
    BY <1>8, <2>5, <2>6, <2>7 DEF FullPacket
<1> QED
  BY <1>5, <1>6, <1>7, <1>8 DEF Next, Library

\* The transport implements the packet link the layers above rely on: packets of the peer
\* are handed over whole, once and in order, and packets of the library appear on the wire
\* whole, once and one at a time.
THEOREM TransportImplementsLink == Spec => ImplementsLink
<1>1. Init => Link!LinkInit
  <2> SUFFICES ASSUME Init PROVE Link!LinkInit
    OBVIOUS
  <2>1. peer = <<>> /\ wire = <<>> /\ taken = 0
    BY DEF Init
  <2>2. [i \in DOMAIN peer |-> peer[i].kind] = <<>>
    BY <2>1
  <2>3. {i \in DOMAIN wire : wire[i].sent = wire[i].total} = {}
    BY <2>1
  <2>4. Completed = <<>>
    <3>1. 1..Cardinality({}) = {}
      BY FS_EmptySet
    <3>2. Completed = [i \in {} |-> wire[i].msg]
      BY <2>3, <3>1 DEF Completed
    <3> QED
      BY <3>2
  <2> QED
    BY <2>1, <2>2, <2>4 DEF Link!LinkInit
<1>2. IInv /\ [Next]_vars => [Link!LinkNext]_(Link!linkVars)
  BY StepOfLink DEF KindsSent, Link!LinkNext, Link!PeerSend, Link!Receive, Link!Write, Link!linkVars
<1> QED
  BY <1>1, <1>2, InvariantHolds, PTL DEF Spec, ImplementsLink, Link!LinkSpec
=============================================================================
