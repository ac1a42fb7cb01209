------------------------- MODULE TransferDataProofs -------------------------
(***************************************************************************)
(* Proofs about the data path of FileTransferController, for every size of *)
(* file, block and chunk, and every room in the destination.  What is said *)
(* of uploads assumes that a stream that is encrypted returns what it is   *)
(* asked for: a run shows what happens otherwise.                          *)
(***************************************************************************)
EXTENDS TransferData, SequenceTheorems, TLAPS

\* A stream that is encrypted returns the bytes it is asked for, as files do.
FullReads == "set" \notin ShortReads

\* The bytes of a file are encrypted.
Secret == fileTransfer /\ password = "set"

\* The whole blocks of n bytes.
Whole(n) == (n \div Block) * Block

\* What holds of every variable, whatever streams return.
Types ==
    /\ at \in {"idle", "reading", "writing", "storing", "flushing", "closing"}
    /\ password \in {"none", "empty", "set"} /\ capacity \in Nat
    /\ size \in 0..MaxSize /\ pos \in Nat
    /\ held \in 0..Block - 1 /\ digested \in Nat /\ digestBuffer \in Nat
    /\ out \in Seq({"cipher", "clear"})
    /\ pending \in Nat /\ currentLength \in Nat /\ totalSize \in Nat
    /\ outcome \in {"none", "end", "done", "failed"}

Flags ==
    /\ digestComputation \in BOOLEAN /\ fileTransfer \in BOOLEAN
    /\ encryptionContext \in BOOLEAN /\ digestContext \in BOOLEAN

\* Contexts are made when a file is opened and gone when it is closed; a digest context
\* that a failed open left behind has seen nothing.
ContextInv ==
    /\ at = "idle" => ~encryptionContext /\ (digestContext => digested = 0)
    /\ at = "reading" => pos <= size
    /\ at \in {"writing", "storing"} => encryptionContext = Secret
    /\ at \in {"writing", "storing", "flushing"} =>
         /\ outcome = "none"
         /\ fileTransfer => digestContext = digestComputation

\* The bytes that the cipher has given for those that arrived.
Given == IF encryptionContext THEN Decrypted(pos) ELSE pos

\* Nothing is lost between the peer and the destination.
DownloadInv ==
    /\ at \in {"writing", "storing"} =>
         /\ pos <= WireSize
         /\ Len(out) + pending = Given
         /\ digestContext => digested = Given
    /\ at = "writing" => pending = 0 /\ totalSize = pos
    /\ at = "flushing" =>
         /\ Len(out) + pending = size /\ totalSize = WireSize
         /\ digestContext => digested = size

\* An upload never reads, counts or acknowledges more than there is.
UploadCounts ==
    at = "reading" =>
        /\ outcome \in {"none", "end"} /\ pos <= size
        /\ currentLength <= Len(out) /\ totalSize = Len(out)
        /\ digestContext => digested = pos
        /\ outcome = "end" => pos = size /\ ~digestContext

\* With a password, what has left is the whole blocks of what was read, and in the end
\* one block of padding more.
UploadSecret ==
    at = "reading" /\ Secret =>
        /\ \A i \in 1..Len(out) : out[i] = "cipher"
        /\ encryptionContext =>
             /\ Len(out) % Block = 0 /\ Len(out) + held = pos
             /\ outcome = "none" /\ digestContext = digestComputation
        /\ ~encryptionContext =>
             pos = size /\ Len(out) = PaddedSize(size) /\ ~digestContext

\* Without, it is what was read.
UploadPlain ==
    at = "reading" /\ ~Secret => ~encryptionContext /\ Len(out) = pos

UploadInv == UploadCounts /\ UploadSecret /\ UploadPlain

\* The digest is there, or is still being computed.
DigestInv ==
    /\ fileTransfer => digestBuffer \in {size, NoDigest}
    /\ fileTransfer /\ digestComputation /\ at = "reading" => digestContext \/ digestBuffer = size
    /\ fileTransfer /\ digestComputation /\ outcome = "end" => digestBuffer = size

\* No length exceeds that of the largest file, padded.
Bounds ==
    /\ pos <= PaddedSize(MaxSize) /\ pending <= PaddedSize(MaxSize)
    /\ currentLength <= PaddedSize(MaxSize) /\ totalSize <= PaddedSize(MaxSize)
    /\ digested <= MaxSize /\ digestBuffer <= NoDigest

\* When a transfer can have succeeded.
EndsInv ==
    /\ outcome = "done" => at \in {"idle", "closing"}
    /\ outcome = "end" => at \in {"idle", "reading"}

IInv ==
    /\ Types /\ Flags /\ ContextInv /\ DownloadInv /\ DownloadIsComplete /\ EndsInv
    /\ FullReads => Bounds /\ UploadInv /\ UploadIsComplete /\ DigestInv

-----------------------------------------------------------------------------
(***************************************************************************)
(* Arithmetic of blocks.                                                   *)
(***************************************************************************)
\* A number is its whole blocks and a rest that is less than a block.
LEMMA WholeFacts ==
    ASSUME NEW n \in Nat
    PROVE  /\ n \div Block \in Nat /\ Whole(n) \in Nat /\ Block \in Nat /\ Block > 0
           /\ Whole(n) <= n /\ n < Whole(n) + Block
           /\ Whole(n) = Block * (n \div Block)
<1>1. Block \in Nat /\ Block > 0
  BY DataAssumption
<1> DEFINE q == n \div Block
           r == n % Block
<1>2. q \in Nat /\ r \in 0..(Block - 1) /\ n = Block * q + r
  BY <1>1
<1> HIDE DEF q, r
<1>3. Block * q \in Nat /\ q * Block = Block * q
  BY <1>1, <1>2
<1>4. Block * q <= n /\ n < Block * q + Block
  BY <1>1, <1>2, <1>3
<1> QED
  BY <1>1, <1>2, <1>3, <1>4 DEF Whole, q

\* The only multiple of a block that is less than a block below n.
LEMMA WholeUnique ==
    ASSUME NEW n \in Nat, NEW q \in Nat, Block * q <= n, n < Block * q + Block
    PROVE  n \div Block = q /\ Whole(n) = Block * q
<1> DEFINE d == n \div Block
           x == q - d
<1>1. d \in Nat /\ Block \in Nat /\ Block > 0 /\ Block * d <= n /\ n < Block * d + Block
      /\ Whole(n) = Block * d /\ Block * d \in Nat /\ Block * q \in Nat
  BY WholeFacts
<1> HIDE DEF d
<1>2. x \in Int /\ Block * x = Block * q - Block * d
  BY <1>1
<1>3. Block * x < Block /\ Block * x > -Block
  BY <1>1, <1>2
<1> HIDE DEF x
<1>4. CASE x >= 1
  <2>1. Block * x >= Block
    BY <1>1, <1>2, <1>4
  <2> QED
    BY <1>1, <1>2, <1>3, <2>1
<1>5. CASE x <= -1
  <2>1. Block * x <= -Block
    BY <1>1, <1>2, <1>5
  <2> QED
    BY <1>1, <1>2, <1>3, <2>1
<1>6. CASE x = 0
  <2>1. q = d
    BY <1>1, <1>6 DEF x
  <2> QED
    BY <1>1, <2>1 DEF d
<1> QED
  BY <1>2, <1>4, <1>5, <1>6

\* What leaves in whole blocks stays whole blocks.
LEMMA AlignedSum ==
    ASSUME NEW a \in Nat, NEW n \in Nat, a % Block = 0
    PROVE  (a + Whole(n)) % Block = 0
<1> DEFINE q == a \div Block
           d == n \div Block
           s == a + Whole(n)
<1>1. Block \in Nat /\ Block > 0 /\ d \in Nat /\ q \in Nat /\ Whole(n) = Block * d /\ Whole(n) \in Nat
  BY WholeFacts
<1>2. a = Block * q + (a % Block)
  BY <1>1
<1>3. a = Block * q
  BY <1>1, <1>2
<1> HIDE DEF q, d
<1>4. s = Block * (q + d) /\ s \in Nat /\ q + d \in Nat
  BY <1>1, <1>3
<1>5. Block * (q + d) \in Nat
  BY <1>1
<1>6. s \div Block = q + d
  BY <1>1, <1>4, <1>5, WholeUnique
<1>7. s = Block * (s \div Block) + (s % Block) /\ s % Block \in 0..(Block - 1)
  BY <1>1, <1>4
<1>8. s = s + (s % Block)
  BY <1>4, <1>6, <1>7
<1> HIDE DEF s
<1>9. s % Block = 0
  BY <1>1, <1>4, <1>7, <1>8
<1> QED
  BY <1>9 DEF s

\* The whole blocks below n, as a multiple of a block.
LEMMA WholeOfAligned ==
    ASSUME NEW a \in Nat, NEW n \in Nat, a % Block = 0, a <= n, n < a + Block
    PROVE  Whole(n) = a
<1> DEFINE q == a \div Block
<1>1. Block \in Nat /\ Block > 0 /\ q \in Nat
  BY WholeFacts
<1>2. a = Block * q + (a % Block)
  BY <1>1
<1>3. a = Block * q
  BY <1>1, <1>2
<1> HIDE DEF q
<1> QED
  BY <1>1, <1>3, WholeUnique

\* More bytes have no fewer whole blocks.
LEMMA WholeMonotone ==
    ASSUME NEW m \in Nat, NEW n \in Nat, m <= n
    PROVE  Whole(m) <= Whole(n)
<1> DEFINE c == m \div Block
           d == n \div Block
           x == c - d
<1>1. /\ c \in Nat /\ d \in Nat /\ Block \in Nat /\ Block > 0
      /\ Whole(m) = Block * c /\ Whole(n) = Block * d /\ Whole(m) \in Nat /\ Whole(n) \in Nat
      /\ Whole(m) <= m /\ n < Whole(n) + Block
  BY WholeFacts
<1> HIDE DEF c, d
<1>2. x \in Int /\ Block * x = Whole(m) - Whole(n)
  BY <1>1
<1> HIDE DEF x
<1>3. CASE x >= 1
  <2>1. Block * x >= Block
    BY <1>1, <1>2, <1>3
  <2> QED
    BY <1>1, <1>2, <2>1
<1>4. CASE x <= 0
  <2>1. Block * x <= 0
    BY <1>1, <1>2, <1>4
  <2> QED
    BY <1>1, <1>2, <2>1
<1> QED
  BY <1>2, <1>3, <1>4

\* The padded size: one block more than the whole ones.
LEMMA PaddedFacts ==
    ASSUME NEW n \in Nat
    PROVE  /\ PaddedSize(n) = Whole(n) + Block /\ PaddedSize(n) \in Nat /\ n < PaddedSize(n)
           /\ n <= MaxSize => PaddedSize(n) <= PaddedSize(MaxSize)
<1>1. /\ n \div Block \in Nat /\ Whole(n) \in Nat /\ Block \in Nat /\ Block > 0
      /\ Whole(n) <= n /\ n < Whole(n) + Block /\ Whole(n) = Block * (n \div Block)
  BY WholeFacts
<1>2. MaxSize \in Nat /\ MaxSize \div Block \in Nat /\ Whole(MaxSize) \in Nat
      /\ Whole(MaxSize) = Block * (MaxSize \div Block)
  BY DataAssumption, WholeFacts
<1>3. PaddedSize(n) = Whole(n) + Block
  <2> DEFINE q == n \div Block
  <2>1. q \in Nat
    BY <1>1
  <2> HIDE DEF q
  <2>2. (q + 1) * Block = q * Block + Block
    BY <1>1, <2>1
  <2> QED
    BY <2>2 DEF PaddedSize, Whole, q
<1>4. PaddedSize(MaxSize) = Whole(MaxSize) + Block
  <2> DEFINE q == MaxSize \div Block
  <2>1. q \in Nat
    BY <1>2
  <2> HIDE DEF q
  <2>2. (q + 1) * Block = q * Block + Block
    BY <1>1, <2>1
  <2> QED
    BY <2>2 DEF PaddedSize, Whole, q
<1>5. n <= MaxSize => Whole(n) <= Whole(MaxSize)
  BY <1>2, WholeMonotone
<1> QED
  BY <1>1, <1>2, <1>3, <1>4, <1>5

\* What the cipher gives: never more than it was given, more for more, and of a padded
\* file its whole blocks.
LEMMA DecryptedFacts ==
    ASSUME NEW n \in Nat
    PROVE  /\ Decrypted(n) \in Nat /\ Decrypted(n) <= n /\ Decrypted(0) = 0
           /\ \A m \in Nat : m <= n => Decrypted(m) <= Decrypted(n)
           /\ Decrypted(PaddedSize(n)) = Whole(n)
<1>1. Decrypted(0) = 0 /\ \A t \in Nat : t # 0 => Decrypted(t) = Whole(t - 1)
  BY DEF Decrypted, Whole
<1>2. \A t \in Nat : t # 0 => t - 1 \in Nat /\ Whole(t - 1) \in Nat /\ Whole(t - 1) <= t - 1
  BY WholeFacts
<1>3. \A t \in Nat : Decrypted(t) \in Nat /\ Decrypted(t) <= t
  BY <1>1, <1>2
<1>4. \A m \in Nat : m <= n => Decrypted(m) <= Decrypted(n)
  <2> TAKE m \in Nat
  <2> HAVE m <= n
  <2>1. CASE m = 0
    BY <1>1, <1>3, <2>1
  <2>2. CASE m # 0
    <3>1. m - 1 \in Nat /\ n - 1 \in Nat /\ m - 1 <= n - 1 /\ n # 0
      BY <2>2
    <3>2. Whole(m - 1) <= Whole(n - 1)
      BY <3>1, WholeMonotone
    <3> QED
      BY <1>1, <2>2, <3>1, <3>2
  <2> QED
    BY <2>1, <2>2
<1>5. Decrypted(PaddedSize(n)) = Whole(n)
  <2> DEFINE P == PaddedSize(n)
             q == n \div Block
  <2>1. /\ P = Whole(n) + Block /\ Whole(n) \in Nat /\ Block \in Nat /\ Block > 0
        /\ Whole(n) = Block * q /\ q \in Nat
    BY PaddedFacts, WholeFacts
  <2> HIDE DEF P, q
  <2>2. P - 1 \in Nat /\ P \in Nat /\ P # 0 /\ Block * q <= P - 1 /\ P - 1 < Block * q + Block
    BY <2>1
  <2>3. Whole(P - 1) = Block * q
    BY <2>1, <2>2, WholeUnique
  <2>4. Decrypted(P) = Whole(n)
    BY <1>1, <2>1, <2>2, <2>3
  <2> QED
    BY <2>4 DEF P
<1> QED
  BY <1>1, <1>3, <1>4, <1>5

-----------------------------------------------------------------------------
(***************************************************************************)
(* What the steps do to the bytes that have left.                          *)
(***************************************************************************)
\* n bytes more of one kind.
LEMMA CopiesAppended ==
    ASSUME out \in Seq({"cipher", "clear"}), NEW what \in {"cipher", "clear"}, NEW n \in Nat,
           out' = out \o Copies(what, n)
    PROVE  /\ out' \in Seq({"cipher", "clear"}) /\ Len(out') = Len(out) + n
           /\ (what = "cipher" \/ n = 0) /\ (\A i \in 1..Len(out) : out[i] = "cipher")
                => \A i \in 1..Len(out') : out'[i] = "cipher"
<1> DEFINE c == Copies(what, n)
           S == {"cipher", "clear"}
<1>1. c \in Seq(S) /\ Len(c) = n /\ \A i \in 1..n : c[i] = what
  BY DEF Copies
<1>2. out \in Seq(S) /\ out' = out \o c
  OBVIOUS
<1> HIDE DEF c, S
<1>3. /\ out' \in Seq(S) /\ Len(out') = Len(out) + n
      /\ \A i \in 1..Len(out') : out'[i] = IF i <= Len(out) THEN out[i] ELSE c[i - Len(out)]
  <2>1. /\ out \o c \in Seq(S) /\ Len(out \o c) = Len(out) + Len(c)
        /\ \A i \in 1..(Len(out) + Len(c)) :
             (out \o c)[i] = IF i <= Len(out) THEN out[i] ELSE c[i - Len(out)]
    BY <1>1, <1>2, ConcatProperties
  <2> QED
    BY <1>1, <1>2, <2>1
<1>4. ASSUME what = "cipher" \/ n = 0, \A i \in 1..Len(out) : out[i] = "cipher",
             NEW i \in 1..Len(out')
      PROVE  out'[i] = "cipher"
  <2>1. CASE i <= Len(out)
    BY <1>2, <1>3, <1>4, <2>1
  <2>2. CASE i > Len(out)
    <3>1. i - Len(out) \in 1..n /\ n # 0
      BY <1>2, <1>3, <2>2
    <3> QED
      BY <1>1, <1>2, <1>3, <1>4, <2>2, <3>1
  <2> QED
    BY <1>2, <2>1, <2>2
<1> QED
  BY <1>3, <1>4 DEF S

\* The bytes on the wire.
LEMMA WireFacts ==
    ASSUME Types, Flags
    PROVE  /\ WireSize \in Nat /\ size <= WireSize /\ WireSize <= PaddedSize(MaxSize)
           /\ WireSize = IF Secret THEN PaddedSize(size) ELSE size
           /\ MaxSize < PaddedSize(MaxSize) /\ MaxSize \in Nat /\ PaddedSize(MaxSize) \in Nat
<1>1. size \in Nat /\ size <= MaxSize /\ MaxSize \in Nat
  BY DataAssumption DEF Types
<1>2. /\ PaddedSize(size) \in Nat /\ size < PaddedSize(size) /\ PaddedSize(MaxSize) \in Nat
      /\ MaxSize < PaddedSize(MaxSize) /\ PaddedSize(size) <= PaddedSize(MaxSize)
  BY <1>1, PaddedFacts
<1>3. WireSize = IF Secret THEN PaddedSize(size) ELSE size
  BY DEF WireSize, Secret
<1> QED
  BY <1>1, <1>2, <1>3

-----------------------------------------------------------------------------
(***************************************************************************)
(* The inductive invariant, action by action.                              *)
(***************************************************************************)
\* The initial state.
LEMMA InitIInv == Init => IInv
<1> SUFFICES ASSUME Init PROVE IInv
  OBVIOUS
<1>1. MaxSize \in Nat /\ Block \in Nat /\ Block > 0 /\ 0 \in 0..Block - 1 /\ 0 \in 0..MaxSize
  BY DataAssumption
<1>2. Types
  BY <1>1 DEF Init, Types, NoDigest
<1>3. Flags
  BY DEF Init, Flags
<1>4. ContextInv /\ DownloadInv /\ DownloadIsComplete /\ EndsInv
  BY DEF Init, ContextInv, DownloadInv, DownloadIsComplete, EndsInv
<1>5. UploadInv /\ UploadIsComplete /\ DigestInv
  BY DEF Init, UploadInv, UploadCounts, UploadSecret, UploadPlain, UploadIsComplete, DigestInv
<1>6. Bounds
  BY <1>2, <1>3, WireFacts DEF Init, Bounds, NoDigest
<1> QED
  BY <1>2, <1>3, <1>4, <1>5, <1>6 DEF IInv

\* openInputStream and openOutputStream.
LEMMA OpenKeeps ==
    ASSUME IInv, NEW to \in {"reading", "writing"}, Open(to)
    PROVE  IInv'
<1>1. Types /\ Flags /\ ContextInv /\ at = "idle"
  BY DEF IInv, Open
<1>2. PICK n \in 0..MaxSize, file \in BOOLEAN :
        /\ at' = to /\ SetOptions /\ size' = n /\ fileTransfer' = file
        /\ \/ file /\ password' # "empty" /\ CreateContexts
           \/ ~file /\ UNCHANGED ctxVars
        /\ pos' = 0 /\ out' = <<>> /\ pending' = 0 /\ currentLength' = 0
        /\ totalSize' = 0 /\ outcome' = "none"
  BY DEF Open
<1>3. password' \in {"none", "empty", "set"} /\ digestComputation' \in BOOLEAN /\ capacity' \in Nat
  BY <1>2, DataAssumption DEF SetOptions
<1>4. MaxSize \in Nat /\ Block \in Nat /\ Block > 0 /\ 0 \in 0..Block - 1
  BY DataAssumption
<1>5. /\ held' \in 0..Block - 1 /\ digested' \in Nat /\ digestBuffer' \in Nat
      /\ digestContext' => digested' = 0
      /\ file => digestBuffer' = NoDigest
  <2>1. CASE file /\ CreateContexts
    BY <1>4, <2>1 DEF CreateContexts, NoDigest
  <2>2. CASE ~file /\ UNCHANGED ctxVars
    BY <1>1, <2>2 DEF Types, ContextInv, ctxVars
  <2> QED
    BY <1>2, <2>1, <2>2
<1>6. /\ encryptionContext' \in BOOLEAN /\ digestContext' \in BOOLEAN
      /\ encryptionContext' = (file /\ password' = "set")
      /\ file => digestContext' = digestComputation'
  <2>1. CASE file /\ CreateContexts
    BY <1>3, <2>1 DEF CreateContexts
  <2>2. CASE ~file /\ UNCHANGED ctxVars
    BY <1>1, <2>2 DEF Flags, ContextInv, ctxVars
  <2> QED
    BY <1>2, <2>1, <2>2
<1>7. Types'
  BY <1>2, <1>3, <1>5 DEF Types
<1>8. Flags'
  BY <1>2, <1>3, <1>6 DEF Flags
<1>9. ContextInv'
  BY <1>2, <1>4, <1>6 DEF ContextInv, Secret
<1>10. Len(out') = 0 /\ out' = <<>>
  BY <1>2
<1>11. WireSize' \in Nat /\ 0 <= PaddedSize(MaxSize) /\ MaxSize \in Nat /\ PaddedSize(MaxSize) \in Nat
  <2>1. ASSUME Types, Flags PROVE WireSize \in Nat
    BY <2>1, WireFacts
  <2>2. Types' /\ Flags' => WireSize' \in Nat
    BY <1>2, PaddedFacts DEF WireSize
  <2> QED
    BY <1>1, <1>7, <1>8, <2>2, WireFacts
<1>12. DownloadInv'
  <2>1. Given' = 0
    BY <1>2 DEF Given, Decrypted
  <2> QED
    BY <1>2, <1>5, <1>10, <1>11, <2>1 DEF DownloadInv
<1>13. DownloadIsComplete' /\ EndsInv' /\ UploadIsComplete'
  BY <1>2 DEF DownloadIsComplete, EndsInv, UploadIsComplete
<1>14. DigestInv'
  BY <1>2, <1>5, <1>6 DEF DigestInv, NoDigest
<1>15. Bounds' \/ ~FullReads
  <2>1. (digestBuffer' <= NoDigest /\ digested' <= MaxSize) \/ ~FullReads
    <3>1. CASE file /\ CreateContexts
      BY <1>4, <3>1 DEF CreateContexts, NoDigest
    <3>2. CASE ~file /\ UNCHANGED ctxVars
      BY <3>2 DEF ctxVars, IInv, Bounds
    <3> QED
      BY <1>2, <3>1, <3>2
  <2> QED
    BY <1>2, <1>11, <2>1 DEF Bounds
<1>16. UploadInv'
  <2> SUFFICES ASSUME at' = "reading" PROVE UploadInv'
    BY DEF UploadInv, UploadCounts, UploadSecret, UploadPlain
  <2>1. 0 % Block = 0
    BY <1>4
  <2>2. encryptionContext' = Secret'
    BY <1>2, <1>6 DEF Secret
  <2>3. Secret' => digestContext' = digestComputation'
    BY <1>2, <1>6 DEF Secret
  <2>4. Secret' => held' = 0
    BY <1>2 DEF Secret, CreateContexts
  <2>5. size' \in Nat
    BY <1>2, <1>4
  <2>6. UploadCounts'
    BY <1>2, <1>5, <1>10, <2>5 DEF UploadCounts
  <2>7. UploadSecret'
    BY <1>2, <1>10, <2>1, <2>2, <2>3, <2>4 DEF UploadSecret
  <2>8. UploadPlain'
    BY <1>2, <1>10, <2>2 DEF UploadPlain
  <2> QED
    BY <2>6, <2>7, <2>8 DEF UploadInv
<1> QED
  BY <1>7, <1>8, <1>9, <1>12, <1>13, <1>14, <1>15, <1>16 DEF IInv

\* An open that fails, and a close.
LEMMA IdleKeeps ==
    ASSUME IInv, OpenFails \/ Close
    PROVE  IInv'
<1>1. Types /\ Flags /\ ContextInv /\ EndsInv /\ DownloadIsComplete
  BY DEF IInv
<1>2. MaxSize \in Nat
  BY DataAssumption
<1>3. CASE OpenFails
  <2>1. /\ at = "idle" /\ at' = "idle" /\ SetOptions /\ fileTransfer' \in BOOLEAN
        /\ encryptionContext' = FALSE /\ totalSize' = 0 /\ outcome' = "failed"
        /\ UNCHANGED <<size, held, pos, out, pending, currentLength>>
        /\ digestContext' = (fileTransfer' /\ digestComputation' /\ password' = "empty")
    BY <1>3 DEF OpenFails
  <2>2. \/ fileTransfer' /\ digestBuffer' = NoDigest /\ digested' = 0
        \/ ~fileTransfer' /\ UNCHANGED <<digestBuffer, digested>>
    BY <1>3 DEF OpenFails
  <2>3. password' \in {"none", "empty", "set"} /\ digestComputation' \in BOOLEAN /\ capacity' \in Nat
    BY <2>1, DataAssumption DEF SetOptions
  <2>4. NoDigest \in Nat
    BY <1>2 DEF NoDigest
  <2>5. digested' \in Nat /\ digestBuffer' \in Nat /\ (fileTransfer' => digestBuffer' = NoDigest)
        /\ (digestContext' => digested' = 0)
    BY <1>1, <2>1, <2>2, <2>4 DEF Types
  <2>6. Types'
    BY <1>1, <2>1, <2>3, <2>5 DEF Types
  <2>7. Flags'
    BY <2>1, <2>3 DEF Flags
  <2>8. ContextInv' /\ DownloadInv' /\ DownloadIsComplete' /\ EndsInv'
    BY <2>1, <2>5 DEF ContextInv, DownloadInv, DownloadIsComplete, EndsInv
  <2>9. UploadInv' /\ UploadIsComplete' /\ DigestInv'
    BY <2>1, <2>5 DEF UploadInv, UploadCounts, UploadSecret, UploadPlain, UploadIsComplete, DigestInv, NoDigest
  <2>10. FullReads => Bounds'
    <3> SUFFICES ASSUME FullReads PROVE Bounds'
      OBVIOUS
    <3>1. Bounds /\ PaddedSize(MaxSize) \in Nat
      BY <1>1, WireFacts DEF IInv
    <3>2. digested' <= MaxSize /\ digestBuffer' <= NoDigest
      BY <1>2, <2>2, <2>4, <3>1 DEF Bounds
    <3> QED
      BY <2>1, <3>1, <3>2 DEF Bounds
  <2> QED
    BY <2>6, <2>7, <2>8, <2>9, <2>10 DEF IInv
<1>4. CASE Close
  <2>1. /\ at \in {"reading", "writing", "closing"} /\ at' = "idle"
        /\ encryptionContext' = FALSE /\ digestContext' = FALSE
        /\ UNCHANGED <<optionVars, size, fileTransfer, held, digested, digestBuffer, pos, out,
                       pending, currentLength, totalSize, outcome>>
    BY <1>4 DEF Close
  <2>2. UNCHANGED <<password, digestComputation, capacity>>
    BY <2>1 DEF optionVars
  <2>3. Types'
    BY <1>1, <2>1, <2>2 DEF Types
  <2>4. Flags'
    BY <1>1, <2>1, <2>2 DEF Flags
  <2>5. ContextInv' /\ DownloadInv'
    BY <2>1 DEF ContextInv, DownloadInv
  <2>6. WireSize' = WireSize
    BY <2>1, <2>2 DEF WireSize
  <2>7. DownloadIsComplete' /\ EndsInv'
    BY <1>1, <2>1, <2>2, <2>6 DEF DownloadIsComplete, EndsInv
  <2>8. UploadInv'
    BY <2>1 DEF UploadInv, UploadCounts, UploadSecret, UploadPlain
  <2>9. FullReads => Bounds' /\ UploadIsComplete' /\ DigestInv'
    BY <2>1, <2>2, <2>6 DEF IInv, Bounds, UploadIsComplete, DigestInv
  <2> QED
    BY <2>3, <2>4, <2>5, <2>7, <2>8, <2>9 DEF IInv
<1> QED
  BY <1>3, <1>4

\* A read that fails, and an acknowledgement.
LEMMA UploadEventsKeep ==
    ASSUME IInv, ReadFails \/ PeerAcknowledges
    PROVE  IInv'
<1>1. Types /\ Flags /\ ContextInv /\ EndsInv /\ DownloadIsComplete /\ at = "reading"
  BY DEF IInv, ReadFails, PeerAcknowledges
<1>2. CASE ReadFails
  <2>1. /\ at' = "closing" /\ outcome' = "failed"
        /\ UNCHANGED <<optionVars, size, fileTransfer, ctxVars, pos, out, pending, currentLength, totalSize>>
    BY <1>2 DEF ReadFails
  <2>2. UNCHANGED <<password, digestComputation, capacity, encryptionContext, digestContext, held,
                    digested, digestBuffer>>
    BY <2>1 DEF optionVars, ctxVars
  <2>3. Types'
    BY <1>1, <2>1, <2>2 DEF Types
  <2>4. Flags'
    BY <1>1, <2>1, <2>2 DEF Flags
  <2>5. ContextInv' /\ DownloadInv' /\ DownloadIsComplete' /\ EndsInv'
    BY <2>1 DEF ContextInv, DownloadInv, DownloadIsComplete, EndsInv
  <2>6. UploadInv' /\ UploadIsComplete'
    BY <2>1 DEF UploadInv, UploadCounts, UploadSecret, UploadPlain, UploadIsComplete
  <2>7. FullReads => Bounds' /\ DigestInv'
    BY <2>1, <2>2 DEF IInv, Bounds, DigestInv, NoDigest
  <2> QED
    BY <2>3, <2>4, <2>5, <2>6, <2>7 DEF IInv
<1>3. CASE PeerAcknowledges
  <2>1. /\ UNCHANGED <<optionVars, at, size, fileTransfer, ctxVars, pos, out, pending, totalSize, outcome>>
        /\ \E n \in currentLength + 1 .. Len(out) : currentLength' = n
    BY <1>3 DEF PeerAcknowledges
  <2>2. UNCHANGED <<password, digestComputation, capacity, encryptionContext, digestContext, held,
                    digested, digestBuffer>>
    BY <2>1 DEF optionVars, ctxVars
  <2>3. currentLength' \in Nat /\ currentLength' <= Len(out) /\ Len(out) \in Nat
    BY <1>1, <2>1 DEF Types
  <2>4. Types'
    BY <1>1, <2>1, <2>2, <2>3 DEF Types
  <2>5. Flags'
    BY <1>1, <2>1, <2>2 DEF Flags
  <2>6. WireSize' = WireSize /\ Secret' = Secret
    BY <2>1, <2>2 DEF WireSize, Secret
  <2>7. ContextInv' /\ DownloadInv' /\ DownloadIsComplete' /\ EndsInv'
    BY <1>1, <2>1, <2>2, <2>6 DEF ContextInv, DownloadInv, DownloadIsComplete, EndsInv
  <2>8. FullReads => UploadIsComplete' /\ DigestInv'
    BY <2>1, <2>2, <2>6 DEF IInv, UploadIsComplete, DigestInv, NoDigest
  <2>9. FullReads => UploadInv'
    <3> SUFFICES ASSUME FullReads PROVE UploadInv'
      OBVIOUS
    <3>1. UploadCounts /\ UploadSecret /\ UploadPlain
      BY DEF IInv, UploadInv
    <3>2. UploadCounts'
      BY <2>1, <2>2, <2>3, <3>1 DEF UploadCounts
    <3>3. UploadSecret'
      BY <2>1, <2>2, <2>6, <3>1 DEF UploadSecret
    <3>4. UploadPlain'
      BY <2>1, <2>2, <2>6, <3>1 DEF UploadPlain
    <3> QED
      BY <3>2, <3>3, <3>4 DEF UploadInv
  <2>10. FullReads => Bounds'
    <3> SUFFICES ASSUME FullReads PROVE Bounds'
      OBVIOUS
    <3>1. Bounds /\ UploadCounts
      BY DEF IInv, UploadInv
    <3>2. totalSize = Len(out) /\ totalSize <= PaddedSize(MaxSize) /\ PaddedSize(MaxSize) \in Nat
      BY <1>1, <3>1, WireFacts DEF Bounds, UploadCounts
    <3>3. currentLength' <= PaddedSize(MaxSize)
      BY <2>3, <3>2
    <3> QED
      BY <2>1, <2>2, <3>1, <3>3 DEF Bounds, NoDigest
  <2> QED
    BY <2>4, <2>5, <2>7, <2>8, <2>9, <2>10 DEF IInv
<1> QED
  BY <1>2, <1>3

\* What a stream returns.
LEMMA ReadFacts ==
    ASSUME IInv, at = "reading", NEW n \in ReadSizes
    PROVE  /\ n \in Nat /\ pos \in Nat /\ size \in Nat /\ pos + n \in Nat /\ pos + n <= size
           /\ size <= MaxSize /\ MaxSize \in Nat /\ held \in Nat /\ held < Block
           /\ Block \in Nat /\ Block > 0 /\ held + n \in Nat
           /\ n = 0 => pos = size
           /\ FullReads /\ password = "set" /\ n < Block => pos + n = size
<1>1. /\ MaxSize \in Nat /\ Block \in Nat /\ Block > 0 /\ ChunkSize \in Nat /\ ChunkSize >= Block
  BY DataAssumption
<1>2. size \in Nat /\ size <= MaxSize /\ pos \in Nat /\ pos <= size /\ held \in Nat /\ held < Block
  BY <1>1 DEF IInv, Types, ContextInv
<1> DEFINE left == Least(ChunkSize, size - pos)
<1>3. left \in Nat /\ left <= size - pos /\ (left < ChunkSize => left = size - pos)
  BY <1>1, <1>2 DEF Least
<1>4. n = left \/ (password \in ShortReads /\ left > 0 /\ n \in 1..left)
  BY DEF ReadSizes
<1> HIDE DEF left
<1>5. n \in Nat /\ n <= left /\ (n = 0 => left = 0)
  BY <1>3, <1>4
<1>6. n = 0 => pos = size
  BY <1>1, <1>2, <1>3, <1>5
<1>7. FullReads /\ password = "set" => n = left
  BY <1>4 DEF FullReads
<1> QED
  BY <1>1, <1>2, <1>3, <1>5, <1>6, <1>7

\* The encrypted branch of readFromInputStream.
LEMMA ReadEncryptedKeeps ==
    ASSUME IInv, at = "reading", outcome # "end", NEW n \in ReadSizes, ReadEncrypted(n),
           totalSize' = totalSize + Len(out') - Len(out),
           UNCHANGED <<optionVars, at, size, fileTransfer, pending, currentLength>>
    PROVE  IInv'
<1> DEFINE t == held + n
           whole == Whole(t)
           final == whole = 0
           more == IF final THEN Block ELSE whole
<1>1. Types /\ Flags /\ ContextInv /\ EndsInv
  BY DEF IInv
<1>2. /\ n \in Nat /\ pos \in Nat /\ size \in Nat /\ pos + n \in Nat /\ pos + n <= size
      /\ size <= MaxSize /\ MaxSize \in Nat /\ held \in Nat /\ held < Block
      /\ Block \in Nat /\ Block > 0 /\ t \in Nat
      /\ n = 0 => pos = size
      /\ FullReads /\ password = "set" /\ n < Block => pos + n = size
  BY ReadFacts
<1>3. /\ UNCHANGED <<password, digestComputation, capacity, at, size, fileTransfer, pending, currentLength>>
      /\ outcome' = outcome /\ encryptionContext /\ pos' = pos + n
      /\ totalSize' = totalSize + Len(out') - Len(out)
  BY DEF optionVars, ReadEncrypted
<1>4. /\ digested' = IF digestContext THEN digested + n ELSE digested
      /\ held' = IF final THEN 0 ELSE t - whole
      /\ out' = out \o Copies("cipher", more)
      /\ digestBuffer' = IF final /\ digestContext THEN digested + n ELSE digestBuffer
  <2>1. digested' = IF digestContext THEN digested + n ELSE digested
    BY DEF ReadEncrypted
  <2>2. held' = IF final THEN 0 ELSE t - whole
    <3>1. held' = IF final THEN 0 ELSE held + n - whole
      BY DEF ReadEncrypted, Whole
    <3>2. whole \in Nat
      BY <1>2, WholeFacts
    <3> HIDE DEF whole
    <3> QED
      BY <1>2, <3>1, <3>2
  <2>3. out' = out \o Copies("cipher", more)
    BY DEF ReadEncrypted, Whole
  <2>4. digestBuffer' = IF final /\ digestContext THEN digested + n ELSE digestBuffer
    BY DEF ReadEncrypted, Whole
  <2> QED
    BY <2>1, <2>2, <2>3, <2>4
<1>5. encryptionContext' = ~final /\ digestContext' = (digestContext /\ ~final)
  BY DEF ReadEncrypted, Whole
<1>6. whole \in Nat /\ whole <= t /\ t < whole + Block
  BY <1>2, WholeFacts
<1> HIDE DEF t, whole
<1>7. more \in Nat
  BY <1>2, <1>6
<1>8. /\ out \in Seq({"cipher", "clear"}) /\ Len(out) \in Nat
      /\ digested \in Nat /\ digestBuffer \in Nat /\ totalSize \in Nat
  BY <1>1 DEF Types
<1>9. /\ out' \in Seq({"cipher", "clear"}) /\ Len(out') = Len(out) + more
      /\ (\A i \in 1..Len(out) : out[i] = "cipher") => \A i \in 1..Len(out') : out'[i] = "cipher"
  BY <1>4, <1>7, <1>8, CopiesAppended
<1>10. totalSize' = totalSize + more
  BY <1>3, <1>7, <1>8, <1>9
<1> HIDE DEF more
<1>11. Types'
  <2>1. held' \in 0..Block - 1 /\ digested' \in Nat /\ digestBuffer' \in Nat
    BY <1>2, <1>4, <1>6, <1>8
  <2>2. totalSize' \in Nat
    BY <1>7, <1>8, <1>10
  <2> QED
    BY <1>1, <1>2, <1>3, <1>9, <2>1, <2>2 DEF Types
<1>12. Flags'
  BY <1>1, <1>3, <1>5 DEF Flags
<1>13. ContextInv' /\ DownloadInv'
  BY <1>2, <1>3 DEF ContextInv, DownloadInv
<1>14. outcome # "done"
  BY <1>1 DEF EndsInv
<1>15. DownloadIsComplete' /\ EndsInv' /\ UploadIsComplete'
  BY <1>3, <1>14 DEF DownloadIsComplete, EndsInv, UploadIsComplete
<1>16. ASSUME FullReads
       PROVE  Bounds' /\ UploadInv' /\ DigestInv'
  <2>1. Bounds /\ UploadCounts /\ UploadSecret /\ UploadPlain /\ DigestInv
    BY <1>16 DEF IInv, UploadInv
  <2>2. /\ currentLength \in Nat /\ currentLength <= Len(out) /\ totalSize = Len(out)
        /\ (digestContext => digested = pos) /\ currentLength <= PaddedSize(MaxSize)
        /\ pending <= PaddedSize(MaxSize) /\ digested <= MaxSize /\ digestBuffer <= NoDigest
    BY <1>1, <2>1 DEF UploadCounts, Bounds, Types
  <2>3. /\ Secret /\ Len(out) % Block = 0 /\ Len(out) + held = pos /\ outcome = "none"
        /\ digestContext = digestComputation /\ \A i \in 1..Len(out) : out[i] = "cipher"
    BY <1>3, <2>1 DEF UploadSecret, UploadPlain
  <2>4. Secret' = Secret /\ password = "set" /\ fileTransfer
    BY <1>3, <2>3 DEF Secret
  <2>5. \A i \in 1..Len(out') : out'[i] = "cipher"
    BY <1>9, <2>3
  <2>6. digestContext => digested + n = pos + n
    BY <2>2
  <2>7. digested' <= MaxSize /\ digestBuffer' <= NoDigest /\ (digestContext' => digested' = pos')
    <3>1. digested' <= MaxSize
      BY <1>2, <1>4, <2>2, <2>6
    <3>2. digestBuffer' <= NoDigest
      BY <1>2, <1>4, <2>2, <2>6 DEF NoDigest
    <3>3. digestContext' => digested' = pos'
      BY <1>3, <1>4, <1>5, <2>6
    <3> QED
      BY <3>1, <3>2, <3>3
  <2>8. /\ PaddedSize(size) \in Nat /\ PaddedSize(size) = Whole(size) + Block /\ size < PaddedSize(size)
        /\ PaddedSize(size) <= PaddedSize(MaxSize) /\ PaddedSize(MaxSize) \in Nat
    BY <1>2, PaddedFacts
  <2>9. CASE final
    <3>1. t < Block /\ more = Block
      BY <1>2, <1>6, <2>9 DEF more
    <3>2. n < Block
      BY <1>2, <3>1 DEF t
    <3>3. pos + n = size
      BY <1>2, <1>16, <2>4, <3>2
    <3>4. Len(out) <= size /\ size < Len(out) + Block
      BY <1>2, <1>8, <2>3, <3>1, <3>3 DEF t
    <3>5. Whole(size) = Len(out)
      BY <1>2, <1>8, <2>3, <3>4, WholeOfAligned
    <3>6. Len(out') = PaddedSize(size)
      BY <1>8, <1>9, <2>8, <3>1, <3>5
    <3>7. ~encryptionContext' /\ ~digestContext'
      BY <1>5, <2>9
    <3>8. currentLength <= Len(out')
      BY <1>2, <1>8, <1>9, <2>2, <3>1
    <3>9. totalSize' = Len(out')
      BY <1>9, <1>10, <2>2
    <3>10. Bounds'
      <4>1. pos' <= PaddedSize(MaxSize)
        BY <1>2, <1>3, <2>8
      <4>2. totalSize' <= PaddedSize(MaxSize)
        BY <2>8, <3>6, <3>9
      <4> QED
        BY <1>3, <2>2, <2>7, <4>1, <4>2 DEF Bounds, NoDigest
    <3>11. UploadCounts'
      BY <1>2, <1>3, <2>3, <2>7, <3>3, <3>8, <3>9 DEF UploadCounts
    <3>12. UploadSecret'
      BY <1>3, <2>5, <3>3, <3>6, <3>7 DEF UploadSecret
    <3>13. UploadPlain'
      BY <2>3, <2>4 DEF UploadPlain
    <3>14. digestComputation => digestBuffer' = size
      BY <1>4, <2>3, <2>6, <2>9, <3>3
    <3>15. digestBuffer' \in {size, NoDigest}
      BY <1>3, <1>4, <2>1, <2>4, <2>6, <3>3 DEF DigestInv
    <3>16. DigestInv'
      BY <1>3, <3>14, <3>15 DEF DigestInv, NoDigest
    <3> QED
      BY <3>10, <3>11, <3>12, <3>13, <3>16 DEF UploadInv
  <2>10. CASE ~final
    <3>1. more = whole /\ held' = t - whole /\ digestBuffer' = digestBuffer
      BY <1>4, <2>10 DEF more
    <3>2. Len(out') % Block = 0
      <4>1. (Len(out) + Whole(t)) % Block = 0
        BY <1>2, <1>8, <2>3, AlignedSum
      <4> QED
        BY <1>9, <3>1, <4>1 DEF whole
    <3>3. Len(out') + held' = pos'
      BY <1>2, <1>3, <1>6, <1>8, <1>9, <2>3, <3>1 DEF t
    <3>4. encryptionContext' /\ digestContext' = digestContext
      BY <1>1, <1>5, <2>10 DEF Flags
    <3>5. currentLength <= Len(out')
      BY <1>6, <1>8, <1>9, <2>2, <3>1
    <3>6. totalSize' = Len(out')
      BY <1>9, <1>10, <2>2
    <3>7. Len(out') \in Nat /\ Len(out') <= size
      BY <1>2, <1>3, <1>6, <1>8, <1>9, <3>1, <3>3
    <3>8. Bounds'
      <4>1. pos' <= PaddedSize(MaxSize)
        BY <1>2, <1>3, <2>8
      <4>2. totalSize' <= PaddedSize(MaxSize)
        BY <1>2, <2>8, <3>6, <3>7
      <4> QED
        BY <1>3, <2>2, <2>7, <4>1, <4>2 DEF Bounds, NoDigest
    <3>9. UploadCounts'
      BY <1>2, <1>3, <2>3, <2>7, <3>5, <3>6 DEF UploadCounts
    <3>10. UploadSecret'
      BY <1>3, <2>3, <2>5, <3>2, <3>3, <3>4 DEF UploadSecret
    <3>11. UploadPlain'
      BY <2>3, <2>4 DEF UploadPlain
    <3>12. DigestInv'
      BY <1>3, <2>1, <2>3, <3>1, <3>4 DEF DigestInv, NoDigest
    <3> QED
      BY <3>8, <3>9, <3>10, <3>11, <3>12 DEF UploadInv
  <2> QED
    BY <2>9, <2>10
<1> QED
  BY <1>11, <1>12, <1>13, <1>15, <1>16 DEF IInv

\* The plain branch of readFromInputStream.
LEMMA ReadPlainKeeps ==
    ASSUME IInv, at = "reading", outcome # "end", NEW n \in ReadSizes, ReadPlain(n),
           totalSize' = totalSize + Len(out') - Len(out),
           UNCHANGED <<optionVars, at, size, fileTransfer, pending, currentLength>>
    PROVE  IInv'
<1> DEFINE final == digestContext /\ (n = 0 \/ currentLength + n = WireSize)
<1>1. Types /\ Flags /\ ContextInv /\ EndsInv
  BY DEF IInv
<1>2. /\ n \in Nat /\ pos \in Nat /\ size \in Nat /\ pos + n \in Nat /\ pos + n <= size
      /\ size <= MaxSize /\ MaxSize \in Nat /\ Block \in Nat /\ Block > 0
      /\ n = 0 => pos = size
  BY ReadFacts
<1>3. /\ UNCHANGED <<password, digestComputation, capacity, at, size, fileTransfer, pending, currentLength>>
      /\ UNCHANGED <<encryptionContext, held>>
      /\ ~encryptionContext /\ pos' = pos + n
      /\ outcome' = IF n = 0 THEN "end" ELSE outcome
      /\ totalSize' = totalSize + Len(out') - Len(out)
      /\ digested' = IF digestContext THEN digested + n ELSE digested
      /\ out' = out \o Copies("clear", n)
      /\ digestBuffer' = IF final THEN digested' ELSE digestBuffer
  BY DEF optionVars, ReadPlain
<1>4. digestContext' = (digestContext /\ ~final)
  BY DEF ReadPlain
<1>5. /\ out \in Seq({"cipher", "clear"}) /\ Len(out) \in Nat
      /\ digested \in Nat /\ digestBuffer \in Nat /\ totalSize \in Nat /\ currentLength \in Nat
  BY <1>1 DEF Types
<1>6. /\ out' \in Seq({"cipher", "clear"}) /\ Len(out') = Len(out) + n
      /\ n = 0 /\ (\A i \in 1..Len(out) : out[i] = "cipher") => \A i \in 1..Len(out') : out'[i] = "cipher"
  BY <1>2, <1>3, <1>5, CopiesAppended
<1>7. totalSize' = totalSize + n
  <2>1. totalSize' = totalSize + Len(out') - Len(out)
    OBVIOUS
  <2> QED
    BY <1>2, <1>5, <1>6, <2>1
<1>8. digested' \in Nat /\ digestBuffer' \in Nat /\ totalSize' \in Nat /\ pos' \in Nat
  BY <1>2, <1>3, <1>5, <1>7
<1> HIDE DEF final
<1>9. Types'
  BY <1>1, <1>3, <1>6, <1>8 DEF Types
<1>10. Flags'
  BY <1>1, <1>3, <1>4 DEF Flags
<1>11. ContextInv' /\ DownloadInv'
  BY <1>2, <1>3 DEF ContextInv, DownloadInv
<1>12. outcome # "done" /\ outcome' # "done"
  BY <1>1, <1>3 DEF EndsInv
<1>13. DownloadIsComplete' /\ EndsInv'
  BY <1>3, <1>12 DEF DownloadIsComplete, EndsInv
<1>14. ASSUME FullReads
       PROVE  Bounds' /\ UploadInv' /\ UploadIsComplete' /\ DigestInv'
  <2>1. Bounds /\ UploadCounts /\ UploadSecret /\ UploadPlain /\ DigestInv
    BY <1>14 DEF IInv, UploadInv
  <2>2. /\ currentLength <= Len(out) /\ totalSize = Len(out)
        /\ (digestContext => digested = pos) /\ currentLength <= PaddedSize(MaxSize)
        /\ pending <= PaddedSize(MaxSize) /\ digested <= MaxSize /\ digestBuffer <= NoDigest
        /\ outcome \in {"none", "end"}
    BY <1>1, <2>1 DEF UploadCounts, Bounds
  <2>3. Secret' = Secret
    BY <1>3 DEF Secret
  <2>4. Secret => /\ \A i \in 1..Len(out) : out[i] = "cipher"
                  /\ pos = size /\ Len(out) = PaddedSize(size) /\ ~digestContext
    BY <1>3, <2>1 DEF UploadSecret
  <2>5. ~Secret => Len(out) = pos
    BY <2>1 DEF UploadPlain
  <2>6. Secret => n = 0
    BY <1>2, <2>4
  <2>7. /\ WireSize = (IF Secret THEN PaddedSize(size) ELSE size) /\ WireSize' = WireSize
        /\ PaddedSize(size) \in Nat /\ PaddedSize(size) <= PaddedSize(MaxSize)
        /\ PaddedSize(MaxSize) \in Nat /\ size < PaddedSize(size)
    <3>1. WireSize' = WireSize
      BY <1>3 DEF WireSize
    <3>2. /\ PaddedSize(size) \in Nat /\ PaddedSize(size) <= PaddedSize(MaxSize)
          /\ PaddedSize(MaxSize) \in Nat /\ size < PaddedSize(size)
      BY <1>2, PaddedFacts
    <3> QED
      BY <1>1, <3>1, <3>2, WireFacts
  <2>8. totalSize' = Len(out') /\ currentLength <= Len(out')
    BY <1>2, <1>5, <1>6, <1>7, <2>2
  <2>9. digestContext => digested' = pos' /\ pos' = pos + n
    BY <1>3, <2>2
  <2>10. final => pos' = size /\ digestContext
    <3>1. CASE n = 0
      BY <1>2, <1>3, <3>1 DEF final
    <3>2. CASE n # 0
      <4> SUFFICES ASSUME final PROVE pos' = size /\ digestContext
        OBVIOUS
      <4>1. currentLength + n = WireSize /\ ~Secret /\ digestContext
        BY <2>6, <3>2 DEF final
      <4>2. currentLength + n = size /\ currentLength <= pos
        BY <2>2, <2>5, <2>7, <4>1
      <4> QED
        BY <1>2, <1>3, <1>5, <4>1, <4>2
    <3> QED
      BY <3>1, <3>2
  <2>11. digested' <= MaxSize /\ digestBuffer' <= NoDigest
    <3>1. digested' <= MaxSize
      BY <1>2, <1>3, <2>2, <2>9
    <3>2. digestBuffer' <= NoDigest
      <4>1. digestBuffer' \in {digested', digestBuffer}
        BY <1>3
      <4>2. digestBuffer <= NoDigest
        BY <2>2
      <4> QED
        BY <1>2, <1>5, <1>8, <3>1, <4>1, <4>2 DEF NoDigest
    <3> QED
      BY <3>1, <3>2
  <2>12. outcome' = "end" => n = 0 /\ pos' = size
    BY <1>2, <1>3
  <2>13. n = 0 => ~digestContext'
    BY <1>4 DEF final
  <2>14. Secret => Len(out') = PaddedSize(size) /\ pos' = size /\ ~digestContext'
    <3> SUFFICES ASSUME Secret PROVE Len(out') = PaddedSize(size) /\ pos' = size /\ ~digestContext'
      OBVIOUS
    <3>1. n = 0 /\ pos = size /\ Len(out) = PaddedSize(size)
      BY <2>4, <2>6
    <3>2. Len(out') = Len(out) + n /\ pos' = pos + n
      BY <1>3, <1>6
    <3>3. ~digestContext'
      BY <1>4, <2>4
    <3> QED
      BY <1>2, <2>7, <3>1, <3>2, <3>3
  <2>15. ~Secret => Len(out') = pos'
    BY <1>3, <1>6, <2>5
  <2>16. Bounds'
    <3>1. pos' <= PaddedSize(MaxSize)
      BY <1>2, <1>3, <2>7
    <3>2. totalSize' <= PaddedSize(MaxSize)
      BY <2>7, <2>8, <2>14, <2>15, <3>1
    <3> QED
      BY <1>3, <2>2, <2>11, <3>1, <3>2 DEF Bounds, NoDigest
  <2>17. UploadCounts'
    <3>1. outcome' \in {"none", "end"}
      BY <1>3, <2>2
    <3>2. digestContext' => digested' = pos'
      BY <1>4, <2>9
    <3> QED
      BY <1>2, <1>3, <2>8, <2>12, <2>13, <3>1, <3>2 DEF UploadCounts
  <2>18. UploadSecret'
    BY <1>3, <1>6, <2>3, <2>4, <2>6, <2>14 DEF UploadSecret
  <2>19. UploadPlain'
    BY <1>3, <2>3, <2>15 DEF UploadPlain
  <2>20. UploadIsComplete'
    BY <1>3, <2>7, <2>12, <2>14, <2>15 DEF UploadIsComplete
  <2>21. DigestInv'
    <3>1. final => digestBuffer' = size
      BY <1>3, <2>9, <2>10
    <3>2. fileTransfer => digestBuffer' \in {size, NoDigest}
      BY <1>3, <2>1, <3>1 DEF DigestInv
    <3>3. fileTransfer /\ digestComputation => digestContext' \/ digestBuffer' = size
      <4>1. CASE final
        BY <3>1, <4>1
      <4>2. CASE ~final
        <5>1. digestBuffer' = digestBuffer /\ digestContext' = digestContext
          BY <1>1, <1>3, <1>4, <4>2 DEF Flags
        <5> QED
          BY <2>1, <5>1 DEF DigestInv
      <4> QED
        BY <4>1, <4>2
    <3> QED
      BY <1>3, <2>12, <2>13, <3>2, <3>3 DEF DigestInv, NoDigest
  <2> QED
    BY <2>16, <2>17, <2>18, <2>19, <2>20, <2>21 DEF UploadInv
<1> QED
  BY <1>9, <1>10, <1>11, <1>13, <1>14 DEF IInv

\* The bytes the cipher has given for n bytes of a download.
GivenFor(n) == IF encryptionContext THEN Decrypted(n) ELSE n

\* They are no more than the file, more for more, and of everything on the wire they are
\* the file, but for what only the last call of the cipher gives.
LEMMA GivenFacts ==
    ASSUME Types, Flags, encryptionContext = Secret, NEW n \in Nat, n <= WireSize
    PROVE  /\ GivenFor(n) \in Nat /\ GivenFor(n) <= size /\ size \in Nat /\ GivenFor(0) = 0
           /\ \A m \in Nat : m <= n => GivenFor(m) <= GivenFor(n) /\ GivenFor(m) \in Nat
           /\ ~encryptionContext /\ n = WireSize => GivenFor(n) = size
<1>1. size \in Nat /\ WireSize = IF Secret THEN PaddedSize(size) ELSE size
  BY WireFacts DEF Types
<1>2. CASE encryptionContext
  <2>1. WireSize = PaddedSize(size) /\ WireSize \in Nat
    BY <1>1, <1>2, WireFacts
  <2>2. Decrypted(WireSize) = Whole(size) /\ Whole(size) <= size /\ Whole(size) \in Nat
    BY <1>1, <2>1, DecryptedFacts, WholeFacts
  <2>3. Decrypted(n) \in Nat /\ Decrypted(n) <= Decrypted(WireSize) /\ Decrypted(0) = 0
    BY <2>1, DecryptedFacts
  <2>4. \A m \in Nat : m <= n => Decrypted(m) <= Decrypted(n) /\ Decrypted(m) \in Nat
    BY DecryptedFacts
  <2>5. \A m : GivenFor(m) = Decrypted(m)
    BY <1>2 DEF GivenFor
  <2> QED
    BY <1>1, <1>2, <2>2, <2>3, <2>4, <2>5
<1>3. CASE ~encryptionContext
  <2>1. WireSize = size
    BY <1>1, <1>3
  <2>2. \A m : GivenFor(m) = m
    BY <1>3 DEF GivenFor
  <2> QED
    BY <1>1, <2>1, <2>2
<1> QED
  BY <1>2, <1>3

\* Bytes arrive and are decrypted.
LEMMA WriteKeeps ==
    ASSUME IInv, WriteToOutputStream
    PROVE  IInv'
<1>1. Types /\ Flags /\ ContextInv /\ DownloadInv /\ EndsInv /\ at = "writing"
  BY DEF IInv, WriteToOutputStream
<1>2. PICK n \in 1..Least(ChunkSize, WireSize - pos) :
        LET real == IF encryptionContext THEN Decrypted(pos + n) - Decrypted(pos) ELSE n
        IN  /\ pos' = pos + n
            /\ digested' = IF digestContext THEN digested + real ELSE digested
            /\ pending' = real
            /\ totalSize' = IF real > 0 THEN totalSize ELSE totalSize + n
            /\ at' = IF real > 0 THEN "storing" ELSE "writing"
            /\ UNCHANGED <<optionVars, size, fileTransfer, encryptionContext, digestContext, held,
                           digestBuffer, out, currentLength, outcome>>
  BY DEF WriteToOutputStream
<1> DEFINE real == IF encryptionContext THEN Decrypted(pos + n) - Decrypted(pos) ELSE n
<1>3. /\ pos' = pos + n /\ digested' = (IF digestContext THEN digested + real ELSE digested)
      /\ pending' = real /\ totalSize' = (IF real > 0 THEN totalSize ELSE totalSize + n)
      /\ at' = IF real > 0 THEN "storing" ELSE "writing"
  BY <1>2
<1>4. UNCHANGED <<password, digestComputation, capacity, size, fileTransfer, encryptionContext,
                  digestContext, held, digestBuffer, out, currentLength, outcome>>
  BY <1>2 DEF optionVars
<1>5. /\ pos \in Nat /\ digested \in Nat /\ totalSize \in Nat /\ Len(out) \in Nat
      /\ pos <= WireSize /\ pending = 0 /\ totalSize = pos
      /\ encryptionContext = Secret /\ outcome = "none"
  BY <1>1 DEF Types, DownloadInv, ContextInv
<1>6. /\ WireSize \in Nat /\ ChunkSize \in Nat /\ size \in Nat /\ size <= MaxSize /\ MaxSize \in Nat
      /\ size <= WireSize /\ WireSize <= PaddedSize(MaxSize) /\ PaddedSize(MaxSize) \in Nat
      /\ MaxSize < PaddedSize(MaxSize)
  BY <1>1, DataAssumption, WireFacts DEF Types
<1>7. n \in Nat /\ n > 0 /\ pos + n <= WireSize /\ pos + n \in Nat
  BY <1>5, <1>6 DEF Least
<1>8. /\ GivenFor(pos) \in Nat /\ GivenFor(pos + n) \in Nat /\ GivenFor(pos) <= GivenFor(pos + n)
      /\ GivenFor(pos + n) <= size
  BY <1>1, <1>5, <1>7, GivenFacts
<1>9. real = GivenFor(pos + n) - GivenFor(pos)
  <2>1. CASE encryptionContext
    BY <2>1 DEF GivenFor
  <2>2. CASE ~encryptionContext
    BY <1>5, <1>7, <2>2 DEF GivenFor
  <2> QED
    BY <2>1, <2>2
<1>10. Given = GivenFor(pos) /\ Given' = GivenFor(pos + n)
  BY <1>3, <1>4 DEF Given, GivenFor
<1> HIDE DEF real
<1>11. real \in Nat /\ GivenFor(pos) + real = GivenFor(pos + n) /\ real <= size
  BY <1>6, <1>8, <1>9
<1>12. WireSize' = WireSize /\ Secret' = Secret
  BY <1>4 DEF WireSize, Secret
<1>13. Len(out) = Given /\ (digestContext => digested = Given)
  BY <1>1, <1>5 DEF DownloadInv
<1>14. digested' \in Nat /\ totalSize' \in Nat /\ pos' \in Nat /\ pending' \in Nat
       /\ at' \in {"writing", "storing"}
  BY <1>3, <1>5, <1>7, <1>11
<1>15. Types'
  BY <1>1, <1>4, <1>14 DEF Types
<1>16. Flags'
  BY <1>1, <1>4 DEF Flags
<1>17. ContextInv'
  BY <1>1, <1>4, <1>12, <1>14 DEF ContextInv
<1>18. DownloadInv'
  <2>1. Len(out') + pending' = Given'
    BY <1>3, <1>4, <1>8, <1>10, <1>11, <1>13
  <2>2. digestContext' => digested' = Given'
    BY <1>3, <1>4, <1>8, <1>10, <1>11, <1>13
  <2>3. at' = "writing" => pending' = 0 /\ totalSize' = pos'
    BY <1>3, <1>5, <1>7, <1>11
  <2>4. pos' <= WireSize'
    BY <1>3, <1>7, <1>12
  <2> QED
    BY <1>14, <2>1, <2>2, <2>3, <2>4 DEF DownloadInv
<1>19. DownloadIsComplete' /\ EndsInv' /\ UploadIsComplete' /\ UploadInv'
  BY <1>4, <1>5, <1>14 DEF DownloadIsComplete, EndsInv, UploadIsComplete, UploadInv, UploadCounts,
                          UploadSecret, UploadPlain
<1>20. FullReads => Bounds' /\ DigestInv'
  <2> SUFFICES ASSUME FullReads PROVE Bounds' /\ DigestInv'
    OBVIOUS
  <2>1. Bounds /\ DigestInv
    BY DEF IInv
  <2>2. pos' <= PaddedSize(MaxSize) /\ pending' <= PaddedSize(MaxSize)
    BY <1>3, <1>6, <1>7, <1>11
  <2>3. totalSize' <= PaddedSize(MaxSize)
    BY <1>3, <1>5, <1>6, <1>7
  <2>4. digested' <= MaxSize
    <3>1. CASE digestContext
      BY <1>3, <1>6, <1>8, <1>10, <1>11, <1>13, <3>1
    <3>2. CASE ~digestContext
      BY <1>3, <2>1, <3>2 DEF Bounds
    <3> QED
      BY <3>1, <3>2
  <2>5. Bounds'
    BY <1>4, <2>1, <2>2, <2>3, <2>4 DEF Bounds, NoDigest
  <2>6. DigestInv'
    BY <1>4, <1>5, <1>14, <2>1 DEF DigestInv, NoDigest
  <2> QED
    BY <2>5, <2>6
<1> QED
  BY <1>15, <1>16, <1>17, <1>18, <1>19, <1>20 DEF IInv

\* The peer has sent everything: what the cipher still holds is the rest of the file.
LEMMA FlushKeeps ==
    ASSUME IInv, FlushOutputStream
    PROVE  IInv'
<1>1. Types /\ Flags /\ ContextInv /\ DownloadInv /\ EndsInv /\ at = "writing" /\ pos = WireSize
  BY DEF IInv, FlushOutputStream
<1>2. /\ UNCHANGED <<password, digestComputation, capacity, size, fileTransfer, held, digestBuffer,
                     pos, out, currentLength, totalSize>>
      /\ encryptionContext' = FALSE
  BY DEF FlushOutputStream, optionVars
<1>3. /\ pos \in Nat /\ digested \in Nat /\ totalSize \in Nat /\ Len(out) \in Nat
      /\ pending = 0 /\ totalSize = pos /\ encryptionContext = Secret /\ outcome = "none"
      /\ Len(out) = Given /\ (digestContext => digested = Given)
      /\ (fileTransfer => digestContext = digestComputation)
  BY <1>1 DEF Types, DownloadInv, ContextInv
<1>4. /\ WireSize \in Nat /\ size \in Nat /\ size <= MaxSize /\ MaxSize \in Nat
      /\ WireSize <= PaddedSize(MaxSize) /\ PaddedSize(MaxSize) \in Nat
      /\ MaxSize < PaddedSize(MaxSize)
  BY <1>1, WireFacts DEF Types
<1>5. GivenFor(pos) \in Nat /\ GivenFor(pos) <= size /\ (~encryptionContext => GivenFor(pos) = size)
  BY <1>1, <1>3, <1>4, GivenFacts
<1>6. Given = GivenFor(pos)
  BY DEF Given, GivenFor
<1>7. WireSize' = WireSize /\ Secret' = Secret
  BY <1>2 DEF WireSize, Secret
<1>8. CASE /\ pending' = (IF encryptionContext THEN size - Decrypted(pos) ELSE 0)
           /\ digested' = (IF digestContext THEN digested + pending' ELSE digested)
           /\ at' = "flushing" /\ UNCHANGED <<digestContext, outcome>>
  <2>1. pending' = size - GivenFor(pos)
    <3>1. CASE encryptionContext
      BY <1>8, <3>1 DEF GivenFor
    <3>2. CASE ~encryptionContext
      BY <1>4, <1>5, <1>8, <3>2
    <3> QED
      BY <3>1, <3>2
  <2>2. pending' \in Nat /\ pending' <= size /\ GivenFor(pos) + pending' = size
    BY <1>4, <1>5, <2>1
  <2>3. digestContext => digested' = size
    BY <1>3, <1>6, <1>8, <2>2
  <2>4. digested' \in Nat
    BY <1>3, <1>8, <2>2
  <2>5. Types'
    BY <1>1, <1>2, <1>8, <2>2, <2>4 DEF Types
  <2>6. Flags'
    BY <1>1, <1>2, <1>8 DEF Flags
  <2>7. ContextInv'
    BY <1>2, <1>3, <1>8 DEF ContextInv
  <2>8. Len(out') + pending' = size /\ totalSize' = WireSize
    BY <1>1, <1>2, <1>3, <1>6, <2>2
  <2>9. DownloadInv'
    BY <1>2, <1>7, <1>8, <2>3, <2>8 DEF DownloadInv
  <2>10. DownloadIsComplete' /\ EndsInv' /\ UploadIsComplete' /\ UploadInv'
    BY <1>2, <1>3, <1>8 DEF DownloadIsComplete, EndsInv, UploadIsComplete, UploadInv, UploadCounts,
                            UploadSecret, UploadPlain
  <2>11. FullReads => Bounds' /\ DigestInv'
    <3> SUFFICES ASSUME FullReads PROVE Bounds' /\ DigestInv'
      OBVIOUS
    <3>1. Bounds /\ DigestInv
      BY DEF IInv
    <3>2. pending' <= PaddedSize(MaxSize)
      BY <1>4, <2>2
    <3>3. digested' <= MaxSize
      <4>1. CASE digestContext
        BY <1>4, <2>3, <4>1
      <4>2. CASE ~digestContext
        BY <1>8, <3>1, <4>2 DEF Bounds
      <4> QED
        BY <4>1, <4>2
    <3>4. Bounds'
      BY <1>2, <3>1, <3>2, <3>3 DEF Bounds, NoDigest
    <3>5. DigestInv'
      BY <1>2, <1>3, <1>8, <3>1 DEF DigestInv, NoDigest
    <3> QED
      BY <3>4, <3>5
  <2> QED
    BY <2>5, <2>6, <2>7, <2>9, <2>10, <2>11 DEF IInv
<1>9. CASE /\ at' = "closing" /\ outcome' = "failed" /\ digestContext' = FALSE
           /\ UNCHANGED <<pending, digested>>
  <2>1. Types'
    BY <1>1, <1>2, <1>9 DEF Types
  <2>2. Flags'
    BY <1>1, <1>2, <1>9 DEF Flags
  <2>3. ContextInv' /\ DownloadInv' /\ DownloadIsComplete' /\ EndsInv' /\ UploadIsComplete' /\ UploadInv'
    BY <1>9 DEF ContextInv, DownloadInv, DownloadIsComplete, EndsInv, UploadIsComplete, UploadInv,
                UploadCounts, UploadSecret, UploadPlain
  <2>4. FullReads => Bounds' /\ DigestInv'
    BY <1>2, <1>9 DEF IInv, Bounds, DigestInv, NoDigest
  <2> QED
    BY <2>1, <2>2, <2>3, <2>4 DEF IInv
<1> QED
  BY <1>8, <1>9 DEF FlushOutputStream

\* The store loop moves bytes and loses none.
LEMMA StoreWritesKeeps ==
    ASSUME IInv, StoreWrites
    PROVE  IInv'
<1>1. Types /\ Flags /\ ContextInv /\ DownloadInv /\ EndsInv /\ at \in {"storing", "flushing"}
  BY DEF IInv, StoreWrites
<1>2. UNCHANGED <<password, digestComputation, capacity, at, size, fileTransfer, encryptionContext,
                  digestContext, held, digested, digestBuffer, pos, currentLength, totalSize, outcome>>
  BY DEF StoreWrites, optionVars, ctxVars
<1>3. PICK n \in 1..Least(pending, capacity - Len(out)) :
        out' = out \o Copies("clear", n) /\ pending' = pending - n
  BY DEF StoreWrites
<1>4. out \in Seq({"cipher", "clear"}) /\ Len(out) \in Nat /\ pending \in Nat /\ capacity \in Nat
      /\ outcome = "none"
  BY <1>1 DEF Types, ContextInv
<1>5. n \in Nat /\ n <= pending
  BY <1>4 DEF Least
<1>6. pending' \in Nat /\ pending' <= pending
  BY <1>3, <1>4, <1>5
<1>7. out' \in Seq({"cipher", "clear"}) /\ Len(out') = Len(out) + n
  BY <1>3, <1>4, <1>5, CopiesAppended
<1>8. Len(out') + pending' = Len(out) + pending
  <2>1. pending' = pending - n /\ Len(out') = Len(out) + n /\ n \in Nat /\ pending \in Nat /\ Len(out) \in Nat
    BY <1>3, <1>4, <1>5, <1>7
  <2> QED
    BY ONLY <2>1
<1>9. WireSize' = WireSize /\ Secret' = Secret /\ Given' = Given
  BY <1>2 DEF WireSize, Secret, Given
<1>10. Types'
  BY <1>1, <1>2, <1>6, <1>7 DEF Types
<1>11. Flags'
  BY <1>1, <1>2 DEF Flags
<1>12. ContextInv'
  BY <1>1, <1>2, <1>9 DEF ContextInv
<1>13. DownloadInv'
  BY <1>1, <1>2, <1>8, <1>9 DEF DownloadInv
<1>14. DownloadIsComplete' /\ EndsInv' /\ UploadIsComplete' /\ UploadInv'
  BY <1>1, <1>2, <1>4 DEF DownloadIsComplete, EndsInv, UploadIsComplete, UploadInv, UploadCounts,
                          UploadSecret, UploadPlain
<1>15. FullReads => Bounds' /\ DigestInv'
  <2> SUFFICES ASSUME FullReads PROVE Bounds' /\ DigestInv'
    OBVIOUS
  <2>1. Bounds /\ DigestInv
    BY DEF IInv
  <2>2. pending' <= PaddedSize(MaxSize)
    <3>1. PaddedSize(MaxSize) \in Nat /\ pending <= PaddedSize(MaxSize)
      BY <1>1, <2>1, WireFacts DEF Bounds
    <3> QED
      BY <1>4, <1>6, <3>1
  <2>3. Bounds'
    BY <1>2, <2>1, <2>2 DEF Bounds, NoDigest
  <2>4. DigestInv'
    BY <1>2, <2>1 DEF DigestInv, NoDigest
  <2> QED
    BY <2>3, <2>4
<1> QED
  BY <1>10, <1>11, <1>12, <1>13, <1>14, <1>15 DEF IInv

\* The store loop ends, because everything is written or with an error.
LEMMA StoreEndsKeeps ==
    ASSUME IInv, StoreFails \/ StoreEnds
    PROVE  IInv'
<1>1. Types /\ Flags /\ ContextInv /\ DownloadInv /\ EndsInv /\ at \in {"storing", "flushing"}
  BY DEF IInv, StoreFails, StoreEnds
<1>2. UNCHANGED <<password, digestComputation, capacity, size, fileTransfer, encryptionContext,
                  held, digested, pos, out, pending, currentLength>>
  BY DEF StoreFails, StoreEnds, optionVars
<1>3. WireSize' = WireSize /\ Secret' = Secret /\ Given' = Given
  BY <1>2 DEF WireSize, Secret, Given
<1>4. CASE StoreFails
  <2>1. at' = "closing" /\ outcome' = "failed" /\ UNCHANGED <<digestBuffer, totalSize>>
    BY <1>4 DEF StoreFails
  <2>2. digestContext' \in BOOLEAN
    BY <1>4 DEF StoreFails
  <2>3. Types'
    BY <1>1, <1>2, <2>1 DEF Types
  <2>4. Flags'
    BY <1>1, <1>2, <2>2 DEF Flags
  <2>5. ContextInv' /\ DownloadInv' /\ DownloadIsComplete' /\ EndsInv' /\ UploadIsComplete' /\ UploadInv'
    BY <2>1 DEF ContextInv, DownloadInv, DownloadIsComplete, EndsInv, UploadIsComplete, UploadInv,
                UploadCounts, UploadSecret, UploadPlain
  <2>6. FullReads => Bounds' /\ DigestInv'
    BY <1>2, <2>1 DEF IInv, Bounds, DigestInv, NoDigest
  <2> QED
    BY <2>3, <2>4, <2>5, <2>6 DEF IInv
<1>5. CASE StoreEnds /\ at = "storing"
  <2>1. at' = "writing" /\ totalSize' = pos /\ UNCHANGED <<digestContext, digestBuffer, outcome>>
        /\ pending = 0
    BY <1>5 DEF StoreEnds
  <2>2. /\ pos \in Nat /\ pos <= WireSize /\ outcome = "none"
    BY <1>1, <1>5 DEF Types, DownloadInv, ContextInv
  <2>3. Types'
    BY <1>1, <1>2, <2>1, <2>2 DEF Types
  <2>4. Flags'
    BY <1>1, <1>2, <2>1 DEF Flags
  <2>5. ContextInv'
    BY <1>1, <1>2, <1>3, <1>5, <2>1 DEF ContextInv
  <2>6. DownloadInv'
    BY <1>1, <1>2, <1>3, <1>5, <2>1 DEF DownloadInv
  <2>7. DownloadIsComplete' /\ EndsInv' /\ UploadIsComplete' /\ UploadInv'
    BY <2>1, <2>2 DEF DownloadIsComplete, EndsInv, UploadIsComplete, UploadInv, UploadCounts,
                      UploadSecret, UploadPlain
  <2>8. FullReads => Bounds' /\ DigestInv'
    <3> SUFFICES ASSUME FullReads PROVE Bounds' /\ DigestInv'
      OBVIOUS
    <3>1. Bounds /\ DigestInv
      BY DEF IInv
    <3>2. Bounds'
      BY <1>2, <2>1, <3>1 DEF Bounds, NoDigest
    <3>3. DigestInv'
      BY <1>2, <2>1, <2>2, <3>1 DEF DigestInv, NoDigest
    <3> QED
      BY <3>2, <3>3
  <2> QED
    BY <2>3, <2>4, <2>5, <2>6, <2>7, <2>8 DEF IInv
<1>6. CASE StoreEnds /\ at = "flushing"
  <2>1. /\ at' = "closing" /\ outcome' = "done" /\ totalSize' = totalSize /\ pending = 0
        /\ digestBuffer' = IF digestContext THEN digested ELSE digestBuffer
    BY <1>6 DEF StoreEnds
  <2>2. digestContext' = FALSE
    BY <1>6 DEF StoreEnds
  <2>3. /\ digested \in Nat /\ digestBuffer \in Nat /\ size \in Nat /\ Len(out) \in Nat
        /\ Len(out) + pending = size /\ totalSize = WireSize
        /\ (digestContext => digested = size)
        /\ (fileTransfer => digestContext = digestComputation)
    BY <1>1, <1>6 DEF Types, DownloadInv, ContextInv
  <2>4. Types'
    BY <1>1, <1>2, <2>1, <2>3 DEF Types
  <2>5. Flags'
    BY <1>1, <1>2, <2>2 DEF Flags
  <2>6. digestContext => digestBuffer' = size
    BY <2>1, <2>3
  <2>7. DownloadIsComplete'
    BY <1>2, <1>3, <2>1, <2>3, <2>6 DEF DownloadIsComplete
  <2>8. ContextInv' /\ DownloadInv' /\ EndsInv' /\ UploadIsComplete' /\ UploadInv'
    BY <2>1 DEF ContextInv, DownloadInv, EndsInv, UploadIsComplete, UploadInv, UploadCounts,
                UploadSecret, UploadPlain
  <2>9. FullReads => Bounds' /\ DigestInv'
    <3> SUFFICES ASSUME FullReads PROVE Bounds' /\ DigestInv'
      OBVIOUS
    <3>1. Bounds /\ DigestInv
      BY DEF IInv
    <3>2. digestBuffer' <= NoDigest
      <4>1. size <= MaxSize /\ MaxSize \in Nat
        BY <1>1, WireFacts DEF Types
      <4>2. digestBuffer' = size \/ digestBuffer' = digestBuffer
        BY <2>1, <2>3
      <4> QED
        BY <2>3, <3>1, <4>1, <4>2 DEF Bounds, NoDigest
    <3>3. Bounds'
      BY <1>2, <2>1, <3>1, <3>2 DEF Bounds, NoDigest
    <3>4. digestBuffer' \in {size, digestBuffer}
      BY <2>1, <2>3
    <3>5. DigestInv'
      BY <1>2, <2>1, <3>1, <3>4 DEF DigestInv, NoDigest
    <3> QED
      BY <3>3, <3>5
  <2> QED
    BY <2>4, <2>5, <2>7, <2>8, <2>9 DEF IInv
<1> QED
  BY <1>4, <1>5, <1>6 DEF StoreEnds

\* A step that changes nothing, such as a write into a destination that is full.
LEMMA StutterKeeps ==
    ASSUME IInv, UNCHANGED vars
    PROVE  IInv'
<1>1. UNCHANGED <<password, digestComputation, capacity, at, size, fileTransfer, encryptionContext,
                  digestContext, held, digested, digestBuffer, pos, out, pending, currentLength,
                  totalSize, outcome>>
  BY DEF vars, optionVars, ctxVars
<1>2. WireSize' = WireSize /\ Secret' = Secret /\ Given' = Given
  BY <1>1 DEF WireSize, Secret, Given
<1>3. Types'
  BY <1>1 DEF IInv, Types
<1>4. Flags'
  BY <1>1 DEF IInv, Flags
<1>5. ContextInv' /\ DownloadInv' /\ DownloadIsComplete' /\ EndsInv'
  BY <1>1, <1>2 DEF IInv, ContextInv, DownloadInv, DownloadIsComplete, EndsInv
<1>6. FullReads => Bounds' /\ UploadIsComplete' /\ DigestInv'
  BY <1>1, <1>2 DEF IInv, Bounds, UploadIsComplete, DigestInv, NoDigest
<1>7. FullReads => UploadInv'
  BY <1>1, <1>2 DEF IInv, UploadInv, UploadCounts, UploadSecret, UploadPlain
<1> QED
  BY <1>3, <1>4, <1>5, <1>6, <1>7 DEF IInv

\* Every step keeps the invariant.
LEMMA NextIInv == IInv /\ [Next]_vars => IInv'
<1> SUFFICES ASSUME IInv, [Next]_vars PROVE IInv'
  OBVIOUS
<1>1. CASE Open("reading") \/ Open("writing")
  BY <1>1, OpenKeeps
<1>2. CASE ReadFromInputStream
  <2>1. PICK n \in ReadSizes :
          /\ at = "reading" /\ outcome # "end"
          /\ ReadEncrypted(n) \/ ReadPlain(n)
          /\ totalSize' = totalSize + Len(out') - Len(out)
          /\ UNCHANGED <<optionVars, at, size, fileTransfer, pending, currentLength>>
    BY <1>2 DEF ReadFromInputStream
  <2>2. CASE ReadEncrypted(n)
    BY <2>1, <2>2, ReadEncryptedKeeps
  <2>3. CASE ReadPlain(n)
    BY <2>1, <2>3, ReadPlainKeeps
  <2> QED
    BY <2>1, <2>2, <2>3
<1>3. CASE ReadFails \/ PeerAcknowledges
  BY <1>3, UploadEventsKeep
<1>4. CASE WriteToOutputStream
  BY <1>4, WriteKeeps
<1>5. CASE FlushOutputStream
  BY <1>5, FlushKeeps
<1>6. CASE StoreWrites
  BY <1>6, StoreWritesKeeps
<1>7. CASE StoreFails \/ StoreEnds
  BY <1>7, StoreEndsKeeps
<1>8. CASE OpenFails \/ Close
  BY <1>8, IdleKeeps
<1>9. CASE StoreWritesNothing \/ UNCHANGED vars
  BY <1>9, StutterKeeps DEF StoreWritesNothing
<1> QED
  BY <1>1, <1>2, <1>3, <1>4, <1>5, <1>6, <1>7, <1>8, <1>9 DEF Next, Upload, Download, Store

-----------------------------------------------------------------------------
(***************************************************************************)
(* What follows from the invariant.                                        *)
(***************************************************************************)
\* The invariant of the data path holds in every state the transfers reach.
THEOREM InvariantHolds == Spec => []IInv
  BY InitIInv, NextIInv, PTL DEF Spec

\* While streams that are encrypted return what they are asked for, every length, digest
\* and context of the data path stays in its range: none exceeds the padded size of the
\* largest file.
THEOREM TypeCorrect == FullReads => (Spec => []TypeOK)
<1> SUFFICES ASSUME FullReads PROVE Spec => []TypeOK
  OBVIOUS
<1>1. IInv => TypeOK
  <2> SUFFICES ASSUME IInv PROVE TypeOK
    OBVIOUS
  <2>1. Types /\ Flags /\ Bounds
    BY DEF IInv
  <2>2. MaxSize \in Nat /\ PaddedSize(MaxSize) \in Nat
    BY <2>1, WireFacts
  <2>3. /\ pos \in 0..PaddedSize(MaxSize) /\ pending \in 0..PaddedSize(MaxSize)
        /\ currentLength \in 0..PaddedSize(MaxSize) /\ totalSize \in 0..PaddedSize(MaxSize)
    BY <2>1, <2>2 DEF Types, Bounds
  <2>4. digested \in 0..MaxSize /\ digestBuffer \in 0..NoDigest
    BY <2>1, <2>2 DEF Types, Bounds, NoDigest
  <2> QED
    BY <2>1, <2>3, <2>4 DEF Types, Flags, TypeOK
<1> QED
  BY <1>1, InvariantHolds, PTL

\* readFromInputStream with a password: while streams return what they are asked for, no
\* byte of a file leaves unencrypted.
THEOREM UploadsAreSecret == FullReads => (Spec => []NothingInClear)
<1> SUFFICES ASSUME FullReads PROVE Spec => []NothingInClear
  OBVIOUS
<1>1. IInv => NothingInClear
  <2> SUFFICES ASSUME IInv PROVE NothingInClear
    OBVIOUS
  <2>1. UploadSecret /\ out \in Seq({"cipher", "clear"})
    BY DEF IInv, UploadInv, Types
  <2>2. DOMAIN out = 1..Len(out)
    BY <2>1
  <2> QED
    BY <2>1, <2>2 DEF NothingInClear, UploadSecret, Secret
<1> QED
  BY <1>1, InvariantHolds, PTL

\* An upload read to its end has sent the announced length, while streams return what they
\* are asked for.
THEOREM UploadsAreComplete == FullReads => (Spec => []UploadIsComplete)
<1> SUFFICES ASSUME FullReads PROVE Spec => []UploadIsComplete
  OBVIOUS
<1>1. IInv => UploadIsComplete
  BY DEF IInv
<1> QED
  BY <1>1, InvariantHolds, PTL

\* lastTransferDigestData: the digest is of the whole file, and with a password it is
\* there when the last byte leaves, while streams return what they are asked for.
THEOREM DigestsAreOfTheFile == FullReads => (Spec => []DigestIsOfWholeFile)
<1> SUFFICES ASSUME FullReads PROVE Spec => []DigestIsOfWholeFile
  OBVIOUS
<1>1. IInv => DigestIsOfWholeFile
  <2> SUFFICES ASSUME IInv, fileTransfer PROVE DigestIsOfWholeFile
    BY DEF DigestIsOfWholeFile
  <2>1. Types /\ Flags /\ DigestInv /\ UploadCounts /\ UploadSecret
    BY DEF IInv, UploadInv
  <2>2. ASSUME digestComputation, at = "reading", password = "set", Len(out) = WireSize
        PROVE  digestBuffer = size
    <3>1. Secret
      BY <2>2 DEF Secret
    <3>2. WireSize = PaddedSize(size) /\ size \in Nat
      BY <2>1, <3>1, WireFacts DEF Types
    <3>3. size < PaddedSize(size) /\ PaddedSize(size) \in Nat
      BY <3>2, PaddedFacts
    <3>4. CASE encryptionContext
      <4>1. Len(out) + held = pos /\ pos <= size /\ held >= 0 /\ held \in Int /\ pos \in Nat
        BY <2>1, <2>2, <3>1, <3>4, DataAssumption DEF UploadSecret, UploadCounts, Types
      <4>2. FALSE
        BY <2>2, <3>2, <3>3, <4>1
      <4> QED
        BY <4>2
    <3>5. CASE ~encryptionContext
      BY <2>1, <2>2, <3>1, <3>5 DEF UploadSecret, DigestInv
    <3> QED
      BY <3>4, <3>5
  <2> QED
    BY <2>1, <2>2 DEF DigestIsOfWholeFile, DigestInv
<1> QED
  BY <1>1, InvariantHolds, PTL

\* writeToOutputStream and flushOutputStream: a download that was flushed has stored the
\* whole file, in whatever pieces it came and the destination took it, has counted the
\* bytes on the wire and has its digest.
THEOREM DownloadsAreComplete == Spec => []DownloadIsComplete
<1>1. IInv => DownloadIsComplete
  BY DEF IInv
<1> QED
  BY <1>1, InvariantHolds, PTL
=============================================================================
