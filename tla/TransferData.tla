---------------------------- MODULE TransferData ----------------------------
(***************************************************************************)
(* The data path of FileTransferController.m: what openInputStream,        *)
(* readFromInputStream and closeInputStream make of a file that is         *)
(* uploaded, and openOutputStream, writeToOutputStream, flushOutputStream  *)
(* and closeOutputStream of one that is downloaded, with the block cipher  *)
(* and the digest they drive on the way.                                   *)
(*                                                                         *)
(* Bytes are counted, not named: the cipher turns every Block bytes into   *)
(* Block bytes and pads the last block, the digest covers a prefix of the  *)
(* file.  What is told apart is whether a byte left encrypted or not.      *)
(***************************************************************************)
EXTENDS Naturals, Sequences

CONSTANTS
    MaxSize,            \* bound on the size of a file
    Block,              \* kEncryptionCipherBlockSize
    ChunkSize,          \* most bytes asked of, or received from, a stream at once
    Passwords,          \* kinds of encryptionPassword that are used
    ShortReads,         \* kinds for which a stream may return less than it was asked
    Capacities          \* room in the destination of a download

ASSUME DataAssumption ==
    /\ MaxSize \in Nat /\ Capacities \subseteq Nat /\ Capacities # {}
    /\ Block \in Nat \ {0} /\ ChunkSize \in Nat /\ ChunkSize >= Block
    /\ Passwords \subseteq {"none", "empty", "set"} /\ ShortReads \subseteq Passwords

NoDigest == MaxSize + 1

VARIABLES
    at,                 \* "idle", "reading", "writing", "storing", "flushing", "closing"
    password,           \* encryptionPassword: "none", "empty" or "set"
    digestComputation,  \* digestComputation
    capacity,           \* room in the destination
    size,               \* the size of the data
    fileTransfer,       \* _fileTransfer: a file, not a listing
    encryptionContext,  \* is _encryptionContext allocated?
    digestContext,      \* is _digestContext allocated?
    pos,                \* bytes taken from the source so far
    held,               \* bytes the cipher keeps until it has a whole block
    digested,           \* bytes that went through the digest
    digestBuffer,       \* _digestBuffer: the bytes it covers, or NoDigest
    out,                \* "cipher" or "clear" for each byte that has left
    pending,            \* bytes the store loop still has to write
    currentLength,      \* _currentLength: bytes the peer is known to have
    totalSize,          \* _totalSize
    outcome             \* "none", "end" (read to the end), "done" (flushed), "failed"

optionVars == <<password, digestComputation, capacity>>
ctxVars == <<encryptionContext, digestContext, held, digested, digestBuffer>>
vars == <<at, optionVars, size, fileTransfer, ctxVars, pos, out, pending, currentLength, totalSize, outcome>>

Least(a, b) == IF a < b THEN a ELSE b

Copies(what, n) == [i \in 1..n |-> what]

\* No padding for a file that fills its last block.
MutantPaddedSize(n) == ((n + Block - 1) \div Block) * Block

\* What the padding makes of a size, as the upload methods compute maxLength.
PaddedSize(n) == (n \div Block + 1) * Block

\* Bytes on the wire for the current data: only files are encrypted.
WireSize == IF fileTransfer /\ password = "set" THEN PaddedSize(size) ELSE size

Init ==
    /\ password = "none" /\ digestComputation = FALSE /\ capacity = MaxSize
    /\ at = "idle" /\ size = 0 /\ fileTransfer = FALSE
    /\ encryptionContext = FALSE /\ digestContext = FALSE
    /\ held = 0 /\ digested = 0 /\ digestBuffer = NoDigest
    /\ pos = 0 /\ out = <<>> /\ pending = 0 /\ currentLength = 0 /\ totalSize = 0
    /\ outcome = "none"

-----------------------------------------------------------------------------
\* encryptionPassword and digestComputation may be set between transfers.
SetOptions ==
    /\ password' \in Passwords
    /\ digestComputation' \in BOOLEAN
    /\ capacity' \in Capacities

\* _createDigestContext and _createCypherContext.
CreateContexts ==
    /\ digestBuffer' = NoDigest
    /\ digestContext' = digestComputation'
    /\ encryptionContext' = (password' = "set")
    /\ held' = 0 /\ digested' = 0

\* openInputStream or openOutputStream: the contexts are for files only.
Open(to) ==
    \E n \in 0..MaxSize, file \in BOOLEAN :
        /\ at = "idle"
        /\ at' = to
        /\ SetOptions
        /\ size' = n /\ fileTransfer' = file
        /\ \/ file /\ password' # "empty" /\ CreateContexts
           \/ ~file /\ UNCHANGED ctxVars
        /\ pos' = 0 /\ out' = <<>> /\ pending' = 0 /\ currentLength' = 0
        /\ totalSize' = 0
        /\ outcome' = "none"

\* An open that fails: a password without bytes cannot be used, and leaves the
\* digest context behind; a stream that does not open leaves nothing.
OpenFails ==
    /\ at = "idle"
    /\ SetOptions
    /\ fileTransfer' \in BOOLEAN
    /\ \/ fileTransfer' /\ digestBuffer' = NoDigest /\ digested' = 0
       \/ ~fileTransfer' /\ UNCHANGED <<digestBuffer, digested>>
    /\ digestContext' = (fileTransfer' /\ digestComputation' /\ password' = "empty")
    /\ encryptionContext' = FALSE
    /\ totalSize' = 0
    /\ outcome' = "failed"
    /\ UNCHANGED <<at, size, held, pos, out, pending, currentLength>>

\* closeInputStream or closeOutputStream, after the transfer has ended, failed or
\* been given up in the middle.
Close ==
    /\ at \in {"reading", "writing", "closing"}
    /\ at' = "idle"
    /\ encryptionContext' = FALSE /\ digestContext' = FALSE
    /\ UNCHANGED <<optionVars, size, fileTransfer, held, digested, digestBuffer, pos, out, pending, currentLength,
                   totalSize, outcome>>

-----------------------------------------------------------------------------
(***************************************************************************)
(* readFromInputStream: the next bytes to upload.                          *)
(***************************************************************************)

\* What the stream may return when asked for ChunkSize bytes.
ReadSizes ==
    LET left == Least(ChunkSize, size - pos)
    IN  IF password \in ShortReads /\ left > 0 THEN 1..left ELSE {left}

\* A read that fills its blocks exactly is taken for the last one.
MutantReadEncrypted(n) ==
    LET whole == ((held + n) \div Block) * Block
        final == whole = held + n
    IN  /\ encryptionContext
        /\ pos' = pos + n
        /\ digested' = IF digestContext THEN digested + n ELSE digested
        /\ held' = IF final THEN 0 ELSE held + n - whole
        /\ out' = out \o Copies("cipher", IF final THEN whole + Block ELSE whole)
        /\ encryptionContext' = ~final
        /\ digestContext' = (digestContext /\ ~final)
        /\ digestBuffer' = IF final /\ digestContext THEN digested + n ELSE digestBuffer
        /\ outcome' = outcome

\* The encrypted branch.  It ends the encryption when the stream is at its end,
\* and also when the cipher has returned nothing for the bytes it was given.
ReadEncrypted(n) ==
    LET whole == ((held + n) \div Block) * Block
        final == whole = 0
    IN  /\ encryptionContext
        /\ pos' = pos + n
        /\ digested' = IF digestContext THEN digested + n ELSE digested
        /\ held' = IF final THEN 0 ELSE held + n - whole
        /\ out' = out \o Copies("cipher", IF final THEN Block ELSE whole)
        /\ encryptionContext' = ~final
        /\ digestContext' = (digestContext /\ ~final)
        /\ digestBuffer' = IF final /\ digestContext THEN digested + n ELSE digestBuffer
        /\ outcome' = outcome

\* Forgotten update: the bytes of the last read are not in the digest.
MutantReadPlain(n) ==
    LET final == digestContext /\ (n = 0 \/ currentLength + n = WireSize)
    IN  /\ ~encryptionContext
        /\ pos' = pos + n
        /\ digested' = IF digestContext /\ ~final THEN digested + n ELSE digested
        /\ out' = out \o Copies("clear", n)
        /\ digestContext' = (digestContext /\ ~final)
        /\ digestBuffer' = IF final THEN digested' ELSE digestBuffer
        /\ outcome' = IF n = 0 THEN "end" ELSE outcome
        /\ UNCHANGED <<encryptionContext, held>>

\* The plain branch.  The digest is final at the end of the stream, or when the
\* bytes the peer is known to have and these make the whole file.
ReadPlain(n) ==
    LET final == digestContext /\ (n = 0 \/ currentLength + n = WireSize)
    IN  /\ ~encryptionContext
        /\ pos' = pos + n
        /\ digested' = IF digestContext THEN digested + n ELSE digested
        /\ out' = out \o Copies("clear", n)
        /\ digestContext' = (digestContext /\ ~final)
        /\ digestBuffer' = IF final THEN digested' ELSE digestBuffer
        /\ outcome' = IF n = 0 THEN "end" ELSE outcome
        /\ UNCHANGED <<encryptionContext, held>>

ReadFromInputStream ==
    \E n \in ReadSizes :
        /\ at = "reading" /\ outcome # "end"
        /\ ReadEncrypted(n) \/ ReadPlain(n)
        /\ totalSize' = totalSize + Len(out') - Len(out)
        /\ UNCHANGED <<optionVars, at, size, fileTransfer, pending, currentLength>>

\* The stream reports an error: -1, and the transfer will be closed.
ReadFails ==
    /\ at = "reading" /\ outcome # "end"
    /\ at' = "closing"
    /\ outcome' = "failed"
    /\ UNCHANGED <<optionVars, size, fileTransfer, ctxVars, pos, out, pending, currentLength, totalSize>>

\* setCurrentLength by the subclass, possibly long after the bytes have left.
PeerAcknowledges ==
    /\ at = "reading"
    /\ \E n \in currentLength + 1 .. Len(out) : currentLength' = n
    /\ UNCHANGED <<optionVars, at, size, fileTransfer, ctxVars, pos, out, pending, totalSize, outcome>>

-----------------------------------------------------------------------------
(***************************************************************************)
(* writeToOutputStream and flushOutputStream: bytes that were downloaded.  *)
(***************************************************************************)

\* The decrypted bytes that t received bytes give before the final call: the
\* cipher always keeps the last block, which may be padding.
Decrypted(t) == IF t = 0 THEN 0 ELSE ((t - 1) \div Block) * Block

\* n bytes have arrived: decrypt, digest, then store.  Nothing is stored if the
\* cipher gave nothing.
WriteToOutputStream ==
    \E n \in 1..Least(ChunkSize, WireSize - pos) :
        LET real == IF encryptionContext THEN Decrypted(pos + n) - Decrypted(pos) ELSE n
        IN  /\ at = "writing"
            /\ pos' = pos + n
            /\ digested' = IF digestContext THEN digested + real ELSE digested
            /\ pending' = real
            /\ totalSize' = IF real > 0 THEN totalSize ELSE totalSize + n
            /\ at' = IF real > 0 THEN "storing" ELSE "writing"
            /\ UNCHANGED <<optionVars, size, fileTransfer, encryptionContext, digestContext, held, digestBuffer, out,
                           currentLength, outcome>>

\* flushOutputStream when the peer has sent everything: the cipher's last bytes
\* are still to be stored, and are in the digest once they are.  The padding may turn
\* out to be wrong.
FlushOutputStream ==
    /\ at = "writing" /\ pos = WireSize
    /\ \/ /\ pending' = IF encryptionContext THEN size - Decrypted(pos) ELSE 0
          /\ digested' = IF digestContext THEN digested + pending' ELSE digested
          /\ at' = "flushing"
          /\ UNCHANGED <<digestContext, outcome>>
       \/ /\ encryptionContext
          /\ at' = "closing"
          /\ outcome' = "failed"
          /\ digestContext' = FALSE
          /\ UNCHANGED <<pending, digested>>
    /\ encryptionContext' = FALSE
    /\ UNCHANGED <<optionVars, size, fileTransfer, held, digestBuffer, pos, out, currentLength, totalSize>>

\* A short write is taken for a complete one.
MutantStoreWrites ==
    /\ at \in {"storing", "flushing"} /\ pending > 0
    /\ \E n \in 1..Least(pending, capacity - Len(out)) :
         /\ out' = out \o Copies("clear", n)
         /\ pending' = 0
    /\ UNCHANGED <<optionVars, at, size, fileTransfer, ctxVars, pos, currentLength, totalSize, outcome>>

\* One write of the store loop: the destination takes some of the bytes.
StoreWrites ==
    /\ at \in {"storing", "flushing"} /\ pending > 0
    /\ \E n \in 1..Least(pending, capacity - Len(out)) :
         /\ out' = out \o Copies("clear", n)
         /\ pending' = pending - n
    /\ UNCHANGED <<optionVars, at, size, fileTransfer, ctxVars, pos, currentLength, totalSize, outcome>>

\* One write of the store loop into a destination that is full.  DataWriteStream
\* returns 0, which is not an error, and the loop asks again.
StoreWritesNothing ==
    /\ at \in {"storing", "flushing"} /\ pending > 0
    /\ Len(out) = capacity
    /\ UNCHANGED vars

\* The destination reports an error.
StoreFails ==
    /\ at \in {"storing", "flushing"} /\ pending > 0 /\ Len(out) < capacity
    /\ at' = "closing"
    /\ outcome' = "failed"
    /\ digestContext' = (digestContext /\ at = "storing")
    /\ UNCHANGED <<optionVars, size, fileTransfer, encryptionContext, held, digested, digestBuffer, pos, out, pending,
                   currentLength, totalSize>>

\* Off by one: the loop goes on while the count is not negative.
MutantStoreEnds ==
    /\ at \in {"storing", "flushing"} /\ pending = 0
    /\ UNCHANGED vars

\* Everything is stored: the bytes that have arrived are counted, and at the flush
\* the digest is final.
StoreEnds ==
    /\ pending = 0
    /\ \/ /\ at = "storing"
          /\ at' = "writing"
          /\ totalSize' = pos
          /\ UNCHANGED <<digestContext, digestBuffer, outcome>>
       \/ /\ at = "flushing"
          /\ at' = "closing"
          /\ digestBuffer' = IF digestContext THEN digested ELSE digestBuffer
          /\ digestContext' = FALSE
          /\ outcome' = "done"
          /\ UNCHANGED totalSize
    /\ UNCHANGED <<optionVars, size, fileTransfer, encryptionContext, held, digested, pos, out, pending,
                   currentLength>>

-----------------------------------------------------------------------------
Upload == Open("reading") \/ ReadFromInputStream \/ ReadFails \/ PeerAcknowledges

Store == StoreWrites \/ StoreWritesNothing \/ StoreFails \/ StoreEnds

Download == Open("writing") \/ WriteToOutputStream \/ FlushOutputStream \/ Store

Next == Upload \/ Download \/ OpenFails \/ Close

Spec == Init /\ [][Next]_vars

\* The thread in the store loop keeps running.
FairSpec == Spec /\ WF_vars(Store)

-----------------------------------------------------------------------------
\* Types of the contexts, lengths and streams of the data path.
TypeOK ==
    /\ at \in {"idle", "reading", "writing", "storing", "flushing", "closing"}
    /\ password \in {"none", "empty", "set"} /\ digestComputation \in BOOLEAN /\ capacity \in Nat
    /\ size \in 0..MaxSize
    /\ encryptionContext \in BOOLEAN /\ digestContext \in BOOLEAN
    /\ pos \in 0..PaddedSize(MaxSize)
    /\ held \in 0..Block - 1
    /\ digested \in 0..MaxSize /\ digestBuffer \in 0..NoDigest
    /\ out \in Seq({"cipher", "clear"})
    /\ pending \in 0..PaddedSize(MaxSize)
    /\ currentLength \in 0..PaddedSize(MaxSize) /\ totalSize \in 0..PaddedSize(MaxSize)
    /\ outcome \in {"none", "end", "done", "failed"}

\* "Enables on-the-fly AES-256 encryption" (FileTransferController.h:109): with a
\* password no byte of an uploaded file leaves unencrypted.
NothingInClear ==
    at = "reading" /\ fileTransfer /\ password = "set" =>
        \A i \in DOMAIN out : out[i] = "cipher"

\* An upload that was read to its end sent exactly the number of bytes that the
\* upload methods announced as its length.
UploadIsComplete == outcome = "end" => pos = size /\ Len(out) = WireSize

\* lastTransferDigestData is the digest of the whole file or of nothing, however
\* late the subclass updates the current length, and with a password it is there as
\* soon as the announced bytes have left, even if the peer asks for no more.
DigestIsOfWholeFile ==
    fileTransfer =>
        /\ digestBuffer \in {size, NoDigest}
        /\ digestComputation /\ outcome = "end" => digestBuffer = size
        /\ digestComputation /\ at = "reading" /\ password = "set" /\ Len(out) = WireSize
             => digestBuffer = size

\* A download that was flushed stored the whole file, counted the bytes on the wire
\* and, if asked for, has its digest.
DownloadIsComplete ==
    outcome = "done" =>
        /\ Len(out) = size /\ totalSize = WireSize
        /\ fileTransfer /\ digestComputation => digestBuffer = size

\* Storing what was downloaded ends, with success or with an error ("Return -1 on
\* error", FileTransferController.h:133); the exception is a destination without
\* room, a full DataWriteStream, where the loop never returns.
StoreReturns ==
    at \in {"storing", "flushing"} ~>
        at \notin {"storing", "flushing"} \/ Len(out) = capacity

=============================================================================
