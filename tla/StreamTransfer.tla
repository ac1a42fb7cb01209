--------------------------- MODULE StreamTransfer ---------------------------
(***************************************************************************)
(* StreamTransferController in FileTransferController.m: one controller    *)
(* that runs transfers, one after the other, between a network stream      *)
(* (CFReadStream or CFWriteStream) and a data stream (file or memory).     *)
(*                                                                         *)
(* The asynchronous controllers (HTTP, FTP) wait for stream events in a    *)
(* private run loop mode that wakes up every kRunLoopInterval; the         *)
(* synchronous ones (local files) poll the stream's status.  A transfer is *)
(* abstracted to the Length bytes 1, 2, ... that it has to move; out is    *)
(* what has reached the other side.                                        *)
(***************************************************************************)
EXTENDS Integers, Sequences, SequencesExt

CONSTANTS
    Length,             \* bytes that a transfer has to move
    BufferSize,         \* kStreamBufferSize
    TimeOut,            \* timeOut in run loop intervals; 0 means none
    MaxLengthKnown,     \* is _maxLength > 0, so that progress is reported?
    CanAbort            \* does the delegate implement ShouldAbort?

ASSUME StreamAssumption ==
    /\ MaxLengthKnown \in BOOLEAN /\ CanAbort \in BOOLEAN
    /\ Length \in Nat /\ TimeOut \in Nat
    /\ BufferSize \in Nat \ {0}

VARIABLES
    useAsyncStreams,\* +useAsyncStreams of the controller's class
    at,             \* "idle", or where the method is: "run", "check", "leave"
    dir,            \* "read" (runReadStream) or "write" (runWriteStream)
    given,          \* is the argument dataStream not nil?
    stream,         \* the local variable: "null", "opening" or "opened"
    activeStream,   \* is _activeStream set, that is, the network stream retained?
    dataStream,     \* is _dataStream set, that is, open?
    net,            \* status of the network stream: "open", "ended" or "error"
    pos,            \* bytes taken from the source so far
    transferOffset, \* _transferOffset
    transferLength, \* _transferLength
    out,            \* the bytes that have reached the destination
    result,         \* _result: "nil" or "value"
    idle,           \* intervals since lastTime, as the loop computes it
    quiet,          \* intervals since the transfer started or an event came
    calls,          \* the delegate's callbacks, runs of progress collapsed
    cause,          \* history: "timeout", "abort", "released" or "none"
    ret             \* what the method returned: "nil", "value", or "none" yet

streamVars == <<activeStream, dataStream, result>>
netVars == <<net, pos, transferOffset, transferLength, out>>
timeVars == <<idle, quiet>>
vars == <<useAsyncStreams, at, dir, given, stream, streamVars, netVars, timeVars, calls, cause, ret>>

Least(a, b) == IF a < b THEN a ELSE b

\* The positions from+1 .. from+count of the data.
Bytes(from, count) == [i \in 1..count |-> from + i]

Init ==
    /\ useAsyncStreams \in BOOLEAN
    /\ at = "idle" /\ dir = "read" /\ given = FALSE /\ stream = "null"
    /\ activeStream = FALSE /\ dataStream = FALSE /\ result = "nil"
    /\ net = "open" /\ pos = 0 /\ transferOffset = 0 /\ transferLength = 0 /\ out = <<>>
    /\ idle = 0 /\ quiet = 0
    /\ calls = <<>> /\ cause = "none" /\ ret = "none"

-----------------------------------------------------------------------------
\* setCurrentLength: tells the delegate only when the total is known.
Progress(log) ==
    IF MaxLengthKnown /\ Last(log) # "progress" THEN Append(log, "progress") ELSE log

Failed(log) == Append(log, "fail")

\* invalidate: closes and forgets both streams.
Invalidate ==
    /\ activeStream' = FALSE
    /\ dataStream' = FALSE

\* The outcome is reported but not kept.
MutantDoneForgets(value) ==
    /\ Invalidate
    /\ result' = "nil"

\* _doneWithResult (the callers append its DidSucceed to calls).
DoneWithResult(value) ==
    /\ Invalidate
    /\ result' = value

\* The data stream does not open: the method returns and nobody is told.
RunFailsToOpen(d) ==
    /\ at = "idle"
    /\ dir' = d /\ given' = TRUE
    /\ calls' = <<>> /\ cause' = "none" /\ ret' = "nil"
    /\ UNCHANGED <<at, stream, streamVars, netVars, timeVars>>

\* runReadStream and runWriteStream up to the loop, with a data stream or without.
\* lastTime is 0.0, the epoch: longer ago than any time-out.
RunStarts(d) ==
    /\ at = "idle"
    /\ at' = "run" /\ dir' = d /\ given' \in BOOLEAN /\ stream' = "opening"
    /\ activeStream' = TRUE /\ dataStream' = given' /\ result' = "nil"
    /\ net' = "open" /\ pos' = 0 /\ out' = <<>>
    /\ transferOffset' = IF d = "write" THEN 0 ELSE transferOffset
    /\ idle' = TimeOut /\ quiet' = 0
    /\ calls' = <<"start">> /\ cause' = "none" /\ ret' = "none"
    /\ UNCHANGED transferLength

-----------------------------------------------------------------------------
(***************************************************************************)
(* readStreamClientCallBack:type:                                          *)
(***************************************************************************)

\* HasBytesAvailable.  The write to the data stream may fail; the length is
\* updated, and the delegate told, in either case.  Without a data stream the bytes
\* are dropped.
ReadHasBytes ==
    \E n \in 1..Least(BufferSize, Length - pos), written \in BOOLEAN :
        /\ net = "open"
        /\ pos' = pos + n
        /\ transferLength' = n
        /\ \/ /\ written
              /\ out' = IF dataStream THEN out \o Bytes(pos, n) ELSE out
              /\ calls' = Progress(calls)
              /\ UNCHANGED streamVars
           \/ /\ ~written /\ dataStream
              /\ calls' = Progress(Failed(calls))
              /\ DoneWithResult("nil")
              /\ UNCHANGED out
        /\ UNCHANGED <<net, transferOffset>>

\* HasBytesAvailable when CFReadStreamRead returns 0 at the end of the source, or
\* -1 on an error: nothing is done, the stream reports its status next.
ReadReturnsNothing ==
    /\ net = "open"
    /\ \/ pos = Length /\ net' = "ended" /\ transferLength' = 0
       \/ net' = "error" /\ transferLength' = -1
    /\ UNCHANGED <<pos, transferOffset, out, streamVars, calls>>

\* EndEncountered: flush, close, and let the subclass turn the data stream into a
\* result; without a data stream there is nothing to flush.
ReadEnd ==
    \E flushed, processed \in BOOLEAN :
        LET ok == (flushed \/ ~dataStream) /\ processed
        IN  /\ net = "ended"
            /\ calls' = IF ok THEN Append(calls, "succeed") ELSE Failed(calls)
            /\ DoneWithResult(IF ok THEN "value" ELSE "nil")
            /\ UNCHANGED netVars

-----------------------------------------------------------------------------
(***************************************************************************)
(* writeStreamClientCallBack:type:                                         *)
(***************************************************************************)

\* CanAcceptBytes when reading the next chunk from the data stream fails.
WriteReadFails ==
    /\ net = "open"
    /\ transferOffset = 0 /\ dataStream
    /\ calls' = Failed(calls)
    /\ DoneWithResult("nil")
    /\ transferLength' = -1
    /\ UNCHANGED <<net, pos, transferOffset, out>>

\* A partial write is taken for a complete one.
MutantWriteChunk(chunk, newPos) ==
    /\ transferLength' = chunk
    /\ pos' = newPos
    /\ \/ \E count \in 1..(chunk - transferOffset) :
            /\ out' = out \o Bytes(newPos - chunk + transferOffset, count)
            /\ transferOffset' = 0
            /\ calls' = Progress(calls)
            /\ UNCHANGED net
       \/ /\ net' = IF chunk = 0 THEN "ended" ELSE "error"
          /\ UNCHANGED <<out, transferOffset, calls>>

\* CFWriteStreamWrite takes any part of what is left of the chunk; an empty chunk
\* ends the stream; a failing write changes nothing, an error event follows.
WriteChunk(chunk, newPos) ==
    /\ transferLength' = chunk
    /\ pos' = newPos
    /\ \/ \E count \in 1..(chunk - transferOffset) :
            /\ out' = out \o Bytes(newPos - chunk + transferOffset, count)
            /\ transferOffset' = IF transferOffset + count = chunk
                                   THEN 0 ELSE transferOffset + count
            /\ calls' = Progress(calls)
            /\ UNCHANGED net
       \/ /\ net' = IF chunk = 0 THEN "ended" ELSE "error"
          /\ UNCHANGED <<out, transferOffset, calls>>

\* CanAcceptBytes: a new chunk is read when nothing of the last one is left; an
\* empty one at the end of the data, or without a data stream.
WriteCanAccept ==
    /\ net = "open"
    /\ \/ /\ transferOffset = 0 /\ pos < Length /\ dataStream
          /\ \E n \in 1..Least(BufferSize, Length - pos) : WriteChunk(n, pos + n)
       \/ /\ transferOffset = 0 /\ (pos = Length \/ ~dataStream)
          /\ WriteChunk(0, pos)
       \/ /\ transferOffset > 0
          /\ WriteChunk(transferLength, pos)
    /\ UNCHANGED streamVars

\* EndEncountered after the empty chunk.
WriteEnd ==
    /\ net = "ended"
    /\ calls' = Append(calls, "succeed")
    /\ DoneWithResult("value")
    /\ UNCHANGED netVars

-----------------------------------------------------------------------------
\* OpenCompleted: ignored by both callbacks.
OpenCompleted ==
    /\ net = "open" /\ stream = "opening"
    /\ stream' = "opened"
    /\ UNCHANGED <<streamVars, netVars, calls>>

\* HasBytesAvailable or CanAcceptBytes.
DataCallBack ==
    /\ stream = "opened"
    /\ \/ dir = "read" /\ (ReadHasBytes \/ ReadReturnsNothing)
       \/ dir = "write" /\ (WriteReadFails \/ WriteCanAccept)

\* EndEncountered.
EndCallBack ==
    \/ dir = "read" /\ ReadEnd
    \/ dir = "write" /\ WriteEnd

\* ErrorOccurred: the same in both directions.
ErrorCallBack ==
    /\ net' = "error"
    /\ calls' = Failed(calls)
    /\ DoneWithResult("nil")
    /\ UNCHANGED <<pos, transferOffset, transferLength, out>>

(***************************************************************************)
(* The asynchronous loop: CFRunLoopRunInMode handles one event, or returns *)
(* after kRunLoopInterval without any.  The connection may break at any    *)
(* time.                                                                   *)
(***************************************************************************)

RunLoopHandlesEvent ==
    /\ useAsyncStreams /\ at = "run"
    /\ \/ OpenCompleted
       \/ (DataCallBack \/ EndCallBack \/ ErrorCallBack) /\ UNCHANGED stream
    /\ at' = "check"
    /\ idle' = 0 /\ quiet' = 0
    /\ UNCHANGED <<dir, given, cause, ret>>

\* Every pass of the loop refreshes lastTime.
MutantRunLoopTimesOut ==
    /\ useAsyncStreams /\ at = "run"
    /\ at' = "check"
    /\ idle' = 0
    /\ quiet' = Least(quiet + 1, TimeOut)
    /\ UNCHANGED <<dir, given, stream, streamVars, netVars, calls, cause, ret>>

\* No event for one interval: fail when lastTime is timeOut ago.
RunLoopTimesOut ==
    /\ useAsyncStreams /\ at = "run"
    /\ idle' = Least(idle + 1, TimeOut)
    /\ quiet' = Least(quiet + 1, TimeOut)
    /\ IF TimeOut > 0 /\ idle + 1 >= TimeOut
         THEN at' = "leave" /\ calls' = Failed(calls) /\ cause' = "timeout"
         ELSE at' = "check" /\ UNCHANGED <<calls, cause>>
    /\ UNCHANGED <<dir, given, stream, streamVars, netVars, ret>>

\* The end of a pass: ShouldAbort is asked whatever the pass did, then the loop
\* ends if the streams are gone.
RunLoopChecks ==
    /\ useAsyncStreams /\ at = "check"
    /\ \/ CanAbort /\ cause' = "abort" /\ at' = "leave"
       \/ at' = (IF activeStream THEN "run" ELSE "leave") /\ UNCHANGED cause
    /\ UNCHANGED <<dir, given, stream, streamVars, netVars, timeVars, calls, ret>>

(***************************************************************************)
(* The synchronous loop.  The local variable is cleared in the end, error  *)
(* and closed cases only.                                                  *)
(***************************************************************************)

PollOpen ==
    /\ ~useAsyncStreams /\ at = "run" /\ activeStream
    /\ OpenCompleted \/ (DataCallBack /\ UNCHANGED stream)
    /\ at' = "check"
    /\ UNCHANGED <<dir, given, timeVars, cause, ret>>

PollDone ==
    /\ ~useAsyncStreams /\ at = "run" /\ activeStream
    /\ EndCallBack \/ (net # "ended" /\ ErrorCallBack)
    /\ stream' = "null"
    /\ at' = "check"
    /\ UNCHANGED <<dir, given, timeVars, cause, ret>>

\* The data callback has released the stream, and the loop reads the status of a
\* freed object.  That is undefined: the status may be any, and with an open one the
\* data callback finds no data stream and the loop goes on.
PollReleased ==
    /\ ~useAsyncStreams /\ at = "run" /\ ~activeStream
    /\ \/ transferLength' \in -1..BufferSize
          /\ UNCHANGED <<stream, streamVars, net, pos, transferOffset, out, calls>>
       \/ stream' = "null" /\ UNCHANGED <<streamVars, netVars, calls>>
       \/ stream' = "null" /\ ErrorCallBack
       \/ /\ stream' = "null" /\ net' = "ended"
          /\ \E ok \in (IF dir = "read" THEN BOOLEAN ELSE {TRUE}) :
               /\ calls' = IF ok THEN Append(calls, "succeed") ELSE Failed(calls)
               /\ DoneWithResult(IF ok THEN "value" ELSE "nil")
          /\ UNCHANGED <<pos, transferOffset, transferLength, out>>
    /\ at' = "check"
    /\ cause' = "released"
    /\ UNCHANGED <<dir, given, timeVars, ret>>

\* ShouldAbort is asked only if the loop would go on.
PollChecks ==
    /\ ~useAsyncStreams /\ at = "check"
    /\ \/ stream = "null" /\ at' = "leave" /\ UNCHANGED cause
       \/ stream # "null" /\ at' = "run" /\ UNCHANGED cause
       \/ stream # "null" /\ CanAbort /\ at' = "leave" /\ cause' = "abort"
    /\ UNCHANGED <<dir, given, stream, streamVars, netVars, timeVars, calls, ret>>

\* The result is handed over and the streams are closed, if they still are open.
Leave ==
    /\ at = "leave"
    /\ at' = "idle"
    /\ ret' = result
    /\ result' = "nil"
    /\ Invalidate
    /\ UNCHANGED <<dir, given, stream, netVars, timeVars, calls, cause>>

-----------------------------------------------------------------------------
Transfer ==
    /\ \/ RunLoopHandlesEvent \/ RunLoopTimesOut \/ RunLoopChecks
       \/ PollOpen \/ PollDone \/ PollReleased \/ PollChecks
       \/ Leave
    /\ UNCHANGED useAsyncStreams

Next ==
    \/ \E d \in {"read", "write"} :
          (RunFailsToOpen(d) \/ RunStarts(d)) /\ UNCHANGED useAsyncStreams
    \/ Transfer

Spec == Init /\ [][Next]_vars

\* The thread that runs the transfer is scheduled and CFRunLoopRunInMode returns
\* within its interval.  No event has to come, and no transfer has to be started.
FairSpec == Spec /\ WF_vars(Transfer)

-----------------------------------------------------------------------------
\* Types of the fields and locals of the transfer loops.
TypeOK ==
    /\ useAsyncStreams \in BOOLEAN
    /\ at \in {"idle", "run", "check", "leave"}
    /\ dir \in {"read", "write"} /\ given \in BOOLEAN
    /\ stream \in {"null", "opening", "opened"}
    /\ activeStream \in BOOLEAN /\ dataStream \in BOOLEAN
    /\ result \in {"nil", "value"}
    /\ net \in {"open", "ended", "error"}
    /\ pos \in 0..Length
    /\ transferLength \in -1..BufferSize /\ transferOffset \in 0..BufferSize
    /\ out \in Seq(Nat)
    /\ idle \in 0..TimeOut /\ quiet \in 0..TimeOut
    /\ calls \in Seq({"start", "progress", "succeed", "fail"})
    /\ cause \in {"none", "timeout", "abort", "released"}
    /\ ret \in {"none", "nil", "value"}

Delivered(message) == \E i \in DOMAIN calls : calls[i] = message

Outcomes == {i \in DOMAIN calls : calls[i] \in {"succeed", "fail"}}

\* A delegate hears of one outcome at most, whichever way events, time-outs and
\* aborts interleave, and the value returned agrees with it: a value after
\* DidSucceed, nil after DidFail or, if neither was sent, only because of an abort
\* or of a data stream that did not open.  The exception is a synchronous loop that
\* polls a released stream.
ReturnTellsOutcome ==
    /\ Cardinality(Outcomes) <= 1 \/ cause = "released"
    /\ ret = "value" => Delivered("succeed")
    /\ ret = "nil" => ~Delivered("succeed") \/ cause = "released"
    /\ ret = "nil" /\ Delivered("start") => Delivered("fail") \/ cause = "abort"

\* Bytes there are to move: none without a data stream.
Size == IF given THEN Length ELSE 0

\* Partial writes, refilled buffers and earlier transfers that ended in the middle
\* of a chunk never lose, repeat or reorder a byte, and DidSucceed means that all
\* of them have arrived.
DataIsComplete ==
    /\ out = Bytes(0, Len(out))
    /\ Delivered("succeed") /\ cause # "released" => Len(out) = Size

\* Once the stream has opened, a transfer fails with a time-out exactly when no
\* event came for timeOut: not before and not after.
TimeOutIsExact ==
    /\ cause = "timeout" /\ stream = "opened" => quiet >= TimeOut
    /\ at = "run" /\ useAsyncStreams /\ TimeOut > 0 => quiet < TimeOut

\* A transfer with a time-out always returns, even from a peer that goes silent,
\* unless the synchronous loop polls a released stream.
TransferReturns == at # "idle" ~> at = "idle" \/ cause = "released"

=============================================================================
