------------------------ MODULE StreamTransferProofs ------------------------
(***************************************************************************)
(* Proofs that the transfer loops of StreamTransferController report one   *)
(* outcome, move every byte once and time out exactly when they should,    *)
(* for every length, buffer size and time-out.                             *)
(***************************************************************************)
EXTENDS StreamTransfer, FiniteSetTheorems, SequenceTheorems, TLAPS

Message == {"start", "progress", "succeed", "fail"}

Has(log, message) == \E i \in DOMAIN log : log[i] = message

\* The log reports one outcome at most.
Single(log) ==
    \A i, j \in DOMAIN log :
        log[i] \in {"succeed", "fail"} /\ log[j] \in {"succeed", "fail"} => i = j

\* A loop that polled a released stream and has stopped for it.
Freed == cause = "released" /\ stream = "null"

\* The clocks of the loop: lastTime is never later than the last event and, once
\* the stream has opened, is the time of the last event.
ClockInv ==
    /\ quiet <= idle
    /\ useAsyncStreams /\ stream = "opened" => quiet = idle
    /\ useAsyncStreams /\ TimeOut > 0 /\ at \in {"run", "check"} => quiet < TimeOut
    /\ cause = "timeout" => useAsyncStreams /\ idle = TimeOut

\* Where the loop is and which streams it holds.
LoopInv ==
    /\ at = "idle" => ~activeStream
    /\ at # "idle" => ret = "none" /\ Has(calls, "start")
    /\ at \in {"run", "check"} => cause \in {"none", "released"}
    /\ useAsyncStreams => cause # "released"
    /\ cause = "released" => ~activeStream
    /\ at = "run" /\ useAsyncStreams => activeStream
    /\ at = "run" /\ ~useAsyncStreams => stream # "null"
    /\ ~useAsyncStreams /\ at # "idle" /\ stream = "null" => ~activeStream
    /\ at = "leave" /\ activeStream => cause \in {"timeout", "abort"}

\* What the delegate has heard, and what will be returned.
OutcomeInv ==
    /\ activeStream =>
         result = "nil" /\ ~Has(calls, "succeed") /\ (cause # "timeout" => ~Has(calls, "fail"))
    /\ Single(calls) \/ Freed
    /\ at # "idle" /\ result = "value" => Has(calls, "succeed") /\ ~activeStream
    /\ at # "idle" /\ result = "nil" => ~Has(calls, "succeed") \/ Freed
    /\ at # "idle" /\ result = "nil" /\ ~activeStream => Has(calls, "fail")
    /\ at # "idle" /\ ~useAsyncStreams /\ ~activeStream /\ stream # "null" =>
         result = "nil" /\ ~Has(calls, "succeed")
    /\ cause = "timeout" => Has(calls, "fail") /\ ~Has(calls, "succeed")
    /\ at = "idle" => result = "nil"
    /\ ret = "value" => Has(calls, "succeed")
    /\ ret = "nil" => ~Has(calls, "succeed") \/ Freed
    /\ ret = "nil" /\ Has(calls, "start") => Has(calls, "fail") \/ cause = "abort"

\* How much has arrived of what was taken from the source: a chunk that has been
\* written in part is the last transferLength bytes taken.
DataInv ==
    /\ out = Bytes(0, Len(out))
    /\ activeStream => (dataStream <=> given)
    /\ ~given => Len(out) = 0
    /\ activeStream /\ ~given /\ dir = "write" => transferOffset = 0
    /\ activeStream /\ net # "error" =>
         \/ dir = "read" /\ (given => Len(out) = pos)
         \/ dir = "write" /\ transferOffset = 0 /\ Len(out) = pos
         \/ /\ dir = "write" /\ 0 < transferOffset /\ transferOffset < transferLength
            /\ Len(out) = pos - transferLength + transferOffset
    /\ activeStream /\ net = "ended" => Len(out) = Size
    /\ Has(calls, "succeed") => Len(out) = Size \/ Freed

IInv == TypeOK /\ ClockInv /\ LoopInv /\ OutcomeInv /\ DataInv

-----------------------------------------------------------------------------
\* What appending one message does to a log.
LEMMA AppendLog ==
    ASSUME NEW log \in Seq(Message), NEW message \in Message
    PROVE  /\ Append(log, message) \in Seq(Message)
           /\ Append(log, message) # <<>>
           /\ \A m : Has(Append(log, message), m) <=> Has(log, m) \/ message = m
           /\ message \notin {"succeed", "fail"} => Single(Append(log, message)) = Single(log)
           /\ ~Has(log, "succeed") /\ ~Has(log, "fail") => Single(Append(log, message))
<1> DEFINE new == Append(log, message)
<1>1. /\ new \in Seq(Message) /\ Len(new) = Len(log) + 1 /\ new # <<>>
      /\ DOMAIN new = 1..(Len(log) + 1) /\ DOMAIN log = 1..Len(log) /\ Len(log) \in Nat
      /\ \A i \in 1..Len(log) : new[i] = log[i]
      /\ new[Len(log) + 1] = message
  OBVIOUS
<1> HIDE DEF new
<1>2. ASSUME NEW m
      PROVE  Has(new, m) <=> Has(log, m) \/ message = m
  <2>1. Has(log, m) => Has(new, m)
    BY <1>1 DEF Has
  <2>2. message = m => Has(new, m)
    BY <1>1 DEF Has
  <2>3. Has(new, m) => Has(log, m) \/ message = m
    BY <1>1 DEF Has
  <2> QED
    BY <2>1, <2>2, <2>3
<1>3. ASSUME message \notin {"succeed", "fail"}
      PROVE  Single(new) = Single(log)
  <2>1. Single(new) => Single(log)
    BY <1>1 DEF Single
  <2>2. Single(log) => Single(new)
    BY <1>1, <1>3 DEF Single
  <2>3. Single(new) \in BOOLEAN /\ Single(log) \in BOOLEAN
    BY DEF Single
  <2> QED
    BY <2>1, <2>2, <2>3
<1>4. ASSUME ~Has(log, "succeed"), ~Has(log, "fail")
      PROVE  Single(new)
  BY <1>1, <1>4 DEF Single, Has
<1> QED
  BY <1>1, <1>2, <1>3, <1>4 DEF new

\* Failed reports a failure, Progress reports no outcome.
LEMMA LogFacts ==
    ASSUME NEW log \in Seq(Message)
    PROVE  /\ Failed(log) \in Seq(Message)
           /\ \A m : Has(Failed(log), m) <=> Has(log, m) \/ m = "fail"
           /\ ~Has(log, "succeed") /\ ~Has(log, "fail") => Single(Failed(log))
           /\ Append(log, "succeed") \in Seq(Message)
           /\ \A m : Has(Append(log, "succeed"), m) <=> Has(log, m) \/ m = "succeed"
           /\ ~Has(log, "succeed") /\ ~Has(log, "fail") => Single(Append(log, "succeed"))
           /\ Progress(log) \in Seq(Message)
           /\ \A m : m # "progress" => (Has(Progress(log), m) <=> Has(log, m))
           /\ Single(Progress(log)) = Single(log)
<1>1. Failed(log) = Append(log, "fail")
  BY DEF Failed
<1>2. Progress(log) = Append(log, "progress") \/ Progress(log) = log
  BY DEF Progress
<1>3. {"fail", "succeed", "progress"} \subseteq Message
  BY DEF Message
<1>4. /\ Failed(log) \in Seq(Message)
      /\ \A m : Has(Failed(log), m) <=> Has(log, m) \/ m = "fail"
      /\ ~Has(log, "succeed") /\ ~Has(log, "fail") => Single(Failed(log))
  BY <1>1, <1>3, AppendLog
<1>5. /\ Append(log, "succeed") \in Seq(Message)
      /\ \A m : Has(Append(log, "succeed"), m) <=> Has(log, m) \/ m = "succeed"
      /\ ~Has(log, "succeed") /\ ~Has(log, "fail") => Single(Append(log, "succeed"))
  BY <1>3, AppendLog
<1>6. /\ Append(log, "progress") \in Seq(Message)
      /\ \A m : Has(Append(log, "progress"), m) <=> Has(log, m) \/ m = "progress"
      /\ Single(Append(log, "progress")) = Single(log)
  BY <1>3, AppendLog
<1>7. /\ Progress(log) \in Seq(Message)
      /\ \A m : m # "progress" => (Has(Progress(log), m) <=> Has(log, m))
      /\ Single(Progress(log)) = Single(log)
  BY <1>2, <1>6
<1> QED
  BY <1>4, <1>5, <1>7

\* Bytes that continue a prefix of the data make a longer prefix.
LEMMA BytesExtend ==
    ASSUME NEW n \in Nat, NEW count \in Nat
    PROVE  /\ Bytes(0, n) \in Seq(Nat) /\ Len(Bytes(0, n)) = n
           /\ Bytes(0, n) \o Bytes(n, count) = Bytes(0, n + count)
<1>1. \A a, b \in Nat : Bytes(a, b) \in Seq(Nat) /\ Len(Bytes(a, b)) = b
  BY DEF Bytes
<1>2. /\ Bytes(0, n) \in Seq(Nat) /\ Len(Bytes(0, n)) = n
      /\ Bytes(n, count) \in Seq(Nat) /\ Len(Bytes(n, count)) = count
      /\ Bytes(0, n + count) \in Seq(Nat) /\ Len(Bytes(0, n + count)) = n + count
  BY <1>1
<1> DEFINE both == Bytes(0, n) \o Bytes(n, count)
<1>3. /\ both \in Seq(Nat) /\ Len(both) = n + count
      /\ \A i \in 1..(n + count) :
            both[i] = IF i <= n THEN Bytes(0, n)[i] ELSE Bytes(n, count)[i - n]
  BY <1>2, ConcatProperties
<1>4. \A i \in 1..(n + count) : both[i] = Bytes(0, n + count)[i]
  BY <1>3 DEF Bytes
<1> HIDE DEF both
<1>5. both = Bytes(0, n + count)
  BY <1>2, <1>3, <1>4, SeqEqual
<1> QED
  BY <1>2, <1>5 DEF both

-----------------------------------------------------------------------------
\* What a callback can do to the delegate's log and to the streams.
NothingReported ==
    /\ \A m : m # "progress" => (Has(calls', m) <=> Has(calls, m))
    /\ Single(calls') = Single(calls)
    /\ UNCHANGED streamVars

FailureReported ==
    /\ \A m : m # "progress" => (Has(calls', m) <=> Has(calls, m) \/ m = "fail")
    /\ ~Has(calls, "succeed") /\ ~Has(calls, "fail") => Single(calls')
    /\ DoneWithResult("nil")

SuccessReported ==
    /\ \A m : m # "progress" => (Has(calls', m) <=> Has(calls, m) \/ m = "succeed")
    /\ ~Has(calls, "succeed") /\ ~Has(calls, "fail") => Single(calls')
    /\ DoneWithResult("value")
    /\ UNCHANGED netVars

\* Every callback reports at most one outcome, and drops the streams with it; only
\* the end of the stream is reported as a success.
LEMMA CallBackReports ==
    ASSUME TypeOK, DataCallBack \/ EndCallBack \/ ErrorCallBack
    PROVE  /\ calls' \in Seq(Message)
           /\ NothingReported \/ FailureReported \/ (SuccessReported /\ net = "ended")
<1>1. calls \in Seq(Message)
  BY DEF TypeOK, Message
<1>2. calls' = Failed(calls) /\ DoneWithResult("nil") => calls' \in Seq(Message) /\ FailureReported
  BY <1>1, LogFacts DEF FailureReported
<1>3. calls' = Progress(calls) /\ UNCHANGED streamVars => calls' \in Seq(Message) /\ NothingReported
  BY <1>1, LogFacts DEF NothingReported
<1>4. calls' = calls /\ UNCHANGED streamVars => calls' \in Seq(Message) /\ NothingReported
  BY <1>1 DEF NothingReported
<1>5. calls' = Progress(Failed(calls)) /\ DoneWithResult("nil")
         => calls' \in Seq(Message) /\ FailureReported
  <2>1. Failed(calls) \in Seq(Message)
    BY <1>1, LogFacts
  <2> HIDE DEF Failed
  <2> QED
    BY <1>1, <2>1, LogFacts DEF FailureReported
<1>6. calls' = Append(calls, "succeed") /\ DoneWithResult("value") /\ UNCHANGED netVars
         => calls' \in Seq(Message) /\ SuccessReported
  BY <1>1, LogFacts DEF SuccessReported
<1>7. CASE DataCallBack
  BY <1>2, <1>3, <1>4, <1>5, <1>7
     DEF DataCallBack, ReadHasBytes, ReadReturnsNothing, WriteReadFails, WriteCanAccept, WriteChunk
<1>8. CASE EndCallBack
  BY <1>2, <1>6, <1>8 DEF EndCallBack, ReadEnd, WriteEnd
<1>9. CASE ErrorCallBack
  BY <1>2, <1>9 DEF ErrorCallBack
<1> QED
  BY <1>7, <1>8, <1>9

\* The types of a started or refused transfer, and of each step of the loops.
LEMMA NextType ==
    ASSUME IInv, [Next]_vars
    PROVE  TypeOK'
<1> USE StreamAssumption DEF TypeOK, IInv, vars, streamVars, netVars, timeVars, Least
<1>1. ASSUME NEW d \in {"read", "write"}, RunFailsToOpen(d) \/ RunStarts(d),
             UNCHANGED useAsyncStreams
      PROVE  TypeOK'
  <2>1. CASE RunFailsToOpen(d)
    BY <1>1, <2>1 DEF RunFailsToOpen
  <2>2. CASE RunStarts(d)
    BY <1>1, <2>2 DEF RunStarts
  <2> QED
    BY <1>1, <2>1, <2>2
<1>2. ASSUME DataCallBack \/ EndCallBack \/ ErrorCallBack
      PROVE  /\ result' \in {"nil", "value"}
             /\ activeStream' \in BOOLEAN /\ dataStream' \in BOOLEAN
             /\ calls' \in Seq({"start", "progress", "succeed", "fail"})
  <2>1. calls' \in Seq({"start", "progress", "succeed", "fail"})
    BY <1>2, CallBackReports DEF Message
  <2>2. UNCHANGED streamVars \/ DoneWithResult("nil") \/ DoneWithResult("value")
    BY <1>2, CallBackReports DEF NothingReported, FailureReported, SuccessReported
  <2> QED
    BY <2>1, <2>2 DEF DoneWithResult, Invalidate
<1>3. ASSUME (activeStream /\ DataCallBack) \/ EndCallBack \/ ErrorCallBack
       PROVE  /\ net' \in {"open", "ended", "error"} /\ pos' \in 0..Length
              /\ transferLength' \in -1..BufferSize /\ transferOffset' \in 0..BufferSize
              /\ out' \in Seq(Nat)
  <2>1. \A a, b \in Nat : Bytes(a, b) \in Seq(Nat)
    BY DEF Bytes
  <2>2. \A a, b \in Nat : out \o Bytes(a, b) \in Seq(Nat)
    BY <2>1, ConcatProperties
  <2>3. CASE ReadHasBytes
    <3>1. PICK n \in 1..Least(BufferSize, Length - pos) :
                pos' = pos + n /\ transferLength' = n /\ net' = net
                /\ transferOffset' = transferOffset
                /\ (out' = out \/ out' = out \o Bytes(pos, n))
      BY <2>3 DEF ReadHasBytes
    <3>2. out' \in Seq(Nat)
      <4>1. pos \in Nat /\ n \in Nat /\ out \in Seq(Nat)
        OBVIOUS
      <4>2. out \o Bytes(pos, n) \in Seq(Nat)
        BY <2>2, <4>1
      <4> QED
        BY <3>1, <4>1, <4>2
    <3> QED
      BY <3>1, <3>2
  <2>4. CASE ReadReturnsNothing
    BY <2>4 DEF ReadReturnsNothing
  <2>5. CASE WriteReadFails
    BY <2>5 DEF WriteReadFails
  <2>6. CASE activeStream /\ dir = "write" /\ WriteCanAccept
    <3>1. ASSUME NEW chunk \in 0..BufferSize, NEW newPos \in 0..Length,
                 newPos - chunk + transferOffset \in Nat, WriteChunk(chunk, newPos)
          PROVE  /\ net' \in {"open", "ended", "error"} /\ pos' \in 0..Length
                 /\ transferLength' \in -1..BufferSize /\ transferOffset' \in 0..BufferSize
                 /\ out' \in Seq(Nat)
      <4>1. CASE UNCHANGED <<out, transferOffset, calls>> /\ net' \in {"ended", "error"}
        BY <3>1, <4>1 DEF WriteChunk
      <4>2. ASSUME NEW count \in 1..(chunk - transferOffset),
                   out' = out \o Bytes(newPos - chunk + transferOffset, count),
                   transferOffset' = IF transferOffset + count = chunk
                                       THEN 0 ELSE transferOffset + count,
                   UNCHANGED net
            PROVE  /\ net' \in {"open", "ended", "error"} /\ pos' \in 0..Length
                   /\ transferLength' \in -1..BufferSize /\ transferOffset' \in 0..BufferSize
                   /\ out' \in Seq(Nat)
        <5>1. out' \in Seq(Nat)
          BY <2>2, <3>1, <4>2
        <5>2. pos' = newPos /\ transferLength' = chunk
          BY <3>1 DEF WriteChunk
        <5> QED
          BY <4>2, <5>1, <5>2
      <4> QED
        BY <3>1, <4>1, <4>2 DEF WriteChunk
    <3>2. transferOffset > 0 => /\ transferLength \in 0..BufferSize
                                /\ pos - transferLength + transferOffset \in Nat
      BY <2>6 DEF WriteCanAccept, DataInv
    <3> QED
      BY <2>6, <3>1, <3>2 DEF WriteCanAccept
  <2>7. CASE EndCallBack
    BY <2>7 DEF EndCallBack, ReadEnd, WriteEnd
  <2>8. CASE ErrorCallBack
    BY <2>8 DEF ErrorCallBack
  <2> QED
    BY <1>3, <2>3, <2>4, <2>5, <2>6, <2>7, <2>8 DEF DataCallBack
<1>4. CASE RunLoopHandlesEvent /\ UNCHANGED useAsyncStreams
  <2>1. activeStream
    BY <1>4 DEF RunLoopHandlesEvent, LoopInv
  <2>2. CASE OpenCompleted
    BY <1>4, <2>2 DEF RunLoopHandlesEvent, OpenCompleted
  <2>3. CASE DataCallBack \/ EndCallBack \/ ErrorCallBack
    <3>1. /\ stream' \in {"null", "opening", "opened"} /\ at' = "check" /\ idle' = 0 /\ quiet' = 0
          /\ UNCHANGED <<dir, given, cause, ret>>
      BY <1>4 DEF RunLoopHandlesEvent, OpenCompleted
    <3>2. UNCHANGED useAsyncStreams
      BY <1>4
    <3> HIDE DEF vars
    <3> QED
      BY <1>2, <1>3, <2>1, <2>3, <3>1, <3>2
  <2> QED
    BY <1>4, <2>2, <2>3 DEF RunLoopHandlesEvent
<1>5. CASE PollOpen /\ UNCHANGED useAsyncStreams
  BY <1>2, <1>3, <1>5 DEF PollOpen, OpenCompleted
<1>6. CASE PollDone /\ UNCHANGED useAsyncStreams
  BY <1>2, <1>3, <1>6 DEF PollDone
<1>7. CASE PollReleased /\ UNCHANGED useAsyncStreams
  <2>1. calls \in Seq(Message)
    BY DEF Message
  <2>2. /\ Failed(calls) \in Seq({"start", "progress", "succeed", "fail"})
        /\ Append(calls, "succeed") \in Seq({"start", "progress", "succeed", "fail"})
    BY <2>1, LogFacts DEF Message
  <2> QED
    BY <1>2, <1>3, <1>7, <2>2 DEF PollReleased, DoneWithResult, Invalidate
<1>8. CASE RunLoopTimesOut /\ UNCHANGED useAsyncStreams
  <2>1. calls \in Seq(Message)
    BY DEF Message
  <2>2. Failed(calls) \in Seq({"start", "progress", "succeed", "fail"})
    BY <2>1, LogFacts DEF Message
  <2> QED
    BY <1>8, <2>2 DEF RunLoopTimesOut
<1>9. CASE (RunLoopChecks \/ PollChecks \/ Leave) /\ UNCHANGED useAsyncStreams
  <2>1. CASE RunLoopChecks
    BY <1>9, <2>1 DEF RunLoopChecks
  <2>2. CASE PollChecks
    BY <1>9, <2>2 DEF PollChecks
  <2>3. CASE Leave
    BY <1>9, <2>3 DEF Leave, Invalidate
  <2> QED
    BY <1>9, <2>1, <2>2, <2>3
<1>10. CASE UNCHANGED vars
  BY <1>10
<1> QED
  BY <1>1, <1>4, <1>5, <1>6, <1>7, <1>8, <1>9, <1>10 DEF Next, Transfer

\* The logs of a refused and of a started transfer report no outcome.
LEMMA FreshLogs ==
    /\ \A m : ~Has(<<>>, m)
    /\ Single(<<>>)
    /\ \A m : Has(<<"start">>, m) <=> m = "start"
    /\ Single(<<"start">>)
<1>1. DOMAIN <<>> = {} /\ DOMAIN <<"start">> = {1} /\ <<"start">>[1] = "start"
  OBVIOUS
<1> QED
  BY <1>1 DEF Has, Single

\* The clocks: an event resets both, a wakeup without one advances both.
LEMMA NextClock ==
    ASSUME IInv, [Next]_vars
    PROVE  ClockInv'
<1> USE StreamAssumption DEF TypeOK, IInv, ClockInv, LoopInv, vars, streamVars, netVars, timeVars, Least
<1>1. ASSUME NEW d \in {"read", "write"}, RunFailsToOpen(d), UNCHANGED useAsyncStreams
      PROVE  ClockInv'
  BY <1>1 DEF RunFailsToOpen
<1>2. ASSUME NEW d \in {"read", "write"}, RunStarts(d), UNCHANGED useAsyncStreams
      PROVE  ClockInv'
  BY <1>2 DEF RunStarts
<1>3. CASE RunLoopHandlesEvent /\ UNCHANGED useAsyncStreams
  BY <1>3 DEF RunLoopHandlesEvent
<1>4. CASE RunLoopTimesOut /\ UNCHANGED useAsyncStreams
  BY <1>4 DEF RunLoopTimesOut
<1>5. CASE RunLoopChecks /\ UNCHANGED useAsyncStreams
  BY <1>5 DEF RunLoopChecks
<1>6. CASE (PollOpen \/ PollDone \/ PollReleased \/ PollChecks) /\ UNCHANGED useAsyncStreams
  BY <1>6 DEF PollOpen, PollDone, PollReleased, PollChecks
<1>7. CASE Leave /\ UNCHANGED useAsyncStreams
  BY <1>7 DEF Leave
<1>8. CASE UNCHANGED vars
  BY <1>8
<1> QED
  BY <1>1, <1>2, <1>3, <1>4, <1>5, <1>6, <1>7, <1>8 DEF Next, Transfer

\* Where the loop goes after each step.
LEMMA NextLoop ==
    ASSUME IInv, [Next]_vars
    PROVE  LoopInv'
<1> USE DEF TypeOK, IInv, LoopInv, vars, streamVars, netVars, timeVars, DoneWithResult, Invalidate
<1>1. ASSUME NEW d \in {"read", "write"}, RunFailsToOpen(d), UNCHANGED useAsyncStreams
      PROVE  LoopInv'
  BY <1>1 DEF RunFailsToOpen
<1>2. ASSUME NEW d \in {"read", "write"}, RunStarts(d), UNCHANGED useAsyncStreams
      PROVE  LoopInv'
  BY <1>2, FreshLogs DEF RunStarts
<1>3. ASSUME DataCallBack \/ EndCallBack \/ ErrorCallBack
      PROVE  /\ Has(calls, "start") => Has(calls', "start")
             /\ activeStream' => activeStream
  <2>1. NothingReported \/ FailureReported \/ SuccessReported
    BY <1>3, CallBackReports
  <2>2. CASE NothingReported
    BY <2>2 DEF NothingReported
  <2>3. CASE FailureReported
    BY <2>3 DEF FailureReported
  <2>4. CASE SuccessReported
    BY <2>4 DEF SuccessReported
  <2> QED
    BY <2>1, <2>2, <2>3, <2>4
<1>4. CASE RunLoopHandlesEvent /\ UNCHANGED useAsyncStreams
  BY <1>3, <1>4 DEF RunLoopHandlesEvent, OpenCompleted
<1>5. CASE RunLoopTimesOut /\ UNCHANGED useAsyncStreams
  <2>1. Has(Failed(calls), "start") <=> Has(calls, "start")
    BY LogFacts DEF Message
  <2> QED
    BY <1>5, <2>1 DEF RunLoopTimesOut
<1>6. CASE RunLoopChecks /\ UNCHANGED useAsyncStreams
  BY <1>6 DEF RunLoopChecks
<1>7. CASE PollOpen /\ UNCHANGED useAsyncStreams
  BY <1>3, <1>7 DEF PollOpen, OpenCompleted
<1>8. CASE PollDone /\ UNCHANGED useAsyncStreams
  BY <1>3, <1>8 DEF PollDone, EndCallBack, ReadEnd, WriteEnd, ErrorCallBack
<1>9. CASE PollReleased /\ UNCHANGED useAsyncStreams
  <2>1. /\ Has(Failed(calls), "start") <=> Has(calls, "start")
        /\ Has(Append(calls, "succeed"), "start") <=> Has(calls, "start")
    BY LogFacts DEF Message
  <2>2. Has(calls, "start") => Has(calls', "start")
    BY <1>9, <2>1 DEF PollReleased, ErrorCallBack
  <2>3. ~activeStream'
    <3>1. ~activeStream
      BY <1>9 DEF PollReleased
    <3>2. activeStream' = activeStream \/ activeStream' = FALSE
      BY <1>9 DEF PollReleased, ErrorCallBack
    <3> QED
      BY <3>1, <3>2
  <2>4. /\ at' = "check" /\ cause' = "released" /\ ~useAsyncStreams'
        /\ at = "run" /\ UNCHANGED <<dir, timeVars, ret>>
    BY <1>9 DEF PollReleased
  <2> QED
    BY <2>2, <2>3, <2>4
<1>10. CASE PollChecks /\ UNCHANGED useAsyncStreams
  BY <1>10 DEF PollChecks
<1>11. CASE Leave /\ UNCHANGED useAsyncStreams
  BY <1>11 DEF Leave
<1>12. CASE UNCHANGED vars
  BY <1>12
<1> QED
  BY <1>1, <1>2, <1>4, <1>5, <1>6, <1>7, <1>8, <1>9, <1>10, <1>11, <1>12 DEF Next, Transfer

\* The outcome: a callback reports one only while the streams are held.
LEMMA NextOutcome ==
    ASSUME IInv, [Next]_vars
    PROVE  OutcomeInv'
<1> USE DEF TypeOK, IInv, LoopInv, OutcomeInv, Freed, vars, streamVars, netVars, timeVars,
            DoneWithResult, Invalidate
<1>1. ASSUME NEW d \in {"read", "write"}, RunFailsToOpen(d), UNCHANGED useAsyncStreams
      PROVE  OutcomeInv'
  BY <1>1, FreshLogs DEF RunFailsToOpen
<1>2. ASSUME NEW d \in {"read", "write"}, RunStarts(d), UNCHANGED useAsyncStreams
      PROVE  OutcomeInv'
  BY <1>2, FreshLogs DEF RunStarts
<1>3. ASSUME NothingReported \/ FailureReported \/ SuccessReported, activeStream,
             at = "run", at' = "check", UNCHANGED <<useAsyncStreams, cause, ret>>,
             useAsyncStreams \/ stream' = "null" \/ ~SuccessReported
      PROVE  OutcomeInv'
  <2>1. ~Has(calls, "succeed") /\ ~Has(calls, "fail") /\ result = "nil" /\ cause # "timeout"
    BY <1>3
  <2>2. CASE NothingReported
    BY <1>3, <2>1, <2>2 DEF NothingReported
  <2>3. CASE FailureReported
    BY <1>3, <2>1, <2>3 DEF FailureReported
  <2>4. CASE SuccessReported
    BY <1>3, <2>1, <2>4 DEF SuccessReported
  <2> QED
    BY <1>3, <2>2, <2>3, <2>4
<1>4. OpenCompleted => NothingReported
  BY DEF OpenCompleted, NothingReported
<1>5. CASE RunLoopHandlesEvent /\ UNCHANGED useAsyncStreams
  <2>1. NothingReported \/ FailureReported \/ SuccessReported
    BY <1>4, <1>5, CallBackReports DEF RunLoopHandlesEvent
  <2> QED
    BY <1>3, <1>5, <2>1 DEF RunLoopHandlesEvent
<1>6. CASE RunLoopTimesOut /\ UNCHANGED useAsyncStreams
  <2>1. calls \in Seq(Message) /\ activeStream /\ ~Has(calls, "succeed") /\ ~Has(calls, "fail")
    BY <1>6 DEF RunLoopTimesOut, Message
  <2>2. /\ \A m : Has(Failed(calls), m) <=> Has(calls, m) \/ m = "fail"
        /\ Single(Failed(calls))
    BY <2>1, LogFacts
  <2> QED
    BY <1>6, <2>1, <2>2 DEF RunLoopTimesOut
<1>7. CASE RunLoopChecks /\ UNCHANGED useAsyncStreams
  BY <1>7 DEF RunLoopChecks
<1>8. CASE PollOpen /\ UNCHANGED useAsyncStreams
  <2>1. NothingReported \/ FailureReported
    <3>1. DataCallBack => net = "open"
      BY DEF DataCallBack, ReadHasBytes, ReadReturnsNothing, WriteReadFails, WriteCanAccept
    <3> QED
      BY <1>4, <1>8, <3>1, CallBackReports DEF PollOpen
  <2>2. ~SuccessReported
    <3>1. result = "nil"
      BY <1>8 DEF PollOpen
    <3>2. result' = "nil"
      BY <2>1, <3>1 DEF NothingReported, FailureReported
    <3> QED
      BY <3>2 DEF SuccessReported
  <2> QED
    BY <1>3, <1>8, <2>1, <2>2 DEF PollOpen
<1>9. CASE PollDone /\ UNCHANGED useAsyncStreams
  <2>1. NothingReported \/ FailureReported \/ SuccessReported
    BY <1>9, CallBackReports DEF PollDone
  <2> QED
    BY <1>3, <1>9, <2>1 DEF PollDone
<1>10. CASE PollReleased /\ UNCHANGED useAsyncStreams
  <2>1. calls \in Seq(Message)
    BY DEF Message
  <2>2. /\ \A m : Has(Failed(calls), m) <=> Has(calls, m) \/ m = "fail"
        /\ \A m : Has(Append(calls, "succeed"), m) <=> Has(calls, m) \/ m = "succeed"
    BY <2>1, LogFacts
  <2>3. /\ at = "run" /\ at' = "check" /\ cause' = "released" /\ ret' = ret /\ ret = "none"
        /\ ~activeStream /\ ~useAsyncStreams /\ ~useAsyncStreams'
        /\ result = "nil" /\ Has(calls, "fail") /\ ~Has(calls, "succeed") /\ Single(calls)
    BY <1>10 DEF PollReleased
  <2>4. CASE UNCHANGED <<stream, streamVars, calls>>
    BY <2>3, <2>4
  <2>5. CASE stream' = "null" /\ UNCHANGED <<streamVars, calls>>
    BY <2>3, <2>5
  <2>6. CASE stream' = "null" /\ calls' = Failed(calls) /\ DoneWithResult("nil")
    BY <2>2, <2>3, <2>6
  <2>7. CASE stream' = "null" /\ calls' = Append(calls, "succeed") /\ DoneWithResult("value")
    BY <2>2, <2>3, <2>7
  <2> QED
    BY <1>10, <2>4, <2>5, <2>6, <2>7 DEF PollReleased, ErrorCallBack
<1>11. CASE PollChecks /\ UNCHANGED useAsyncStreams
  BY <1>11 DEF PollChecks
<1>12. CASE Leave /\ UNCHANGED useAsyncStreams
  BY <1>12 DEF Leave
<1>13. CASE UNCHANGED vars
  BY <1>13
<1> QED
  BY <1>1, <1>2, <1>5, <1>6, <1>7, <1>8, <1>9, <1>10, <1>11, <1>12, <1>13 DEF Next, Transfer

\* The data: every chunk is taken from the source where the last one ended, and
\* what is left of it is written before the next one is taken.
LEMMA NextData ==
    ASSUME IInv, [Next]_vars
    PROVE  DataInv'
<1> USE StreamAssumption DEF IInv, TypeOK, DataInv, Size
<1>1. Len(out) \in Nat /\ calls \in Seq(Message)
  BY DEF Message
<1>2. ASSUME NEW d \in {"read", "write"}, RunFailsToOpen(d), UNCHANGED useAsyncStreams
      PROVE  DataInv'
  BY <1>2, FreshLogs DEF RunFailsToOpen, LoopInv, streamVars, netVars
<1>3. ASSUME NEW d \in {"read", "write"}, RunStarts(d), UNCHANGED useAsyncStreams
      PROVE  DataInv'
  <2>1. <<>> = Bytes(0, 0) /\ Len(<<>>) = 0
    BY EmptySeq, BytesExtend
  <2> QED
    BY <1>3, <2>1, FreshLogs DEF RunStarts
<1>4. ASSUME NEW n \in Nat, out' = out \o Bytes(Len(out), n)
      PROVE  out' = Bytes(0, Len(out')) /\ Len(out') = Len(out) + n
  <2>1. out' = Bytes(0, Len(out) + n)
    BY <1>1, <1>4, BytesExtend
  <2>2. Len(out) + n \in Nat
    BY <1>1
  <2>3. Len(Bytes(0, Len(out) + n)) = Len(out) + n
    BY <2>2, BytesExtend
  <2> QED
    BY <2>1, <2>3
<1> DEFINE Moved ==
      \/ dir = "read" /\ (given => Len(out) = pos)
      \/ dir = "write" /\ transferOffset = 0 /\ Len(out) = pos
      \/ /\ dir = "write" /\ 0 < transferOffset /\ transferOffset < transferLength
         /\ Len(out) = pos - transferLength + transferOffset
    Sound ==
      /\ out = Bytes(0, Len(out))
      /\ activeStream => (dataStream <=> given)
      /\ ~given => Len(out) = 0
      /\ activeStream /\ ~given /\ dir = "write" => transferOffset = 0
      /\ activeStream /\ net # "error" => Moved
      /\ activeStream /\ net = "ended" => Len(out) = Size
<1>5. ASSUME activeStream, DataCallBack, dir' = dir, given' = given
      PROVE  Sound'
  <2>1. CASE dir = "read" /\ ReadHasBytes
    <3>1. PICK n \in 1..Least(BufferSize, Length - pos), written \in BOOLEAN :
                /\ pos' = pos + n /\ net' = net /\ net = "open"
                /\ \/ dataStream /\ out' = out \o Bytes(pos, n) /\ UNCHANGED streamVars
                   \/ ~dataStream /\ out' = out /\ UNCHANGED streamVars
                   \/ out' = out /\ activeStream' = FALSE
      BY <2>1 DEF ReadHasBytes, DoneWithResult, Invalidate
    <3>2. CASE dataStream /\ out' = out \o Bytes(pos, n) /\ UNCHANGED streamVars
      <4>1. pos = Len(out) /\ n \in Nat /\ given
        BY <1>5, <2>1, <3>1, <3>2 DEF Least
      <4>2. out' = Bytes(0, Len(out')) /\ Len(out') = Len(out) + n
        BY <1>4, <3>2, <4>1
      <4> QED
        BY <1>5, <2>1, <3>1, <3>2, <4>1, <4>2 DEF streamVars
    <3>3. CASE out' = out /\ activeStream' = FALSE
      BY <1>5, <2>1, <3>3
    <3>4. CASE ~dataStream /\ out' = out /\ UNCHANGED streamVars
      BY <1>5, <2>1, <3>1, <3>4 DEF streamVars
    <3> QED
      BY <3>1, <3>2, <3>3, <3>4
  <2>2. CASE dir = "read" /\ ReadReturnsNothing
    BY <1>1, <1>5, <2>2 DEF ReadReturnsNothing, streamVars, Size
  <2>3. CASE dir = "write" /\ WriteReadFails
    BY <1>5, <2>3 DEF WriteReadFails, DoneWithResult, Invalidate
  <2>4. CASE dir = "write" /\ WriteCanAccept
    <3>1. ASSUME NEW chunk \in 0..BufferSize, NEW newPos \in 0..Length,
                 Len(out) = newPos - chunk + transferOffset,
                 chunk = 0 => transferOffset = 0 /\ newPos = Size,
                 chunk # 0 => given,
                 WriteChunk(chunk, newPos)
          PROVE  Sound'
      <4>1. transferLength' = chunk /\ pos' = newPos /\ UNCHANGED streamVars
        BY <2>4, <3>1 DEF WriteChunk, WriteCanAccept
      <4>2. CASE UNCHANGED <<out, transferOffset>> /\ net' = IF chunk = 0 THEN "ended" ELSE "error"
        BY <1>5, <2>4, <3>1, <4>1, <4>2 DEF streamVars, Size
      <4>3. ASSUME NEW count \in 1..(chunk - transferOffset),
                   out' = out \o Bytes(newPos - chunk + transferOffset, count),
                   transferOffset' = IF transferOffset + count = chunk
                                       THEN 0 ELSE transferOffset + count,
                   net' = net
            PROVE  Sound'
        <5>1. out' = out \o Bytes(Len(out), count) /\ count \in Nat
          BY <3>1, <4>3
        <5>2. out' = Bytes(0, Len(out')) /\ Len(out') = Len(out) + count
          BY <1>4, <5>1
        <5>3. net = "open"
          BY <2>4 DEF WriteCanAccept
        <5>4. transferOffset + count <= chunk
          BY <4>3
        <5>5. Moved'
          <6>1. dir' = "write" /\ Len(out') = pos' - transferLength' + (transferOffset + count)
            BY <1>5, <2>4, <3>1, <4>1, <5>2
          <6>2. CASE transferOffset + count = chunk
            <7>1. transferOffset' = 0
              BY <4>3, <6>2
            <7>2. Len(out') = newPos - chunk + chunk
              BY <4>1, <6>1, <6>2
            <7>3. newPos - chunk + chunk = newPos
              OBVIOUS
            <7> QED
              BY <4>1, <6>1, <7>1, <7>2, <7>3
          <6>3. CASE transferOffset + count # chunk
            <7>1. /\ transferOffset' = transferOffset + count /\ transferOffset' > 0
                  /\ transferOffset' < transferLength'
              BY <3>1, <4>1, <4>3, <5>4, <6>3
            <7> QED
              BY <6>1, <7>1
          <6> QED
            BY <6>2, <6>3
        <5> QED
          <6>1. given
            BY <3>1, <4>3
          <6> QED
            BY <1>5, <4>1, <4>3, <5>2, <5>3, <5>5, <6>1 DEF streamVars
      <4> QED
        BY <3>1, <4>2, <4>3 DEF WriteChunk
    <3>2. net = "open" /\ Moved
      BY <1>5, <2>4 DEF WriteCanAccept
    <3>3. CASE transferOffset = 0 /\ pos < Length /\ dataStream
      <4>1. PICK n \in 1..Least(BufferSize, Length - pos) : WriteChunk(n, pos + n)
        BY <2>4, <3>3 DEF WriteCanAccept
      <4>2. n \in 0..BufferSize /\ pos + n \in 0..Length /\ n # 0
        BY <4>1 DEF Least
      <4>3. Len(out) = (pos + n) - n + transferOffset
        BY <2>4, <3>2, <3>3, <4>2
      <4>4. given
        BY <1>5, <3>3
      <4> QED
        BY <3>1, <4>1, <4>2, <4>3, <4>4
    <3>4. CASE transferOffset = 0 /\ (pos = Length \/ ~dataStream)
      <4>1. WriteChunk(0, pos)
        BY <2>4, <3>4 DEF WriteCanAccept
      <4>2. Len(out) = pos - 0 + transferOffset /\ pos \in 0..Length /\ 0 \in 0..BufferSize
        BY <2>4, <3>2, <3>4
      <4>3. pos = Size
        <5>1. CASE given
          BY <1>5, <3>4, <5>1 DEF Size
        <5>2. CASE ~given
          BY <1>5, <2>4, <3>2, <5>2 DEF Size
        <5> QED
          BY <5>1, <5>2
      <4> QED
        BY <3>1, <3>4, <4>1, <4>2, <4>3
    <3>5. CASE transferOffset > 0
      <4>1. WriteChunk(transferLength, pos)
        BY <2>4, <3>5 DEF WriteCanAccept
      <4>2. /\ Len(out) = pos - transferLength + transferOffset /\ transferLength \in 0..BufferSize
            /\ transferLength # 0 /\ pos \in 0..Length /\ given
        BY <1>5, <2>4, <3>2, <3>5
      <4> QED
        BY <3>1, <4>1, <4>2
    <3> QED
      BY <3>3, <3>4, <3>5
  <2> QED
    BY <1>5, <2>1, <2>2, <2>3, <2>4 DEF DataCallBack
<1>6. ASSUME NothingReported \/ FailureReported, ~Has(calls, "succeed")
      PROVE  ~Has(calls', "succeed")
  BY <1>6 DEF NothingReported, FailureReported
<1>7. DataCallBack => NothingReported \/ FailureReported
  BY CallBackReports DEF DataCallBack, ReadHasBytes, ReadReturnsNothing, WriteReadFails, WriteCanAccept
<1>8. ASSUME EndCallBack \/ ErrorCallBack, activeStream, given' = given
      PROVE  DataInv'
  <2>1. activeStream' = FALSE /\ out' = out
    BY <1>8 DEF EndCallBack, ErrorCallBack, ReadEnd, WriteEnd, DoneWithResult, Invalidate, netVars
  <2>2. ~Has(calls, "succeed")
    BY <1>8 DEF OutcomeInv
  <2>3. CASE net = "ended"
    BY <1>8, <2>1, <2>3
  <2>4. CASE net # "ended"
    <3>1. ErrorCallBack
      BY <1>8, <2>4 DEF EndCallBack, ReadEnd, WriteEnd
    <3>2. NothingReported \/ FailureReported
      BY <2>4, <3>1, CallBackReports
    <3> QED
      BY <1>6, <1>8, <2>1, <2>2, <3>2
  <2> QED
    BY <2>3, <2>4
<1>9. ASSUME DataCallBack, activeStream, dir' = dir, given' = given
      PROVE  DataInv'
  <2>1. ~Has(calls', "succeed")
    BY <1>6, <1>7, <1>9 DEF OutcomeInv
  <2> QED
    BY <1>5, <1>9, <2>1
<1>10. ASSUME OpenCompleted, dir' = dir, given' = given, cause' = cause, activeStream
       PROVE  DataInv'
  <2>1. ~Has(calls, "succeed")
    BY <1>10 DEF OutcomeInv
  <2> QED
    BY <1>10, <2>1 DEF OpenCompleted, streamVars, netVars
<1>11. CASE RunLoopHandlesEvent
  BY <1>8, <1>9, <1>10, <1>11 DEF RunLoopHandlesEvent, LoopInv
<1>12. CASE PollOpen \/ PollDone
  BY <1>8, <1>9, <1>10, <1>12 DEF PollOpen, PollDone
<1>13. CASE PollReleased
  <2>1. ~activeStream /\ ~Has(calls, "succeed")
    BY <1>13 DEF PollReleased, OutcomeInv, LoopInv
  <2>2. activeStream' = activeStream \/ activeStream' = FALSE
    BY <1>13 DEF PollReleased, ErrorCallBack, DoneWithResult, Invalidate, streamVars
  <2>3. /\ out' = out /\ given' = given
        /\ calls' = calls \/ (stream' = "null" /\ cause' = "released")
    BY <1>13 DEF PollReleased, ErrorCallBack, netVars
  <2> QED
    BY <2>1, <2>2, <2>3 DEF Freed
<1>14. CASE RunLoopTimesOut
  <2>1. activeStream /\ ~Has(calls, "succeed")
    BY <1>14 DEF RunLoopTimesOut, LoopInv, OutcomeInv
  <2>2. ~Has(calls', "succeed")
    BY <1>1, <1>14, <2>1, LogFacts DEF RunLoopTimesOut
  <2> QED
    BY <1>14, <2>2 DEF RunLoopTimesOut, streamVars, netVars
<1>15. CASE RunLoopChecks
  BY <1>15 DEF RunLoopChecks, streamVars, netVars, Freed, LoopInv
<1>16. CASE PollChecks
  <2>1. Has(calls, "succeed") => stream = "null" \/ Len(out) = Size
    BY DEF Freed
  <2> QED
    BY <1>16, <2>1 DEF PollChecks, streamVars, netVars, Freed
<1>17. CASE Leave
  BY <1>17 DEF Leave, Invalidate, netVars, Freed
<1>18. CASE UNCHANGED vars
  BY <1>18 DEF vars, streamVars, netVars, Freed
<1> QED
  BY <1>2, <1>3, <1>11, <1>12, <1>13, <1>14, <1>15, <1>16, <1>17, <1>18 DEF Next, Transfer

-----------------------------------------------------------------------------
\* The invariant holds before the first transfer.
LEMMA InitIInv == Init => IInv
<1> SUFFICES ASSUME Init
             PROVE  IInv
  OBVIOUS
<1>1. TypeOK
  <2>1. /\ useAsyncStreams \in BOOLEAN /\ activeStream \in BOOLEAN /\ dataStream \in BOOLEAN
        /\ out \in Seq(Nat) /\ calls \in Seq({"start", "progress", "succeed", "fail"})
    BY EmptySeq DEF Init
  <2>2. /\ pos \in 0..Length /\ idle \in 0..TimeOut /\ quiet \in 0..TimeOut
        /\ transferLength \in -1..BufferSize /\ transferOffset \in 0..BufferSize
    BY StreamAssumption DEF Init
  <2> QED
    BY <2>1, <2>2 DEF Init, TypeOK
<1>2. <<>> = Bytes(0, 0) /\ Len(<<>>) = 0
  BY EmptySeq, BytesExtend
<1>3. ClockInv /\ LoopInv
  BY StreamAssumption DEF Init, ClockInv, LoopInv
<1>4. OutcomeInv /\ DataInv
  BY <1>2, FreshLogs DEF Init, OutcomeInv, DataInv
<1> QED
  BY <1>1, <1>3, <1>4 DEF IInv

\* The inductive invariant holds in every reachable state of a controller.
THEOREM InvariantHolds == Spec => []IInv
<1>1. IInv /\ [Next]_vars => IInv'
  BY NextType, NextClock, NextLoop, NextOutcome, NextData DEF IInv
<1> QED
  BY InitIInv, <1>1, PTL DEF Spec

\* The fields and locals of the transfer loops keep their types; the offset into a
\* chunk stays inside the buffer.
THEOREM TypeCorrect == Spec => []TypeOK
<1>1. IInv => TypeOK
  BY DEF IInv
<1> QED
  BY InvariantHolds, <1>1, PTL

\* Both directions move a prefix of the data, whatever the sizes of the buffer and
\* of the partial writes, and DidSucceed means all of it.
THEOREM EveryByteArrives == Spec => []DataIsComplete
<1>1. IInv => DataIsComplete
  BY DEF IInv, DataInv, DataIsComplete, Delivered, Has, Freed
<1> QED
  BY InvariantHolds, <1>1, PTL

\* An opened stream times out after exactly timeOut without an event.
THEOREM TimeOutsAreExact == Spec => []TimeOutIsExact
<1>1. IInv => TimeOutIsExact
  BY StreamAssumption DEF IInv, TypeOK, ClockInv, TimeOutIsExact
<1> QED
  BY InvariantHolds, <1>1, PTL

\* One outcome at most, and a value that agrees with it.
THEOREM OutcomeIsTold == Spec => []ReturnTellsOutcome
<1>1. ASSUME Single(calls)
      PROVE  Cardinality(Outcomes) <= 1
  <2>1. CASE Outcomes = {}
    BY <2>1, FS_EmptySet
  <2>2. CASE Outcomes # {}
    <3>1. PICK i : i \in Outcomes
      BY <2>2
    <3>2. Outcomes = {i}
      BY <1>1, <3>1 DEF Outcomes, Single
    <3> QED
      <4>1. Cardinality({i}) = 1
        BY FS_Singleton
      <4> QED
        BY <3>2, <4>1
  <2> QED
    BY <2>1, <2>2
<1>2. IInv => ReturnTellsOutcome
  BY <1>1 DEF IInv, OutcomeInv, Freed, ReturnTellsOutcome, Delivered, Has
<1> QED
  BY InvariantHolds, <1>2, PTL
=============================================================================
