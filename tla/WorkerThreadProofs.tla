------------------------- MODULE WorkerThreadProofs -------------------------
(***************************************************************************)
(* WorkerThread for any finite sets of callers and detached threads, with  *)
(* or without spurious wakeups.                                            *)
(***************************************************************************)
EXTENDS WorkerThread, FiniteSetTheorems, TLAPS

\* The hand-shake's two sets are finite, and their cardinalities are numbers.
LEMMA SetsAreFinite ==
    /\ IsFiniteSet(NeedSignal) /\ Cardinality(NeedSignal) \in Nat
    /\ IsFiniteSet(Unsignalled) /\ Cardinality(Unsignalled) \in Nat
<1>1. NeedSignal \subseteq Callers /\ Unsignalled \subseteq Workers
  BY DEF NeedSignal, Unsignalled
<1> QED
  BY <1>1, FS_Subset, FS_CardinalityType, ConstantsAssumption

\* A step that does not change who needs a signal or who has one to send
\* cannot lose a wakeup.
LEMMA SameSetsSameWakeups ==
    ASSUME NoLostWakeup, NeedSignal' \subseteq NeedSignal, Unsignalled' = Unsignalled
    PROVE  NoLostWakeup'
<1>1. Cardinality(NeedSignal') <= Cardinality(NeedSignal) /\ Cardinality(NeedSignal') \in Nat
  BY SetsAreFinite, FS_Subset, FS_CardinalityType
<1>2. Cardinality(Unsignalled') = Cardinality(Unsignalled)
  OBVIOUS
<1> QED
  BY <1>1, <1>2, SetsAreFinite, SMT DEF NoLostWakeup

\* The initial state satisfies the invariant.
LEMMA InitIInv == Init => IInv
<1> SUFFICES ASSUME Init PROVE IInv
  OBVIOUS
<1> USE ConstantsAssumption DEF Init
<1>1. TypeOK
  BY DEF TypeOK, CallerStates, WorkerStates
<1>2. MutexesAreHeld
  BY DEF MutexesAreHeld
<1>3. SlotsAreFree
  BY DEF SlotsAreFree
<1>4. RunningIsOwned
  BY DEF RunningIsOwned
<1>5. NeedSignal = {} /\ Unsignalled = {}
  BY DEF NeedSignal, Unsignalled
<1>6. NoLostWakeup
  BY <1>5, FS_EmptySet DEF NoLostWakeup
<1> QED
  BY <1>1, <1>2, <1>3, <1>4, <1>6 DEF IInv

\* All of the inductive invariant but the counting part.
LEMMA NextOwnership ==
    ASSUME IInv, [Next]_vars
    PROVE  TypeOK' /\ MutexesAreHeld' /\ SlotsAreFree' /\ RunningIsOwned'
<1> USE ConstantsAssumption
        DEF IInv, TypeOK, CallerStates, WorkerStates, MutexesAreHeld, SlotsAreFree,
            RunningIsOwned, CallerStep, WorkerStep, vars
<1>1. ASSUME NEW c \in Callers, CallerNext(c)
      PROVE  TypeOK' /\ MutexesAreHeld' /\ SlotsAreFree' /\ RunningIsOwned'
  <2>1. CASE StartRaises(c)
    BY <2>1 DEF StartRaises
  <2>2. CASE StartChecks(c)
    BY <2>2 DEF StartChecks
  <2>3. CASE StartLocks(c)
    BY <2>3 DEF StartLocks
  <2>4. CASE StartDetaches(c)
    BY <2>4 DEF StartDetaches
  <2>5. CASE StartWaits(c)
    BY <2>5 DEF StartWaits
  <2>6. CASE WakesSpuriously(c)
    BY <2>6 DEF WakesSpuriously
  <2>7. CASE StartRelocks(c)
    BY <2>7 DEF StartRelocks
  <2>8. CASE StartUnlocks(c)
    BY <2>8 DEF StartUnlocks
  <2>9. CASE StartReturns(c)
    BY <2>9 DEF StartReturns
  <2>10. CASE WaitUntilDone(c)
    BY <2>10 DEF WaitUntilDone
  <2>11. CASE DoneLocks(c)
    BY <2>11 DEF DoneLocks
  <2>12. CASE DoneUnlocks(c)
    BY <2>12 DEF DoneUnlocks
  <2>13. CASE DoneReturns(c)
    BY <2>13 DEF DoneReturns
  <2> QED
    BY <1>1, <2>1, <2>2, <2>3, <2>4, <2>5, <2>6, <2>7, <2>8, <2>9, <2>10, <2>11, <2>12, <2>13
       DEF CallerNext
<1>2. ASSUME NEW w \in Workers, WorkerNext(w)
      PROVE  TypeOK' /\ MutexesAreHeld' /\ SlotsAreFree' /\ RunningIsOwned'
  <2>1. CASE WorkerLocks(w)
    BY <2>1 DEF WorkerLocks
  <2>2. CASE WorkerSetsRunning(w)
    BY <2>2 DEF WorkerSetsRunning
  <2>3. CASE WorkerLocksMutex(w)
    BY <2>3 DEF WorkerLocksMutex
  <2>4. CASE WorkerSignals(w)
    BY <2>4 DEF WorkerSignals, Waiting
  <2>5. CASE WorkerTargetReturns(w)
    <3>1. wpc[w] = "target" /\ wpc' = [wpc EXCEPT ![w] = "unlocking"]
      BY <2>5 DEF WorkerTargetReturns
    <3>2. running' = FALSE /\ UNCHANGED <<pc, mine, mutex, threadMutex>>
      BY <2>5 DEF WorkerTargetReturns
    <3>3. \A v \in Workers : v # w => wpc'[v] = wpc[v] /\ wpc'[v] # "target"
      BY <3>1
    <3>4. TypeOK'
      BY <3>1, <3>2
    <3>5. MutexesAreHeld'
      BY <3>1, <3>2
    <3>6. SlotsAreFree'
      BY <3>1, <3>2
    <3>7. RunningIsOwned'
      BY <3>1, <3>2, <3>3
    <3> QED
      BY <3>4, <3>5, <3>6, <3>7
  <2>6. CASE WorkerUnlocks(w)
    BY <2>6 DEF WorkerUnlocks
  <2> QED
    BY <1>2, <2>1, <2>2, <2>3, <2>4, <2>5, <2>6 DEF WorkerNext
<1>3. CASE UNCHANGED vars
  BY <1>3
<1> QED
  BY <1>1, <1>2, <1>3 DEF Next

\* The counting argument.  A caller that starts to need a signal has just detached
\* a thread that will send one.  A signal is sent with _mutex held, when no caller
\* is between the detach and the wait: it is spent on a caller that needs one, or
\* nobody does.
LEMMA NextNoLostWakeup ==
    ASSUME IInv, [Next]_vars
    PROVE  NoLostWakeup'
<1> USE DEF IInv
<1>1. ASSUME NEW c \in Callers, StartDetaches(c)
      PROVE  NoLostWakeup'
  <2>1. mine[c] \in Workers /\ wpc[mine[c]] = "none" /\ pc[c] = "detach"
    BY <1>1 DEF StartDetaches, CallerStep, SlotsAreFree
  <2>2. NeedSignal' = NeedSignal \cup {c}
    BY <1>1 DEF StartDetaches, CallerStep, NeedSignal, TypeOK
  <2>3. Unsignalled' = Unsignalled \cup {mine[c]} /\ mine[c] \notin Unsignalled
    BY <1>1, <2>1 DEF StartDetaches, CallerStep, Unsignalled, TypeOK
  <2>4. c \notin NeedSignal
    BY <2>1 DEF NeedSignal
  <2>5. Cardinality(NeedSignal') = Cardinality(NeedSignal) + 1
    BY <2>2, <2>4, SetsAreFinite, FS_AddElement
  <2>6. Cardinality(Unsignalled') = Cardinality(Unsignalled) + 1
    BY <2>3, SetsAreFinite, FS_AddElement
  <2> QED
    BY <2>5, <2>6, SetsAreFinite, SMT DEF NoLostWakeup
<1>2. ASSUME NEW w \in Workers, WorkerSignals(w)
      PROVE  NoLostWakeup'
  <2>1. w \in Unsignalled
    BY <1>2 DEF WorkerSignals, WorkerStep, Unsignalled
  <2>2. Unsignalled' = Unsignalled \ {w}
    BY <1>2 DEF WorkerSignals, WorkerStep, Unsignalled, TypeOK
  <2>3. Cardinality(Unsignalled') = Cardinality(Unsignalled) - 1
    BY <2>1, <2>2, SetsAreFinite, FS_RemoveElement
  <2>4. CASE Waiting = {}
    <3>1. \A c \in Callers : pc[c] # "toWait"
      BY <1>2, ConstantsAssumption DEF WorkerSignals, WorkerStep, MutexesAreHeld
    <3>2. NeedSignal' = {}
      BY <1>2, <2>4, <3>1 DEF WorkerSignals, WorkerStep, NeedSignal, Waiting
    <3>3. Cardinality(NeedSignal') = 0
      BY <3>2, FS_EmptySet
    <3>4. Unsignalled' \subseteq Workers
      BY DEF Unsignalled
    <3>5. Cardinality(Unsignalled') \in Nat
      BY <3>4, FS_Subset, FS_CardinalityType, ConstantsAssumption
    <3> QED
      BY <3>3, <3>5, SMT DEF NoLostWakeup
  <2>5. CASE Waiting # {}
    <3>1. PICK c \in Waiting : pc' = [pc EXCEPT ![c] = "woken"]
      BY <1>2, <2>5 DEF WorkerSignals
    <3>2. c \in NeedSignal
      BY DEF NeedSignal, Waiting
    <3>3. NeedSignal' = NeedSignal \ {c}
      BY <3>1 DEF NeedSignal, Waiting, TypeOK
    <3>4. Cardinality(NeedSignal') = Cardinality(NeedSignal) - 1
      BY <3>2, <3>3, SetsAreFinite, FS_RemoveElement
    <3> QED
      BY <2>3, <3>4, SetsAreFinite, SMT DEF NoLostWakeup
  <2> QED
    BY <2>4, <2>5
<1>3. ASSUME NEW c \in Callers, CallerNext(c), ~StartDetaches(c)
      PROVE  NoLostWakeup'
  <2>1. NeedSignal' \subseteq NeedSignal
    BY <1>3 DEF CallerNext, CallerStep, NeedSignal, TypeOK, vars, StartRaises, StartChecks,
                StartLocks, StartWaits, WakesSpuriously, StartRelocks, StartUnlocks,
                StartReturns, WaitUntilDone, DoneLocks, DoneUnlocks, DoneReturns
  <2>2. wpc' = wpc
    BY <1>3 DEF CallerNext, vars, StartRaises, StartChecks,
                StartLocks, StartWaits, WakesSpuriously, StartRelocks, StartUnlocks,
                StartReturns, WaitUntilDone, DoneLocks, DoneUnlocks, DoneReturns
  <2>3. Unsignalled' = Unsignalled
    BY <2>2 DEF Unsignalled
  <2> QED
    BY <2>1, <2>3, SameSetsSameWakeups
<1>4. ASSUME NEW w \in Workers, WorkerNext(w), ~WorkerSignals(w)
      PROVE  NoLostWakeup'
  <2>1. NeedSignal' = NeedSignal
    BY <1>4 DEF WorkerNext, NeedSignal, WorkerLocks, WorkerSetsRunning, WorkerLocksMutex,
                WorkerTargetReturns, WorkerUnlocks
  <2>2. Unsignalled' = Unsignalled
    BY <1>4 DEF WorkerNext, WorkerStep, Unsignalled, TypeOK, WorkerLocks, WorkerSetsRunning,
                WorkerLocksMutex, WorkerTargetReturns, WorkerUnlocks
  <2> QED
    BY <2>1, <2>2, SameSetsSameWakeups
<1>5. CASE UNCHANGED vars
  <2>1. NeedSignal' = NeedSignal /\ Unsignalled' = Unsignalled
    BY <1>5 DEF vars, NeedSignal, Unsignalled
  <2> QED
    BY <2>1, SameSetsSameWakeups
<1> QED
  BY <1>1, <1>2, <1>3, <1>4, <1>5 DEF Next

\* The inductive invariant holds in every reachable state of a WorkerThread.
THEOREM InvariantHolds == Spec => []IInv
<1>1. IInv /\ [Next]_vars => IInv'
  BY NextOwnership, NextNoLostWakeup DEF IInv
<1> QED
  BY InitIInv, <1>1, PTL DEF Spec

\* The variables of a WorkerThread keep their types.
THEOREM TypeCorrect == Spec => []TypeOK
<1>1. IInv => TypeOK
  BY DEF IInv
<1> QED
  BY InvariantHolds, <1>1, PTL

\* Two detached threads never execute a target's method at the same time: each
\* would hold _threadMutex.
THEOREM MutualExclusion == Spec => []TargetsExclude
<1>1. IInv => TargetsExclude
  BY DEF IInv, MutexesAreHeld, TargetsExclude
<1> QED
  BY InvariantHolds, <1>1, PTL

\* The hand-shake of startWithTarget: never loses a wakeup: no caller waits on
\* _condition without a signal still to come.
THEOREM WakeupsAreNotLost == Spec => []NoLostWakeup
<1>1. IInv => NoLostWakeup
  BY DEF IInv
<1> QED
  BY InvariantHolds, <1>1, PTL

\* The running property is set exactly while its worker holds _threadMutex.
THEOREM RunningTellsTheTruth == Spec => []RunningIsOwned
<1>1. IInv => RunningIsOwned
  BY DEF IInv
<1> QED
  BY InvariantHolds, <1>1, PTL

\* One step of the documented use: a signal wakes the only caller, which waits for
\* the only thread that has not signalled.
LEMMA NextHandShake ==
    ASSUME NEW only, Callers = {only}, ~SpuriousWakeups, IInv, IInv', HandShake, [Next]_vars
    PROVE  HandShake'
<1> USE ConstantsAssumption
        DEF IInv, TypeOK, MutexesAreHeld, SlotsAreFree, HandShake, Unsignalled,
            CallerStates, WorkerStates, CallerStep, WorkerStep, vars
<1>1. ASSUME NEW c \in Callers, CallerNext(c)
      PROVE  HandShake'
  <2>1. CASE StartDetaches(c)
    BY <2>1 DEF StartDetaches
  <2>2. CASE DoneLocks(c)
    BY <2>2 DEF DoneLocks
  <2>3. CASE StartWaits(c) \/ StartRelocks(c) \/ WakesSpuriously(c)
    BY <2>3 DEF StartWaits, StartRelocks, WakesSpuriously
  <2>4. CASE StartRaises(c) \/ StartChecks(c) \/ StartLocks(c) \/ StartUnlocks(c)
    BY <2>4 DEF StartRaises, StartChecks, StartLocks, StartUnlocks
  <2>5. CASE StartReturns(c) \/ WaitUntilDone(c) \/ DoneUnlocks(c) \/ DoneReturns(c)
    BY <2>5 DEF StartReturns, WaitUntilDone, DoneUnlocks, DoneReturns
  <2> QED
    BY <1>1, <2>1, <2>2, <2>3, <2>4, <2>5 DEF CallerNext
<1>2. ASSUME NEW w \in Workers, WorkerSignals(w)
      PROVE  HandShake'
  <2>1. w = mine[only] /\ pc[only] = "waiting"
    BY <1>2 DEF WorkerSignals
  <2>2. Waiting # {}
    BY <2>1 DEF Waiting
  <2>3. pc' = [pc EXCEPT ![only] = "woken"] /\ mine' = mine
    BY <1>2, <2>2 DEF WorkerSignals, Waiting
  <2> QED
    BY <1>2, <2>1, <2>3 DEF WorkerSignals
<1>3. ASSUME NEW w \in Workers, WorkerNext(w), ~WorkerSignals(w)
      PROVE  HandShake'
  BY <1>3 DEF WorkerNext, WorkerLocks, WorkerSetsRunning, WorkerLocksMutex,
              WorkerTargetReturns, WorkerUnlocks
<1>4. CASE UNCHANGED vars
  BY <1>4
<1> QED
  BY <1>1, <1>2, <1>3, <1>4 DEF Next

\* WorkerThread.h:31-32 for one caller on a system without spurious wakeups: start
\* returns when the thread has started, waitUntilDone when it is gone.
THEOREM DocumentedUse ==
    ASSUME NEW only, Callers = {only}, ~SpuriousWakeups
    PROVE  Spec => [](StartBlocksUntilStarted /\ WaitBlocksUntilExited)
<1>1. Init => HandShake
  BY DEF Init, HandShake, Unsignalled
<1>2. IInv /\ IInv' /\ HandShake /\ [Next]_vars => HandShake'
  BY NextHandShake
<1>3. IInv /\ HandShake => StartBlocksUntilStarted /\ WaitBlocksUntilExited
  BY DEF IInv, TypeOK, HandShake, Unsignalled, StartBlocksUntilStarted, WaitBlocksUntilExited
<1> QED
  BY InvariantHolds, <1>1, <1>2, <1>3, PTL DEF Spec
=============================================================================
