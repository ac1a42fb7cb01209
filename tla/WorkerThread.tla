---------------------------- MODULE WorkerThread ----------------------------
(***************************************************************************)
(* Utilities/WorkerThread.m: one WorkerThread object shared by the threads *)
(* that call startWithTarget:selector:argument: and waitUntilDone, and the *)
(* threads that it detaches.                                               *)
(*                                                                         *)
(* _threadMutex is held by a worker from the start of its body to its end, *)
(* _mutex protects the hand-shake on _condition, and _running is a plain   *)
(* flag read without any lock.  A step of the model is the code between    *)
(* two accesses to shared state.                                           *)
(***************************************************************************)
EXTENDS Naturals, FiniteSets

CONSTANTS
    Callers,            \* threads that call the object's methods
    Workers,            \* slots for detached threads that exist at one time
    None,               \* no thread
    SpuriousWakeups     \* may pthread_cond_wait return without a signal?

ASSUME ConstantsAssumption ==
    /\ IsFiniteSet(Callers) /\ IsFiniteSet(Workers)
    /\ Callers \cap Workers = {}
    /\ None \notin Callers \cup Workers
    /\ SpuriousWakeups \in BOOLEAN

VARIABLES
    pc,             \* where each caller is
    wpc,            \* where each worker is; "none" when the thread does not exist
    mine,           \* the worker that each caller's last start detached
    mutex,          \* holder of _mutex
    threadMutex,    \* holder of _threadMutex
    running         \* _running

vars == <<pc, wpc, mine, mutex, threadMutex, running>>

CallerStates == {"idle", "startLock", "detach", "toWait", "waiting", "woken",
                 "startUnlock", "startReturn", "doneLock", "doneUnlock", "doneReturn"}

WorkerStates == {"none", "spawned", "locked", "flagged", "signalling",
                 "target", "unlocking"}

\* Callers blocked in pthread_cond_wait on _condition.
Waiting == {c \in Callers : pc[c] = "waiting"}

Init ==
    /\ pc = [c \in Callers |-> "idle"]
    /\ wpc = [w \in Workers |-> "none"]
    /\ mine = [c \in Callers |-> None]
    /\ mutex = None
    /\ threadMutex = None
    /\ running = FALSE

CallerStep(c, from, to) ==
    /\ pc[c] = from
    /\ pc' = [pc EXCEPT ![c] = to]

WorkerStep(w, from, to) ==
    /\ wpc[w] = from
    /\ wpc' = [wpc EXCEPT ![w] = to]

-----------------------------------------------------------------------------
(***************************************************************************)
(* startWithTarget:selector:argument:                                      *)
(***************************************************************************)

\* The flag is set: NSInternalInconsistencyException, nothing changes.
StartRaises(c) ==
    /\ pc[c] = "idle"
    /\ running
    /\ UNCHANGED vars

\* Mixed-up argument: the caller remembers itself instead of the thread.
MutantStartChecks(c) ==
    \E w \in Workers :
        /\ ~running
        /\ wpc[w] = "none"
        /\ CallerStep(c, "idle", "startLock")
        /\ mine' = [mine EXCEPT ![c] = c]
        /\ UNCHANGED <<wpc, mutex, threadMutex, running>>

\* The flag is clear.  The slot w of the thread to come is chosen here so that
\* the bound on Workers never blocks a caller that holds _mutex.
StartChecks(c) ==
    \E w \in Workers :
        /\ ~running
        /\ wpc[w] = "none"
        /\ \A d \in Callers \ {c} : mine[d] # w
        /\ CallerStep(c, "idle", "startLock")
        /\ mine' = [mine EXCEPT ![c] = w]
        /\ UNCHANGED <<wpc, mutex, threadMutex, running>>

StartLocks(c) ==
    /\ mutex = None
    /\ CallerStep(c, "startLock", "detach")
    /\ mutex' = c
    /\ UNCHANGED <<wpc, mine, threadMutex, running>>

StartDetaches(c) ==
    /\ CallerStep(c, "detach", "toWait")
    /\ wpc' = [wpc EXCEPT ![mine[c]] = "spawned"]
    /\ UNCHANGED <<mine, mutex, threadMutex, running>>

\* pthread_cond_wait: releases _mutex and blocks, in one step.
StartWaits(c) ==
    /\ CallerStep(c, "toWait", "waiting")
    /\ mutex' = None
    /\ UNCHANGED <<wpc, mine, threadMutex, running>>

\* pthread_cond_wait returning although nobody signalled.
WakesSpuriously(c) ==
    /\ SpuriousWakeups
    /\ CallerStep(c, "waiting", "woken")
    /\ UNCHANGED <<wpc, mine, mutex, threadMutex, running>>

\* The end of pthread_cond_wait takes _mutex again.
StartRelocks(c) ==
    /\ mutex = None
    /\ CallerStep(c, "woken", "startUnlock")
    /\ mutex' = c
    /\ UNCHANGED <<wpc, mine, threadMutex, running>>

StartUnlocks(c) ==
    /\ CallerStep(c, "startUnlock", "startReturn")
    /\ mutex' = None
    /\ UNCHANGED <<wpc, mine, threadMutex, running>>

StartReturns(c) ==
    /\ CallerStep(c, "startReturn", "idle")
    /\ UNCHANGED <<wpc, mine, mutex, threadMutex, running>>

-----------------------------------------------------------------------------
(***************************************************************************)
(* waitUntilDone                                                           *)
(***************************************************************************)

WaitUntilDone(c) ==
    /\ CallerStep(c, "idle", "doneLock")
    /\ UNCHANGED <<wpc, mine, mutex, threadMutex, running>>

DoneLocks(c) ==
    /\ threadMutex = None
    /\ CallerStep(c, "doneLock", "doneUnlock")
    /\ threadMutex' = c
    /\ UNCHANGED <<wpc, mine, mutex, running>>

DoneUnlocks(c) ==
    /\ CallerStep(c, "doneUnlock", "doneReturn")
    /\ threadMutex' = None
    /\ UNCHANGED <<wpc, mine, mutex, running>>

DoneReturns(c) ==
    /\ CallerStep(c, "doneReturn", "idle")
    /\ UNCHANGED <<wpc, mine, mutex, threadMutex, running>>

-----------------------------------------------------------------------------
(***************************************************************************)
(* _workerThread:                                                          *)
(***************************************************************************)

\* Dropped lock: the body does not take _threadMutex when it is held.
MutantWorkerLocks(w) ==
    /\ WorkerStep(w, "spawned", "locked")
    /\ threadMutex' = w
    /\ UNCHANGED <<pc, mine, mutex, running>>

WorkerLocks(w) ==
    /\ threadMutex = None
    /\ WorkerStep(w, "spawned", "locked")
    /\ threadMutex' = w
    /\ UNCHANGED <<pc, mine, mutex, running>>

WorkerSetsRunning(w) ==
    /\ WorkerStep(w, "locked", "flagged")
    /\ running' = TRUE
    /\ UNCHANGED <<pc, mine, mutex, threadMutex>>

\* Dropped lock: the signal is sent without _mutex.
MutantWorkerLocksMutex(w) ==
    /\ WorkerStep(w, "flagged", "signalling")
    /\ UNCHANGED <<pc, mine, mutex, threadMutex, running>>

WorkerLocksMutex(w) ==
    /\ mutex = None
    /\ WorkerStep(w, "flagged", "signalling")
    /\ mutex' = w
    /\ UNCHANGED <<pc, mine, threadMutex, running>>

\* pthread_cond_signal wakes one waiter, if there is one, whoever it is; the
\* waiter then needs _mutex, so the unlock is part of the step.
WorkerSignals(w) ==
    /\ WorkerStep(w, "signalling", "target")
    /\ IF Waiting = {}
         THEN UNCHANGED pc
         ELSE \E c \in Waiting : pc' = [pc EXCEPT ![c] = "woken"]
    /\ mutex' = None
    /\ UNCHANGED <<mine, threadMutex, running>>

\* The target's method has returned or raised (the exception is swallowed).
WorkerTargetReturns(w) ==
    /\ WorkerStep(w, "target", "unlocking")
    /\ running' = FALSE
    /\ UNCHANGED <<pc, mine, mutex, threadMutex>>

WorkerUnlocks(w) ==
    /\ WorkerStep(w, "unlocking", "none")
    /\ threadMutex' = None
    /\ UNCHANGED <<pc, mine, mutex, running>>

-----------------------------------------------------------------------------
CallerNext(c) ==
    \/ StartRaises(c) \/ StartChecks(c) \/ StartLocks(c) \/ StartDetaches(c)
    \/ StartWaits(c) \/ WakesSpuriously(c) \/ StartRelocks(c) \/ StartUnlocks(c)
    \/ StartReturns(c)
    \/ WaitUntilDone(c) \/ DoneLocks(c) \/ DoneUnlocks(c) \/ DoneReturns(c)

WorkerNext(w) ==
    \/ WorkerLocks(w) \/ WorkerSetsRunning(w) \/ WorkerLocksMutex(w)
    \/ WorkerSignals(w) \/ WorkerTargetReturns(w) \/ WorkerUnlocks(w)

Next ==
    \/ \E c \in Callers : CallerNext(c)
    \/ \E w \in Workers : WorkerNext(w)

Spec == Init /\ [][Next]_vars

\* Steps a caller takes once it has called a method.
CallerProgress(c) ==
    \/ StartLocks(c) \/ StartDetaches(c) \/ StartWaits(c) \/ StartRelocks(c)
    \/ StartUnlocks(c) \/ StartReturns(c)
    \/ DoneLocks(c) \/ DoneUnlocks(c) \/ DoneReturns(c)

\* A thread that can run does, the target's method returns, and a thread that
\* keeps asking for a mutex that keeps being released gets it (hence strong
\* fairness; at its other steps a thread stays enabled, where it is the same as
\* weak fairness).  Nobody has to call a method, and nothing makes a spurious
\* wakeup happen.
Fairness ==
    /\ \A c \in Callers : SF_vars(CallerProgress(c))
    /\ \A w \in Workers : SF_vars(WorkerNext(w))

FairSpec == Spec /\ Fairness

-----------------------------------------------------------------------------
\* The mutexes are free or held by a thread, and every caller and thread is at one of its
\* program points.
TypeOK ==
    /\ pc \in [Callers -> CallerStates]
    /\ wpc \in [Workers -> WorkerStates]
    /\ mine \in [Callers -> Workers \cup {None}]
    /\ mutex \in Callers \cup Workers \cup {None}
    /\ threadMutex \in Callers \cup Workers \cup {None}
    /\ running \in BOOLEAN

\* Two detached threads never execute a target's method at the same time,
\* however many callers got past the unlocked test of _running.
TargetsExclude ==
    \A v, w \in Workers : wpc[v] = "target" /\ wpc[w] = "target" => v = w

\* isRunning tells the truth: the flag is set exactly from the moment a worker
\* that holds _threadMutex sets it to the moment that same worker clears it, and
\* never left over from, or cleared by, another one.
RunningIsOwned ==
    running <=> \E w \in Workers :
        threadMutex = w /\ wpc[w] \in {"flagged", "signalling", "target"}

\* Workers that have still to signal _condition.
Unsignalled == {w \in Workers : wpc[w] \in {"spawned", "locked", "flagged", "signalling"}}

\* Callers that depend on a signal that is still to come.
NeedSignal == {c \in Callers : pc[c] \in {"toWait", "waiting"}}

\* No wakeup is lost: there are at least as many signals to come as callers that
\* need one, although a signal may wake another caller than the one that
\* detached the signalling thread.
NoLostWakeup == Cardinality(NeedSignal) <= Cardinality(Unsignalled)

\* The holders of the two mutexes are exactly the threads between lock and unlock.
MutexesAreHeld ==
    /\ \A c \in Callers : mutex = c <=> pc[c] \in {"detach", "toWait", "startUnlock"}
    /\ \A w \in Workers : mutex = w <=> wpc[w] = "signalling"
    /\ \A c \in Callers : threadMutex = c <=> pc[c] = "doneUnlock"
    /\ \A w \in Workers : threadMutex = w <=> wpc[w] \notin {"none", "spawned"}

\* A caller about to detach a thread has a slot of its own for it.
SlotsAreFree ==
    /\ \A c \in Callers : pc[c] \in {"startLock", "detach"} =>
          mine[c] \in Workers /\ wpc[mine[c]] = "none"
    /\ \A c, d \in Callers : c # d /\ mine[c] = mine[d] => mine[c] = None

\* The inductive strengthening of the safety properties above.
IInv ==
    /\ TypeOK
    /\ MutexesAreHeld
    /\ SlotsAreFree
    /\ RunningIsOwned
    /\ NoLostWakeup

(***************************************************************************)
(* The use the header documents: one caller, and a pthread_cond_wait that  *)
(* only returns when it is signalled.                                      *)
(***************************************************************************)

\* The only thread that has still to signal is the one the caller waits for, and
\* none is left when waitUntilDone has taken _threadMutex.
HandShake ==
    /\ \A c \in Callers, w \in Unsignalled :
          w = mine[c] /\ pc[c] \in {"toWait", "waiting"}
    /\ \A c \in Callers, w \in Workers :
          pc[c] \in {"doneUnlock", "doneReturn"} => wpc[w] = "none"
    /\ \A c \in Callers :
          pc[c] \in {"idle", "doneLock", "doneUnlock", "doneReturn"} \/ mine[c] \in Workers

\* "Blocks until the worker thread has started" (WorkerThread.h:31): start returns
\* only after the thread it detached has taken _threadMutex and set _running.
StartBlocksUntilStarted ==
    \A c \in Callers :
        pc[c] = "startReturn" => wpc[mine[c]] \notin {"spawned", "locked"}

\* "Blocks until the worker thread has exited" (WorkerThread.h:32): when
\* waitUntilDone returns to a caller, the thread its last start detached is gone.
WaitBlocksUntilExited ==
    \A c \in Callers :
        pc[c] = "doneReturn" /\ mine[c] # None => wpc[mine[c]] = "none"

\* A call of start or waitUntilDone always returns, or another caller's start does:
\* no caller waits for a signal that is never sent, although a waiter can be passed
\* over again and again, since pthread_cond_signal may wake any of them.
CallsReturn ==
    \A c \in Callers :
        pc[c] # "idle" ~> \/ pc[c] = "idle"
                          \/ \E d \in Callers \ {c} : pc[d] = "startReturn"

=============================================================================
