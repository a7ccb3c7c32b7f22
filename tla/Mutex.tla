-------------------------------- MODULE Mutex --------------------------------
(***************************************************************************)
(* The mutex between fibers: src/mutex.cr.  It is recursive, and it is     *)
(* handed over: unlock makes the first waiting fiber the owner before that *)
(* fiber runs.  lock trusts its resumption: it has no loop.                *)
(***************************************************************************)
EXTENDS Scheduler

CONSTANTS
  Mutexes,   (* the mutexes of a run                                       *)
  NoFiber    (* nil                                                        *)

ASSUME MutexAssumption ==
  /\ NoFiber \notin Fiber
  /\ \A c \in Call : c.op \in {"lock", "unlock"} => c.mutex \in Mutexes

VARIABLES
  mutex_fiber,  (* @mutex_fiber: the owner, or NoFiber                     *)
  lock_count,   (* @lock_count: how often the owner locked it again        *)
  queue,        (* @queue                                                  *)
  holds         (* history: the lock calls a fiber has returned from and   *)
                (* not undone by an unlock                                 *)

mutexVars == <<mutex_fiber, lock_count, queue, holds>>

ThisMutex(f) == ThisCall(f).mutex

Gain(f) == holds' = [holds EXCEPT ![ThisMutex(f)][f] = @ + 1]
Drop(f) == holds' = [holds EXCEPT ![ThisMutex(f)][f] = @ - 1]

-----------------------------------------------------------------------------
(* Mutex#lock.                                                             *)

LockFree(f) ==
  /\ Calls(f, "lock")
  /\ mutex_fiber[ThisMutex(f)] = NoFiber
  /\ mutex_fiber' = [mutex_fiber EXCEPT ![ThisMutex(f)] = f]
  /\ Gain(f)
  /\ Return(f)
  /\ UNCHANGED <<prog, current, runnables, timers, born, ended, lock_count, queue>>

LockAgain(f) ==
  /\ Calls(f, "lock")
  /\ mutex_fiber[ThisMutex(f)] = f
  /\ lock_count' = [lock_count EXCEPT ![ThisMutex(f)] = @ + 1]
  /\ Gain(f)
  /\ Return(f)
  /\ UNCHANGED <<prog, current, runnables, timers, born, ended, mutex_fiber, queue>>

(* A faulty variant of LockWaits: the last to come is the first served.    *)
LockWaitsFirst(f) ==
  /\ Calls(f, "lock")
  /\ mutex_fiber[ThisMutex(f)] \notin {NoFiber, f}
  /\ queue' = [queue EXCEPT ![ThisMutex(f)] = <<f>> \o @]
  /\ SuspendAt(f, "locking")
  /\ Reschedule(runnables)
  /\ UNCHANGED <<prog, timers, born, ended, mutex_fiber, lock_count, holds>>

LockWaits(f) ==
  /\ Calls(f, "lock")
  /\ mutex_fiber[ThisMutex(f)] \notin {NoFiber, f}
  /\ queue' = [queue EXCEPT ![ThisMutex(f)] = Append(@, f)]
  /\ SuspendAt(f, "locking")
  /\ Reschedule(runnables)
  /\ UNCHANGED <<prog, timers, born, ended, mutex_fiber, lock_count, holds>>

Locked(f) ==
  /\ ResumedAt(f, "locking")
  /\ Gain(f)
  /\ Return(f)
  /\ UNCHANGED <<prog, current, runnables, timers, born, ended,
                 mutex_fiber, lock_count, queue>>

(* Mutex#unlock.                                                           *)

UnlockRaises(f) ==
  /\ Calls(f, "unlock")
  /\ mutex_fiber[ThisMutex(f)] # f
  /\ Raise(f)
  /\ UNCHANGED <<prog, current, runnables, timers, born, ended, mutexVars>>

UnlockInner(f) ==
  /\ Calls(f, "unlock")
  /\ mutex_fiber[ThisMutex(f)] = f /\ lock_count[ThisMutex(f)] > 0
  /\ lock_count' = [lock_count EXCEPT ![ThisMutex(f)] = @ - 1]
  /\ Drop(f)
  /\ Return(f)
  /\ UNCHANGED <<prog, current, runnables, timers, born, ended, mutex_fiber, queue>>

Outermost(f) ==
  /\ Calls(f, "unlock")
  /\ mutex_fiber[ThisMutex(f)] = f /\ lock_count[ThisMutex(f)] = 0

(* A faulty variant of UnlockHandsOver: the waiter is woken and the mutex  *)
(* left free for whoever comes first.                                      *)
UnlockWakes(f) ==
  /\ Outermost(f)
  /\ queue[ThisMutex(f)] # <<>>
  /\ mutex_fiber' = [mutex_fiber EXCEPT ![ThisMutex(f)] = NoFiber]
  /\ queue' = [queue EXCEPT ![ThisMutex(f)] = Tail(@)]
  /\ Enqueue(<<Head(queue[ThisMutex(f)])>>)
  /\ Drop(f)
  /\ Return(f)
  /\ UNCHANGED <<prog, current, timers, born, ended, lock_count>>

UnlockHandsOver(f) ==
  /\ Outermost(f)
  /\ queue[ThisMutex(f)] # <<>>
  /\ mutex_fiber' = [mutex_fiber EXCEPT ![ThisMutex(f)] = Head(queue[ThisMutex(f)])]
  /\ queue' = [queue EXCEPT ![ThisMutex(f)] = Tail(@)]
  /\ Enqueue(<<Head(queue[ThisMutex(f)])>>)
  /\ Drop(f)
  /\ Return(f)
  /\ UNCHANGED <<prog, current, timers, born, ended, lock_count>>

(* A faulty variant of UnlockFrees: it does not look at the queue.         *)
UnlockForgets(f) ==
  /\ Outermost(f)
  /\ mutex_fiber' = [mutex_fiber EXCEPT ![ThisMutex(f)] = NoFiber]
  /\ Drop(f)
  /\ Return(f)
  /\ UNCHANGED <<prog, current, runnables, timers, born, ended, lock_count, queue>>

UnlockFrees(f) ==
  /\ Outermost(f)
  /\ queue[ThisMutex(f)] = <<>>
  /\ mutex_fiber' = [mutex_fiber EXCEPT ![ThisMutex(f)] = NoFiber]
  /\ Drop(f)
  /\ Return(f)
  /\ UNCHANGED <<prog, current, runnables, timers, born, ended, lock_count, queue>>

-----------------------------------------------------------------------------
MutexVarsInit ==
  /\ mutex_fiber = [m \in Mutexes |-> NoFiber]
  /\ lock_count = [m \in Mutexes |-> 0]
  /\ queue = [m \in Mutexes |-> <<>>]
  /\ holds = [m \in Mutexes |-> [f \in Fiber |-> 0]]

MutexInit == SchedInit /\ MutexVarsInit

MutexStep(f) ==
  \/ LockFree(f)
  \/ LockAgain(f)
  \/ LockWaits(f)
  \/ Locked(f)
  \/ UnlockRaises(f)
  \/ UnlockInner(f)
  \/ UnlockHandsOver(f)
  \/ UnlockFrees(f)

MutexNext ==
  \/ SchedNext /\ UNCHANGED mutexVars
  \/ \E f \in Fiber : MutexStep(f)

allMutexVars == <<schedVars, mutexVars>>

MutexSpec == MutexInit /\ [][MutexNext]_allMutexVars

-----------------------------------------------------------------------------
(* Every variable keeps its type.                                          *)
MutexTypeOK ==
  /\ SchedTypeOK
  /\ mutex_fiber \in [Mutexes -> Fiber \cup {NoFiber}]
  /\ lock_count \in [Mutexes -> Nat]
  /\ queue \in [Mutexes -> Seq(Fiber)]
  /\ holds \in [Mutexes -> [Fiber -> Nat]]

Locking(f, m) == at[f] = "locking" /\ ThisMutex(f) = m

(* Mutual exclusion (Mutex#lock, Mutex#unlock): only the owner is past its *)
(* lock, and as many times as it has locked; a fiber that waits, or was    *)
(* handed the mutex and has not run since, is not.                         *)
MutualExclusion ==
  \A m \in Mutexes, f \in Fiber :
    holds[m][f] = IF mutex_fiber[m] = f /\ ~Locking(f, m)
                  THEN lock_count[m] + 1 ELSE 0

Due(f) == current = f \/ Queued(f) # {}

InQueue(f, m) == \E i \in DOMAIN queue[m] : queue[m][i] = f

(* A mutex is not lost (the hand-over in Mutex#unlock): no fiber waits for *)
(* a free mutex; a fiber inside lock is due to run exactly when it was     *)
(* made the owner, and in the queue exactly until then.                    *)
NoLostMutex ==
  \A m \in Mutexes :
    /\ mutex_fiber[m] = NoFiber => queue[m] = <<>>
    /\ \A f \in Fiber : Locking(f, m) =>
         /\ Due(f) <=> mutex_fiber[m] = f
         /\ InQueue(f, m) <=> mutex_fiber[m] # f
=============================================================================
