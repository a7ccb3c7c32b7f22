----------------------------- MODULE MutexProofs -----------------------------
(***************************************************************************)
(* For every set of fibers, mutexes and programs: mutual exclusion, and no *)
(* mutex is lost in a hand-over, as long as nothing but the mutex resumes  *)
(* a fiber that waits for it.                                              *)
(***************************************************************************)
EXTENDS Mutex, SchedulerProofs

(* A fiber inside lock is alive, and is there because of a lock call.      *)
LockingOK ==
  \A f \in Fiber : at[f] = "locking" =>
    /\ f \in born \ ended
    /\ ip[f] \in 1 .. Len(prog[f])
    /\ ThisCall(f).op = "lock"

(* The queue holds distinct fibers that wait for the mutex, and a mutex    *)
(* that is free or was just handed over is not locked again.               *)
QueueOK ==
  \A m \in Mutexes :
    /\ \A i, j \in DOMAIN queue[m] : queue[m][i] = queue[m][j] => i = j
    /\ \A f \in Fiber : InQueue(f, m) => Locking(f, m)
    /\ mutex_fiber[m] = NoFiber => lock_count[m] = 0
    /\ \A f \in Fiber : mutex_fiber[m] = f /\ Locking(f, m) => lock_count[m] = 0

MutexInv ==
  SchedInv /\ MutexTypeOK /\ LockingOK /\ QueueOK /\ MutualExclusion /\ NoLostMutex

LEMMA MutexInitially == MutexInit => MutexInv
<1> SUFFICES ASSUME MutexInit PROVE MutexInv
  OBVIOUS
<1>1. SchedInv
  BY SchedInitially DEF MutexInit
<1>2. \A f \in Fiber : at[f] = "start"
  BY DEF MutexInit, SchedInit
<1>3. MutexTypeOK
  BY <1>1 DEF MutexInit, MutexVarsInit, MutexTypeOK, SchedInv
<1>4. LockingOK /\ QueueOK
  BY <1>2 DEF MutexInit, MutexVarsInit, LockingOK, QueueOK, InQueue, Locking
<1>5. MutualExclusion /\ NoLostMutex
  BY <1>2, MutexAssumption
     DEF MutexInit, MutexVarsInit, MutualExclusion, NoLostMutex, Locking, MutexAssumption
<1>6. QED
  BY <1>1, <1>3, <1>4, <1>5 DEF MutexInv

(* The mutex of a lock or unlock call is a mutex.                          *)
LEMMA MutexOfCall ==
  ASSUME SchedTypeOK, NEW f \in Fiber, ip[f] \in 1 .. Len(prog[f]),
         ThisCall(f).op \in {"lock", "unlock"}
  PROVE  ThisMutex(f) \in Mutexes
<1>1. prog[f] \in Seq(Call)
  BY DEF SchedTypeOK
<1>2. ThisCall(f) \in Call
  BY <1>1 DEF ThisCall
<1>3. QED
  BY <1>2, MutexAssumption DEF MutexAssumption, ThisMutex

(* The running fiber is in no queue, and its own locks are past.           *)
LEMMA RunningIsPast ==
  ASSUME MutexInv, NEW f \in Fiber, Active(f), at[f] = "start"
  PROVE  \A m \in Mutexes : ~Locking(f, m) /\ ~InQueue(f, m)
<1>1. \A m \in Mutexes : ~Locking(f, m)
  BY DEF Locking
<1>2. QED
  BY <1>1 DEF MutexInv, QueueOK, InQueue

(* What the steps that leave the mutexes alone preserve: no fiber enters   *)
(* or leaves lock, none of those inside moves, dies, or is due when it was *)
(* not.                                                                    *)
LEMMA FrameKeeps ==
  ASSUME MutexInv, SchedInv', UNCHANGED mutexVars,
         \A f \in Fiber : at'[f] = "locking" <=> at[f] = "locking",
         \A f \in Fiber : at[f] = "locking" =>
           /\ ip'[f] = ip[f] /\ prog'[f] = prog[f]
           /\ f \in born' \ ended'
           /\ Due(f)' <=> Due(f)
  PROVE  MutexInv'
<1> USE DEF MutexInv
<1>0. MutexTypeOK /\ LockingOK /\ QueueOK /\ MutualExclusion /\ NoLostMutex
  OBVIOUS
<1>1. UNCHANGED <<mutex_fiber, lock_count, queue, holds>>
  BY DEF mutexVars
<1>2. \A f \in Fiber, m \in Mutexes : Locking(f, m)' <=> Locking(f, m)
  BY DEF Locking, ThisMutex, ThisCall
<1>3. MutexTypeOK'
  BY <1>0, <1>1 DEF MutexTypeOK, SchedInv
<1>4. LockingOK'
  BY <1>0 DEF LockingOK, ThisCall
<1>5. QueueOK'
  BY <1>0, <1>1, <1>2 DEF QueueOK, InQueue, MutexTypeOK
<1>6. MutualExclusion'
  BY <1>0, <1>1, <1>2 DEF MutualExclusion
<1>7. NoLostMutex'
  <2>1. \A f \in Fiber, m \in Mutexes : InQueue(f, m)' <=> InQueue(f, m)
    BY <1>1 DEF InQueue
  <2>2. \A f \in Fiber, m \in Mutexes : Locking(f, m) => (Due(f)' <=> Due(f))
    BY DEF Locking
  <2>3. QED
    BY <1>0, <1>1, <1>2, <2>1, <2>2 DEF NoLostMutex
<1>8. QED
  BY <1>3, <1>4, <1>5, <1>6, <1>7

(* Scheduler.reschedule leaves every other fiber due or not as it was, and *)
(* the suspended one is not due.                                           *)
LEMMA RescheduleDue ==
  ASSUME SchedInv, NEW f \in Fiber, Active(f), Reschedule(runnables)
  PROVE  /\ \A g \in Fiber : g # f => (Due(g)' <=> Due(g))
         /\ ~Due(f)'
<1>1. /\ current' \in Fiber \cup {Loop}
      /\ \A g \in Fiber : Queued(g)' # {} <=> Queued(g) # {} /\ g # current'
      /\ current' \in Fiber => Queued(current') # {}
  BY RescheduleTakes DEF SchedInv, SchedTypeOK, OneWakeup
<1>2. current = f /\ Queued(f) = {}
  BY DEF Active, SchedInv, OneWakeup, Scheduled
<1>3. QED
  BY <1>1, <1>2 DEF Due

LEMMA SchedFrame ==
  ASSUME MutexInv, SchedNext, UNCHANGED mutexVars
  PROVE  MutexInv'
<1> USE SchedulerAssumption DEF MutexInv
<1>0. /\ SchedInv' /\ SchedTypeOK /\ OneWakeup
      /\ \A g \in Fiber : at[g] = "locking" => g \in born \ ended
  BY SchedInductive DEF SchedInv, LockingOK
<1> DEFINE Frame ==
      /\ \A g \in Fiber : at'[g] = "locking" <=> at[g] = "locking"
      /\ \A g \in Fiber : at[g] = "locking" =>
           /\ ip'[g] = ip[g] /\ prog'[g] = prog[g]
           /\ g \in born' \ ended'
           /\ Due(g)' <=> Due(g)
<1>1. ASSUME NEW f \in Fiber, NEW i \in Nat, Active(f), at[f] # "locking", GoTo(f, i),
             UNCHANGED <<prog, current, runnables, born, ended>>
      PROVE  Frame
  BY <1>0, <1>1 DEF GoTo, SchedTypeOK, Due, Queued
<1>2. ASSUME NEW f \in Fiber, Active(f), at[f] # "locking", Reschedule(runnables),
             at' = at \/ SuspendAt(f, "asleep"), ip' = ip, prog' = prog, born' = born,
             ended' = ended \/ ended' = ended \cup {f}
      PROVE  Frame
  <2>1. \A g \in Fiber : g # f => (Due(g)' <=> Due(g))
    BY <1>2, RescheduleDue
  <2>2. QED
    BY <1>0, <1>2, <2>1 DEF SuspendAt, SchedTypeOK
<1>3. ASSUME NEW f \in Fiber, SchedStep(f)
      PROVE  Frame
  <2>1. CASE Spawn(f)
    <3>1. ThisCall(f) \in Call /\ ThisCall(f).op = "spawn"
      BY <1>0, <2>1 DEF Spawn, Calls, ThisCall, SchedTypeOK
    <3> DEFINE g == ThisCall(f).fiber
    <3>2. g \in Fiber
      BY <3>1 DEF SchedulerAssumption
    <3>3. /\ g \notin born /\ Enqueue(<<g>>) /\ born' = born \cup {g}
          /\ at[f] = "start"
          /\ UNCHANGED <<prog, current, ended>>
          /\ ip' = [ip EXCEPT ![f] = ip[f] + 1]
          /\ at' = [at EXCEPT ![f] = "start"]
      BY <2>1 DEF Spawn, Calls, Return, GoTo
    <3> HIDE DEF g
    <3>4. Queued(g) = {}
      BY <1>0, <3>2, <3>3 DEF OneWakeup, Scheduled
    <3>5. \A h \in Fiber : Queued(h)' # {} <=> Queued(h) # {} \/ h = g
      BY <3>2, <3>3, <3>4, EnqueueNew
    <3>6. QED
      BY <1>0, <3>2, <3>3, <3>5 DEF Due, SchedTypeOK
  <2>2. CASE Sleep(f) \/ SleepForever(f) \/ Finish(f)
    BY <1>2, <2>2 DEF Sleep, SleepForever, Finish, Calls, Active, SuspendAt
  <2>3. CASE Awake(f)
    <3>1. ip[f] + 1 \in Nat
      BY <1>0 DEF SchedTypeOK
    <3>2. QED
      BY <1>1, <2>3, <3>1 DEF Awake, ResumedAt, Return
  <2>4. CASE Jump(f)
    <3>1. ThisCall(f) \in Call /\ ThisCall(f).op = "goto"
      BY <1>0, <2>4 DEF Jump, Calls, ThisCall, SchedTypeOK
    <3>2. ThisCall(f).to \in Nat
      BY <3>1 DEF SchedulerAssumption
    <3>3. QED
      BY <1>1, <2>4, <3>2 DEF Jump, Calls
  <2>5. CASE Fire(f)
    <3>1. /\ current = Loop /\ current' = f /\ at[f] \in Sleeping
          /\ UNCHANGED <<prog, ip, at, runnables, born, ended>>
      BY <1>0, <2>5 DEF Fire, Resume, OneWakeup
    <3>2. \A g \in Fiber : at[g] = "locking" => (Due(g)' <=> Due(g))
      BY <3>1 DEF Due, Queued, SchedulerAssumption, Sleeping
    <3>3. QED
      BY <1>0, <3>1, <3>2
  <2>6. QED
    BY <1>3, <2>1, <2>2, <2>3, <2>4, <2>5 DEF SchedStep
<1>4. ASSUME Exit
      PROVE  Frame
  BY <1>0, <1>4 DEF Exit, SchedTypeOK, Due, Queued
<1>5. Frame
  BY <1>3, <1>4 DEF SchedNext
<1>6. QED
  BY <1>0, <1>5, FrameKeeps

(* What every step of the mutex that returns from its call shares, when it *)
(* wakes nobody.                                                           *)
LEMMA ReturnFrame ==
  ASSUME MutexInv, NEW f \in Fiber, Active(f), at[f] \in {"start", "locking"}, Return(f),
         UNCHANGED <<prog, current, runnables, timers, born, ended>>
  PROVE  /\ SchedInv' /\ LockingOK'
         /\ \A g \in Fiber, k \in Mutexes : Locking(g, k)' <=> Locking(g, k) /\ g # f
         /\ \A g \in Fiber : Due(g)' <=> Due(g)
<1> USE DEF MutexInv
<1>1. ip[f] + 1 \in Nat /\ GoTo(f, ip[f] + 1) /\ SchedTypeOK
  BY DEF SchedInv, SchedTypeOK, Return
<1>2. SchedInv'
  BY <1>1, MoveKeeps
<1>3. ip' = [ip EXCEPT ![f] = ip[f] + 1] /\ at' = [at EXCEPT ![f] = "start"]
  BY <1>1 DEF GoTo
<1>4. \A g \in Fiber, k \in Mutexes : Locking(g, k)' <=> Locking(g, k) /\ g # f
  BY <1>1, <1>3 DEF Locking, ThisMutex, ThisCall, SchedTypeOK
<1>5. LockingOK'
  BY <1>1, <1>3 DEF LockingOK, ThisCall, SchedTypeOK
<1>6. \A g \in Fiber : Due(g)' <=> Due(g)
  BY DEF Due, Queued
<1>7. QED
  BY <1>2, <1>4, <1>5, <1>6

LEMMA MutexStepKeeps ==
  ASSUME MutexInv, NEW f \in Fiber, MutexStep(f)
  PROVE  MutexInv'
<1> USE MutexAssumption DEF MutexAssumption
<1>0. /\ SchedInv /\ MutexTypeOK /\ LockingOK /\ QueueOK /\ MutualExclusion /\ NoLostMutex
      /\ SchedTypeOK
  BY DEF MutexInv, SchedInv
<1>a. ThisMutex(f) \in Mutexes /\ Active(f)
  <2>1. /\ ip[f] \in 1 .. Len(prog[f]) /\ ThisCall(f).op \in {"lock", "unlock"}
        /\ Active(f)
    BY <1>0 DEF MutexStep, LockFree, LockAgain, LockWaits, Locked, UnlockRaises, UnlockInner,
       UnlockHandsOver, UnlockFrees, Outermost, Calls, ThisCall, ResumedAt, LockingOK
  <2>2. QED
    BY <1>0, <2>1, MutexOfCall
<1>b. PICK m \in Mutexes : m = ThisMutex(f)
  BY <1>a
<1>1. m \in Mutexes /\ Active(f)
  BY <1>a
<1>2. /\ mutex_fiber \in [Mutexes -> Fiber \cup {NoFiber}]
      /\ lock_count \in [Mutexes -> Nat]
      /\ queue \in [Mutexes -> Seq(Fiber)]
      /\ holds \in [Mutexes -> [Fiber -> Nat]]
  BY <1>0 DEF MutexTypeOK
<1>3. at[f] = "start" => \A k \in Mutexes : ~Locking(f, k) /\ ~InQueue(f, k)
  BY <1>1, RunningIsPast
<1>4. CASE LockFree(f)
  <2>1. /\ at[f] = "start" /\ mutex_fiber[m] = NoFiber
        /\ mutex_fiber' = [mutex_fiber EXCEPT ![m] = f]
        /\ holds' = [holds EXCEPT ![m][f] = @ + 1]
        /\ Return(f)
        /\ UNCHANGED <<prog, current, runnables, timers, born, ended, lock_count, queue>>
    BY <1>4, <1>b DEF LockFree, Calls, Gain
  <2>2. /\ SchedInv' /\ LockingOK'
        /\ \A g \in Fiber, k \in Mutexes : Locking(g, k)' <=> Locking(g, k)
        /\ \A g \in Fiber : Due(g)' <=> Due(g)
    BY <1>1, <1>3, <2>1, ReturnFrame
  <2>3. MutexTypeOK'
    BY <1>1, <1>2, <2>1, <2>2 DEF MutexTypeOK, SchedInv
  <2>4. /\ queue[m] = <<>> /\ lock_count[m] = 0
        /\ \A g \in Fiber : ~Locking(g, m)
    BY <1>0, <1>1, <2>1 DEF NoLostMutex, InQueue, QueueOK
  <2>5. QueueOK'
    BY <1>0, <1>1, <1>2, <2>1, <2>2, <2>4 DEF QueueOK, InQueue
  <2>6. MutualExclusion'
    BY <1>0, <1>1, <1>2, <1>3, <2>1, <2>2, <2>4 DEF MutualExclusion
  <2>7. NoLostMutex'
    BY <1>0, <1>1, <1>2, <2>1, <2>2, <2>4 DEF NoLostMutex, InQueue
  <2>8. QED
    BY <2>2, <2>3, <2>5, <2>6, <2>7 DEF MutexInv
<1>5. CASE LockAgain(f)
  <2>1. /\ at[f] = "start" /\ mutex_fiber[m] = f
        /\ lock_count' = [lock_count EXCEPT ![m] = @ + 1]
        /\ holds' = [holds EXCEPT ![m][f] = @ + 1]
        /\ Return(f)
        /\ UNCHANGED <<prog, current, runnables, timers, born, ended, mutex_fiber, queue>>
    BY <1>5, <1>b DEF LockAgain, Calls, Gain
  <2>2. /\ SchedInv' /\ LockingOK'
        /\ \A g \in Fiber, k \in Mutexes : Locking(g, k)' <=> Locking(g, k)
        /\ \A g \in Fiber : Due(g)' <=> Due(g)
    BY <1>1, <1>3, <2>1, ReturnFrame
  <2>3. MutexTypeOK'
    BY <1>1, <1>2, <2>1, <2>2 DEF MutexTypeOK, SchedInv
  <2>4. QueueOK'
    BY <1>0, <1>1, <1>2, <1>3, <2>1, <2>2 DEF QueueOK, InQueue
  <2>5. MutualExclusion'
    BY <1>0, <1>1, <1>2, <1>3, <2>1, <2>2 DEF MutualExclusion
  <2>6. NoLostMutex'
    BY <1>0, <2>1, <2>2 DEF NoLostMutex, InQueue
  <2>7. QED
    BY <2>2, <2>3, <2>4, <2>5, <2>6 DEF MutexInv
<1>6. CASE LockWaits(f)
  <2>1. /\ at[f] = "start" /\ mutex_fiber[m] # NoFiber /\ mutex_fiber[m] # f
        /\ queue' = [queue EXCEPT ![m] = Append(queue[m], f)]
        /\ SuspendAt(f, "locking") /\ Reschedule(runnables)
        /\ ip' = ip /\ at' = [at EXCEPT ![f] = "locking"]
        /\ UNCHANGED <<prog, timers, born, ended, mutex_fiber, lock_count, holds>>
        /\ ip[f] \in 1 .. Len(prog[f]) /\ ThisCall(f).op = "lock"
    BY <1>6, <1>b DEF LockWaits, Calls, SuspendAt, ThisCall
  <2>2. SchedInv'
    BY <1>0, <1>1, <2>1, SuspendKeeps DEF Place
  <2>3. /\ \A g \in Fiber, k \in Mutexes :
             Locking(g, k)' <=> Locking(g, k) \/ (g = f /\ k = m)
        /\ LockingOK'
    BY <1>0, <1>1, <1>3, <2>1, <1>b
       DEF Locking, ThisMutex, ThisCall, LockingOK, SchedTypeOK, Active
  <2>4. /\ \A g \in Fiber : g # f => (Due(g)' <=> Due(g))
        /\ ~Due(f)'
    BY <1>0, <1>1, <2>1, RescheduleDue
  <2>5. /\ queue'[m] \in Seq(Fiber)
        /\ \A i \in DOMAIN queue'[m] : \/ i \in DOMAIN queue[m] /\ queue'[m][i] = queue[m][i]
                                       \/ i = Len(queue[m]) + 1 /\ queue'[m][i] = f
        /\ \A i \in DOMAIN queue[m] : i \in DOMAIN queue'[m] /\ queue'[m][i] = queue[m][i]
        /\ \E i \in DOMAIN queue'[m] : queue'[m][i] = f
        /\ \A g \in Fiber : InQueue(g, m)' <=> InQueue(g, m) \/ g = f
    <3>1. /\ queue[m] \in Seq(Fiber) /\ queue'[m] = Append(queue[m], f)
          /\ DOMAIN queue[m] = 1 .. Len(queue[m]) /\ Len(queue[m]) \in Nat
      BY <1>1, <1>2, <2>1
    <3>2. /\ queue'[m] \in Seq(Fiber)
          /\ DOMAIN queue'[m] = 1 .. Len(queue[m]) + 1
          /\ \A i \in 1 .. Len(queue[m]) : queue'[m][i] = queue[m][i]
          /\ queue'[m][Len(queue[m]) + 1] = f
      BY <3>1
    <3> HIDE <2>1
    <3>3. /\ \A i \in DOMAIN queue'[m] : \/ i \in DOMAIN queue[m] /\ queue'[m][i] = queue[m][i]
                                         \/ i = Len(queue[m]) + 1 /\ queue'[m][i] = f
          /\ \A i \in DOMAIN queue[m] : i \in DOMAIN queue'[m] /\ queue'[m][i] = queue[m][i]
          /\ \E i \in DOMAIN queue'[m] : queue'[m][i] = f
      BY ONLY <3>1, <3>2
    <3>4. \A g \in Fiber : InQueue(g, m)' <=> InQueue(g, m) \/ g = f
      BY ONLY <3>3 DEF InQueue
    <3>5. QED
      BY ONLY <3>2, <3>3, <3>4
  <2>6. /\ MutexTypeOK'
        /\ \A k \in Mutexes : k # m => queue'[k] = queue[k]
    BY <1>1, <1>2, <2>1, <2>2, <2>5 DEF MutexTypeOK, SchedInv
  <2>7. QueueOK'
    <3>1. \A i, j \in DOMAIN queue'[m] : queue'[m][i] = queue'[m][j] => i = j
      <4>1. \A i \in DOMAIN queue[m] : queue[m][i] # f
        BY <1>1, <1>3, <2>1 DEF InQueue
      <4>2. \A i, j \in DOMAIN queue[m] : queue[m][i] = queue[m][j] => i = j
        BY <1>0, <1>1 DEF QueueOK, InQueue
      <4>3. QED
        BY ONLY <2>5, <4>1, <4>2
    <3>2. \A g \in Fiber : InQueue(g, m)' => Locking(g, m)'
      BY <1>0, <1>1, <2>3, <2>5 DEF QueueOK, InQueue
    <3>3. \A k \in Mutexes, g \in Fiber : k # m => (InQueue(g, k)' <=> InQueue(g, k))
      BY <2>6 DEF InQueue
    <3>4. QED
      BY <1>0, <1>1, <1>2, <2>1, <2>3, <2>6, <3>1, <3>2, <3>3 DEF QueueOK, InQueue
  <2>8. MutualExclusion'
    BY <1>0, <1>1, <1>2, <2>1, <2>3 DEF MutualExclusion
  <2>9. NoLostMutex'
    <3>1. \A g \in Fiber : Locking(g, m)' =>
            /\ Due(g)' <=> mutex_fiber'[m] = g
            /\ InQueue(g, m)' <=> mutex_fiber'[m] # g
      <4>1. ASSUME NEW g \in Fiber, g # f, Locking(g, m)
            PROVE  /\ Due(g)' <=> mutex_fiber'[m] = g
                   /\ InQueue(g, m)' <=> mutex_fiber'[m] # g
        BY <1>0, <1>1, <2>1, <2>4, <2>5, <4>1 DEF NoLostMutex
      <4>2. /\ Due(f)' <=> mutex_fiber'[m] = f
            /\ InQueue(f, m)' <=> mutex_fiber'[m] # f
        BY <2>1, <2>4, <2>5
      <4>3. QED
        BY <2>3, <4>1, <4>2
    <3>2. \A k \in Mutexes, g \in Fiber : k # m => (InQueue(g, k)' <=> InQueue(g, k))
      BY <2>6 DEF InQueue
    <3>3. \A k \in Mutexes, g \in Fiber : Locking(g, k)' =>
            /\ Due(g)' <=> mutex_fiber'[k] = g
            /\ InQueue(g, k)' <=> mutex_fiber'[k] # g
      <4>1. ASSUME NEW k \in Mutexes, k # m, NEW g \in Fiber, Locking(g, k)
            PROVE  /\ g # f
                   /\ Due(g)' <=> mutex_fiber'[k] = g
                   /\ InQueue(g, k)' <=> mutex_fiber'[k] # g
        <5>1. g # f
          BY <1>3, <2>1, <4>1
        <5>2. QED
          BY <1>0, <2>1, <2>4, <3>2, <4>1, <5>1 DEF NoLostMutex
      <4>2. QED
        BY <2>3, <3>1, <4>1
    <3>4. QED
      BY <1>0, <2>1, <2>6, <3>3 DEF NoLostMutex
  <2>10. QED
    BY <2>2, <2>3, <2>6, <2>7, <2>8, <2>9 DEF MutexInv
<1>7. CASE Locked(f)
  <2>1. /\ at[f] = "locking"
        /\ holds' = [holds EXCEPT ![m][f] = @ + 1]
        /\ Return(f)
        /\ UNCHANGED <<prog, current, runnables, timers, born, ended,
                       mutex_fiber, lock_count, queue>>
    BY <1>7, <1>b DEF Locked, ResumedAt, Gain
  <2>2. /\ SchedInv' /\ LockingOK'
        /\ \A g \in Fiber, k \in Mutexes : Locking(g, k)' <=> Locking(g, k) /\ g # f
        /\ \A g \in Fiber : Due(g)' <=> Due(g)
    BY <1>1, <2>1, ReturnFrame
  <2>3. MutexTypeOK'
    BY <1>1, <1>2, <2>1, <2>2 DEF MutexTypeOK, SchedInv
  <2>4. /\ Locking(f, m) /\ mutex_fiber[m] = f /\ lock_count[m] = 0 /\ ~InQueue(f, m)
        /\ \A k \in Mutexes : k # m => ~Locking(f, k) /\ ~InQueue(f, k)
    <3>1. /\ Locking(f, m) /\ Due(f)
          /\ \A k \in Mutexes : k # m => ~Locking(f, k)
      BY <1>1, <2>1, <1>b DEF Locking, Due, Active
    <3>2. QED
      BY <1>0, <1>1, <3>1 DEF NoLostMutex, QueueOK, InQueue
  <2>5. QueueOK'
    BY <1>0, <1>2, <2>1, <2>2, <2>4 DEF QueueOK, InQueue
  <2>6. MutualExclusion'
    BY <1>0, <1>1, <1>2, <2>1, <2>2, <2>4 DEF MutualExclusion
  <2>7. NoLostMutex'
    BY <1>0, <2>1, <2>2 DEF NoLostMutex, InQueue
  <2>8. QED
    BY <2>2, <2>3, <2>5, <2>6, <2>7 DEF MutexInv
<1>8. CASE UnlockRaises(f)
  <2>1. /\ at[f] = "start" /\ Raise(f)
        /\ UNCHANGED <<prog, current, runnables, timers, born, ended, mutexVars>>
    BY <1>8 DEF UnlockRaises, Calls
  <2>2. PICK i \in Nat : GoTo(f, i)
    <3>1. ip[f] + 1 \in Nat /\ Len(prog[f]) + 1 \in Nat
      BY <1>0 DEF SchedTypeOK
    <3>2. QED
      BY <2>1, <3>1 DEF Raise
  <2>3. SchedInv'
    BY <1>0, <1>1, <2>1, <2>2, MoveKeeps
  <2>4. /\ \A g \in Fiber : at'[g] = "locking" <=> at[g] = "locking"
        /\ \A g \in Fiber : at[g] = "locking" =>
             /\ ip'[g] = ip[g] /\ prog'[g] = prog[g]
             /\ g \in born' \ ended'
             /\ Due(g)' <=> Due(g)
    BY <1>0, <2>1, <2>2 DEF GoTo, SchedTypeOK, LockingOK, Due, Queued
  <2>5. QED
    BY <2>1, <2>3, <2>4, FrameKeeps
<1>9. CASE UnlockInner(f)
  <2>1. /\ at[f] = "start" /\ mutex_fiber[m] = f /\ lock_count[m] > 0
        /\ lock_count' = [lock_count EXCEPT ![m] = @ - 1]
        /\ holds' = [holds EXCEPT ![m][f] = @ - 1]
        /\ Return(f)
        /\ UNCHANGED <<prog, current, runnables, timers, born, ended, mutex_fiber, queue>>
    BY <1>9, <1>b DEF UnlockInner, Calls, Drop
  <2>2. /\ SchedInv' /\ LockingOK'
        /\ \A g \in Fiber, k \in Mutexes : Locking(g, k)' <=> Locking(g, k)
        /\ \A g \in Fiber : Due(g)' <=> Due(g)
    BY <1>1, <1>3, <2>1, ReturnFrame
  <2>3. /\ holds[m][f] = lock_count[m] + 1
        /\ lock_count[m] - 1 \in Nat /\ holds[m][f] - 1 \in Nat
    BY <1>0, <1>1, <1>2, <1>3, <2>1 DEF MutualExclusion
  <2>4. MutexTypeOK'
    BY <1>1, <1>2, <2>1, <2>2, <2>3 DEF MutexTypeOK, SchedInv
  <2>5. QueueOK'
    BY <1>0, <1>1, <1>2, <1>3, <2>1, <2>2, MutexAssumption DEF QueueOK, InQueue
  <2>6. MutualExclusion'
    BY <1>0, <1>1, <1>2, <1>3, <2>1, <2>2, <2>3 DEF MutualExclusion
  <2>7. NoLostMutex'
    BY <1>0, <2>1, <2>2 DEF NoLostMutex, InQueue
  <2>8. QED
    BY <2>2, <2>4, <2>5, <2>6, <2>7 DEF MutexInv
<1>10. CASE UnlockFrees(f)
  <2>1. /\ at[f] = "start" /\ mutex_fiber[m] = f /\ lock_count[m] = 0
        /\ queue[m] = <<>>
        /\ mutex_fiber' = [mutex_fiber EXCEPT ![m] = NoFiber]
        /\ holds' = [holds EXCEPT ![m][f] = @ - 1]
        /\ Return(f)
        /\ UNCHANGED <<prog, current, runnables, timers, born, ended, lock_count, queue>>
    BY <1>10, <1>b DEF UnlockFrees, Outermost, Calls, Drop
  <2>2. /\ SchedInv' /\ LockingOK'
        /\ \A g \in Fiber, k \in Mutexes : Locking(g, k)' <=> Locking(g, k)
        /\ \A g \in Fiber : Due(g)' <=> Due(g)
    BY <1>1, <1>3, <2>1, ReturnFrame
  <2>3. holds[m][f] = 1
    BY <1>0, <1>1, <1>3, <2>1 DEF MutualExclusion
  <2>4. MutexTypeOK'
    BY <1>1, <1>2, <2>1, <2>2, <2>3 DEF MutexTypeOK, SchedInv
  <2>5. \A g \in Fiber : ~Locking(g, m)
    BY <1>0, <1>1, <1>3, <2>1 DEF NoLostMutex, InQueue
  <2>6. QueueOK'
    BY <1>0, <1>1, <1>2, <2>1, <2>2 DEF QueueOK, InQueue
  <2>7. MutualExclusion'
    BY <1>0, <1>1, <1>2, <2>1, <2>2, <2>3 DEF MutualExclusion
  <2>8. NoLostMutex'
    BY <1>0, <1>1, <1>2, <2>1, <2>2, <2>5 DEF NoLostMutex, InQueue
  <2>9. QED
    BY <2>2, <2>4, <2>6, <2>7, <2>8 DEF MutexInv
<1>11. CASE UnlockHandsOver(f)
  <2>a. queue[m] # <<>>
    BY <1>11, <1>b DEF UnlockHandsOver
  <2>b. PICK g \in Fiber : g = Head(queue[m])
    BY <1>1, <1>2, <2>a
  <2>1. /\ at[f] = "start" /\ mutex_fiber[m] = f /\ lock_count[m] = 0
        /\ queue[m] # <<>>
        /\ mutex_fiber' = [mutex_fiber EXCEPT ![m] = g]
        /\ queue' = [queue EXCEPT ![m] = Tail(queue[m])]
        /\ Enqueue(<<g>>)
        /\ holds' = [holds EXCEPT ![m][f] = @ - 1]
        /\ Return(f)
        /\ UNCHANGED <<prog, current, timers, born, ended, lock_count>>
    BY <1>11, <1>b, <2>b DEF UnlockHandsOver, Outermost, Calls, Drop
  <2>2. /\ g \in Fiber /\ queue[m][1] = g /\ 1 \in DOMAIN queue[m]
        /\ queue'[m] \in Seq(Fiber)
        /\ \A i \in DOMAIN queue'[m] : i + 1 \in DOMAIN queue[m] /\ queue'[m][i] = queue[m][i + 1]
        /\ \A i \in DOMAIN queue[m] : i # 1 => i - 1 \in DOMAIN queue'[m]
        /\ \A i \in DOMAIN queue[m] : i \in Nat
        /\ \A k \in Mutexes : k # m => queue'[k] = queue[k]
    BY <1>1, <1>2, <2>1, <2>b
  <2>3. /\ Locking(g, m) /\ g # f /\ ~Due(g) /\ g \in born \ ended /\ at[g] = "locking"
        /\ mutex_fiber[m] # g
    <3>1. Locking(g, m) /\ InQueue(g, m)
      BY <1>0, <1>1, <2>2 DEF QueueOK, InQueue
    <3>2. QED
      BY <1>0, <1>1, <2>2, <3>1 DEF NoLostMutex, Due, Active, LockingOK, Locking
  <2>4. /\ ip[f] + 1 \in Nat /\ GoTo(f, ip[f] + 1)
        /\ ip' = [ip EXCEPT ![f] = ip[f] + 1] /\ at' = [at EXCEPT ![f] = "start"]
    BY <1>0, <2>1 DEF Return, GoTo, SchedTypeOK
  <2>5. SchedInv'
    <3>1. Queued(g) = {} /\ g \notin timers
      BY <1>0, <2>3 DEF Due, SchedInv, OneWakeup, Sleeping
    <3>2. QED
      BY <1>0, <1>1, <2>1, <2>3, <2>4, <3>1, WakeKeeps
  <2>6. \A h \in Fiber : Due(h)' <=> Due(h) \/ h = g
    <3>1. Queued(g) = {}
      BY <2>3 DEF Due
    <3>2. \A h \in Fiber : Queued(h)' # {} <=> Queued(h) # {} \/ h = g
      BY <1>0, <2>1, <2>2, <3>1, EnqueueNew
    <3>3. QED
      BY <2>1, <3>2 DEF Due
  <2>7. /\ \A h \in Fiber, k \in Mutexes : Locking(h, k)' <=> Locking(h, k)
        /\ LockingOK'
    BY <1>0, <1>3, <2>1, <2>4 DEF Locking, ThisMutex, ThisCall, LockingOK, SchedTypeOK
  <2>8. holds[m][f] = 1
    BY <1>0, <1>1, <1>3, <2>1 DEF MutualExclusion
  <2>9. MutexTypeOK'
    BY <1>1, <1>2, <2>1, <2>2, <2>5, <2>8 DEF MutexTypeOK, SchedInv
  <2>10. \A h \in Fiber : InQueue(h, m)' <=> InQueue(h, m) /\ h # g
    <3>1. ASSUME NEW h \in Fiber, NEW i \in DOMAIN queue'[m], queue'[m][i] = h
          PROVE  InQueue(h, m) /\ h # g
      BY <1>0, <1>1, <2>2, <3>1 DEF InQueue, QueueOK
    <3>2. ASSUME NEW h \in Fiber, NEW i \in DOMAIN queue[m], queue[m][i] = h, h # g
          PROVE  InQueue(h, m)'
      <4>1. i # 1
        BY <2>2, <3>2
      <4>2. i - 1 \in DOMAIN queue'[m] /\ (i - 1) + 1 = i
        BY <2>2, <4>1
      <4>3. queue'[m][i - 1] = h
        BY <2>2, <3>2, <4>2
      <4>4. \E j \in DOMAIN queue'[m] : queue'[m][j] = h
        BY <4>2, <4>3
      <4>5. QED
        BY ONLY <4>4 DEF InQueue
    <3>3. ASSUME NEW h \in Fiber
          PROVE  InQueue(h, m)' <=> \E i \in DOMAIN queue'[m] : queue'[m][i] = h
      BY ONLY DEF InQueue
    <3>4. ASSUME NEW h \in Fiber
          PROVE  InQueue(h, m) <=> \E i \in DOMAIN queue[m] : queue[m][i] = h
      BY ONLY DEF InQueue
    <3>5. QED
      BY ONLY <3>1, <3>2, <3>3, <3>4
  <2>11. QueueOK'
    <3>1. \A i, j \in DOMAIN queue'[m] : queue'[m][i] = queue'[m][j] => i = j
      <4>1. \A i, j \in DOMAIN queue'[m] : queue'[m][i] = queue'[m][j] => i + 1 = j + 1
        BY <1>0, <1>1, <2>2 DEF QueueOK, InQueue
      <4>2. \A i, j \in DOMAIN queue'[m] : i + 1 = j + 1 => i = j
        BY <2>2
      <4>3. QED
        BY <4>1, <4>2
    <3>2. ASSUME NEW k \in Mutexes, k # m
          PROVE  /\ \A i, j \in DOMAIN queue'[k] : queue'[k][i] = queue'[k][j] => i = j
                 /\ \A h \in Fiber : InQueue(h, k)' => Locking(h, k)'
      BY <1>0, <2>2, <2>7, <3>2 DEF QueueOK, InQueue
    <3>3. \A k \in Mutexes : /\ mutex_fiber'[k] = NoFiber => lock_count'[k] = 0
                             /\ \A h \in Fiber : mutex_fiber'[k] = h /\ Locking(h, k)'
                                                   => lock_count'[k] = 0
      <4>1. mutex_fiber'[m] = g /\ lock_count'[m] = 0
        BY <1>1, <1>2, <2>1
      <4>2. \A k \in Mutexes : k # m =>
              mutex_fiber'[k] = mutex_fiber[k] /\ lock_count'[k] = lock_count[k]
        BY <1>2, <2>1
      <4>3. QED
        BY <1>0, <2>7, <4>1, <4>2 DEF QueueOK, InQueue
    <3>4. \A h \in Fiber : InQueue(h, m)' => Locking(h, m)'
      BY <1>0, <1>1, <2>7, <2>10 DEF QueueOK, InQueue
    <3>5. QED
      BY <3>1, <3>2, <3>3, <3>4 DEF QueueOK, InQueue
  <2>12. MutualExclusion'
    BY <1>0, <1>1, <1>2, <2>1, <2>3, <2>7, <2>8 DEF MutualExclusion
  <2>13. NoLostMutex'
    <3>1. ASSUME NEW h \in Fiber, Locking(h, m)
          PROVE  /\ Due(h)' <=> mutex_fiber'[m] = h
                 /\ InQueue(h, m)' <=> mutex_fiber'[m] # h
      BY <1>0, <1>1, <1>2, <1>3, <2>1, <2>3, <2>6, <2>10, <3>1 DEF NoLostMutex
    <3>2. ASSUME NEW k \in Mutexes, k # m, NEW h \in Fiber, Locking(h, k)
          PROVE  /\ Due(h)' <=> mutex_fiber'[k] = h
                 /\ InQueue(h, k)' <=> mutex_fiber'[k] # h
      <4>1. h # g
        BY <2>3, <3>2 DEF Locking
      <4>2. InQueue(h, k)' <=> InQueue(h, k)
        BY <2>2, <3>2 DEF InQueue
      <4>3. mutex_fiber'[k] = mutex_fiber[k]
        BY <1>2, <2>1, <3>2
      <4>4. QED
        BY <1>0, <2>6, <3>2, <4>1, <4>2, <4>3 DEF NoLostMutex
    <3>3. \A k \in Mutexes : mutex_fiber'[k] = NoFiber => queue'[k] = <<>>
      <4>1. mutex_fiber'[m] # NoFiber
        BY <1>1, <1>2, <2>1, <2>2
      <4>2. \A k \in Mutexes : k # m => mutex_fiber'[k] = mutex_fiber[k] /\ queue'[k] = queue[k]
        BY <1>2, <2>1, <2>2
      <4>3. QED
        BY <1>0, <4>1, <4>2 DEF NoLostMutex
    <3>4. QED
      BY <2>7, <3>1, <3>2, <3>3 DEF NoLostMutex
  <2>14. QED
    BY <2>5, <2>7, <2>9, <2>11, <2>12, <2>13 DEF MutexInv
<1>12. QED
  BY <1>4, <1>5, <1>6, <1>7, <1>8, <1>9, <1>10, <1>11 DEF MutexStep

LEMMA MutexInductive == MutexInv /\ [MutexNext]_allMutexVars => MutexInv'
<1> SUFFICES ASSUME MutexInv, [MutexNext]_allMutexVars
             PROVE  MutexInv'
  OBVIOUS
<1>1. CASE UNCHANGED allMutexVars
  <2>1. UNCHANGED schedVars /\ UNCHANGED mutexVars
    BY <1>1 DEF allMutexVars
  <2>2. SchedInv'
    BY <2>1, SchedInductive DEF MutexInv
  <2>3. QED
    BY <2>1, <2>2, FrameKeeps DEF schedVars, Due, Queued, MutexInv, LockingOK
<1>2. QED
  BY <1>1, SchedFrame, MutexStepKeeps DEF MutexNext

(* Mutual exclusion, for any number of fibers and mutexes and whatever     *)
(* they do: only the owner is past its lock calls (Mutex#lock,             *)
(* Mutex#unlock).                                                          *)
THEOREM MutexExcludes == MutexSpec => []MutualExclusion
<1>1. MutexInv => MutualExclusion
  BY DEF MutexInv
<1>2. QED
  BY MutexInitially, MutexInductive, <1>1, PTL DEF MutexSpec

(* No hand-over is lost: whoever waits in lock is in the queue, or is the  *)
(* owner and due to run (Mutex#unlock).                                    *)
THEOREM MutexNotLost == MutexSpec => []NoLostMutex
<1>1. MutexInv => NoLostMutex
  BY DEF MutexInv
<1>2. QED
  BY MutexInitially, MutexInductive, <1>1, PTL DEF MutexSpec

(* The mutex does not disturb the scheduler: a fiber is still due to be    *)
(* resumed at most once (Mutex#unlock, Scheduler.enqueue).                 *)
THEOREM MutexOneWakeup == MutexSpec => []OneWakeup
<1>1. MutexInv => OneWakeup
  BY DEF MutexInv, SchedInv
<1>2. QED
  BY MutexInitially, MutexInductive, <1>1, PTL DEF MutexSpec
=============================================================================
