--------------------------- MODULE SchedulerProofs ---------------------------
(***************************************************************************)
(* For every set of fibers and every set of programs, the scheduler never  *)
(* schedules a fiber twice, loses none and never runs a dead one.          *)
(***************************************************************************)
EXTENDS Scheduler, TLAPS

(* What the steps of the scheduler preserve together.                      *)
SchedInv == SchedTypeOK /\ OneWakeup /\ NoneLost /\ LiveCurrent

(* Scheduler.reschedule on a run queue without repetitions hands the       *)
(* processor to a fiber it removes from the queue, and keeps the others.   *)
LEMMA RescheduleTakes ==
  ASSUME runnables \in Seq(Fiber), Reschedule(runnables),
         \A i, j \in DOMAIN runnables : runnables[i] = runnables[j] => i = j
  PROVE  /\ runnables' \in Seq(Fiber)
         /\ current' \in Fiber \cup {Loop}
         /\ \A i, j \in DOMAIN runnables' : runnables'[i] = runnables'[j] => i = j
         /\ \A f \in Fiber : Queued(f)' # {} <=> Queued(f) # {} /\ f # current'
         /\ current' \in Fiber => Queued(current') # {}
<1>1. CASE runnables = <<>>
  <2>1. current' = Loop /\ runnables' = <<>>
    BY <1>1 DEF Reschedule
  <2>2. QED
    BY <2>1, <1>1, SchedulerAssumption DEF Queued, SchedulerAssumption
<1>2. CASE runnables # <<>>
  <2>1. current' = runnables[1] /\ runnables' = Tail(runnables)
    BY <1>2 DEF Reschedule
  <2>2. /\ runnables' \in Seq(Fiber)
        /\ Len(runnables) \in Nat \ {0}
        /\ DOMAIN runnables = 1 .. Len(runnables)
        /\ DOMAIN runnables' = 1 .. (Len(runnables) - 1)
        /\ \A i \in DOMAIN runnables' : runnables'[i] = runnables[i + 1]
    BY <2>1, <1>2
  <2>3. current' \in Fiber
    BY <2>1, <2>2
  <2>4. \A i, j \in DOMAIN runnables' : runnables'[i] = runnables'[j] => i = j
    BY <2>2
  <2>5. ASSUME NEW f \in Fiber
        PROVE  Queued(f)' # {} <=> Queued(f) # {} /\ f # current'
    <3>1. ASSUME NEW i \in DOMAIN runnables', runnables'[i] = f
          PROVE  Queued(f) # {} /\ f # current'
      BY <3>1, <2>1, <2>2 DEF Queued
    <3>2. ASSUME NEW i \in DOMAIN runnables, runnables[i] = f, f # current'
          PROVE  Queued(f)' # {}
      <4>1. i # 1
        BY <3>2, <2>1
      <4>2. i - 1 \in DOMAIN runnables' /\ runnables'[i - 1] = f
        BY <4>1, <3>2, <2>2
      <4>3. QED
        BY <4>2 DEF Queued
    <3>3. QED
      BY <3>1, <3>2 DEF Queued
  <2>6. Queued(current') # {}
    BY <2>1, <2>2 DEF Queued
  <2>7. QED
    BY <2>2, <2>3, <2>4, <2>5, <2>6
<1>3. QED
  BY <1>1, <1>2

(* A step that suspends the running fiber, leaves its program counter      *)
(* alone or moves it, and may add its timer preserves the queue part.      *)
LEMMA SuspendKeepsQueue ==
  ASSUME SchedInv, NEW f \in Fiber, Active(f), Reschedule(runnables),
         ended \subseteq ended', ended' \subseteq ended \cup {f}, born' = born
  PROVE  /\ runnables' \in Seq(Fiber)
         /\ \A i, j \in DOMAIN runnables' : runnables'[i] = runnables'[j] => i = j
         /\ \A g \in Fiber : Queued(g)' # {} <=> Queued(g) # {} /\ g # current'
         /\ current' \in ((born \ ended) \ {f}) \cup {Loop}
         /\ current' \in (born' \ ended') \cup {Loop}
         /\ current' \notin timers \/ current' = Loop
<1>1. /\ runnables' \in Seq(Fiber)
      /\ current' \in Fiber \cup {Loop}
      /\ \A i, j \in DOMAIN runnables' : runnables'[i] = runnables'[j] => i = j
      /\ \A g \in Fiber : Queued(g)' # {} <=> Queued(g) # {} /\ g # current'
      /\ current' \in Fiber => Queued(current') # {}
  BY RescheduleTakes DEF SchedInv, SchedTypeOK, OneWakeup
<1>2. current' \in Fiber => current' \in (born \ ended) \ {f} /\ current' \notin timers
  BY <1>1 DEF SchedInv, OneWakeup, Scheduled, Active
<1>3. QED
  BY <1>1, <1>2

(* Scheduler.enqueue of a fiber that is not queued.                        *)
LEMMA EnqueueNew ==
  ASSUME SchedInv, NEW f \in Fiber, Queued(f) = {}, Enqueue(<<f>>)
  PROVE  /\ runnables' \in Seq(Fiber)
         /\ \A i, j \in DOMAIN runnables' : runnables'[i] = runnables'[j] => i = j
         /\ \A g \in Fiber : Queued(g)' # {} <=> Queued(g) # {} \/ g = f
<1>1. /\ runnables' = runnables \o <<f>>
      /\ runnables \in Seq(Fiber)
      /\ runnables' \in Seq(Fiber)
      /\ Len(runnables) \in Nat
      /\ DOMAIN runnables = 1 .. Len(runnables)
      /\ DOMAIN runnables' = 1 .. (Len(runnables) + 1)
      /\ runnables'[Len(runnables) + 1] = f
      /\ \A i \in 1 .. Len(runnables) : runnables'[i] = runnables[i]
  BY DEF Enqueue, SchedInv, SchedTypeOK
<1>2. \A i \in DOMAIN runnables : runnables[i] # f
  BY <1>1 DEF Queued
<1>3. ASSUME NEW i \in DOMAIN runnables', NEW j \in DOMAIN runnables',
             runnables'[i] = runnables'[j]
      PROVE  i = j
  BY <1>1, <1>2, <1>3 DEF SchedInv, OneWakeup
<1>4. ASSUME NEW g \in Fiber
      PROVE  Queued(g)' # {} <=> Queued(g) # {} \/ g = f
  <2>1. ASSUME Queued(g)' # {} PROVE Queued(g) # {} \/ g = f
    BY <2>1, <1>1 DEF Queued
  <2>2. ASSUME NEW i \in DOMAIN runnables, runnables[i] = g
        PROVE  Queued(g)' # {}
    BY <2>2, <1>1 DEF Queued
  <2>3. ASSUME g = f PROVE Queued(g)' # {}
    BY <2>3, <1>1 DEF Queued
  <2>4. QED
    BY <2>1, <2>2, <2>3 DEF Queued
<1>5. QED
  BY <1>1, <1>3, <1>4

LEMMA SchedInitially == SchedInit => SchedInv
<1> SUFFICES ASSUME SchedInit PROVE SchedInv
  OBVIOUS
<1>1. SchedTypeOK
  BY SchedulerAssumption DEF SchedInit, SchedTypeOK, SchedulerAssumption, Place
<1>2. \A f \in Fiber : Queued(f) = {} /\ f \notin timers
  BY DEF SchedInit, Queued
<1>3. OneWakeup /\ NoneLost /\ LiveCurrent
  BY <1>2, SchedulerAssumption
     DEF SchedInit, OneWakeup, NoneLost, LiveCurrent, Scheduled, SchedulerAssumption
<1>4. QED
  BY <1>1, <1>3 DEF SchedInv

(* What every suspension of the running fiber preserves.                   *)
LEMMA SuspendKeeps ==
  ASSUME SchedInv, NEW f \in Fiber, NEW where \in Place, where # "start",
         Active(f), Reschedule(runnables), SuspendAt(f, where),
         timers' = timers \/ (timers' = timers \cup {f} /\ where \in Sleeping),
         UNCHANGED <<prog, born, ended>>
  PROVE  SchedInv'
<1> USE SchedulerAssumption DEF SchedInv, Place
<1>0. SchedTypeOK /\ OneWakeup /\ NoneLost /\ LiveCurrent
  OBVIOUS
<1>1. /\ runnables' \in Seq(Fiber)
      /\ \A i, j \in DOMAIN runnables' : runnables'[i] = runnables'[j] => i = j
      /\ \A g \in Fiber : Queued(g)' # {} <=> Queued(g) # {} /\ g # current'
      /\ current' \in ((born \ ended) \ {f}) \cup {Loop}
      /\ current' \notin timers \/ current' = Loop
  <2>1. ended \subseteq ended' /\ ended' \subseteq ended \cup {f} /\ born' = born
    OBVIOUS
  <2>2. QED
    BY <2>1, SuspendKeepsQueue
<1>2. /\ at' = [at EXCEPT ![f] = where] /\ ip' = ip
      /\ timers \subseteq timers' /\ timers' \subseteq timers \cup {f}
      /\ f = current /\ f \in born \ ended
      /\ UNCHANGED <<prog, born, ended>>
  BY DEF SuspendAt, Active
<1>3. Queued(f) = {}
  BY <1>2, <1>0 DEF OneWakeup, Scheduled
<1>4. SchedTypeOK'
  BY <1>0, <1>1, <1>2 DEF SchedTypeOK
<1>5. OneWakeup'
  <2>1. ASSUME NEW g \in Fiber, Scheduled(g)'
        PROVE  g \in (born' \ ended') \ {current'}
    <3>1. CASE Queued(g)' # {}
      <4>1. Queued(g) # {} /\ g # current'
        BY <3>1, <1>1
      <4>2. QED
        BY <4>1, <1>0, <1>2 DEF OneWakeup, Scheduled
    <3>2. CASE g \in timers'
      <4>1. g \in timers \/ g = f
        BY <3>2, <1>2
      <4>2. g \in born \ ended
        BY <4>1, <1>0, <1>2 DEF OneWakeup, Scheduled
      <4>3. g # current'
        BY <4>1, <1>1 DEF SchedulerAssumption
      <4>4. QED
        BY <4>2, <4>3, <1>2
    <3>3. QED
      BY <3>1, <3>2, <2>1 DEF Scheduled
  <2>2. ASSUME NEW g \in timers'
        PROVE  Queued(g)' = {} /\ at'[g] \in Sleeping
    <3>1. Queued(g) = {}
      BY <2>2, <1>2, <1>3, <1>0 DEF OneWakeup
    <3>2. g \in Fiber /\ Queued(g)' = {}
      BY <3>1, <2>2, <1>1, <1>2, <1>0 DEF SchedTypeOK
    <3>3. f \notin timers
      BY <1>2, <1>0 DEF OneWakeup, Scheduled
    <3>4. CASE g = f
      BY <3>2, <3>3, <3>4, <2>2, <1>2, <1>0 DEF SchedTypeOK
    <3>5. CASE g # f
      BY <3>2, <3>5, <2>2, <1>2, <1>0 DEF OneWakeup, SchedTypeOK
    <3>6. QED
      BY <3>4, <3>5
  <2>3. QED
    BY <1>1, <2>1, <2>2 DEF OneWakeup
<1>6. NoneLost' /\ LiveCurrent'
  BY <1>0, <1>1, <1>2 DEF NoneLost, LiveCurrent, SchedTypeOK
<1>7. QED
  BY <1>4, <1>5, <1>6

(* What a step that only moves the running fiber to call i preserves.      *)
LEMMA MoveKeeps ==
  ASSUME SchedInv, NEW f \in Fiber, NEW i \in Nat, Active(f), GoTo(f, i),
         UNCHANGED <<prog, current, runnables, timers, born, ended>>
  PROVE  SchedInv'
<1> USE SchedulerAssumption DEF SchedInv, Place
<1>0. SchedTypeOK /\ OneWakeup /\ NoneLost /\ LiveCurrent
  OBVIOUS
<1>1. /\ ip' = [ip EXCEPT ![f] = i] /\ at' = [at EXCEPT ![f] = "start"]
      /\ f = current /\ f \in born \ ended
      /\ UNCHANGED <<prog, current, runnables, timers, born, ended>>
  BY DEF GoTo, Active
<1>2. \A g \in Fiber : Queued(g)' = Queued(g) /\ Scheduled(g)' = Scheduled(g)
  BY <1>1 DEF Queued, Scheduled
<1>3. f \notin timers
  BY <1>1, <1>0 DEF OneWakeup, Scheduled
<1>4. SchedTypeOK' /\ LiveCurrent'
  BY <1>0, <1>1 DEF SchedTypeOK, LiveCurrent
<1>5. OneWakeup'
  BY <1>0, <1>1, <1>2, <1>3 DEF OneWakeup, SchedTypeOK
<1>6. NoneLost'
  BY <1>0, <1>1, <1>2 DEF NoneLost, SchedTypeOK
<1>7. QED
  BY <1>4, <1>5, <1>6

(* What a step that wakes the parked fiber g, and moves the running fiber, *)
(* preserves.                                                              *)
LEMMA WakeKeeps ==
  ASSUME SchedInv, NEW f \in Fiber, NEW i \in Nat, Active(f), GoTo(f, i),
         NEW g \in born \ ended, g # f, Queued(g) = {}, g \notin timers,
         Enqueue(<<g>>), UNCHANGED <<prog, current, timers, born, ended>>
  PROVE  SchedInv'
<1> USE SchedulerAssumption DEF SchedInv, Place
<1>0. SchedTypeOK /\ OneWakeup /\ NoneLost /\ LiveCurrent /\ g \in Fiber
  BY DEF SchedTypeOK
<1>1. /\ runnables' \in Seq(Fiber)
      /\ \A j, k \in DOMAIN runnables' : runnables'[j] = runnables'[k] => j = k
      /\ \A h \in Fiber : Queued(h)' # {} <=> Queued(h) # {} \/ h = g
  BY <1>0, EnqueueNew
<1>2. /\ ip' = [ip EXCEPT ![f] = i] /\ at' = [at EXCEPT ![f] = "start"]
      /\ f = current /\ f \in born \ ended
  BY DEF GoTo, Active
<1>3. f \notin timers
  BY <1>2, <1>0 DEF OneWakeup, Scheduled
<1>4. SchedTypeOK' /\ LiveCurrent'
  BY <1>0, <1>1, <1>2 DEF SchedTypeOK, LiveCurrent
<1>5. OneWakeup'
  <2>1. \A h \in Fiber : Scheduled(h)' => h \in (born' \ ended') \ {current'}
    BY <1>0, <1>1, <1>2 DEF OneWakeup, Scheduled
  <2>2. \A h \in timers' : Queued(h)' = {} /\ at'[h] \in Sleeping
    BY <1>0, <1>1, <1>2, <1>3 DEF OneWakeup, SchedTypeOK
  <2>3. QED
    BY <1>1, <2>1, <2>2 DEF OneWakeup
<1>6. NoneLost'
  BY <1>0, <1>1, <1>2 DEF NoneLost, SchedTypeOK
<1>7. QED
  BY <1>4, <1>5, <1>6

Mem(q) == {q[i] : i \in DOMAIN q}

Distinct(q) == \A i, j \in DOMAIN q : q[i] = q[j] => i = j

(* A live fiber that neither runs nor is in the run queue.                 *)
Idle(g) == g \in (born \ ended) \ {current} /\ Queued(g) = {}

LEMMA TailMembers ==
  ASSUME NEW S, NEW q \in Seq(S), q # <<>>, Distinct(q)
  PROVE  /\ Tail(q) \in Seq(S) /\ Distinct(Tail(q))
         /\ Head(q) \in Mem(q) /\ Mem(Tail(q)) = Mem(q) \ {Head(q)}
<1>1. /\ Len(q) \in Nat \ {0} /\ DOMAIN q = 1 .. Len(q) /\ Head(q) = q[1]
      /\ Tail(q) \in Seq(S) /\ DOMAIN Tail(q) = 1 .. Len(q) - 1
      /\ \A i \in 1 .. Len(q) - 1 : Tail(q)[i] = q[i + 1]
  OBVIOUS
<1>2. Distinct(Tail(q))
  BY <1>1 DEF Distinct
<1>3. Head(q) \in Mem(q)
  BY <1>1 DEF Mem
<1>4. ASSUME NEW x \in Mem(Tail(q)) PROVE x \in Mem(q) \ {Head(q)}
  BY <1>1 DEF Mem, Distinct
<1>5. ASSUME NEW x \in Mem(q) \ {Head(q)} PROVE x \in Mem(Tail(q))
  <2>1. PICK i \in 1 .. Len(q) : q[i] = x
    BY <1>1 DEF Mem
  <2>2. i # 1
    BY <1>1, <2>1
  <2>3. i - 1 \in 1 .. Len(q) - 1 /\ Tail(q)[i - 1] = x
    BY <1>1, <2>1, <2>2
  <2>4. QED
    BY <1>1, <2>3 DEF Mem
<1>6. QED
  BY <1>1, <1>2, <1>3, <1>4, <1>5

LEMMA AppendMembers ==
  ASSUME NEW S, NEW q \in Seq(S), NEW x \in S
  PROVE  /\ Append(q, x) \in Seq(S) /\ Append(q, x) # <<>>
         /\ Mem(Append(q, x)) = Mem(q) \cup {x}
         /\ Distinct(q) /\ x \notin Mem(q) => Distinct(Append(q, x))
<1>1. /\ Len(q) \in Nat /\ DOMAIN q = 1 .. Len(q)
      /\ Append(q, x) \in Seq(S) /\ DOMAIN Append(q, x) = 1 .. Len(q) + 1
      /\ \A i \in 1 .. Len(q) : Append(q, x)[i] = q[i]
      /\ Append(q, x)[Len(q) + 1] = x
  OBVIOUS
<1>2. ASSUME NEW y \in Mem(Append(q, x)) PROVE y \in Mem(q) \cup {x}
  BY <1>1 DEF Mem
<1>3. ASSUME NEW y \in Mem(q) \cup {x} PROVE y \in Mem(Append(q, x))
  <2>1. CASE y = x
    BY <1>1, <2>1 DEF Mem
  <2>2. CASE y \in Mem(q)
    <3>1. PICK i \in 1 .. Len(q) : q[i] = y
      BY <1>1, <2>2 DEF Mem
    <3>2. QED
      BY <1>1, <3>1 DEF Mem
  <2>3. QED
    BY <1>3, <2>1, <2>2
<1>4. Distinct(q) /\ x \notin Mem(q) => Distinct(Append(q, x))
  BY <1>1 DEF Mem, Distinct
<1>5. Append(q, x) # <<>>
  <2>1. 1 \in DOMAIN Append(q, x)
    BY <1>1
  <2>2. DOMAIN <<>> = {}
    OBVIOUS
  <2>3. QED
    BY <2>1, <2>2
<1>6. QED
  BY <1>1, <1>2, <1>3, <1>4, <1>5

LEMMA ConcatMembers ==
  ASSUME NEW S, NEW q \in Seq(S), NEW r \in Seq(S)
  PROVE  /\ q \o r \in Seq(S)
         /\ Mem(q \o r) = Mem(q) \cup Mem(r)
         /\ Distinct(q) /\ Distinct(r) /\ Mem(q) \cap Mem(r) = {} => Distinct(q \o r)
<1>1. /\ Len(q) \in Nat /\ DOMAIN q = 1 .. Len(q)
      /\ Len(r) \in Nat /\ DOMAIN r = 1 .. Len(r)
      /\ q \o r \in Seq(S) /\ DOMAIN (q \o r) = 1 .. Len(q) + Len(r)
      /\ \A i \in 1 .. Len(q) : (q \o r)[i] = q[i]
      /\ \A i \in 1 .. Len(r) : (q \o r)[Len(q) + i] = r[i]
  OBVIOUS
<1>2. ASSUME NEW i \in 1 .. Len(q) + Len(r)
      PROVE  i \in 1 .. Len(q) \/ (i - Len(q) \in 1 .. Len(r) /\ i = Len(q) + (i - Len(q)))
  BY <1>1
<1>3. ASSUME NEW y \in Mem(q \o r) PROVE y \in Mem(q) \cup Mem(r)
  <2>1. PICK i \in 1 .. Len(q) + Len(r) : (q \o r)[i] = y
    BY <1>1 DEF Mem
  <2>2. QED
    BY <1>1, <1>2, <2>1 DEF Mem
<1>4. ASSUME NEW y \in Mem(q) PROVE y \in Mem(q \o r)
  <2>1. PICK i \in 1 .. Len(q) : q[i] = y
    BY <1>1 DEF Mem
  <2>2. i \in DOMAIN (q \o r)
    BY <1>1
  <2>3. QED
    BY <1>1, <2>1, <2>2 DEF Mem
<1>5. ASSUME NEW y \in Mem(r) PROVE y \in Mem(q \o r)
  <2>1. PICK i \in 1 .. Len(r) : r[i] = y
    BY <1>1 DEF Mem
  <2>2. Len(q) + i \in DOMAIN (q \o r)
    BY <1>1
  <2>3. QED
    BY <1>1, <2>1, <2>2 DEF Mem
<1>6. ASSUME Distinct(q), Distinct(r), Mem(q) \cap Mem(r) = {},
             NEW i \in 1 .. Len(q) + Len(r), NEW j \in 1 .. Len(q) + Len(r),
             (q \o r)[i] = (q \o r)[j]
      PROVE  i = j
  <2>1. \A k \in 1 .. Len(q) : q[k] \in Mem(q)
    BY <1>1 DEF Mem
  <2>2. \A k \in 1 .. Len(r) : r[k] \in Mem(r)
    BY <1>1 DEF Mem
  <2>3. CASE i \in 1 .. Len(q) /\ j \in 1 .. Len(q)
    BY <1>1, <1>6, <2>3 DEF Distinct
  <2>4. CASE i \notin 1 .. Len(q) /\ j \notin 1 .. Len(q)
    <3>1. i - Len(q) \in 1 .. Len(r) /\ j - Len(q) \in 1 .. Len(r)
      BY <1>2, <2>4
    <3>2. r[i - Len(q)] = r[j - Len(q)]
      BY <1>1, <1>2, <1>6, <2>4, <3>1
    <3>3. i - Len(q) = j - Len(q)
      BY <1>1, <1>6, <3>1, <3>2 DEF Distinct
    <3>4. QED
      BY <1>1, <3>3
  <2>5. CASE i \in 1 .. Len(q) /\ j \notin 1 .. Len(q)
    BY <1>1, <1>2, <1>6, <2>1, <2>2, <2>5
  <2>6. CASE i \notin 1 .. Len(q) /\ j \in 1 .. Len(q)
    BY <1>1, <1>2, <1>6, <2>1, <2>2, <2>6
  <2>7. QED
    BY <2>3, <2>4, <2>5, <2>6
<1>7. QED
  BY <1>1, <1>3, <1>4, <1>5, <1>6 DEF Distinct

(* What a step that wakes the parked fibers gs, and moves the running one, *)
(* preserves.                                                              *)
LEMMA WakeAllKeeps ==
  ASSUME SchedInv, NEW f \in Fiber, NEW i \in Nat, Active(f), GoTo(f, i),
         NEW gs \in Seq(Fiber), Distinct(gs), \A g \in Mem(gs) : Idle(g) /\ g \notin timers,
         Enqueue(gs), UNCHANGED <<prog, current, timers, born, ended>>
  PROVE  /\ SchedInv'
         /\ \A g \in Fiber : Queued(g)' # {} <=> Queued(g) # {} \/ g \in Mem(gs)
<1> USE SchedulerAssumption DEF Place
<1>0. SchedTypeOK /\ OneWakeup /\ NoneLost /\ LiveCurrent
  BY DEF SchedInv
<1>1. \A g \in Fiber : Queued(g) # {} <=> g \in Mem(runnables)
  BY DEF Queued, Mem
<1>2. /\ runnables' \in Seq(Fiber)
      /\ \A g \in Fiber : Queued(g)' # {} <=> Queued(g) # {} \/ g \in Mem(gs)
      /\ \A j, k \in DOMAIN runnables' : runnables'[j] = runnables'[k] => j = k
  <2>1. runnables \in Seq(Fiber) /\ Distinct(runnables) /\ runnables' = runnables \o gs
    BY <1>0 DEF SchedTypeOK, OneWakeup, Distinct, Enqueue
  <2>2. Mem(runnables) \cap Mem(gs) = {}
    <3>1. ASSUME NEW g \in Mem(gs), g \in Mem(runnables) PROVE FALSE
      BY <3>1 DEF Idle, Queued, Mem
    <3>2. QED
      BY <3>1
  <2>3. runnables' \in Seq(Fiber) /\ Distinct(runnables')
        /\ Mem(runnables') = Mem(runnables) \cup Mem(gs)
    BY <2>1, <2>2, ConcatMembers
  <2>4. \A g \in Fiber : Queued(g)' # {} <=> g \in Mem(runnables')
    BY DEF Queued, Mem
  <2>5. QED
    BY <1>1, <2>3, <2>4 DEF Distinct
<1>3. /\ ip' = [ip EXCEPT ![f] = i] /\ at' = [at EXCEPT ![f] = "start"]
      /\ f = current /\ f \in born \ ended
  BY DEF GoTo, Active
<1>4. f \notin timers
  BY <1>3, <1>0 DEF OneWakeup, Scheduled
<1>5. SchedTypeOK' /\ LiveCurrent'
  BY <1>0, <1>2, <1>3 DEF SchedTypeOK, LiveCurrent
<1>6. OneWakeup'
  <2>1. \A h \in Fiber : Scheduled(h)' => h \in (born' \ ended') \ {current'}
    BY <1>0, <1>2, <1>3 DEF OneWakeup, Scheduled, Idle
  <2>2. \A h \in timers' : Queued(h)' = {} /\ at'[h] \in Sleeping
    BY <1>0, <1>2, <1>3, <1>4 DEF OneWakeup, SchedTypeOK
  <2>3. QED
    BY <1>2, <2>1, <2>2 DEF OneWakeup
<1>7. NoneLost'
  BY <1>0, <1>2, <1>3 DEF NoneLost, SchedTypeOK
<1>8. QED
  BY <1>2, <1>5, <1>6, <1>7 DEF SchedInv

(* What a switch from the running fiber directly to a parked one preserves.*)
LEMMA SwitchKeeps ==
  ASSUME SchedInv, NEW f \in Fiber, NEW where \in Place, where # "start",
         Active(f), SuspendAt(f, where), NEW g \in Fiber, Idle(g), g \notin timers, Resume(g),
         UNCHANGED <<prog, runnables, timers, born, ended>>
  PROVE  /\ SchedInv' /\ current' = g
         /\ \A h \in Fiber : Queued(h)' = Queued(h)
<1> USE SchedulerAssumption DEF Place
<1>0. SchedTypeOK /\ OneWakeup /\ NoneLost /\ LiveCurrent
  BY DEF SchedInv
<1>1. /\ at' = [at EXCEPT ![f] = where] /\ ip' = ip /\ current' = g
      /\ f = current /\ f \in born \ ended /\ g \in born \ ended /\ g # f
      /\ Queued(g) = {}
  BY DEF SuspendAt, Active, Resume, Idle
<1>2. \A h \in Fiber : Queued(h)' = Queued(h)
  BY DEF Queued
<1>3. f \notin timers
  BY <1>0, <1>1 DEF OneWakeup, Scheduled
<1>4. SchedTypeOK' /\ LiveCurrent'
  BY <1>0, <1>1 DEF SchedTypeOK, LiveCurrent
<1>5. OneWakeup'
  <2>1. ASSUME NEW h \in Fiber, Scheduled(h)' PROVE h \in (born' \ ended') \ {current'}
    <3>1. Scheduled(h) /\ h # g
      BY <1>1, <1>2, <2>1 DEF Scheduled
    <3>2. QED
      BY <1>0, <3>1, <1>1 DEF OneWakeup
  <2>2. \A h \in timers' : Queued(h)' = {} /\ at'[h] \in Sleeping
    BY <1>0, <1>1, <1>2, <1>3 DEF OneWakeup, SchedTypeOK
  <2>3. QED
    BY <1>0, <2>1, <2>2 DEF OneWakeup
<1>6. NoneLost'
  BY <1>0, <1>1, <1>2 DEF NoneLost, SchedTypeOK
<1>7. QED
  BY <1>1, <1>2, <1>4, <1>5, <1>6 DEF SchedInv

(* The induction step, action by action.                                   *)
LEMMA SchedInductive == SchedInv /\ [SchedNext]_schedVars => SchedInv'
<1> SUFFICES ASSUME SchedInv, [SchedNext]_schedVars
             PROVE  SchedInv'
  OBVIOUS
<1> USE SchedulerAssumption DEF SchedInv, Place
<1>0. SchedTypeOK /\ OneWakeup /\ NoneLost /\ LiveCurrent
  OBVIOUS
<1>1. ASSUME NEW f \in Fiber, Spawn(f)
      PROVE  SchedInv'
  <2>0. ThisCall(f) \in Call /\ ThisCall(f).op = "spawn"
    BY <1>0, <1>1 DEF Spawn, Calls, ThisCall, SchedTypeOK
  <2> DEFINE g == ThisCall(f).fiber
  <2>1. g \in Fiber
    BY <2>0 DEF SchedulerAssumption
  <2>2. /\ g \notin born
        /\ born' = born \cup {g}
        /\ Enqueue(<<g>>)
        /\ UNCHANGED <<prog, current, timers, ended>>
        /\ ip' = [ip EXCEPT ![f] = ip[f] + 1]
        /\ at' = [at EXCEPT ![f] = "start"]
        /\ current = f /\ f \in born \ ended
    BY <1>1, <2>1 DEF Spawn, Return, GoTo, Calls, Active
  <2> HIDE DEF g
  <2>3. /\ runnables' \in Seq(Fiber)
        /\ \A i, j \in DOMAIN runnables' : runnables'[i] = runnables'[j] => i = j
        /\ \A h \in Fiber : Queued(h)' # {} <=> Queued(h) # {} \/ h = g
    <3>1. Queued(g) = {}
      BY <1>0, <2>1, <2>2 DEF OneWakeup, Scheduled
    <3>2. QED
      BY <2>1, <2>2, <3>1, EnqueueNew
  <2>4. SchedTypeOK'
    BY <1>0, <2>1, <2>2, <2>3 DEF SchedTypeOK
  <2>5. g \notin ended /\ g \notin timers
    BY <2>1, <2>2, <1>0 DEF SchedTypeOK, OneWakeup, Scheduled
  <2>6. OneWakeup'
    BY <1>0, <2>1, <2>2, <2>3, <2>5 DEF OneWakeup, Scheduled, SchedTypeOK
  <2>7. NoneLost' /\ LiveCurrent'
    BY <1>0, <2>1, <2>2, <2>3, <2>5 DEF NoneLost, LiveCurrent, SchedTypeOK
  <2>8. QED
    BY <2>4, <2>6, <2>7
<1>3. ASSUME NEW f \in Fiber, Sleep(f) PROVE SchedInv'
  <2>1. /\ Active(f) /\ Reschedule(runnables) /\ timers' = timers \cup {f}
        /\ SuspendAt(f, "asleep") /\ UNCHANGED <<prog, born, ended>>
    BY <1>3 DEF Sleep, Calls
  <2>2. QED
    BY <2>1, SuspendKeeps DEF Sleeping
<1>4. ASSUME NEW f \in Fiber, SleepForever(f) PROVE SchedInv'
  <2>1. /\ Active(f) /\ Reschedule(runnables) /\ timers' = timers
        /\ SuspendAt(f, "asleep") /\ UNCHANGED <<prog, born, ended>>
    BY <1>4 DEF SleepForever, Calls
  <2>2. QED
    BY <2>1, SuspendKeeps
<1>6. ASSUME NEW f \in Fiber, Awake(f) PROVE SchedInv'
  <2>1. /\ Active(f) /\ ip[f] + 1 \in Nat /\ GoTo(f, ip[f] + 1)
        /\ UNCHANGED <<prog, current, runnables, timers, born, ended>>
    BY <1>6, <1>0 DEF Awake, ResumedAt, Return, SchedTypeOK
  <2>2. QED
    BY <2>1, MoveKeeps
<1>7. ASSUME NEW f \in Fiber, Jump(f) PROVE SchedInv'
  <2>1. /\ Active(f) /\ ThisCall(f).to \in Nat /\ GoTo(f, ThisCall(f).to)
        /\ UNCHANGED <<prog, current, runnables, timers, born, ended>>
    BY <1>7, <1>0 DEF Jump, Calls, ThisCall, SchedTypeOK, SchedulerAssumption
  <2>2. QED
    BY <2>1, MoveKeeps
<1>8. ASSUME NEW f \in Fiber, Finish(f) PROVE SchedInv'
  <2>1. /\ f = current /\ f \in born \ ended
        /\ ended' = ended \cup {f} /\ timers' = timers \ {f}
        /\ UNCHANGED <<prog, ip, at, born>>
        /\ Active(f) /\ Reschedule(runnables)
        /\ ended \subseteq ended' /\ ended' \subseteq ended \cup {f} /\ born' = born
    BY <1>8 DEF Finish, Active
  <2>2. /\ runnables' \in Seq(Fiber)
        /\ \A i, j \in DOMAIN runnables' : runnables'[i] = runnables'[j] => i = j
        /\ \A g \in Fiber : Queued(g)' # {} <=> Queued(g) # {} /\ g # current'
        /\ current' \in (born' \ ended') \cup {Loop}
        /\ current' \notin timers \/ current' = Loop
    BY <2>1, SuspendKeepsQueue
  <2>3. SchedTypeOK' /\ LiveCurrent'
    BY <1>0, <2>1, <2>2 DEF SchedTypeOK, LiveCurrent
  <2>4. OneWakeup'
    <3>1. ASSUME NEW g \in Fiber, Scheduled(g)'
          PROVE  g \in (born' \ ended') \ {current'}
      BY <1>0, <2>1, <2>2, <3>1
         DEF OneWakeup, Scheduled, SchedTypeOK, SchedulerAssumption
    <3>2. \A g \in timers' : Queued(g)' = {} /\ at'[g] \in Sleeping
      BY <1>0, <2>1, <2>2 DEF OneWakeup, SchedTypeOK
    <3>3. QED
      BY <2>2, <3>1, <3>2 DEF OneWakeup
  <2>5. NoneLost'
    BY <1>0, <2>1, <2>2 DEF NoneLost, SchedTypeOK
  <2>6. QED
    BY <2>3, <2>4, <2>5
<1>9. ASSUME NEW f \in Fiber, Fire(f) PROVE SchedInv'
  <2>1. /\ current = Loop /\ f \in timers /\ timers' = timers \ {f} /\ current' = f
        /\ UNCHANGED <<prog, ip, at, runnables, born, ended>>
    BY <1>9 DEF Fire, Resume
  <2>2. \A g \in Fiber : Queued(g)' = Queued(g)
    BY <2>1 DEF Queued
  <2>3. Queued(f) = {} /\ f \in born \ ended
    BY <2>1, <1>0 DEF OneWakeup, Scheduled
  <2>4. SchedTypeOK' /\ LiveCurrent'
    BY <1>0, <2>1, <2>3 DEF SchedTypeOK, LiveCurrent
  <2>5. OneWakeup'
    <3>1. ASSUME NEW g \in Fiber, Scheduled(g)'
          PROVE  g \in (born' \ ended') \ {current'}
      <4>1. Scheduled(g) /\ g # f
        BY <3>1, <2>1, <2>2, <2>3 DEF Scheduled
      <4>2. QED
        BY <4>1, <1>0, <2>1 DEF OneWakeup
    <3>2. \A g \in timers' : Queued(g)' = {} /\ at'[g] \in Sleeping
      BY <1>0, <2>1, <2>2 DEF OneWakeup, SchedTypeOK
    <3>3. QED
      BY <3>1, <3>2, <1>0, <2>1 DEF OneWakeup
  <2>6. NoneLost'
    BY <1>0, <2>1, <2>2 DEF NoneLost, SchedTypeOK
  <2>7. QED
    BY <2>4, <2>5, <2>6
<1>10. CASE Exit
  <2>1. /\ at' = [at EXCEPT ![Main] = "exited"]
        /\ current = Main /\ Main \in born \ ended
        /\ UNCHANGED <<prog, ip, current, runnables, timers, born, ended>>
    BY <1>10 DEF Exit, Active
  <2>2. \A g \in Fiber : Queued(g)' = Queued(g) /\ Scheduled(g)' = Scheduled(g)
    BY <2>1 DEF Queued, Scheduled
  <2>3. Main \notin timers
    BY <2>1, <1>0 DEF OneWakeup, Scheduled, SchedulerAssumption
  <2>4. SchedTypeOK' /\ LiveCurrent'
    BY <1>0, <2>1 DEF SchedTypeOK, LiveCurrent
  <2>5. OneWakeup'
    BY <1>0, <2>1, <2>2, <2>3 DEF OneWakeup, SchedTypeOK
  <2>6. NoneLost'
    BY <1>0, <2>1, <2>2 DEF NoneLost, SchedTypeOK
  <2>7. QED
    BY <2>4, <2>5, <2>6
<1>11. CASE UNCHANGED schedVars
  <2>1. UNCHANGED <<prog, ip, at, current, runnables, timers, born, ended>>
    BY <1>11 DEF schedVars
  <2>2. \A g \in Fiber : Queued(g)' = Queued(g) /\ Scheduled(g)' = Scheduled(g)
    BY <2>1 DEF Queued, Scheduled
  <2>3. QED
    BY <1>0, <2>1, <2>2 DEF SchedTypeOK, OneWakeup, NoneLost, LiveCurrent
<1>12. QED
  BY <1>1, <1>3, <1>4, <1>6, <1>7, <1>8, <1>9, <1>10, <1>11
     DEF SchedNext, SchedStep

(* Whatever the fibers do, a fiber is never due to be resumed twice, nor   *)
(* while it runs, nor before its creation or after its end                 *)
(* (Scheduler.enqueue, Scheduler.reschedule, Fiber#run).                   *)
THEOREM SchedulerOneWakeup == SchedSpec => []OneWakeup
<1>1. SchedInv => OneWakeup
  BY DEF SchedInv
<1>2. QED
  BY SchedInitially, SchedInductive, <1>1, PTL DEF SchedSpec

(* Whatever the fibers do, no fiber that can go on is dropped by spawn,    *)
(* Scheduler.reschedule or the event loop.                                 *)
THEOREM SchedulerNoneLost == SchedSpec => []NoneLost
<1>1. SchedInv => NoneLost
  BY DEF SchedInv
<1>2. QED
  BY SchedInitially, SchedInductive, <1>1, PTL DEF SchedSpec

(* Only fibers that exist and have not ended ever run.                     *)
THEOREM SchedulerLiveCurrent == SchedSpec => []LiveCurrent
<1>1. SchedInv => LiveCurrent
  BY DEF SchedInv
<1>2. QED
  BY SchedInitially, SchedInductive, <1>1, PTL DEF SchedSpec
=============================================================================
