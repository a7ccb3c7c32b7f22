----------------------------- MODULE FutureProofs -----------------------------
(***************************************************************************)
(* For every set of futures, fibers and programs: a future that was        *)
(* canceled in time is dropped, whoever gets one finds an answer, and a    *)
(* block runs once, as long as no lazy future has a block that waits.      *)
(* Only the fiber that Concurrent::Future#initialize spawns computes a     *)
(* future that is not lazy (ComputeAssumption).                            *)
(***************************************************************************)
EXTENDS Future, TLAPS

(* A fiber inside a call of a future is at the switch point of that call.  *)
Inside ==
  \A f \in Fiber : at[f] \in {"retry", "delayed", "computing"} =>
    /\ ip[f] \in DOMAIN prog[f]
    /\ ThisCall(f).op \in (CASE at[f] = "retry"   -> {"get"}
                             [] at[f] = "delayed" -> {"compute"}
                             [] OTHER             -> {"get", "compute"})

(* Where the fibers are.                                                   *)
ControlInv == prog \in Programs /\ ChanTypeOK /\ Inside

(* Only a lazy future is Idle, only a delayed one Delayed.                 *)
Kinds ==
  \A u \in Futures :
    /\ state[u] = "Idle" => u \in Lazy
    /\ state[u] = "Delayed" => u \in Delayed

(* A fiber inside the block of a future has called it.                     *)
Begun == \A f \in Fiber : at[f] = "computing" => runs[This(f)] # 0

(* A future whose channel is closed was canceled, or its block has ended.  *)
HasAnswer ==
  \A u \in Futures : closed[u] \/ state[u] = "Completed" =>
    state[u] = "Canceled" \/ value[u] # NoFiber \/ error[u]

FutureInv ==
  ControlInv /\ FutureTypeOK /\ Kinds /\ Begun /\ CancelDrops /\ HasAnswer /\ NoCompilerBug

(* Fiber f may move, and no other does.                                    *)
StepOf(f) ==
  /\ prog' = prog
  /\ ip' \in [Fiber -> Nat]
  /\ at' \in [Fiber -> Place]
  /\ \A g \in Fiber \ {f} : ip'[g] = ip[g] /\ at'[g] = at[g]

LEMMA GoToStep ==
  ASSUME SchedTypeOK, NEW f \in Fiber, NEW i \in Nat, GoTo(f, i), prog' = prog
  PROVE  StepOf(f) /\ at'[f] = "start" /\ ip'[f] = i
BY DEF SchedTypeOK, GoTo, StepOf, Place

LEMMA ReturnStep ==
  ASSUME SchedTypeOK, NEW f \in Fiber, Return(f) \/ Raise(f), prog' = prog
  PROVE  StepOf(f) /\ at'[f] = "start" /\ ip'[f] \in {ip[f] + 1, Len(prog[f]) + 1}
<1>1. ip[f] + 1 \in Nat /\ Len(prog[f]) + 1 \in Nat
  BY DEF SchedTypeOK
<1>2. PICK i \in {ip[f] + 1, Len(prog[f]) + 1} : GoTo(f, i)
  BY DEF Return, Raise
<1>3. QED
  BY <1>1, <1>2, GoToStep

LEMMA SuspendStep ==
  ASSUME SchedTypeOK, NEW f \in Fiber, NEW where \in Place, SuspendAt(f, where), prog' = prog
  PROVE  StepOf(f) /\ at'[f] = where /\ ip'[f] = ip[f]
BY DEF SchedTypeOK, SuspendAt, StepOf

LEMMA RescheduleTyped ==
  ASSUME runnables \in Seq(Fiber), Reschedule(runnables)
  PROVE  runnables' \in Seq(Fiber) /\ current' \in Fiber \cup {Loop}
<1>1. CASE runnables = <<>>
  BY <1>1 DEF Reschedule
<1>2. CASE runnables # <<>>
  <2>1. Head(runnables) \in Fiber /\ Tail(runnables) \in Seq(Fiber)
    BY <1>2
  <2>2. QED
    BY <1>2, <2>1 DEF Reschedule
<1>3. QED
  BY <1>1, <1>2

LEMMA EnqueueTyped ==
  ASSUME runnables \in Seq(Fiber), NEW fs \in Seq(Fiber), Enqueue(fs)
  PROVE  runnables' \in Seq(Fiber)
BY DEF Enqueue

(* The call a fiber makes is one of its program, and about a future.       *)
LEMMA CallOfFuture ==
  ASSUME SchedTypeOK, NEW f \in Fiber, ip[f] \in 1 .. Len(prog[f]),
         ThisCall(f).op \in {"future", "compute", "get", "cancel"}
  PROVE  This(f) \in Futures /\ ThisCall(f) \in Call
<1>1. prog[f] \in Seq(Call)
  BY DEF SchedTypeOK
<1>2. ThisCall(f) \in Call
  BY <1>1 DEF ThisCall
<1>3. QED
  BY <1>2, FutureAssumption DEF FutureAssumption, This

(* How the scheduler moves fiber f: not at all, or into a sleep or the end *)
(* of the process, or to its next call, or to the one it jumps to.         *)
SchedMove(f) ==
  /\ StepOf(f)
  /\ \/ ip'[f] = ip[f] /\ at'[f] = at[f]
     \/ ip'[f] = ip[f] /\ at'[f] \in {"asleep", "exited"}
     \/ ip'[f] = ip[f] + 1 /\ at'[f] = "start"
     \/ Calls(f, "goto") /\ at'[f] = "start"

LEMMA SchedSteps ==
  ASSUME SchedTypeOK, SchedNext
  PROVE  SchedTypeOK' /\ \E f \in Fiber : SchedMove(f)
<1> USE SchedulerAssumption DEF SchedulerAssumption
<1>1. ASSUME NEW f \in Fiber, Spawn(f)
      PROVE  SchedTypeOK' /\ SchedMove(f)
  <2>1. ThisCall(f) \in Call /\ ThisCall(f).op = "spawn"
    BY <1>1 DEF Spawn, Calls, ThisCall, SchedTypeOK
  <2>2. StepOf(f) /\ at'[f] = "start" /\ ip'[f] = ip[f] + 1
    <3>1. ip[f] + 1 \in Nat /\ GoTo(f, ip[f] + 1) /\ prog' = prog
      BY <1>1 DEF Spawn, Return, SchedTypeOK
    <3>2. QED
      BY <3>1, GoToStep
  <2>3. ThisCall(f).fiber \in Fiber
    BY <2>1
  <2>4. runnables' \in Seq(Fiber)
    <3>1. Enqueue(<<ThisCall(f).fiber>>) /\ <<ThisCall(f).fiber>> \in Seq(Fiber)
      BY <1>1, <2>3 DEF Spawn
    <3>2. QED
      BY <3>1, EnqueueTyped DEF SchedTypeOK
  <2>5. SchedTypeOK'
    BY <1>1, <2>2, <2>3, <2>4 DEF Spawn, SchedTypeOK, StepOf
  <2>6. QED
    BY <2>2, <2>5 DEF SchedMove
<1>2. ASSUME NEW f \in Fiber, Sleep(f) \/ SleepForever(f)
      PROVE  SchedTypeOK' /\ SchedMove(f)
  <2>1. /\ SuspendAt(f, "asleep") /\ Reschedule(runnables)
        /\ timers' \in {timers, timers \cup {f}}
        /\ UNCHANGED <<prog, born, ended>>
    BY <1>2 DEF Sleep, SleepForever
  <2>2. StepOf(f) /\ at'[f] = "asleep" /\ ip'[f] = ip[f]
    BY <2>1, SuspendStep DEF Place
  <2>3. runnables' \in Seq(Fiber) /\ current' \in Fiber \cup {Loop}
    BY <2>1, RescheduleTyped DEF SchedTypeOK
  <2>4. QED
    BY <2>1, <2>2, <2>3 DEF SchedTypeOK, StepOf, SchedMove
<1>3. ASSUME NEW f \in Fiber, Awake(f)
      PROVE  SchedTypeOK' /\ SchedMove(f)
  <2>1. ip[f] + 1 \in Nat /\ GoTo(f, ip[f] + 1) /\ prog' = prog
    BY <1>3 DEF Awake, Return, SchedTypeOK
  <2>2. StepOf(f) /\ at'[f] = "start" /\ ip'[f] = ip[f] + 1
    BY <2>1, GoToStep
  <2>3. QED
    BY <1>3, <2>2 DEF Awake, SchedTypeOK, StepOf, SchedMove
<1>4. ASSUME NEW f \in Fiber, Jump(f)
      PROVE  SchedTypeOK' /\ SchedMove(f)
  <2>1. ThisCall(f) \in Call /\ ThisCall(f).op = "goto"
    BY <1>4 DEF Jump, Calls, ThisCall, SchedTypeOK
  <2>2. ThisCall(f).to \in Nat
    BY <2>1
  <2>3. StepOf(f) /\ at'[f] = "start"
    BY <1>4, <2>2, GoToStep DEF Jump
  <2>4. QED
    BY <1>4, <2>3 DEF Jump, SchedTypeOK, StepOf, SchedMove
<1>5. ASSUME NEW f \in Fiber, Finish(f)
      PROVE  SchedTypeOK' /\ SchedMove(f)
  <2>1. runnables' \in Seq(Fiber) /\ current' \in Fiber \cup {Loop}
    BY <1>5, RescheduleTyped DEF Finish, SchedTypeOK
  <2>2. QED
    BY <1>5, <2>1 DEF Finish, Active, SchedTypeOK, StepOf, SchedMove
<1>6. ASSUME NEW f \in Fiber, Fire(f)
      PROVE  SchedTypeOK' /\ SchedMove(f)
  BY <1>6 DEF Fire, Resume, SchedTypeOK, StepOf, SchedMove
<1>7. ASSUME Exit
      PROVE  SchedTypeOK' /\ SchedMove(Main)
  BY <1>7 DEF Exit, SchedTypeOK, StepOf, Place, SchedMove
<1>8. QED
  BY <1>1, <1>2, <1>3, <1>4, <1>5, <1>6, <1>7 DEF SchedNext, SchedStep

(* How a step of a future moves fiber f: to its next call, past the last   *)
(* one, or to a switch point of the call it is in.                         *)
FutureMove(f) ==
  /\ StepOf(f)
  /\ \/ at'[f] = "start" /\ ip'[f] \in {ip[f] + 1, Len(prog[f]) + 1}
     \/ /\ ip'[f] = ip[f] /\ ip[f] \in 1 .. Len(prog[f])
        /\ \/ at'[f] = "retry" /\ ThisCall(f).op = "get"
           \/ at'[f] = "delayed" /\ at[f] = "start" /\ ThisCall(f).op = "compute"
           \/ at'[f] = "computing" /\ ThisCall(f).op \in {"get", "compute"}

(* A running fiber that is in a call of a future.                          *)
LEMMA InFuture ==
  ASSUME ControlInv, NEW f \in Fiber,
         \/ \E op \in {"future", "compute", "get", "cancel"} : Calls(f, op)
         \/ at[f] \in {"retry", "delayed", "computing"}
  PROVE  ip[f] \in 1 .. Len(prog[f]) /\ This(f) \in Futures /\ This(f) \in Channels
<1>1. SchedTypeOK /\ prog[f] \in Seq(Call)
  BY DEF ControlInv, ChanTypeOK, SchedTypeOK
<1>2. /\ ip[f] \in 1 .. Len(prog[f])
      /\ ThisCall(f).op \in {"future", "compute", "get", "cancel"}
  <2>1. CASE at[f] \in {"retry", "delayed", "computing"}
    BY <1>1, <2>1 DEF ControlInv, Inside
  <2>2. CASE \E op \in {"future", "compute", "get", "cancel"} : Calls(f, op)
    BY <2>2 DEF Calls, ThisCall
  <2>3. QED
    BY <2>1, <2>2
<1>3. QED
  BY <1>1, <1>2, CallOfFuture, FutureAssumption DEF FutureAssumption, Unbuffered

(* The end of the block: the fiber goes on, and those that wait are due.   *)
LEMMA BlockEndsMoves ==
  ASSUME ControlInv, NEW f \in Fiber, This(f) \in Channels, BlockEnds(f),
         UNCHANGED <<prog, born, ended, senders, contents, sent, got>>
  PROVE  ChanTypeOK' /\ FutureMove(f)
<1>0. SchedTypeOK /\ receivers[This(f)] \in Seq(Fiber)
  BY DEF ControlInv, ChanTypeOK
<1>1. Return(f) \/ Raise(f)
  BY DEF BlockEnds, ValueOrRaise
<1>2. StepOf(f) /\ at'[f] = "start" /\ ip'[f] \in {ip[f] + 1, Len(prog[f]) + 1}
  BY <1>0, <1>1, ReturnStep
<1>3. runnables' \in Seq(Fiber)
  BY <1>0, EnqueueTyped DEF BlockEnds, SchedTypeOK
<1>4. SchedTypeOK'
  BY <1>0, <1>2, <1>3 DEF BlockEnds, SchedTypeOK, StepOf
<1>5. /\ closed' = [closed EXCEPT ![This(f)] = TRUE]
      /\ receivers' = [receivers EXCEPT ![This(f)] = <<>>]
  BY DEF BlockEnds
<1>6. QED
  BY <1>2, <1>4, <1>5 DEF ControlInv, ChanTypeOK, FutureMove

(* A switch inside a call of a future.                                     *)
LEMMA SwitchMoves ==
  ASSUME ControlInv, NEW f \in Fiber, NEW where, SuspendAt(f, where),
         ip[f] \in 1 .. Len(prog[f]),
         \/ where = "retry" /\ ThisCall(f).op = "get"
         \/ where = "delayed" /\ at[f] = "start" /\ ThisCall(f).op = "compute"
         \/ where = "computing" /\ ThisCall(f).op \in {"get", "compute"},
         Reschedule(runnables), timers' \in {timers, timers \cup {f}},
         UNCHANGED <<prog, born, ended>>
  PROVE  SchedTypeOK' /\ FutureMove(f)
<1>0. SchedTypeOK /\ where \in Place
  BY DEF ControlInv, ChanTypeOK, Place
<1>1. StepOf(f) /\ at'[f] = where /\ ip'[f] = ip[f]
  BY <1>0, SuspendStep
<1>2. runnables' \in Seq(Fiber) /\ current' \in Fiber \cup {Loop}
  BY <1>0, RescheduleTyped DEF SchedTypeOK
<1>3. SchedTypeOK'
  BY <1>0, <1>1, <1>2 DEF SchedTypeOK, StepOf
<1>4. QED
  BY <1>1, <1>3 DEF FutureMove

LEMMA CallBlockMoves ==
  ASSUME ControlInv, NEW f \in Fiber, ip[f] \in 1 .. Len(prog[f]), This(f) \in Channels,
         ThisCall(f).op \in {"get", "compute"}, CallBlock(f)
  PROVE  ChanTypeOK' /\ FutureMove(f)
<1>1. CASE This(f) \in Napping
  <2>1. BlockSleeps(f) /\ UNCHANGED <<prog, born, ended, senders, contents, sent, got>>
    BY <1>1 DEF CallBlock
  <2>2. SchedTypeOK' /\ FutureMove(f)
    <3>1. SuspendAt(f, "computing") /\ Reschedule(runnables) /\ timers' = timers \cup {f}
      BY <2>1 DEF BlockSleeps
    <3>2. QED
      BY <2>1, <3>1, SwitchMoves
  <2>3. QED
    BY <2>1, <2>2 DEF BlockSleeps, ControlInv, ChanTypeOK
<1>2. CASE This(f) \notin Napping
  BY <1>2, BlockEndsMoves DEF CallBlock
<1>3. QED
  BY <1>1, <1>2

LEMMA FutureMoves ==
  ASSUME ControlInv, NEW f \in Fiber, FutureStep(f)
  PROVE  ChanTypeOK' /\ FutureMove(f)
<1>0. /\ SchedTypeOK
      /\ receivers \in [Channels -> Seq(Fiber)]
  BY DEF ControlInv, ChanTypeOK
<1>1. ASSUME Return(f) \/ Raise(f), UNCHANGED <<prog, current, timers, ended>>,
             born' \subseteq Fiber, born \subseteq born', runnables' \in Seq(Fiber)
      PROVE  SchedTypeOK' /\ FutureMove(f)
  <2>1. StepOf(f) /\ at'[f] = "start" /\ ip'[f] \in {ip[f] + 1, Len(prog[f]) + 1}
    BY <1>0, <1>1, ReturnStep
  <2>2. SchedTypeOK'
    BY <1>0, <1>1, <2>1 DEF SchedTypeOK, StepOf
  <2>3. QED
    BY <2>1, <2>2 DEF FutureMove
<1>2. CASE Make(f)
  <2>1. ThisCall(f) \in Call /\ ThisCall(f).op = "future"
    BY <1>0, <1>2, CallOfFuture DEF Make, Calls, ThisCall
  <2>2. ThisCall(f).fiber \in Fiber
    BY <2>1, FutureAssumption DEF FutureAssumption
  <2>3. runnables' \in Seq(Fiber) /\ born' \subseteq Fiber /\ born \subseteq born'
    <3>1. <<ThisCall(f).fiber>> \in Seq(Fiber)
      BY <2>2
    <3>2. runnables' \in Seq(Fiber)
      BY <1>0, <1>2, <3>1, EnqueueTyped DEF Make, SchedTypeOK
    <3>3. QED
      BY <1>0, <1>2, <2>2, <3>2 DEF Make, SchedTypeOK
  <2>4. Return(f) /\ UNCHANGED <<prog, current, timers, ended, chanVars>>
    BY <1>2 DEF Make
  <2>5. SchedTypeOK' /\ FutureMove(f)
    BY <1>1, <2>3, <2>4
  <2>6. QED
    BY <2>4, <2>5 DEF ControlInv, ChanTypeOK, chanVars
<1>3. CASE Cancel(f)
  <2>1. This(f) \in Channels
    BY <1>3, InFuture DEF Cancel, FutureCall
  <2>2. runnables' \in Seq(Fiber)
    <3>1. Enqueue(receivers[This(f)]) /\ receivers[This(f)] \in Seq(Fiber)
      BY <1>0, <1>3, <2>1 DEF Cancel
    <3>2. QED
      BY <1>0, <3>1, EnqueueTyped DEF SchedTypeOK
  <2>3. /\ Return(f) /\ UNCHANGED <<prog, current, timers, born, ended>>
        /\ UNCHANGED <<senders, contents, sent, got>>
        /\ closed' = [closed EXCEPT ![This(f)] = TRUE]
        /\ receivers' = [receivers EXCEPT ![This(f)] = <<>>]
    BY <1>3 DEF Cancel
  <2>4. SchedTypeOK' /\ FutureMove(f)
    BY <1>0, <1>1, <2>2, <2>3 DEF SchedTypeOK
  <2>5. closed' \in [Channels -> BOOLEAN] /\ receivers' \in [Channels -> Seq(Fiber)]
    <3>1. closed \in [Channels -> BOOLEAN] /\ receivers \in [Channels -> Seq(Fiber)]
      BY DEF ControlInv, ChanTypeOK
    <3>2. closed' = [closed EXCEPT ![This(f)] = TRUE]
      BY <2>3
    <3>3. receivers' = [receivers EXCEPT ![This(f)] = <<>>]
      BY <2>3
    <3>4. <<>> \in Seq(Fiber)
      OBVIOUS
    <3>5. closed' \in [Channels -> BOOLEAN]
      BY <3>1, <3>2
    <3>6. receivers' \in [Channels -> Seq(Fiber)]
      BY <3>1, <3>3, <3>4
    <3>7. QED
      BY <3>5, <3>6
  <2>6. QED
    BY <2>3, <2>4, <2>5 DEF ControlInv, ChanTypeOK
<1>4. CASE CancelTooLate(f) \/ DelayCanceled(f) \/ GetAnswers(f)
  <2>1. /\ Return(f) \/ Raise(f)
        /\ UNCHANGED <<prog, current, runnables, timers, born, ended, chanVars>>
    BY <1>4 DEF CancelTooLate, DelayCanceled, GetAnswers, ValueOrRaise
  <2>2. SchedTypeOK' /\ FutureMove(f)
    BY <1>0, <1>1, <2>1 DEF SchedTypeOK
  <2>3. QED
    BY <2>1, <2>2 DEF ControlInv, ChanTypeOK, chanVars
<1>5. CASE Delay(f)
  <2>1. /\ SuspendAt(f, "delayed") /\ Reschedule(runnables) /\ timers' = timers \cup {f}
        /\ UNCHANGED <<prog, born, ended, chanVars>>
        /\ ip[f] \in 1 .. Len(prog[f]) /\ at[f] = "start" /\ ThisCall(f).op = "compute"
    BY <1>5 DEF Delay, FutureCall, Calls, ThisCall
  <2>2. SchedTypeOK' /\ FutureMove(f)
    BY <2>1, SwitchMoves
  <2>3. QED
    BY <2>1, <2>2 DEF ControlInv, ChanTypeOK, chanVars
<1>6. CASE Compute(f) \/ GetComputes(f)
  <2>1. /\ CallBlock(f)
        /\ ip[f] \in 1 .. Len(prog[f]) /\ This(f) \in Channels
    BY <1>6, InFuture DEF Compute, GetComputes, FutureCall, ResumedAt
  <2>2. ThisCall(f).op \in {"get", "compute"}
    BY <1>6 DEF Compute, GetComputes, FutureCall, Calls, ThisCall, ResumedAt,
       ControlInv, Inside
  <2>3. QED
    BY <2>1, <2>2, CallBlockMoves
<1>7. CASE Computed(f)
  BY <1>7, InFuture, BlockEndsMoves DEF Computed, ResumedAt
<1>8. CASE GetWaits(f)
  <2>1. /\ SuspendAt(f, "retry") /\ Reschedule(runnables)
        /\ UNCHANGED <<prog, timers, born, ended, closed, senders, contents, sent, got>>
        /\ receivers' = [receivers EXCEPT ![This(f)] = Append(@, f)]
        /\ ip[f] \in 1 .. Len(prog[f]) /\ This(f) \in Channels
    BY <1>8, InFuture DEF GetWaits, FutureCall, ResumedAt
  <2>2. ThisCall(f).op = "get"
    BY <1>8 DEF GetWaits, FutureCall, Calls, ThisCall, ResumedAt, ControlInv, Inside
  <2>3. SchedTypeOK' /\ FutureMove(f)
    BY <2>1, <2>2, SwitchMoves
  <2>4. receivers' \in [Channels -> Seq(Fiber)]
    BY <1>0, <2>1
  <2>5. QED
    BY <2>1, <2>3, <2>4 DEF ControlInv, ChanTypeOK
<1>9. QED
  BY <1>2, <1>3, <1>4, <1>5, <1>6, <1>7, <1>8 DEF FutureStep

(* The control part of the invariant is inductive by itself.               *)
LEMMA ControlInductive ==
  ASSUME ControlInv, [FutureNext]_allFutureVars
  PROVE  ControlInv'
<1>1. ASSUME NEW f \in Fiber, FutureMove(f) \/ SchedMove(f), ChanTypeOK'
      PROVE  ControlInv'
  <2>1. prog' = prog /\ \A g \in Fiber \ {f} : ip'[g] = ip[g] /\ at'[g] = at[g]
    BY <1>1 DEF FutureMove, SchedMove, StepOf
  <2>2. /\ DOMAIN prog[f] = 1 .. Len(prog[f])
        /\ prog' \in Programs
    BY <2>1 DEF ControlInv, ChanTypeOK, SchedTypeOK
  <2>3. ASSUME NEW g \in Fiber, at'[g] \in {"retry", "delayed", "computing"}
        PROVE  /\ ip'[g] \in DOMAIN prog'[g]
               /\ ThisCall(g)'.op \in (CASE at'[g] = "retry"   -> {"get"}
                                         [] at'[g] = "delayed" -> {"compute"}
                                         [] OTHER              -> {"get", "compute"})
    <3>1. CASE ip'[g] = ip[g] /\ at'[g] = at[g]
      BY <2>1, <2>3, <3>1 DEF ControlInv, Inside, ThisCall
    <3>2. CASE ~(ip'[g] = ip[g] /\ at'[g] = at[g])
      <4>1. g = f
        BY <2>1, <3>2
      <4>2. QED
        BY <1>1, <2>1, <2>2, <2>3, <3>2, <4>1 DEF FutureMove, SchedMove, ThisCall
    <3>3. QED
      BY <3>1, <3>2
  <2>4. QED
    BY <1>1, <2>2, <2>3 DEF ControlInv, Inside
<1>2. CASE SchedNext /\ UNCHANGED <<chanVars, futureVars>>
  <2>1. SchedTypeOK' /\ \E f \in Fiber : SchedMove(f)
    BY <1>2, SchedSteps DEF ControlInv, ChanTypeOK
  <2>2. ChanTypeOK'
    BY <1>2, <2>1 DEF ControlInv, ChanTypeOK, chanVars
  <2>3. QED
    BY <1>1, <2>1, <2>2
<1>3. CASE UNCHANGED allFutureVars
  BY <1>3 DEF allFutureVars, schedVars, chanVars, ControlInv, ChanTypeOK, SchedTypeOK,
     Inside, ThisCall
<1>4. QED
  BY <1>1, <1>2, <1>3, FutureMoves DEF FutureNext

LEMMA FutureInitially == FutureInit => FutureInv
<1> SUFFICES ASSUME FutureInit PROVE FutureInv
  OBVIOUS
<1>1. /\ ChanInit /\ SchedInit
      /\ state = [u \in Futures |-> "Unmade"] /\ value = [u \in Futures |-> NoFiber]
      /\ error = [u \in Futures |-> FALSE] /\ runs = [u \in Futures |-> 0]
      /\ dropped = [u \in Futures |-> FALSE] /\ answers = [u \in Futures |-> {}]
  BY DEF FutureInit, ChanInit
<1>2. SchedTypeOK
  BY <1>1, SchedulerAssumption DEF SchedInit, SchedTypeOK, SchedulerAssumption, Place
<1>3. ChanTypeOK
  BY <1>1, <1>2 DEF ChanInit, ChanTypeOK
<1>4. ControlInv
  BY <1>1, <1>3 DEF SchedInit, ControlInv, Inside
<1>5. FutureTypeOK
  BY <1>1, <1>3 DEF FutureTypeOK, FutureState
<1>6. Kinds /\ CancelDrops /\ NoCompilerBug
  BY <1>1, FutureAssumption DEF Kinds, CancelDrops, NoCompilerBug, FutureAssumption
<1>7. Begun
  BY <1>1 DEF SchedInit, Begun
<1>8. HasAnswer
  <2>1. \A u \in Futures : closed[u] = FALSE
    BY <1>1, FutureAssumption DEF ChanInit, FutureAssumption, Unbuffered
  <2>2. QED
    BY <1>1, <2>1 DEF HasAnswer
<1>9. QED
  BY <1>4, <1>5, <1>6, <1>7, <1>8 DEF FutureInv

(* value_or_raise gives an answer when there is one.                       *)
LEMMA AnswerKeeps ==
  ASSUME answers \in [Futures -> SUBSET Answer], NoCompilerBug,
         NEW f \in Fiber, NEW u \in Futures, NEW s, NEW v \in Fiber \cup {NoFiber}, NEW e,
         ValueOrRaise(f, u, s, v, e), s = "Canceled" \/ v # NoFiber \/ e
  PROVE  answers' \in [Futures -> SUBSET Answer] /\ NoCompilerBug'
<1> DEFINE kind == IF s = "Canceled" THEN "canceled"
                   ELSE IF v # NoFiber \/ u \in Nilable THEN "value"
                   ELSE IF e THEN "error" ELSE "compiler bug"
           a == [kind |-> kind, of |-> IF kind = "value" THEN v ELSE NoFiber]
<1>1. kind \in {"canceled", "value", "error"}
  OBVIOUS
<1>2. answers' = [answers EXCEPT ![u] = @ \cup {a}]
  BY DEF ValueOrRaise
<1>3. a \in Answer /\ a.kind # "compiler bug"
  <2> HIDE DEF kind
  <2>1. QED
    BY <1>1 DEF Answer
<1> HIDE DEF a
<1>4. \A w \in Futures : answers'[w] = IF w = u THEN answers[w] \cup {a} ELSE answers[w]
  BY <1>2
<1>5. QED
  BY <1>2, <1>3, <1>4 DEF NoCompilerBug

(* A step that changes no future.                                          *)
LEMMA OtherStepKeeps ==
  ASSUME FutureInv, ControlInv', NEW f \in Fiber, StepOf(f),
         (at'[f] = at[f] /\ ip'[f] = ip[f]) \/ at'[f] # "computing",
         UNCHANGED <<closed, futureVars>>
  PROVE  FutureInv'
<1>1. /\ ControlInv /\ FutureTypeOK /\ Kinds /\ Begun /\ CancelDrops /\ HasAnswer
      /\ NoCompilerBug
  BY DEF FutureInv
<1>2. UNCHANGED <<closed, state, value, error, runs, dropped, answers>>
  BY DEF futureVars
<1>3. Begun'
  <2> SUFFICES ASSUME NEW g \in Fiber, at'[g] = "computing"
               PROVE  runs'[This(g)'] # 0
    BY DEF Begun
  <2>1. at'[g] = at[g] /\ ip'[g] = ip[g] /\ prog' = prog
    BY DEF StepOf
  <2>2. QED
    BY <1>1, <1>2, <2>1 DEF Begun, This, ThisCall
<1>4. FutureTypeOK'
  BY <1>1, <1>2 DEF FutureTypeOK, ControlInv
<1>5. Kinds' /\ CancelDrops' /\ HasAnswer' /\ NoCompilerBug'
  BY <1>1, <1>2 DEF Kinds, CancelDrops, HasAnswer, NoCompilerBug
<1>6. QED
  BY <1>3, <1>4, <1>5 DEF FutureInv

(* A future that is canceled before its block is called and therefore      *)
(* never calls it.                                                         *)
Dropped(u) == u \in Delayed \cup Lazy /\ dropped[u]

(* The end of the block, of which this is not a dropped future.            *)
LEMMA BlockEndsKeeps ==
  ASSUME FutureInv, ControlInv', NEW f \in Fiber, This(f) \in Futures, ~Dropped(This(f)),
         BlockEnds(f), StepOf(f), at'[f] = "start", dropped' = dropped,
         runs' \in [Futures -> Nat], runs'[This(f)] # 0,
         \A u \in Futures \ {This(f)} : runs'[u] = runs[u]
  PROVE  FutureInv'
<1> DEFINE u == This(f)
<1>1. /\ ControlInv /\ FutureTypeOK /\ Kinds /\ Begun /\ CancelDrops /\ HasAnswer
      /\ NoCompilerBug
  BY DEF FutureInv
<1>2. /\ \/ value' = [value EXCEPT ![u] = f] /\ error' = error
         \/ error' = [error EXCEPT ![u] = TRUE] /\ value' = value
      /\ state' = [state EXCEPT ![u] = "Completed"]
      /\ closed' = [closed EXCEPT ![u] = TRUE]
      /\ \/ ValueOrRaise(f, u, "Completed", value'[u], error'[u])
         \/ answers' = answers
  BY DEF BlockEnds
<1>3. f # NoFiber /\ u \in Futures
  BY FutureAssumption DEF FutureAssumption
<1> HIDE DEF u
<1>4. /\ value' \in [Futures -> Fiber \cup {NoFiber}] /\ error' \in [Futures -> BOOLEAN]
      /\ state' \in [Futures -> FutureState]
  BY <1>1, <1>2 DEF FutureTypeOK, FutureState
<1>5. value'[u] # NoFiber \/ error'[u]
  BY <1>1, <1>2, <1>3 DEF FutureTypeOK
<1>6. answers' \in [Futures -> SUBSET Answer] /\ NoCompilerBug'
  <2>1. CASE answers' = answers
    BY <1>1, <2>1 DEF FutureTypeOK, NoCompilerBug
  <2>2. CASE ValueOrRaise(f, u, "Completed", value'[u], error'[u])
    <3>1. value'[u] \in Fiber \cup {NoFiber}
      BY <1>3, <1>4
    <3>2. answers \in [Futures -> SUBSET Answer] /\ NoCompilerBug
      BY <1>1 DEF FutureTypeOK
    <3>3. QED
      BY <1>3, <1>5, <2>2, <3>1, <3>2, AnswerKeeps
  <2>3. QED
    BY <1>2, <2>1, <2>2
<1>7. FutureTypeOK'
  BY <1>1, <1>4, <1>6 DEF FutureTypeOK, ControlInv
<1>8. \A w \in Futures \ {u} :
        /\ state'[w] = state[w] /\ closed'[w] = closed[w]
        /\ value'[w] = value[w] /\ error'[w] = error[w]
  BY <1>1, <1>2, FutureAssumption
     DEF FutureTypeOK, ControlInv, ChanTypeOK, FutureAssumption, Unbuffered
<1>9. state'[u] = "Completed"
  BY <1>1, <1>2, <1>3 DEF FutureTypeOK
<1>10. Kinds'
  BY <1>1, <1>8, <1>9 DEF Kinds
<1>11. CancelDrops'
  BY <1>1, <1>8, FutureAssumption DEF CancelDrops, Dropped, FutureAssumption, u
<1>12. HasAnswer'
  BY <1>1, <1>5, <1>8 DEF HasAnswer
<1>13. Begun'
  <2> SUFFICES ASSUME NEW g \in Fiber, at'[g] = "computing"
               PROVE  runs'[This(g)'] # 0
    BY DEF Begun
  <2>1. at[g] = "computing" /\ This(g)' = This(g)
    BY DEF StepOf, This, ThisCall
  <2>2. This(g) \in Futures /\ runs[This(g)] # 0
    BY <1>1, <2>1, InFuture DEF Begun
  <2>3. QED
    BY <2>1, <2>2
<1>14. QED
  BY <1>6, <1>7, <1>10, <1>11, <1>12, <1>13 DEF FutureInv

(* @block.call, on a future that is neither canceled nor dropped.          *)
LEMMA CallBlockKeeps ==
  ASSUME FutureInv, ControlInv', NEW f \in Fiber, This(f) \in Futures, StepOf(f),
         at[f] = "delayed" => state[This(f)] # "Canceled" /\ This(f) \notin Lazy,
         ~Dropped(This(f)), CallBlock(f)
  PROVE  FutureInv'
<1> DEFINE u == This(f)
<1>1. /\ ControlInv /\ FutureTypeOK /\ Kinds /\ Begun /\ CancelDrops /\ HasAnswer
      /\ NoCompilerBug /\ SchedTypeOK
  BY DEF FutureInv, ControlInv, ChanTypeOK
<1>2. u \in Futures /\ ~Dropped(u) /\ runs' = [runs EXCEPT ![u] = @ + 1] /\ dropped' = dropped
  BY DEF CallBlock
<1>3. CASE u \notin Napping
  <2>1. BlockEnds(f) /\ at'[f] = "start"
    <3>1. BlockEnds(f) /\ prog' = prog
      BY <1>3 DEF CallBlock
    <3>2. Return(f) \/ Raise(f)
      BY <3>1 DEF BlockEnds, ValueOrRaise
    <3>3. QED
      BY <1>1, <3>1, <3>2, ReturnStep
  <2>2. /\ runs' \in [Futures -> Nat] /\ runs'[u] # 0
        /\ \A w \in Futures \ {u} : runs'[w] = runs[w]
    BY <1>1, <1>2 DEF FutureTypeOK
  <2>3. QED
    BY <1>2, <2>1, <2>2, BlockEndsKeeps
<1>4. CASE u \in Napping
  <2>1. /\ UNCHANGED <<closed, value, error, answers, dropped, prog>>
        /\ SuspendAt(f, "computing")
        /\ state' = [state EXCEPT ![u] = IF at[f] = "delayed" THEN "Running" ELSE @]
    BY <1>4 DEF CallBlock, BlockSleeps
  <2> HIDE DEF u
  <2>2. /\ runs' \in [Futures -> Nat] /\ runs'[u] # 0
        /\ \A w \in Futures \ {u} : runs'[w] = runs[w] /\ state'[w] = state[w]
        /\ state'[u] = state[u] \/ (at[f] = "delayed" /\ state'[u] = "Running")
    <3>1. state \in [Futures -> FutureState]
      BY <1>1 DEF FutureTypeOK
    <3>2. /\ \A w \in Futures \ {u} : state'[w] = state[w]
          /\ state'[u] = state[u] \/ (at[f] = "delayed" /\ state'[u] = "Running")
      <4> DEFINE x == IF at[f] = "delayed" THEN "Running" ELSE state[u]
      <4>1. state' = [state EXCEPT ![u] = x]
        BY <2>1
      <4>2. x = state[u] \/ (at[f] = "delayed" /\ x = "Running")
        OBVIOUS
      <4> HIDE DEF x
      <4>3. state'[u] = x /\ \A w \in Futures \ {u} : state'[w] = state[w]
        BY <1>2, <3>1, <4>1
      <4>4. QED
        BY <4>2, <4>3
    <3>3. QED
      BY <1>1, <1>2, <3>2 DEF FutureTypeOK
  <2>3. state' \in [Futures -> FutureState]
    BY <1>1, <2>1 DEF FutureTypeOK, FutureState
  <2>4. FutureTypeOK' /\ NoCompilerBug'
    BY <1>1, <2>1, <2>2, <2>3 DEF FutureTypeOK, ControlInv, NoCompilerBug
  <2>5. Kinds' /\ CancelDrops'
    BY <1>1, <1>2, <2>1, <2>2 DEF Kinds, CancelDrops, Dropped
  <2>6. HasAnswer'
    <3>1. at[f] = "delayed" => state[u] # "Canceled"
      BY DEF u
    <3>2. QED
      BY <1>1, <2>1, <2>2, <3>1 DEF HasAnswer
  <2>7. Begun'
    <3> SUFFICES ASSUME NEW g \in Fiber, at'[g] = "computing"
                 PROVE  runs'[This(g)'] # 0
      BY DEF Begun
    <3>1. CASE g = f
      BY <1>1, <2>1, <2>2, <3>1 DEF u, This, ThisCall, SuspendAt
    <3>2. CASE g # f
      <4>1. at[g] = "computing" /\ This(g)' = This(g)
        BY <3>2 DEF StepOf, This, ThisCall
      <4>2. This(g) \in Futures /\ runs[This(g)] # 0
        BY <1>1, <4>1, InFuture DEF Begun
      <4>3. QED
        BY <4>1, <4>2, <2>2
    <3>3. QED
      BY <3>1, <3>2
  <2>8. QED
    BY <2>4, <2>5, <2>6, <2>7 DEF FutureInv
<1>5. QED
  BY <1>3, <1>4

(* Nothing computes a lazy future on a fiber of its own.                   *)
LEMMA NoLazyCompute ==
  ASSUME ControlInv, NEW f \in Fiber, ip[f] \in 1 .. Len(prog[f]),
         ThisCall(f).op = "compute"
  PROVE  This(f) \notin Lazy
<1>1. prog \in Programs /\ prog[f] \in Seq(Call)
  BY DEF ControlInv, ChanTypeOK, SchedTypeOK
<1>2. ip[f] \in DOMAIN prog[f] /\ prog[f][ip[f]].op = "compute"
  BY <1>1 DEF ThisCall
<1>3. QED
  BY <1>1, <1>2, ComputeAssumption DEF ComputeAssumption, This, ThisCall

LEMMA FutureStepKeeps ==
  ASSUME FutureInv, NEW f \in Fiber, FutureStep(f), ControlInv', FutureMove(f)
  PROVE  FutureInv'
<1>0. StepOf(f)
  BY DEF FutureMove
<1>1. /\ ControlInv /\ FutureTypeOK /\ Kinds /\ Begun /\ CancelDrops /\ HasAnswer
      /\ NoCompilerBug /\ SchedTypeOK
  BY DEF FutureInv, ControlInv, ChanTypeOK
<1>2. ASSUME at'[f] # "computing", UNCHANGED <<runs, prog>>
      PROVE  Begun'
  <2> SUFFICES ASSUME NEW g \in Fiber, at'[g] = "computing"
               PROVE  runs'[This(g)'] # 0
    BY DEF Begun
  <2>1. at'[g] = at[g] /\ ip'[g] = ip[g]
    BY <1>0, <1>2 DEF StepOf
  <2>2. QED
    BY <1>1, <1>2, <2>1 DEF Begun, This, ThisCall
<1>3. CASE Make(f)
  <2> DEFINE u == This(f)
  <2>1. /\ Return(f) /\ UNCHANGED <<prog, closed, value, error, runs, dropped, answers>>
        /\ u \in Futures /\ state[u] = "Unmade"
        /\ \/ u \in Lazy /\ state' = [state EXCEPT ![u] = "Idle"]
           \/ u \in Delayed /\ state' = [state EXCEPT ![u] = "Delayed"]
           \/ state' = [state EXCEPT ![u] = "Running"]
    BY <1>1, <1>3, InFuture DEF Make, chanVars
  <2> HIDE DEF u
  <2>2. state' \in [Futures -> FutureState] /\ \A w \in Futures \ {u} : state'[w] = state[w]
    BY <1>1, <2>1 DEF FutureTypeOK, FutureState
  <2>3. /\ state'[u] \in {"Idle", "Delayed", "Running"}
        /\ state'[u] = "Idle" => u \in Lazy
        /\ state'[u] = "Delayed" => u \in Delayed
    BY <1>1, <2>1 DEF FutureTypeOK
  <2>4. ~Dropped(u) /\ at'[f] # "computing"
    BY <1>1, <2>1, ReturnStep DEF CancelDrops, Dropped
  <2>5. FutureTypeOK' /\ NoCompilerBug'
    BY <1>1, <2>1, <2>2 DEF FutureTypeOK, ControlInv, NoCompilerBug
  <2>6. Kinds' /\ CancelDrops'
    BY <1>1, <2>1, <2>2, <2>3, <2>4, FutureAssumption
       DEF Kinds, CancelDrops, Dropped, FutureAssumption
  <2>7. HasAnswer'
    BY <1>1, <2>1, <2>2, <2>3 DEF HasAnswer
  <2>8. QED
    BY <1>2, <2>1, <2>4, <2>5, <2>6, <2>7 DEF FutureInv
<1>4. CASE Cancel(f)
  <2> DEFINE u == This(f)
  <2>1. /\ Return(f) /\ UNCHANGED <<prog, value, error, runs, answers>>
        /\ u \in Futures /\ ~Settled(u)
        /\ state' = [state EXCEPT ![u] = "Canceled"]
        /\ closed' = [closed EXCEPT ![u] = TRUE]
        /\ dropped' = [dropped EXCEPT ![u] = runs[u] = 0]
        /\ state[u] # "Unmade"
    BY <1>1, <1>4, InFuture DEF Cancel, FutureCall
  <2> HIDE DEF u
  <2>2. /\ state' \in [Futures -> FutureState] /\ state'[u] = "Canceled"
        /\ dropped' \in [Futures -> BOOLEAN]
        /\ dropped'[u] => runs[u] = 0
    BY <1>1, <2>1 DEF FutureTypeOK, FutureState
  <2>3. \A w \in Futures \ {u} :
          state'[w] = state[w] /\ closed'[w] = closed[w] /\ dropped'[w] = dropped[w]
    BY <1>1, <2>1, FutureAssumption
       DEF FutureTypeOK, ControlInv, ChanTypeOK, FutureAssumption, Unbuffered
  <2>4. state[u] \in {"Idle", "Delayed", "Running"}
    BY <1>1, <2>1 DEF FutureTypeOK, FutureState, Settled
  <2>5. FutureTypeOK' /\ NoCompilerBug'
    BY <1>1, <2>1, <2>2 DEF FutureTypeOK, ControlInv, NoCompilerBug
  <2>6. Kinds' /\ CancelDrops'
    BY <1>1, <2>1, <2>2, <2>3, <2>4 DEF Kinds, CancelDrops
  <2>7. HasAnswer'
    BY <1>1, <2>1, <2>2, <2>3 DEF HasAnswer
  <2>8. at'[f] # "computing"
    BY <1>1, <2>1, ReturnStep
  <2>9. QED
    BY <1>2, <2>1, <2>5, <2>6, <2>7, <2>8 DEF FutureInv
<1>5. CASE CancelTooLate(f) \/ DelayCanceled(f) \/ Delay(f) \/ GetWaits(f)
  <2>1. UNCHANGED <<closed, futureVars>>
    BY <1>5 DEF CancelTooLate, DelayCanceled, Delay, GetWaits, chanVars
  <2>2. at'[f] # "computing"
    <3>1. CASE Return(f)
      <4>1. prog' = prog
        BY <1>0 DEF StepOf
      <4>2. QED
        BY <1>1, <3>1, <4>1, ReturnStep
    <3>2. CASE SuspendAt(f, "delayed") \/ SuspendAt(f, "retry")
      BY <1>1, <3>2 DEF SuspendAt, SchedTypeOK
    <3>3. QED
      BY <1>5, <3>1, <3>2 DEF CancelTooLate, DelayCanceled, Delay, GetWaits
  <2>3. QED
    BY <1>0, <2>1, <2>2, OtherStepKeeps
<1>6. CASE Compute(f) \/ GetComputes(f)
  <2>1. This(f) \in Futures /\ ip[f] \in 1 .. Len(prog[f]) /\ CallBlock(f)
    BY <1>1, <1>6, InFuture DEF Compute, GetComputes, FutureCall, ResumedAt
  <2>2. CASE FutureCall(f, "compute") /\ This(f) \notin Delayed
    <3>1. at[f] = "start" /\ This(f) \notin Lazy
      BY <1>1, <2>1, <2>2, NoLazyCompute DEF FutureCall, Calls, ThisCall
    <3>2. ~Dropped(This(f))
      BY <2>2, <3>1 DEF Dropped
    <3>3. QED
      BY <1>0, <2>1, <3>1, <3>2, CallBlockKeeps
  <2>3. CASE ResumedAt(f, "delayed") /\ state[This(f)] # "Canceled"
    <3>1. at[f] = "delayed" /\ This(f) \notin Lazy
      <4>1. at[f] = "delayed" /\ ThisCall(f).op = "compute"
        BY <1>1, <2>3 DEF ResumedAt, ControlInv, Inside
      <4>2. QED
        BY <1>1, <2>1, <4>1, NoLazyCompute
    <3>2. ~Dropped(This(f))
      BY <1>1, <2>1, <2>3 DEF CancelDrops, Dropped
    <3>3. QED
      BY <1>0, <2>1, <2>3, <3>1, <3>2, CallBlockKeeps
  <2>4. CASE GetComputes(f)
    <3>1. at[f] = "start" /\ state[This(f)] = "Idle"
      BY <2>4 DEF GetComputes, FutureCall, Calls
    <3>2. ~Dropped(This(f))
      BY <1>1, <2>1, <3>1 DEF CancelDrops, Dropped
    <3>3. QED
      BY <1>0, <2>1, <3>1, <3>2, CallBlockKeeps
  <2>5. QED
    BY <1>6, <2>2, <2>3, <2>4 DEF Compute
<1>7. CASE Computed(f)
  <2>1. at[f] = "computing" /\ This(f) \in Futures /\ runs[This(f)] # 0
    BY <1>1, <1>7, InFuture DEF Computed, ResumedAt, Begun
  <2>2. ~Dropped(This(f))
    BY <1>1, <2>1 DEF CancelDrops, Dropped
  <2>3. BlockEnds(f) /\ UNCHANGED <<prog, runs, dropped>>
    BY <1>7 DEF Computed
  <2>4. at'[f] = "start"
    <3>1. Return(f) \/ Raise(f)
      BY <2>3 DEF BlockEnds, ValueOrRaise
    <3>2. QED
      BY <1>1, <2>3, <3>1, ReturnStep
  <2>5. runs' \in [Futures -> Nat]
    BY <1>1, <2>3 DEF FutureTypeOK
  <2>6. QED
    BY <1>0, <2>1, <2>2, <2>3, <2>4, <2>5, BlockEndsKeeps
<1>8. CASE GetAnswers(f)
  <2> DEFINE u == This(f)
  <2>1. /\ ValueOrRaise(f, u, state[u], value[u], error[u])
        /\ UNCHANGED <<prog, chanVars, state, value, error, runs, dropped>>
        /\ u \in Futures /\ (Settled(u) \/ closed[u])
    BY <1>1, <1>8, InFuture DEF GetAnswers, FutureCall, ResumedAt
  <2> HIDE DEF u
  <2>2. state[u] = "Canceled" \/ value[u] # NoFiber \/ error[u]
    BY <1>1, <2>1 DEF HasAnswer, Settled
  <2>3. answers' \in [Futures -> SUBSET Answer] /\ NoCompilerBug'
    <3>1. value[u] \in Fiber \cup {NoFiber} /\ answers \in [Futures -> SUBSET Answer]
      BY <1>1, <2>1 DEF FutureTypeOK
    <3>2. QED
      BY <1>1, <2>1, <2>2, <3>1, AnswerKeeps
  <2>4. at'[f] # "computing"
    BY <1>1, <2>1, ReturnStep DEF ValueOrRaise
  <2>5. FutureTypeOK' /\ Kinds' /\ CancelDrops' /\ HasAnswer'
    BY <1>1, <2>1, <2>3
       DEF FutureTypeOK, ControlInv, chanVars, Kinds, CancelDrops, HasAnswer
  <2>6. QED
    BY <1>2, <2>1, <2>3, <2>4, <2>5 DEF FutureInv
<1>9. QED
  BY <1>3, <1>4, <1>5, <1>6, <1>7, <1>8 DEF FutureStep

LEMMA FutureInductive == FutureInv /\ [FutureNext]_allFutureVars => FutureInv'
<1> SUFFICES ASSUME FutureInv, [FutureNext]_allFutureVars
             PROVE  FutureInv'
  OBVIOUS
<1>1. ControlInv /\ ControlInv'
  BY ControlInductive DEF FutureInv
<1>2. ASSUME NEW f \in Fiber, FutureStep(f) PROVE FutureInv'
  BY <1>1, <1>2, FutureMoves, FutureStepKeeps
<1>3. CASE SchedNext /\ UNCHANGED <<chanVars, futureVars>>
  <2>1. PICK f \in Fiber : SchedMove(f)
    BY <1>1, <1>3, SchedSteps DEF ControlInv, ChanTypeOK
  <2>2. StepOf(f) /\ ((at'[f] = at[f] /\ ip'[f] = ip[f]) \/ at'[f] # "computing")
    BY <2>1 DEF SchedMove
  <2>3. UNCHANGED <<closed, futureVars>>
    BY <1>3 DEF chanVars
  <2>4. QED
    BY <1>1, <2>2, <2>3, OtherStepKeeps
<1>4. CASE UNCHANGED allFutureVars
  <2>1. UNCHANGED <<prog, ip, at, closed, futureVars>>
    BY <1>4 DEF allFutureVars, schedVars, chanVars
  <2>2. StepOf(Main) /\ Main \in Fiber
    BY <1>1, <2>1, SchedulerAssumption
       DEF StepOf, SchedulerAssumption, ControlInv, ChanTypeOK, SchedTypeOK
  <2>3. QED
    BY <1>1, <2>1, <2>2, OtherStepKeeps
<1>5. QED
  BY <1>2, <1>3, <1>4 DEF FutureNext

(* Every variable keeps its type (the fields of Concurrent::Future).       *)
THEOREM FutureTypes == FutureSpec => []FutureTypeOK
<1>1. FutureInv => FutureTypeOK
  BY DEF FutureInv
<1>2. QED
  BY FutureInitially, FutureInductive, <1>1, PTL DEF FutureSpec

(* However the cancel races with the delay, the fiber that computes and    *)
(* the fibers that get, a delayed or lazy future canceled before its block *)
(* was called never calls it, and stays canceled (Future#cancel,           *)
(* run_delayed_compute).                                                   *)
THEOREM FutureCancelDrops == FutureSpec => []CancelDrops
<1>1. FutureInv => CancelDrops
  BY DEF FutureInv
<1>2. QED
  BY FutureInitially, FutureInductive, <1>1, PTL DEF FutureSpec

(* Whatever closed the channel, and whenever get looks, there is a value,  *)
(* an error or a cancel to report (value_or_raise).                        *)
THEOREM FutureNoCompilerBug == FutureSpec => []NoCompilerBug
<1>1. FutureInv => NoCompilerBug
  BY DEF FutureInv
<1>2. QED
  BY FutureInitially, FutureInductive, <1>1, PTL DEF FutureSpec

-----------------------------------------------------------------------------
(* The block runs once.                                                    *)

(* Fiber f was made to compute u, and has not called the block yet.        *)
ToCompute(f, u) ==
  /\ ip[f] \in DOMAIN prog[f] /\ ThisCall(f).op = "compute" /\ This(f) = u
  /\ at[f] \in {"start", "delayed"}

OnceInv ==
  /\ \A u \in Futures : state[u] \in {"Unmade", "Idle"} => runs[u] = 0
  /\ \A f \in Fiber, u \in Futures : ToCompute(f, u) => runs[u] = 0
  /\ \A f \in Fiber : \A i \in DOMAIN prog[f] : prog[f][i].op = "compute" => ip[f] # 0
  /\ BlockOnce

LEMMA OnceInitially == FutureInit => OnceInv
BY FutureAssumption
   DEF FutureInit, ChanInit, SchedInit, OnceInv, ToCompute, BlockOnce

(* The program of a fiber that computes is that one call, and no other     *)
(* fiber computes the same future.                                         *)
LEMMA LoneCompute ==
  ASSUME ControlInv, NEW f \in Fiber, NEW i \in DOMAIN prog[f], prog[f][i].op = "compute"
  PROVE  /\ i = 1 /\ DOMAIN prog[f] = {1} /\ Len(prog[f]) = 1
         /\ prog[f][i].future \notin Lazy
         /\ \A g \in Fiber : \A j \in DOMAIN prog[g] :
              prog[g][j].op = "compute" /\ prog[g][j].future = prog[f][i].future => g = f
<1>1. prog \in Programs /\ prog[f] \in Seq(Call)
  BY DEF ControlInv, ChanTypeOK, SchedTypeOK
<1>2. Len(prog[f]) = 1
  BY <1>1, ComputeAssumption DEF ComputeAssumption
<1>3. DOMAIN prog[f] = {1}
  BY <1>1, <1>2
<1>4. QED
  BY <1>1, <1>2, <1>3, ComputeAssumption DEF ComputeAssumption

(* A fiber that has called the block is not due to call it again.          *)
LEMMA StillToCompute ==
  ASSUME ControlInv, OnceInv, NEW f \in Fiber, SchedMove(f) \/ FutureMove(f)
  PROVE  /\ \A g \in Fiber, u \in Futures : ToCompute(g, u)' => ToCompute(g, u)
         /\ \A g \in Fiber : \A i \in DOMAIN prog'[g] :
              prog'[g][i].op = "compute" => ip'[g] # 0
<1>1. /\ prog' = prog /\ ip' \in [Fiber -> Nat] /\ ip \in [Fiber -> Nat]
      /\ \A g \in Fiber \ {f} : ip'[g] = ip[g] /\ at'[g] = at[g]
  BY DEF SchedMove, FutureMove, StepOf, ControlInv, ChanTypeOK, SchedTypeOK
<1>2. ASSUME NEW i \in DOMAIN prog[f], prog[f][i].op = "compute"
      PROVE  /\ ip'[f] # 0
             /\ ip'[f] = 1 /\ at'[f] \in {"start", "delayed"} =>
                  ip[f] = 1 /\ at[f] \in {"start", "delayed"}
  <2>1. i = 1 /\ DOMAIN prog[f] = {1} /\ Len(prog[f]) = 1
    BY <1>2, LoneCompute
  <2>2. ip[f] \in Nat \ {0}
    BY <1>1, <1>2 DEF OnceInv
  <2>3. ~Calls(f, "goto")
    BY <1>2, <2>1 DEF Calls
  <2>4. CASE SchedMove(f)
    BY <2>1, <2>2, <2>3, <2>4 DEF SchedMove
  <2>5. CASE FutureMove(f)
    BY <2>1, <2>2, <2>5 DEF FutureMove
  <2>6. QED
    BY <2>4, <2>5
<1>3. ASSUME NEW g \in Fiber, NEW u \in Futures, ToCompute(g, u)'
      PROVE  ToCompute(g, u)
  <2>1. CASE g # f
    BY <1>1, <1>3, <2>1 DEF ToCompute, This, ThisCall
  <2>2. CASE g = f
    <3>1. /\ ip'[f] \in DOMAIN prog[f] /\ prog[f][ip'[f]].op = "compute"
          /\ prog[f][ip'[f]].future = u /\ at'[f] \in {"start", "delayed"}
      BY <1>1, <1>3, <2>2 DEF ToCompute, This, ThisCall
    <3>2. ip'[f] = 1
      BY <3>1, LoneCompute
    <3>3. ip[f] = 1 /\ at[f] \in {"start", "delayed"}
      BY <1>2, <3>1, <3>2
    <3>4. QED
      BY <2>2, <3>1, <3>2, <3>3 DEF ToCompute, This, ThisCall
  <2>3. QED
    BY <2>1, <2>2
<1>4. ASSUME NEW g \in Fiber, NEW i \in DOMAIN prog'[g], prog'[g][i].op = "compute"
      PROVE  ip'[g] # 0
  BY <1>1, <1>2, <1>4 DEF OnceInv
<1>5. QED
  BY <1>3, <1>4

(* A step that calls no block.                                             *)
LEMMA NoCallKeepsOnce ==
  ASSUME ControlInv, OnceInv, NEW f \in Fiber, SchedMove(f) \/ FutureMove(f), runs' = runs,
         \A u \in Futures : state'[u] \in {"Unmade", "Idle"} => state[u] \in {"Unmade", "Idle"}
  PROVE  OnceInv'
<1>1. /\ \A u \in Futures : state'[u] \in {"Unmade", "Idle"} => runs'[u] = 0
      /\ BlockOnce'
  BY DEF OnceInv, BlockOnce
<1>2. \A g \in Fiber, u \in Futures : ToCompute(g, u)' => runs'[u] = 0
  BY StillToCompute DEF OnceInv
<1>3. \A g \in Fiber : \A i \in DOMAIN prog'[g] : prog'[g][i].op = "compute" => ip'[g] # 0
  BY StillToCompute
<1>4. QED
  BY <1>1, <1>2, <1>3 DEF OnceInv

(* The call of a block that did not run yet and is no one's to run.        *)
LEMMA CallKeepsOnce ==
  ASSUME ControlInv, FutureTypeOK, OnceInv, NEW f \in Fiber, FutureMove(f),
         NEW u \in Futures, u = This(f), CallBlock(f), runs[u] = 0,
         state'[u] \notin {"Unmade", "Idle"}, \A g \in Fiber : ~ToCompute(g, u)'
  PROVE  OnceInv'
<1>1. /\ runs' = [runs EXCEPT ![u] = @ + 1] /\ runs[u] = 0 /\ u \in Futures
      /\ runs \in [Futures -> Nat] /\ state \in [Futures -> FutureState]
      /\ state'[u] \notin {"Unmade", "Idle"}
  BY DEF CallBlock, FutureTypeOK
<1>2. \E s : state' = [state EXCEPT ![u] = s]
  BY DEF CallBlock, BlockSleeps, BlockEnds
<1>3. /\ runs'[u] = 1
      /\ \A w \in Futures \ {u} : runs'[w] = runs[w] /\ state'[w] = state[w]
  BY <1>1, <1>2
<1>4. BlockOnce'
  BY <1>3 DEF OnceInv, BlockOnce
<1>5. \A w \in Futures : state'[w] \in {"Unmade", "Idle"} => runs'[w] = 0
  BY <1>1, <1>3 DEF OnceInv
<1>6. ASSUME NEW g \in Fiber, NEW w \in Futures, ToCompute(g, w)'
      PROVE  runs'[w] = 0
  <2>1. w # u /\ ToCompute(g, w)
    BY <1>6, StillToCompute
  <2>2. QED
    BY <1>3, <2>1 DEF OnceInv
<1>7. \A g \in Fiber : \A i \in DOMAIN prog'[g] : prog'[g][i].op = "compute" => ip'[g] # 0
  BY StillToCompute
<1>8. QED
  BY <1>4, <1>5, <1>6, <1>7 DEF OnceInv

(* After the call, the fiber is not at a place from which it calls.        *)
LEMMA CallLeaves ==
  ASSUME ControlInv, OnceInv, NEW f \in Fiber, FutureMove(f), CallBlock(f),
         ip[f] \in 1 .. Len(prog[f]), ThisCall(f).op = "compute", NEW u
  PROVE  ~ToCompute(f, u)'
<1>0. SchedTypeOK /\ prog' = prog
  BY DEF ControlInv, ChanTypeOK, FutureMove, StepOf
<1>1. ip[f] = 1 /\ DOMAIN prog[f] = {1} /\ Len(prog[f]) = 1
  <2>1. DOMAIN prog[f] = 1 .. Len(prog[f])
    BY <1>0 DEF SchedTypeOK
  <2>2. QED
    BY <2>1, LoneCompute DEF ThisCall
<1>2. CASE BlockEnds(f)
  <2>1. ip'[f] = 2
    <3>1. Return(f) \/ Raise(f)
      BY <1>2 DEF BlockEnds, ValueOrRaise
    <3>2. ip'[f] \in {ip[f] + 1, Len(prog[f]) + 1}
      BY <1>0, <3>1, ReturnStep
    <3>3. QED
      BY <1>1, <3>2
  <2>2. QED
    BY <1>0, <1>1, <2>1 DEF ToCompute
<1>3. CASE BlockSleeps(f)
  <2>1. at'[f] = "computing"
    BY <1>0, <1>3 DEF BlockSleeps, SuspendAt, SchedTypeOK
  <2>2. QED
    BY <2>1 DEF ToCompute
<1>4. QED
  BY <1>2, <1>3 DEF CallBlock

LEMMA OnceInductive ==
  ASSUME Napping \cap Lazy = {}
  PROVE  FutureInv /\ OnceInv /\ [FutureNext]_allFutureVars => OnceInv'
<1> SUFFICES ASSUME FutureInv, OnceInv, [FutureNext]_allFutureVars
             PROVE  OnceInv'
  OBVIOUS
<1>0. /\ ControlInv /\ FutureTypeOK /\ Kinds /\ SchedTypeOK
      /\ \A f \in Fiber : DOMAIN prog[f] = 1 .. Len(prog[f])
  BY DEF FutureInv, ControlInv, ChanTypeOK, SchedTypeOK
<1>1. ASSUME NEW f \in Fiber, FutureMove(f), Compute(f)
      PROVE  OnceInv'
  <2>1. PICK u \in Futures : u = This(f)
    BY <1>0, <1>1, InFuture DEF Compute, FutureCall, ResumedAt
  <2>2. /\ ip[f] \in 1 .. Len(prog[f]) /\ ThisCall(f).op = "compute"
        /\ at[f] \in {"start", "delayed"} /\ CallBlock(f)
        /\ at[f] = "start" => state[u] # "Unmade"
    <3>1. CASE FutureCall(f, "compute")
      BY <1>1, <2>1, <3>1 DEF Compute, FutureCall, Calls, ThisCall
    <3>2. CASE ResumedAt(f, "delayed")
      BY <1>0, <1>1, <3>2 DEF Compute, ResumedAt, ControlInv, Inside
    <3>3. QED
      BY <1>1, <3>1, <3>2 DEF Compute
  <2>3. runs[u] = 0
    BY <1>0, <2>1, <2>2 DEF OnceInv, ToCompute
  <2>4. u \notin Lazy
    BY <1>0, <2>1, <2>2, NoLazyCompute
  <2>5. state'[u] \notin {"Unmade", "Idle"}
    <3>1. state \in [Futures -> FutureState]
      BY <1>0 DEF FutureTypeOK
    <3>2. CASE BlockEnds(f)
      BY <2>1, <3>1, <3>2 DEF BlockEnds
    <3>3. CASE BlockSleeps(f) /\ at[f] = "start"
      BY <1>0, <2>1, <2>2, <2>4, <3>1, <3>3 DEF BlockSleeps, Kinds
    <3>4. CASE BlockSleeps(f) /\ at[f] = "delayed"
      BY <2>1, <3>1, <3>4 DEF BlockSleeps
    <3>5. QED
      BY <2>2, <3>2, <3>3, <3>4 DEF CallBlock
  <2>6. ASSUME NEW g \in Fiber, ToCompute(g, u)'
        PROVE  FALSE
    <3>1. ToCompute(g, u)
      BY <1>0, <1>1, <2>6, StillToCompute
    <3>2. g = f
      BY <1>0, <2>1, <2>2, <3>1, LoneCompute DEF ToCompute, This, ThisCall
    <3>3. QED
      BY <1>0, <1>1, <2>2, <2>6, <3>2, CallLeaves
  <2>7. QED
    BY <1>0, <1>1, <2>1, <2>2, <2>3, <2>5, <2>6, CallKeepsOnce
<1>2. ASSUME NEW f \in Fiber, FutureMove(f), GetComputes(f)
      PROVE  OnceInv'
  <2>1. PICK u \in Futures : u = This(f)
    BY <1>0, <1>2, InFuture DEF GetComputes, FutureCall
  <2>2. CallBlock(f) /\ state[u] = "Idle" /\ u \in Lazy /\ runs[u] = 0
    BY <1>0, <1>2, <2>1 DEF GetComputes, Kinds, OnceInv
  <2>3. state'[u] \notin {"Unmade", "Idle"}
    BY <1>0, <2>1, <2>2 DEF CallBlock, BlockEnds, FutureTypeOK
  <2>4. ASSUME NEW g \in Fiber, ToCompute(g, u)'
        PROVE  FALSE
    <3>1. ToCompute(g, u)
      BY <1>0, <1>2, <2>4, StillToCompute
    <3>2. QED
      BY <1>0, <2>2, <3>1, NoLazyCompute DEF ToCompute
  <2>5. QED
    BY <1>0, <1>2, <2>1, <2>2, <2>3, <2>4, CallKeepsOnce
<1>3. ASSUME NEW f \in Fiber, FutureMove(f), FutureStep(f), ~Compute(f), ~GetComputes(f)
      PROVE  OnceInv'
  <2>1. runs' = runs
    BY <1>3 DEF FutureStep, Make, Cancel, CancelTooLate, Delay, DelayCanceled, Computed,
       GetWaits, GetAnswers, futureVars
  <2>2. ASSUME NEW u \in Futures, state'[u] \in {"Unmade", "Idle"}
        PROVE  state[u] \in {"Unmade", "Idle"}
    <3>1. state \in [Futures -> FutureState]
      BY <1>0 DEF FutureTypeOK
    <3>2. CASE state' = state
      BY <2>2, <3>2
    <3>3. CASE Make(f)
      BY <2>2, <3>1, <3>3 DEF Make
    <3>4. CASE Cancel(f)
      BY <2>2, <3>1, <3>4 DEF Cancel
    <3>5. CASE Computed(f)
      BY <2>2, <3>1, <3>5 DEF Computed, BlockEnds
    <3>6. QED
      BY <1>3, <3>2, <3>3, <3>4, <3>5 DEF FutureStep, CancelTooLate, Delay, DelayCanceled,
         GetWaits, GetAnswers, futureVars
  <2>3. QED
    BY <1>0, <1>3, <2>1, <2>2, NoCallKeepsOnce
<1>4. ASSUME NEW f \in Fiber, FutureStep(f) PROVE OnceInv'
  BY <1>0, <1>1, <1>2, <1>3, <1>4, FutureMoves
<1>5. CASE SchedNext /\ UNCHANGED <<chanVars, futureVars>>
  <2>1. PICK f \in Fiber : SchedMove(f)
    BY <1>0, <1>5, SchedSteps
  <2>2. QED
    BY <1>0, <1>5, <2>1, NoCallKeepsOnce DEF futureVars
<1>6. CASE UNCHANGED allFutureVars
  BY <1>6 DEF allFutureVars, schedVars, futureVars, OnceInv, ToCompute, This, ThisCall,
     BlockOnce
<1>7. QED
  BY <1>4, <1>5, <1>6 DEF FutureNext

(* Whoever gets and cancels, and whenever, the block of a future runs at   *)
(* most once (Future#compute, run_compute), if no lazy future has a block  *)
(* that switches to another fiber.                                         *)
THEOREM FutureBlockOnce ==
  ASSUME Napping \cap Lazy = {}
  PROVE  FutureSpec => []BlockOnce
<1>1. OnceInv => BlockOnce
  BY DEF OnceInv
<1>2. FutureInv /\ OnceInv /\ [FutureNext]_allFutureVars => OnceInv'
  BY OnceInductive
<1>3. QED
  BY FutureInitially, FutureInductive, OnceInitially, <1>1, <1>2, PTL DEF FutureSpec
=============================================================================
