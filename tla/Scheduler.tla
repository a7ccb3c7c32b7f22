------------------------------ MODULE Scheduler ------------------------------
(***************************************************************************)
(* The cooperative fiber scheduler: src/concurrent/scheduler.cr, the       *)
(* switching half of src/fiber.cr and the entry points of                  *)
(* src/concurrent.cr.                                                      *)
(*                                                                         *)
(* Exactly one fiber runs at any time.  A fiber gives up the processor     *)
(* only inside Scheduler.reschedule, which resumes the first runnable      *)
(* fiber or, when none is runnable, the loop fiber that runs libevent.     *)
(* The code between two switch points therefore is one atomic step.        *)
(*                                                                         *)
(* What fibers do is a parameter: each fiber executes a program, a         *)
(* sequence of calls to the runtime, chosen once and for all by Init.      *)
(* This module gives meaning to the calls of the scheduler itself; the     *)
(* modules of the synchronisation primitives add theirs.                   *)
(***************************************************************************)
EXTENDS Naturals, Sequences, FiniteSets

CONSTANTS
  Fiber,     (* every fiber a run may create                               *)
  Main,      (* the fiber of the main program (Fiber.root)                 *)
  Loop,      (* the loop fiber, which only ever runs the event loop        *)
  Call,      (* the calls a program may make: records with a field "op"    *)
  Programs   (* the program texts: functions from Fiber to Seq(Call)       *)

ASSUME SchedulerAssumption ==
  /\ Main \in Fiber
  /\ Loop \notin Fiber
  /\ Programs \subseteq [Fiber -> Seq(Call)]
  /\ \A c \in Call : c.op = "spawn" => c.fiber \in Fiber
  /\ \A c \in Call : c.op = "goto" => c.to \in Nat

VARIABLES
  prog,       (* the program text of every fiber; constant                 *)
  ip,         (* the index of the call a fiber executes, or is inside of   *)
  at,         (* where in that call it is: "start" or a switch point       *)
  current,    (* Thread.current.current_fiber                              *)
  runnables,  (* @@runnables                                               *)
  timers,     (* the fibers whose @resume_event is pending in libevent     *)
  born,       (* the fibers created so far                                 *)
  ended       (* the fibers whose proc has returned                        *)

schedVars == <<prog, ip, at, current, runnables, timers, born, ended>>

(* Where a fiber can be in a call: at its start, or inside it at one of    *)
(* the calls of Scheduler.reschedule and Fiber#resume in the code, those   *)
(* of concurrent.cr, channel.cr, mutex.cr and future.cr.                   *)
Place == {"start", "asleep", "exited", "retry", "handed", "selecting", "locking",
          "delayed", "computing"}

-----------------------------------------------------------------------------
(* A fiber and its call.                                                   *)

Active(f) == current = f /\ f \in born \ ended

(* Fiber f is about to start a call of kind op.                            *)
Calls(f, op) ==
  /\ Active(f)
  /\ at[f] = "start"
  /\ ip[f] \in 1 .. Len(prog[f])
  /\ prog[f][ip[f]].op = op

ThisCall(f) == prog[f][ip[f]]

(* Fiber f has been resumed at the switch point named where.               *)
ResumedAt(f, where) == Active(f) /\ at[f] = where

GoTo(f, i) ==
  /\ ip' = [ip EXCEPT ![f] = i]
  /\ at' = [at EXCEPT ![f] = "start"]

Return(f) == GoTo(f, ip[f] + 1)

(* The call raises: the exception is rescued and the program goes on with  *)
(* the next call, or it is not and it ends Fiber#run.                      *)
Raise(f) == \E i \in {ip[f] + 1, Len(prog[f]) + 1} : GoTo(f, i)

(* Fiber f enters Scheduler.reschedule at the switch point named where.    *)
SuspendAt(f, where) ==
  /\ at' = [at EXCEPT ![f] = where]
  /\ UNCHANGED ip

-----------------------------------------------------------------------------
(* Scheduler.                                                              *)

(* Faulty variants of Reschedule, which the properties below must reject:  *)
(* no loop fiber to fall back on, and timers served before runnable fibers.*)
RescheduleNoLoop(q) ==
  IF q = <<>> THEN UNCHANGED <<current, runnables>>
              ELSE current' = Head(q) /\ runnables' = Tail(q)

RescheduleTimersFirst(q) ==
  IF q = <<>> \/ timers # {}
  THEN current' = Loop /\ runnables' = q
  ELSE current' = Head(q) /\ runnables' = Tail(q)

(* Scheduler.reschedule, when the run queue is q.                          *)
Reschedule(q) ==
  IF q = <<>>
  THEN current' = Loop /\ runnables' = q
  ELSE current' = Head(q) /\ runnables' = Tail(q)

(* A faulty variant of Enqueue: the collection itself is pushed.           *)
EnqueueNested(fs) == runnables' = Append(runnables, fs)

(* Scheduler.enqueue: the fibers fs go to the end of the run queue.        *)
Enqueue(fs) == runnables' = runnables \o fs

(* Fiber#resume: the processor goes to fiber f directly.                   *)
Resume(f) == current' = f

-----------------------------------------------------------------------------
(* The calls of src/concurrent.cr and src/fiber.cr.                        *)

(* A faulty variant of Spawn: the new fiber is not enqueued.               *)
SpawnForgets(f) ==
  /\ Calls(f, "spawn")
  /\ ThisCall(f).fiber \notin born
  /\ born' = born \cup {ThisCall(f).fiber}
  /\ Return(f)
  /\ UNCHANGED <<prog, current, runnables, timers, ended>>

(* spawn: the new fiber does not run before the caller is suspended.       *)
Spawn(f) ==
  /\ Calls(f, "spawn")
  /\ ThisCall(f).fiber \notin born
  /\ born' = born \cup {ThisCall(f).fiber}
  /\ Enqueue(<<ThisCall(f).fiber>>)
  /\ Return(f)
  /\ UNCHANGED <<prog, current, timers, ended>>

(* Fiber#sleep and Fiber#yield: the resume event is added and the fiber    *)
(* suspended.  Durations are abstracted: pending events fire in any order. *)
Sleep(f) ==
  /\ Calls(f, "sleep")
  /\ timers' = timers \cup {f}
  /\ SuspendAt(f, "asleep")
  /\ Reschedule(runnables)
  /\ UNCHANGED <<prog, born, ended>>

(* sleep without a duration: nothing in the runtime will resume the fiber. *)
SleepForever(f) ==
  /\ Calls(f, "sleep forever")
  /\ SuspendAt(f, "asleep")
  /\ Reschedule(runnables)
  /\ UNCHANGED <<prog, timers, born, ended>>

(* The switch returned: sleep does not look at what woke it.               *)
Awake(f) ==
  /\ ResumedAt(f, "asleep")
  /\ Return(f)
  /\ UNCHANGED <<prog, current, runnables, timers, born, ended>>

(* The jump that closes a loop of the program text.                        *)
Jump(f) ==
  /\ Calls(f, "goto")
  /\ GoTo(f, ThisCall(f).to)
  /\ UNCHANGED <<prog, current, runnables, timers, born, ended>>

(* The end of Fiber#run: the resume event is freed, and the fiber          *)
(* reschedules for the last time.                                          *)
Finish(f) ==
  /\ Active(f)
  /\ f # Main
  /\ at[f] = "start"
  /\ ip[f] > Len(prog[f])
  /\ ended' = ended \cup {f}
  /\ timers' = timers \ {f}
  /\ Reschedule(runnables)
  /\ UNCHANGED <<prog, ip, at, born>>

(* The main program returns: the process is over, whatever else is alive.  *)
Exit ==
  /\ Active(Main)
  /\ at[Main] = "start"
  /\ ip[Main] > Len(prog[Main])
  /\ at' = [at EXCEPT ![Main] = "exited"]
  /\ UNCHANGED <<prog, ip, current, runnables, timers, born, ended>>

(* A faulty variant of Fire: the event is persistent.                      *)
FirePersists(f) ==
  /\ current = Loop
  /\ f \in timers
  /\ Resume(f)
  /\ UNCHANGED <<prog, ip, at, runnables, timers, born, ended>>

(* The loop fiber: libevent runs the callback of f's resume event, which   *)
(* resumes f in the middle of the loop; the loop fiber itself never is in  *)
(* the run queue, and goes on when it is empty again.                      *)
Fire(f) ==
  /\ current = Loop
  /\ f \in timers
  /\ timers' = timers \ {f}
  /\ Resume(f)
  /\ UNCHANGED <<prog, ip, at, runnables, born, ended>>

-----------------------------------------------------------------------------
SchedInit ==
  /\ prog \in Programs
  /\ ip = [f \in Fiber |-> 1]
  /\ at = [f \in Fiber |-> "start"]
  /\ current = Main
  /\ runnables = <<>>
  /\ timers = {}
  /\ born = {Main}
  /\ ended = {}

SchedStep(f) ==
  \/ Spawn(f)
  \/ Sleep(f)
  \/ SleepForever(f)
  \/ Awake(f)
  \/ Jump(f)
  \/ Finish(f)
  \/ Fire(f)

SchedNext == (\E f \in Fiber : SchedStep(f)) \/ Exit

SchedSpec == SchedInit /\ [][SchedNext]_schedVars

(* The running fiber always takes its next step, and libevent serves every *)
(* timer it keeps being asked to serve: expired timers run in time order,  *)
(* so a timer is passed only by the finitely many that expire before it.   *)
SchedFairness ==
  /\ WF_schedVars(SchedNext)
  /\ \A f \in Fiber : SF_schedVars(Fire(f))

FairSchedSpec == SchedSpec /\ SchedFairness

-----------------------------------------------------------------------------
Exited == at[Main] = "exited"

Queued(f) == {i \in DOMAIN runnables : runnables[i] = f}

(* Every variable keeps its type.                                          *)
SchedTypeOK ==
  /\ prog \in [Fiber -> Seq(Call)]
  /\ ip \in [Fiber -> Nat]
  /\ at \in [Fiber -> Place]
  /\ current \in Fiber \cup {Loop}
  /\ runnables \in Seq(Fiber)
  /\ timers \subseteq Fiber
  /\ born \subseteq Fiber
  /\ ended \subseteq born

(* A fiber the scheduler will resume: in the run queue, or waiting for its *)
(* timer.                                                                  *)
Scheduled(f) == Queued(f) # {} \/ f \in timers

(* The switch points in Fiber#sleep: called by the program, by the delay   *)
(* of a future, or by the block of one.                                    *)
Sleeping == {"asleep", "delayed", "computing"}

(* One resumption per suspension (Fiber#resume, src/fiber.cr:168): a fiber *)
(* is never due to be resumed twice, never while it is running, and never  *)
(* before its creation or after its end, when its stack is another's.      *)
(* A second resumption would wake it from a later, unrelated wait.         *)
OneWakeup ==
  /\ \A i, j \in DOMAIN runnables : runnables[i] = runnables[j] => i = j
  /\ \A f \in Fiber : Scheduled(f) => f \in (born \ ended) \ {current}
  /\ \A f \in timers : Queued(f) = {} /\ at[f] \in Sleeping

(* No fiber is dropped (Scheduler.reschedule, spawn): a live fiber that    *)
(* can go on is running or due to run.                                     *)
NoneLost ==
  \A f \in born \ ended : at[f] = "start" => current = f \/ Queued(f) # {}

(* The processor never is with a fiber that does not exist or has ended.   *)
LiveCurrent == current \in (born \ ended) \cup {Loop}

(* Every sleeper wakes (Fiber#sleep): unless the process exits, a fiber    *)
(* with a pending resume event is resumed.                                 *)
SleepersWake == \A f \in Fiber : f \in timers ~> (current = f \/ Exited)

(* No starvation in the run queue (Scheduler.enqueue): a runnable fiber    *)
(* is resumed, unless the process exits first.                             *)
RunnablesRun ==
  \A f \in Fiber : Queued(f) # {} ~> (current = f \/ Exited)
=============================================================================
