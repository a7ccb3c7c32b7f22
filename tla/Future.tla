-------------------------------- MODULE Future --------------------------------
(***************************************************************************)
(* Futures: src/concurrent/future.cr, with the constructors delay, future  *)
(* and lazy.  The fibers that get the result wait on the future's channel, *)
(* which never carries a value: it is closed when there is an answer.      *)
(*                                                                         *)
(* A call "future" creates one, and unless it is lazy also the fiber that  *)
(* executes run_compute; that fiber's program is the one call "compute".   *)
(* The user's block may sleep, and returns a value or raises.              *)
(***************************************************************************)
EXTENDS Channel

CONSTANTS
  Futures,   (* the futures of a run, each named as its channel            *)
  Lazy,      (* those made by lazy                                         *)
  Delayed,   (* those made by delay                                        *)
  Napping,   (* those whose block sleeps                                   *)
  Nilable,   (* those whose type R includes nil                            *)
  NoFiber    (* nil                                                        *)

ASSUME FutureAssumption ==
  /\ Futures \subseteq Unbuffered
  /\ Lazy \subseteq Futures /\ Delayed \subseteq Futures \ Lazy
  /\ Napping \subseteq Futures /\ Nilable \subseteq Futures
  /\ NoFiber \notin Fiber
  /\ \A c \in Call : c.op \in {"future", "compute", "get", "cancel"} => c.future \in Futures
  /\ \A c \in Call : c.op = "future" => c.fiber \in Fiber

(* run_compute is called in the block of spawn_compute only: a fiber that  *)
(* computes does nothing else, no other computes the same future, and a    *)
(* lazy one has none.                                                      *)
ASSUME ComputeAssumption ==
  \A P \in Programs, f \in Fiber : \A i \in DOMAIN P[f] :
    P[f][i].op = "compute" =>
      /\ Len(P[f]) = 1
      /\ P[f][i].future \notin Lazy
      /\ \A g \in Fiber : \A j \in DOMAIN P[g] :
           P[g][j].op = "compute" /\ P[g][j].future = P[f][i].future => g = f

VARIABLES
  state,      (* @state, or "Unmade" before the constructor                *)
  value,      (* @value: the fiber that computed it, or NoFiber for nil    *)
  error,      (* @error is set                                             *)
  runs,       (* history: how often the block was called                   *)
  dropped,    (* history: the future was canceled before its block ran     *)
  answers     (* history: what get returned or raised                      *)

futureVars == <<state, value, error, runs, dropped, answers>>

FutureState == {"Unmade", "Idle", "Delayed", "Running", "Completed", "Canceled"}
Answer == [kind : {"value", "error", "canceled", "compiler bug"},
           of : Fiber \cup {NoFiber}]

This(f) == ThisCall(f).future

FutureCall(f, op) == Calls(f, op) /\ state[This(f)] # "Unmade"

(* @state >= State::Completed *)
Settled(u) == state[u] \in {"Completed", "Canceled"}

-----------------------------------------------------------------------------
(* initialize and spawn_compute.                                           *)
Make(f) ==
  LET u == This(f) c == ThisCall(f).fiber IN
  /\ Calls(f, "future")
  /\ state[u] = "Unmade"
  /\ IF u \in Lazy
     THEN /\ state' = [state EXCEPT ![u] = "Idle"]
          /\ UNCHANGED <<born, runnables>>
     ELSE /\ c \notin born
          /\ state' = [state EXCEPT ![u] = IF u \in Delayed THEN "Delayed" ELSE "Running"]
          /\ born' = born \cup {c}
          /\ Enqueue(<<c>>)
  /\ Return(f)
  /\ UNCHANGED <<prog, current, timers, ended, chanVars,
                 value, error, runs, dropped, answers>>

(* A faulty variant of Cancel: the state is the wrong one.                 *)
CancelCompletes(f) ==
  LET u == This(f) IN
  /\ FutureCall(f, "cancel")
  /\ ~Settled(u)
  /\ state' = [state EXCEPT ![u] = "Completed"]
  /\ closed' = [closed EXCEPT ![u] = TRUE]
  /\ Enqueue(receivers[u])
  /\ receivers' = [receivers EXCEPT ![u] = <<>>]
  /\ dropped' = [dropped EXCEPT ![u] = runs[u] = 0]
  /\ Return(f)
  /\ UNCHANGED <<prog, current, timers, born, ended, senders, contents, sent, got,
                 value, error, runs, answers>>

(* cancel *)
Cancel(f) ==
  LET u == This(f) IN
  /\ FutureCall(f, "cancel")
  /\ ~Settled(u)
  /\ state' = [state EXCEPT ![u] = "Canceled"]
  /\ closed' = [closed EXCEPT ![u] = TRUE]
  /\ Enqueue(receivers[u])
  /\ receivers' = [receivers EXCEPT ![u] = <<>>]
  /\ dropped' = [dropped EXCEPT ![u] = runs[u] = 0]
  /\ Return(f)
  /\ UNCHANGED <<prog, current, timers, born, ended, senders, contents, sent, got,
                 value, error, runs, answers>>

CancelTooLate(f) ==
  /\ FutureCall(f, "cancel")
  /\ Settled(This(f))
  /\ Return(f)
  /\ UNCHANGED <<prog, current, runnables, timers, born, ended, chanVars, futureVars>>

-----------------------------------------------------------------------------
(* value_or_raise, when the state, the value and the error are these.      *)
ValueOrRaise(f, u, s, v, e) ==
  LET kind == IF s = "Canceled" THEN "canceled"
              ELSE IF v # NoFiber \/ u \in Nilable THEN "value"
              ELSE IF e THEN "error" ELSE "compiler bug"
  IN
  /\ answers' = [answers EXCEPT ![u] =
                   @ \cup {[kind |-> kind, of |-> IF kind = "value" THEN v ELSE NoFiber]}]
  /\ IF kind = "value" THEN Return(f) ELSE Raise(f)

(* A faulty variant of BlockEnds: the channel is not closed.               *)
BlockEndsSilently(f) ==
  LET u == This(f) IN
  /\ \/ value' = [value EXCEPT ![u] = f] /\ UNCHANGED error
     \/ error' = [error EXCEPT ![u] = TRUE] /\ UNCHANGED value
  /\ state' = [state EXCEPT ![u] = "Completed"]
  /\ IF ThisCall(f).op = "get"
     THEN ValueOrRaise(f, u, "Completed", value'[u], error'[u])
     ELSE Return(f) /\ UNCHANGED answers
  /\ UNCHANGED <<current, runnables, timers, closed, receivers>>

(* The end of run_compute: the block returns or raises, the channel is     *)
(* closed and the state is Completed, whatever it was.  compute has a      *)
(* caller, get, which goes on without waiting.                             *)
BlockEnds(f) ==
  LET u == This(f) IN
  /\ \/ value' = [value EXCEPT ![u] = f] /\ UNCHANGED error
     \/ error' = [error EXCEPT ![u] = TRUE] /\ UNCHANGED value
  /\ state' = [state EXCEPT ![u] = "Completed"]
  /\ closed' = [closed EXCEPT ![u] = TRUE]
  /\ Enqueue(receivers[u])
  /\ receivers' = [receivers EXCEPT ![u] = <<>>]
  /\ IF ThisCall(f).op = "get"
     THEN ValueOrRaise(f, u, "Completed", value'[u], error'[u])
     ELSE Return(f) /\ UNCHANGED answers
  /\ UNCHANGED <<current, timers>>

(* The block sleeps, on the fiber that calls it.                           *)
BlockSleeps(f) ==
  LET u == This(f) IN
  /\ timers' = timers \cup {f}
  /\ SuspendAt(f, "computing")
  /\ Reschedule(runnables)
  /\ state' = [state EXCEPT ![u] = IF at[f] = "delayed" THEN "Running" ELSE @]
  /\ UNCHANGED <<closed, receivers, value, error, answers>>

(* @block.call *)
CallBlock(f) ==
  LET u == This(f) IN
  /\ runs' = [runs EXCEPT ![u] = @ + 1]
  /\ IF u \in Napping THEN BlockSleeps(f) ELSE BlockEnds(f)
  /\ UNCHANGED <<prog, born, ended, senders, contents, sent, got, dropped>>

(* run_compute on a fiber of its own: the delay, ...                       *)
Delay(f) ==
  /\ FutureCall(f, "compute")
  /\ This(f) \in Delayed
  /\ timers' = timers \cup {f}
  /\ SuspendAt(f, "delayed")
  /\ Reschedule(runnables)
  /\ UNCHANGED <<prog, born, ended, chanVars, futureVars>>

(* ... after which a canceled future is left alone, ...                    *)
DelayCanceled(f) ==
  /\ ResumedAt(f, "delayed")
  /\ state[This(f)] = "Canceled"
  /\ Return(f)
  /\ UNCHANGED <<prog, current, runnables, timers, born, ended, chanVars, futureVars>>

(* A faulty variant of Compute: it does not look at the state again.       *)
ComputeAnyway(f) ==
  /\ \/ FutureCall(f, "compute") /\ This(f) \notin Delayed
     \/ ResumedAt(f, "delayed")
  /\ CallBlock(f)

(* ... and the block.                                                      *)
Compute(f) ==
  /\ \/ FutureCall(f, "compute") /\ This(f) \notin Delayed
     \/ ResumedAt(f, "delayed") /\ state[This(f)] # "Canceled"
  /\ CallBlock(f)

Computed(f) ==
  /\ ResumedAt(f, "computing")
  /\ BlockEnds(f)
  /\ UNCHANGED <<prog, born, ended, senders, contents, sent, got, runs, dropped>>

-----------------------------------------------------------------------------
(* A faulty variant of GetComputes: compute does not look at the state.    *)
GetAlwaysComputes(f) ==
  /\ FutureCall(f, "get")
  /\ ~Settled(This(f))
  /\ CallBlock(f)

(* get: compute runs the block of a future that is still Idle, on the      *)
(* fiber that gets it.                                                     *)
GetComputes(f) ==
  /\ FutureCall(f, "get")
  /\ state[This(f)] = "Idle"
  /\ CallBlock(f)

(* @channel.receive? *)
GetWaits(f) ==
  LET u == This(f) IN
  /\ \/ FutureCall(f, "get") /\ state[u] \in {"Delayed", "Running"}
     \/ ResumedAt(f, "retry")
  /\ ~closed[u]
  /\ receivers' = [receivers EXCEPT ![u] = Append(@, f)]
  /\ SuspendAt(f, "retry")
  /\ Reschedule(runnables)
  /\ UNCHANGED <<prog, timers, born, ended, closed, senders, contents, sent, got, futureVars>>

GetAnswers(f) ==
  LET u == This(f) IN
  /\ \/ FutureCall(f, "get") /\ Settled(u)
     \/ ResumedAt(f, "retry") /\ closed[u]
  /\ ValueOrRaise(f, u, state[u], value[u], error[u])
  /\ UNCHANGED <<prog, current, runnables, timers, born, ended, chanVars,
                 state, value, error, runs, dropped>>

-----------------------------------------------------------------------------
FutureInit ==
  /\ ChanInit
  /\ state = [u \in Futures |-> "Unmade"]
  /\ value = [u \in Futures |-> NoFiber]
  /\ error = [u \in Futures |-> FALSE]
  /\ runs = [u \in Futures |-> 0]
  /\ dropped = [u \in Futures |-> FALSE]
  /\ answers = [u \in Futures |-> {}]

FutureStep(f) ==
  \/ Make(f)
  \/ Cancel(f)
  \/ CancelTooLate(f)
  \/ Delay(f)
  \/ DelayCanceled(f)
  \/ Compute(f)
  \/ Computed(f)
  \/ GetComputes(f)
  \/ GetWaits(f)
  \/ GetAnswers(f)

FutureNext ==
  \/ SchedNext /\ UNCHANGED <<chanVars, futureVars>>
  \/ \E f \in Fiber : FutureStep(f)

allFutureVars == <<schedVars, chanVars, futureVars>>

FutureSpec == FutureInit /\ [][FutureNext]_allFutureVars

FairFutureSpec ==
  /\ FutureSpec
  /\ WF_allFutureVars(FutureNext)
  /\ \A f \in Fiber : SF_allFutureVars(Fire(f) /\ UNCHANGED <<chanVars, futureVars>>)

-----------------------------------------------------------------------------
(* Every variable keeps its type.                                          *)
FutureTypeOK ==
  /\ ChanTypeOK
  /\ state \in [Futures -> FutureState]
  /\ value \in [Futures -> Fiber \cup {NoFiber}]
  /\ error \in [Futures -> BOOLEAN]
  /\ runs \in [Futures -> Nat]
  /\ dropped \in [Futures -> BOOLEAN]
  /\ answers \in [Futures -> SUBSET Answer]

(* The block is called at most once (future.cr:120).                       *)
BlockOnce == \A u \in Futures : runs[u] <= 1

(* A delayed or lazy future that is canceled before its block is called    *)
(* never runs it and stays canceled ("May be canceled before *&block* is   *)
(* called", future.cr:121), however the cancel races with the end of the   *)
(* delay.  Any other future is Running from the start: canceled before its *)
(* fiber ran, it computes all the same, and is Completed in the end.       *)
CancelDrops ==
  \A u \in Delayed \cup Lazy : dropped[u] => runs[u] = 0 /\ state[u] = "Canceled"

(* get has an answer when it stops waiting: the branch marked "compiler    *)
(* bug" in value_or_raise is not reached.                                  *)
NoCompilerBug == \A u \in Futures : \A a \in answers[u] : a.kind # "compiler bug"

GetWaiting(f) == at[f] \in {"retry", "computing"} /\ ThisCall(f).op = "get"

(* Every get comes back (Future#get): unless the process exits, a fiber    *)
(* inside get returns or raises.                                           *)
GetsAnswered == \A f \in Fiber : GetWaiting(f) ~> (~GetWaiting(f) \/ Exited)
=============================================================================
