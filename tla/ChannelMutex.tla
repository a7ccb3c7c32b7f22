----------------------------- MODULE ChannelMutex -----------------------------
(***************************************************************************)
(* Channels and mutexes used by the same fibers: src/concurrent/channel.cr *)
(* and src/mutex.cr over one scheduler.                                    *)
(***************************************************************************)
EXTENDS Channel, Mutex

allVars == <<schedVars, chanVars, mutexVars>>

ChannelMutexInit == ChanInit /\ MutexVarsInit

ChannelMutexNext ==
  \/ SchedNext /\ UNCHANGED <<chanVars, mutexVars>>
  \/ \E f \in Fiber : ChanStep(f) /\ UNCHANGED mutexVars
  \/ \E f \in Fiber : MutexStep(f) /\ UNCHANGED chanVars

ChannelMutexSpec == ChannelMutexInit /\ [][ChannelMutexNext]_allVars

(* As in Scheduler: the processor is never idle while a step is possible,  *)
(* and libevent serves every timer.                                        *)
FairChannelMutexSpec ==
  /\ ChannelMutexSpec
  /\ WF_allVars(ChannelMutexNext)
  /\ \A f \in Fiber : SF_allVars(Fire(f) /\ UNCHANGED <<chanVars, mutexVars>>)

-----------------------------------------------------------------------------
OnChannel(f) == f \in Fiber /\ at[f] \in {"retry", "handed"}

(* The mutex is fair (@queue in Mutex): a fiber that waits for it gets it, *)
(* unless the process exits, or the owner has ended without an unlock or   *)
(* waits for a channel for ever.                                           *)
WaitersLock ==
  \A f \in Fiber, m \in Mutexes :
    Locking(f, m) ~> \/ holds[m][f] > 0 \/ Exited \/ mutex_fiber[m] \in ended
                     \/ []OnChannel(mutex_fiber[m])
=============================================================================
