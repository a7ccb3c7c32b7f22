----------------------------- MODULE FiberStacks -----------------------------
(***************************************************************************)
(* The memory behind the fibers of src/fiber.cr: the stacks, their pool,   *)
(* and the linked list in which the garbage collector finds the fibers     *)
(* whose stacks it must scan.                                              *)
(*                                                                         *)
(* The steps of Scheduler are the same as there, with what they do to      *)
(* stacks and list.  The loop fiber is a Fiber like the others, created    *)
(* inside the first Scheduler.reschedule that finds no runnable fiber.     *)
(***************************************************************************)
EXTENDS Scheduler

CONSTANTS
  Stack,   (* the regions mmap can give                                    *)
  Nil

ASSUME StackAssumption == Nil \notin Stack \cup Fiber \cup {Loop}

VARIABLE
  heap   (* a record: stack and the links of each fiber, @@stack_pool,     *)
         (* @@first_fiber, @@last_fiber, and the regions that are mapped   *)

Object == Fiber \cup {Loop}

-----------------------------------------------------------------------------
(* A faulty variant of Allocated: the stack is read, not popped.           *)
AllocatedLast(h, f) ==
  IF h.pool # <<>>
  THEN { [h EXCEPT !.stack[f] = h.pool[Len(h.pool)]] }
  ELSE { [h EXCEPT !.stack[f] = s, !.mapped = @ \cup {s}] : s \in Stack \ h.mapped }

(* Fiber.allocate_stack: from the pool, or else a new mapping.             *)
Allocated(h, f) ==
  IF h.pool # <<>>
  THEN { [h EXCEPT !.stack[f] = h.pool[Len(h.pool)],
                   !.pool = SubSeq(@, 1, Len(@) - 1)] }
  ELSE { [h EXCEPT !.stack[f] = s, !.mapped = @ \cup {s}] : s \in Stack \ h.mapped }

(* The end of Fiber#initialize: append to the list.                        *)
Linked(h, f) ==
  IF h.last # Nil
  THEN [h EXCEPT !.prev[f] = h.last, !.next[h.last] = f, !.last = f]
  ELSE [h EXCEPT !.prev[f] = Nil, !.first = f, !.last = f]

(* Fiber.new *)
Created(h, f) == { Linked(g, f) : g \in Allocated(h, f) }

(* The ensure clause of Fiber#run: the stack goes to the pool while the    *)
(* fiber still runs on it, ...                                             *)
Pooled(h, f) == [h EXCEPT !.pool = Append(@, h.stack[f])]

(* A faulty variant of Unlinked: only the links forward are mended.        *)
UnlinkedForward(h, f) ==
  LET p == h.prev[f]
      n == h.next[f]
      g == IF p # Nil THEN [h EXCEPT !.next[p] = n] ELSE [h EXCEPT !.first = n]
  IN  IF n # Nil THEN g ELSE [g EXCEPT !.last = p]

(* ... and the fiber is taken out of the list.                             *)
Unlinked(h, f) ==
  LET p == h.prev[f]
      n == h.next[f]
      g == IF p # Nil THEN [h EXCEPT !.next[p] = n] ELSE [h EXCEPT !.first = n]
  IN  IF n # Nil THEN [g EXCEPT !.prev[n] = p] ELSE [g EXCEPT !.last = p]

(* Scheduler.loop_fiber, inside the Scheduler.reschedule of this step: the *)
(* first switch to the loop fiber creates it.                              *)
Rescheduled(h) ==
  IF current' = Loop /\ h.stack[Loop] = Nil THEN Created(h, Loop) ELSE {h}

(* A faulty variant of Freed: half of the pool, rounded down.              *)
FreedHalf(h) == Len(h.pool) \div 2

(* Fiber.stack_pool_collect: half of the pool is unmapped, and at least    *)
(* one stack.                                                              *)
Freed(h) == IF Len(h.pool) > 1 THEN Len(h.pool) \div 2 ELSE Len(h.pool)

(* A faulty variant of Collected: the stacks are not unmapped.             *)
CollectedLeaks(h) == [h EXCEPT !.pool = SubSeq(@, 1, Len(h.pool) - Freed(h))]

Collected(h) ==
  LET kept == Len(h.pool) - Freed(h) IN
  [h EXCEPT !.pool = SubSeq(@, 1, kept),
            !.mapped = @ \ {h.pool[i] : i \in kept + 1 .. Len(h.pool)}]

-----------------------------------------------------------------------------
SpawnOnStack(f) == Spawn(f) /\ heap' \in Created(heap, ThisCall(f).fiber)

(* mmap may fail: Fiber.new raises before it changed anything.             *)
SpawnFails(f) ==
  /\ Calls(f, "spawn")
  /\ ThisCall(f).fiber \notin born
  /\ heap.pool = <<>>
  /\ Raise(f)
  /\ UNCHANGED <<prog, current, runnables, timers, born, ended, heap>>

Switch(f) == (Sleep(f) \/ SleepForever(f)) /\ heap' \in Rescheduled(heap)

FinishOnStack(f) ==
  /\ Finish(f)
  /\ heap' \in Rescheduled(Unlinked(Pooled(heap, f), f))

(* The call of the background fiber of src/kernel.cr, every five seconds.  *)
Collect(f) ==
  /\ Calls(f, "collect")
  /\ heap' = Collected(heap)
  /\ Return(f)
  /\ UNCHANGED <<prog, current, runnables, timers, born, ended>>

Continue(f) == (Awake(f) \/ Jump(f) \/ Fire(f)) /\ UNCHANGED heap

-----------------------------------------------------------------------------
(* Fiber.root runs on the stack of the process.                            *)
StackInit ==
  /\ SchedInit
  /\ heap = [ stack  |-> [f \in Object |-> Nil],
              next   |-> [f \in Object |-> Nil],
              prev   |-> [f \in Object |-> Nil],
              first  |-> Main,
              last   |-> Main,
              pool   |-> <<>>,
              mapped |-> {} ]

StackNext ==
  \/ \E f \in Fiber :
       \/ SpawnOnStack(f)
       \/ SpawnFails(f)
       \/ Switch(f)
       \/ FinishOnStack(f)
       \/ Collect(f)
       \/ Continue(f)
  \/ Exit /\ UNCHANGED heap

stackVars == <<schedVars, heap>>

StackSpec == StackInit /\ [][StackNext]_stackVars

FairStackSpec ==
  /\ StackSpec
  /\ WF_stackVars(StackNext)
  /\ \A f \in Fiber : SF_stackVars(Fire(f) /\ UNCHANGED heap)

-----------------------------------------------------------------------------
(* The fibers that will run again, and the loop fiber once it exists.      *)
Live == (born \ ended) \cup {l \in {Loop} : heap.stack[l] # Nil}

(* Those of them that run on a stack of the pool's kind.                   *)
Stacked == Live \ {Main}

(* A stack has one owner (Fiber.allocate_stack, Fiber#run): no two live    *)
(* fibers share one, none is in the pool or unmapped under its fiber, and  *)
(* the pool holds none twice.  In particular the fiber that ends, still    *)
(* running on a stack of the pool, cannot hand it to a live fiber twice.   *)
StackOwned ==
  /\ \A f \in Stacked : heap.stack[f] \in heap.mapped
  /\ \A f, g \in Stacked : heap.stack[f] = heap.stack[g] => f = g
  /\ \A i \in DOMAIN heap.pool :
       /\ heap.pool[i] \in heap.mapped
       /\ \A f \in Stacked : heap.stack[f] # heap.pool[i]
       /\ \A j \in DOMAIN heap.pool : heap.pool[i] = heap.pool[j] => i = j

(* No mapping is lost: what is mapped is in use or in the pool.            *)
NoLeak ==
  \A s \in heap.mapped : \/ \E f \in Stacked : heap.stack[f] = s
                         \/ \E i \in DOMAIN heap.pool : heap.pool[i] = s

(* The n-th fiber the collector comes to, along next_fiber; when the list  *)
(* holds the live fibers, there is none after them.                        *)
Walk[n \in 1 .. Cardinality(Live) + 1] ==
  IF n = 1 THEN heap.first
  ELSE IF Walk[n - 1] = Nil THEN Nil ELSE heap.next[Walk[n - 1]]

(* The collector finds every live fiber (the proc of                       *)
(* set_push_other_roots): the list holds each live fiber once and no dead  *)
(* one, and the links backwards, which unlinking relies on, agree.         *)
RootsFound ==
  LET steps == {n \in DOMAIN Walk : Walk[n] # Nil} IN
  /\ {Walk[n] : n \in steps} = Live
  /\ \A m, n \in steps : Walk[m] = Walk[n] => m = n
  /\ \A n \in steps : heap.prev[Walk[n]] = IF n = 1 THEN Nil ELSE Walk[n - 1]
  /\ heap.last = Walk[Cardinality(steps)]

(* Memory is given back (Fiber.stack_pool_collect, src/kernel.cr:175): as  *)
(* long as a fiber keeps collecting, every stack leaves the pool again.    *)
PoolDrains ==
  []<>(\E f \in Fiber : Calls(f, "collect"))
    => \A s \in Stack : (\E i \in DOMAIN heap.pool : heap.pool[i] = s)
                         ~> ~ \E i \in DOMAIN heap.pool : heap.pool[i] = s
=============================================================================
