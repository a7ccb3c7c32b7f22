-------------------------- MODULE FiberStacksProofs --------------------------
(***************************************************************************)
(* For every set of fibers, regions and programs: no two live fibers ever  *)
(* share a stack, no live fiber's stack is in the pool or unmapped, and no *)
(* mapping is lost, although a fiber gives its stack away while it still   *)
(* runs on it; and the list of fibers leads to every live one.             *)
(***************************************************************************)
EXTENDS FiberStacks, FiniteSetTheorems, TLAPS

Link == Object \cup {Nil}

Heap == [ stack  : [Object -> Stack \cup {Nil}],
          next   : [Object -> Link],
          prev   : [Object -> Link],
          first  : Link,
          last   : Link,
          pool   : Seq(Stack),
          mapped : SUBSET Stack ]

InPool(h, s) == \E i \in DOMAIN h.pool : h.pool[i] = s

(* Each region of heap h belongs to one fiber of L, or to the pool, once.  *)
Owned(h, L) ==
  /\ \A f \in L : h.stack[f] \in h.mapped /\ ~InPool(h, h.stack[f])
  /\ \A f, g \in L : h.stack[f] = h.stack[g] => f = g
  /\ \A i \in DOMAIN h.pool : h.pool[i] \in h.mapped
  /\ \A i, j \in DOMAIN h.pool : h.pool[i] = h.pool[j] => i = j
  /\ \A s \in h.mapped : InPool(h, s) \/ \E f \in L : h.stack[f] = s

(* The inductive invariant.  The scheduler's variables matter only for who *)
(* is live.                                                                *)
StackInv ==
  /\ prog \in [Fiber -> Seq(Call)]
  /\ born \subseteq Fiber /\ ended \subseteq born /\ Main \in born
  /\ heap \in Heap
  /\ Owned(heap, Stacked)

(* The last stack of a pool is taken.                                      *)
LEMMA PoolPop ==
  ASSUME NEW q \in Seq(Stack), q # <<>>
  PROVE  /\ Len(q) \in Nat \ {0}
         /\ q[Len(q)] \in Stack
         /\ SubSeq(q, 1, Len(q) - 1) \in Seq(Stack)
         /\ DOMAIN SubSeq(q, 1, Len(q) - 1) = 1 .. Len(q) - 1
         /\ DOMAIN q = 1 .. Len(q)
         /\ \A i \in 1 .. Len(q) - 1 : SubSeq(q, 1, Len(q) - 1)[i] = q[i]
  OBVIOUS

(* Fiber.allocate_stack gives a region that nobody else has.               *)
LEMMA AllocatedOwned ==
  ASSUME NEW h \in Heap, NEW L \in SUBSET Object, NEW f \in Object \ L,
         Owned(h, L), NEW g \in Allocated(h, f)
  PROVE  /\ g \in Heap
         /\ Owned(g, L \cup {f})
         /\ g.stack[f] \in Stack
         /\ \A o \in Object \ {f} : g.stack[o] = h.stack[o]
<1>1. CASE h.pool # <<>>
  <2> DEFINE q == h.pool
  <2>1. q \in Seq(Stack)
    BY DEF Heap
  <2>2. g = [h EXCEPT !.stack[f] = q[Len(q)], !.pool = SubSeq(q, 1, Len(q) - 1)]
    BY <1>1 DEF Allocated
  <2>3. /\ Len(q) \in Nat \ {0}
        /\ q[Len(q)] \in Stack
        /\ SubSeq(q, 1, Len(q) - 1) \in Seq(Stack)
        /\ DOMAIN SubSeq(q, 1, Len(q) - 1) = 1 .. Len(q) - 1
        /\ DOMAIN q = 1 .. Len(q)
        /\ \A i \in 1 .. Len(q) - 1 : SubSeq(q, 1, Len(q) - 1)[i] = q[i]
    BY <2>1, <1>1, PoolPop
  <2> DEFINE s == q[Len(q)]
  <2>4. /\ g \in Heap
        /\ g.stack = [h.stack EXCEPT ![f] = s]
        /\ g.pool = SubSeq(q, 1, Len(q) - 1)
        /\ g.mapped = h.mapped
        /\ h.stack \in [Object -> Stack \cup {Nil}]
    BY <2>2, <2>3 DEF Heap
  <2>5. /\ DOMAIN g.pool = 1 .. Len(q) - 1
        /\ \A i \in DOMAIN g.pool : i \in DOMAIN q /\ g.pool[i] = q[i] /\ i # Len(q)
    BY <2>3, <2>4
  <2>6. g.stack[f] = s /\ \A o \in Object \ {f} : g.stack[o] = h.stack[o]
    BY <2>4
  <2>7. s \in h.mapped /\ InPool(h, s) /\ ~InPool(g, s)
    BY <2>3, <2>5 DEF Owned, InPool
  <2>8. \A t : InPool(g, t) => InPool(h, t)
    BY <2>5 DEF InPool
  <2>9. \A t : InPool(h, t) => InPool(g, t) \/ t = s
    BY <2>3, <2>5 DEF InPool
  <2>10. \A o \in L : o # f /\ o \in Object /\ h.stack[o] # s
    BY <2>7 DEF Owned
  <2> HIDE DEF s, q
  <2>11. \A o \in L \cup {f} : g.stack[o] \in g.mapped /\ ~InPool(g, g.stack[o])
    BY <2>4, <2>6, <2>7, <2>8, <2>10 DEF Owned
  <2>12. \A o, p \in L \cup {f} : g.stack[o] = g.stack[p] => o = p
    BY <2>6, <2>10 DEF Owned
  <2>13. /\ \A i \in DOMAIN g.pool : g.pool[i] \in g.mapped
         /\ \A i, j \in DOMAIN g.pool : g.pool[i] = g.pool[j] => i = j
    BY <2>4, <2>5 DEF Owned, q
  <2>14. \A t \in g.mapped : InPool(g, t) \/ \E o \in L \cup {f} : g.stack[o] = t
    BY <2>4, <2>6, <2>9, <2>10 DEF Owned
  <2>15. Owned(g, L \cup {f})
    BY <2>11, <2>12, <2>13, <2>14 DEF Owned
  <2>16. QED
    BY <2>3, <2>4, <2>6, <2>15 DEF s
<1>2. CASE h.pool = <<>>
  <2>1. PICK s \in Stack \ h.mapped :
          g = [h EXCEPT !.stack[f] = s, !.mapped = @ \cup {s}]
    BY <1>2 DEF Allocated
  <2>2. /\ g \in Heap
        /\ g.stack = [h.stack EXCEPT ![f] = s]
        /\ g.pool = h.pool
        /\ g.mapped = h.mapped \cup {s}
        /\ h.stack \in [Object -> Stack \cup {Nil}]
    BY <2>1 DEF Heap
  <2>3. g.stack[f] = s /\ \A o \in Object \ {f} : g.stack[o] = h.stack[o]
    BY <2>2
  <2>4. \A t : InPool(g, t) <=> InPool(h, t)
    BY <2>2 DEF InPool
  <2>5. ~InPool(h, s)
    BY DEF Owned, InPool
  <2>6. \A o \in L : o # f /\ o \in Object /\ h.stack[o] # s
    BY DEF Owned
  <2>7. Owned(g, L \cup {f})
    BY <2>2, <2>3, <2>4, <2>5, <2>6 DEF Owned
  <2>8. QED
    BY <2>2, <2>3, <2>7
<1>3. QED
  BY <1>1, <1>2

(* What the links are does not matter to the owners.                       *)
LEMMA LinksApart ==
  ASSUME NEW h \in Heap, NEW g \in Heap, NEW L, Owned(h, L),
         g.stack = h.stack, g.pool = h.pool, g.mapped = h.mapped
  PROVE  Owned(g, L)
BY DEF Owned, InPool

(* The integer division of stack_pool_collect.                             *)
LEMMA Half == \A n \in Nat : n \div 2 \in Nat /\ n \div 2 <= n
OBVIOUS

(* The rest of Fiber#initialize.                                           *)
LEMMA LinkedOwned ==
  ASSUME NEW h \in Heap, NEW L, NEW f \in Object, Owned(h, L)
  PROVE  Linked(h, f) \in Heap /\ Owned(Linked(h, f), L) /\ Linked(h, f).stack = h.stack
<1> DEFINE g == Linked(h, f)
<1>1. /\ g \in Heap
      /\ g.stack = h.stack /\ g.pool = h.pool /\ g.mapped = h.mapped
  <2>1. CASE h.last # Nil
    <3>1. h.last \in Object
      BY <2>1 DEF Heap, Link
    <3>2. g = [h EXCEPT !.prev[f] = h.last, !.next[h.last] = f, !.last = f]
      BY <2>1 DEF Linked
    <3>3. /\ [h.prev EXCEPT ![f] = h.last] \in [Object -> Link]
          /\ [h.next EXCEPT ![h.last] = f] \in [Object -> Link]
          /\ f \in Link
      BY <3>1 DEF Heap, Link
    <3> HIDE DEF g
    <3>4. g = [h EXCEPT !.prev = [h.prev EXCEPT ![f] = h.last],
                        !.next = [h.next EXCEPT ![h.last] = f], !.last = f]
      BY <3>2 DEF Heap
    <3>5. QED
      BY <3>3, <3>4 DEF Heap
  <2>2. CASE h.last = Nil
    <3>1. g = [h EXCEPT !.prev[f] = Nil, !.first = f, !.last = f]
      BY <2>2 DEF Linked
    <3>2. f \in Link /\ [h.prev EXCEPT ![f] = Nil] \in [Object -> Link]
      BY DEF Heap, Link
    <3> HIDE DEF g
    <3>3. g = [h EXCEPT !.prev = [h.prev EXCEPT ![f] = Nil], !.first = f, !.last = f]
      BY <3>1 DEF Heap
    <3>4. QED
      BY <3>2, <3>3 DEF Heap
  <2>3. QED
    BY <2>1, <2>2
<1> HIDE DEF g
<1>2. Owned(g, L)
  BY <1>1, LinksApart
<1>3. QED
  BY <1>1, <1>2 DEF g

(* Fiber.new gives the new fiber a stack of its own.                       *)
LEMMA CreatedOwned ==
  ASSUME NEW h \in Heap, NEW L \in SUBSET Object, NEW f \in Object \ L,
         Owned(h, L), NEW g \in Created(h, f)
  PROVE  /\ g \in Heap
         /\ Owned(g, L \cup {f})
         /\ g.stack[f] \in Stack
         /\ \A o \in Object \ {f} : g.stack[o] = h.stack[o]
<1>1. PICK k \in Allocated(h, f) : g = Linked(k, f)
  BY DEF Created
<1>2. /\ k \in Heap
      /\ Owned(k, L \cup {f})
      /\ k.stack[f] \in Stack
      /\ \A o \in Object \ {f} : k.stack[o] = h.stack[o]
  BY AllocatedOwned
<1>3. QED
  BY <1>1, <1>2, LinkedOwned

(* The end of Fiber#run: the stack changes from the fiber to the pool.     *)
LEMMA PooledOwned ==
  ASSUME NEW h \in Heap, NEW L \in SUBSET Object, NEW f \in L, Owned(h, L)
  PROVE  /\ Pooled(h, f) \in Heap
         /\ Owned(Pooled(h, f), L \ {f})
         /\ Pooled(h, f).stack = h.stack
<1> DEFINE g == Pooled(h, f)
           s == h.stack[f]
           q == h.pool
<1>1. s \in Stack /\ s \in h.mapped /\ ~InPool(h, s) /\ q \in Seq(Stack)
  BY DEF Heap, Owned
<1>2. /\ g \in Heap
      /\ g.stack = h.stack /\ g.mapped = h.mapped /\ g.pool = Append(q, s)
  <2>1. Append(q, s) \in Seq(Stack)
    BY <1>1
  <2>2. g = [h EXCEPT !.pool = Append(q, s)]
    BY DEF Pooled
  <2> HIDE DEF g, s, q
  <2>3. QED
    BY <2>1, <2>2 DEF Heap
<1>3. /\ Len(q) \in Nat
      /\ DOMAIN q = 1 .. Len(q)
      /\ DOMAIN g.pool = 1 .. Len(q) + 1
      /\ g.pool[Len(q) + 1] = s
      /\ \A i \in DOMAIN q : g.pool[i] = q[i]
  BY <1>1, <1>2
<1> HIDE DEF g, s, q
<1>4. \A t : InPool(g, t) <=> InPool(h, t) \/ t = s
  <2>1. ASSUME NEW t, InPool(g, t) PROVE InPool(h, t) \/ t = s
    <3>1. PICK i \in DOMAIN g.pool : g.pool[i] = t
      BY <2>1 DEF InPool
    <3>2. i = Len(q) + 1 \/ i \in DOMAIN q
      BY <1>3
    <3>3. QED
      BY <3>1, <3>2, <1>3 DEF InPool, q
  <2>2. ASSUME NEW t, InPool(h, t) PROVE InPool(g, t)
    <3>1. PICK i \in DOMAIN q : q[i] = t
      BY <2>2 DEF InPool, q
    <3>2. i \in DOMAIN g.pool /\ g.pool[i] = t
      BY <3>1, <1>3
    <3>3. QED
      BY <3>2 DEF InPool
  <2>3. InPool(g, s)
    BY <1>3 DEF InPool
  <2>4. QED
    BY <2>1, <2>2, <2>3
<1>5. \A o \in L \ {f} : o \in L /\ h.stack[o] # s
  BY DEF Owned, s
<1>6. \A o \in L \ {f} : g.stack[o] \in g.mapped /\ ~InPool(g, g.stack[o])
  BY <1>2, <1>4, <1>5 DEF Owned
<1>7. \A i \in DOMAIN g.pool : g.pool[i] \in g.mapped
  <2>1. ASSUME NEW i \in DOMAIN g.pool PROVE g.pool[i] \in g.mapped
    <3>1. i = Len(q) + 1 \/ i \in DOMAIN q
      BY <1>3
    <3>2. QED
      BY <3>1, <1>1, <1>2, <1>3 DEF Owned, q
  <2>2. QED
    BY <2>1
<1>8. ASSUME NEW i \in DOMAIN g.pool, NEW j \in DOMAIN g.pool, g.pool[i] = g.pool[j]
      PROVE  i = j
  <2>1. \A k \in DOMAIN q : q[k] # s
    BY <1>1 DEF InPool, q
  <2>2. \A k, l \in DOMAIN q : q[k] = q[l] => k = l
    BY DEF Owned, q
  <2>3. QED
    BY <1>3, <1>8, <2>1, <2>2
<1>9. \A t \in g.mapped : InPool(g, t) \/ \E o \in L \ {f} : g.stack[o] = t
  BY <1>2, <1>4 DEF Owned, s
<1>10. Owned(g, L \ {f})
  <2>1. \A o, p \in L \ {f} : g.stack[o] = g.stack[p] => o = p
    BY <1>2 DEF Owned
  <2>2. QED
    BY <1>6, <1>7, <1>8, <1>9, <2>1 DEF Owned
<1>11. QED
  BY <1>2, <1>10 DEF g

(* Then the fiber leaves the list.                                         *)
LEMMA UnlinkedOwned ==
  ASSUME NEW h \in Heap, NEW L, NEW f \in Object, Owned(h, L)
  PROVE  /\ Unlinked(h, f) \in Heap
         /\ Owned(Unlinked(h, f), L)
         /\ Unlinked(h, f).stack = h.stack
<1> DEFINE p == h.prev[f]
           n == h.next[f]
           k == IF p # Nil THEN [h EXCEPT !.next[p] = n] ELSE [h EXCEPT !.first = n]
           g == IF n # Nil THEN [k EXCEPT !.prev[n] = p] ELSE [k EXCEPT !.last = p]
<1>1. g = Unlinked(h, f)
  BY DEF Unlinked
<1>2. p \in Link /\ n \in Link
  BY DEF Heap
<1>3. k \in Heap /\ k.stack = h.stack /\ k.pool = h.pool /\ k.mapped = h.mapped
  <2>1. CASE p # Nil
    <3>1. p \in Object /\ k = [h EXCEPT !.next[p] = n]
      BY <2>1, <1>2 DEF Link
    <3>2. QED
      BY <3>1, <1>2 DEF Heap
  <2>2. CASE p = Nil
    BY <2>2, <1>2 DEF Heap
  <2>3. QED
    BY <2>1, <2>2
<1> HIDE DEF k, p, n
<1>4. g \in Heap /\ g.stack = k.stack /\ g.pool = k.pool /\ g.mapped = k.mapped
  <2>1. CASE n # Nil
    <3>1. n \in Object /\ g = [k EXCEPT !.prev[n] = p]
      BY <2>1, <1>2 DEF Link
    <3>2. QED
      BY <3>1, <1>2, <1>3 DEF Heap
  <2>2. CASE n = Nil
    BY <2>2, <1>2, <1>3 DEF Heap
  <2>3. QED
    BY <2>1, <2>2
<1> HIDE DEF g
<1>5. Owned(g, L)
  BY <1>3, <1>4, LinksApart
<1>6. QED
  BY <1>1, <1>3, <1>4, <1>5

(* The reschedule of a step, which may create the loop fiber.              *)
LEMMA RescheduledOwned ==
  ASSUME NEW h \in Heap, NEW F \in SUBSET Fiber,
         Owned(h, F \cup {l \in {Loop} : h.stack[Loop] # Nil}),
         NEW g \in Rescheduled(h)
  PROVE  g \in Heap /\ Owned(g, F \cup {l \in {Loop} : g.stack[Loop] # Nil})
<1>1. CASE current' = Loop /\ h.stack[Loop] = Nil
  <2>1. g \in Created(h, Loop)
    BY <1>1 DEF Rescheduled
  <2>2. F \in SUBSET Object /\ Loop \in Object \ F /\ Owned(h, F)
    <3>1. {l \in {Loop} : h.stack[Loop] # Nil} = {}
      BY <1>1
    <3>2. QED
      BY <3>1, SchedulerAssumption DEF Object, SchedulerAssumption
  <2>3. g \in Heap /\ Owned(g, F \cup {Loop}) /\ g.stack[Loop] \in Stack
    BY <2>1, <2>2, CreatedOwned
  <2>4. g.stack[Loop] # Nil
    BY <2>3, StackAssumption DEF StackAssumption
  <2>5. F \cup {l \in {Loop} : g.stack[Loop] # Nil} = F \cup {Loop}
    BY <2>4
  <2>6. QED
    BY <2>3, <2>5
<1>2. CASE ~(current' = Loop /\ h.stack[Loop] = Nil)
  BY <1>2 DEF Rescheduled
<1>3. QED
  BY <1>1, <1>2

(* Fiber.stack_pool_collect unmaps only stacks of the pool.                *)
LEMMA CollectedOwned ==
  ASSUME NEW h \in Heap, NEW L \in SUBSET Object, Owned(h, L)
  PROVE  /\ Collected(h) \in Heap
         /\ Owned(Collected(h), L)
         /\ Collected(h).stack = h.stack
<1> DEFINE q == h.pool
           kept == Len(q) - Freed(h)
           gone == {q[i] : i \in kept + 1 .. Len(q)}
           g == Collected(h)
<1>1. q \in Seq(Stack) /\ Len(q) \in Nat
  BY DEF Heap
<1>2. Freed(h) \in Nat /\ Freed(h) <= Len(q)
  <2>1. Len(q) \div 2 \in Nat /\ Len(q) \div 2 <= Len(q)
    BY <1>1, Half
  <2>2. Freed(h) = Len(q) \div 2 \/ Freed(h) = Len(q)
    BY DEF Freed
  <2> HIDE DEF q
  <2>3. QED
    BY <1>1, <2>1, <2>2
<1>3. kept \in Nat /\ kept <= Len(q)
  BY <1>1, <1>2
<1> HIDE DEF kept
<1>4. /\ DOMAIN q = 1 .. Len(q)
      /\ SubSeq(q, 1, kept) \in Seq(Stack)
      /\ DOMAIN SubSeq(q, 1, kept) = 1 .. kept
      /\ \A i \in 1 .. kept : SubSeq(q, 1, kept)[i] = q[i]
  BY <1>1, <1>3
<1>5. /\ g \in Heap
      /\ g.stack = h.stack
      /\ g.pool = SubSeq(q, 1, kept)
      /\ g.mapped = h.mapped \ gone
  BY <1>4 DEF Collected, Heap, kept
<1>6. \A i \in DOMAIN g.pool : i \in DOMAIN q /\ i <= kept /\ g.pool[i] = q[i]
  BY <1>3, <1>4, <1>5
<1>7. \A t \in gone : InPool(h, t)
  BY <1>1, <1>3, <1>4 DEF InPool
<1>8. \A i \in DOMAIN g.pool : g.pool[i] \notin gone
  <2>1. ASSUME NEW i \in DOMAIN g.pool, NEW j \in kept + 1 .. Len(q), g.pool[i] = q[j]
        PROVE  FALSE
    <3>1. i \in DOMAIN q /\ j \in DOMAIN q /\ i # j /\ q[i] = q[j]
      BY <2>1, <1>1, <1>3, <1>4, <1>6
    <3>2. QED
      BY <3>1 DEF Owned
  <2>2. QED
    BY <2>1
<1>9. \A t : InPool(g, t) => InPool(h, t)
  BY <1>6 DEF InPool
<1>10. \A t : InPool(h, t) => InPool(g, t) \/ t \in gone
  <2>1. ASSUME NEW t, NEW i \in DOMAIN q, q[i] = t PROVE InPool(g, t) \/ t \in gone
    <3>1. CASE i <= kept
      <4>1. i \in DOMAIN g.pool /\ g.pool[i] = t
        BY <3>1, <2>1, <1>3, <1>4, <1>5
      <4>2. QED
        BY <4>1 DEF InPool
    <3>2. CASE ~(i <= kept)
      BY <3>2, <2>1, <1>1, <1>3, <1>4
    <3>3. QED
      BY <3>1, <3>2
  <2>2. QED
    BY <2>1 DEF InPool
<1> HIDE DEF gone, g, q
<1>11. \A o \in L : g.stack[o] \in g.mapped /\ ~InPool(g, g.stack[o])
  BY <1>5, <1>7, <1>9 DEF Owned
<1>12. /\ \A i \in DOMAIN g.pool : g.pool[i] \in g.mapped
       /\ \A i, j \in DOMAIN g.pool : g.pool[i] = g.pool[j] => i = j
  BY <1>5, <1>6, <1>8 DEF Owned, q
<1>13. \A t \in g.mapped : InPool(g, t) \/ \E o \in L : g.stack[o] = t
  BY <1>5, <1>10 DEF Owned
<1>14. \A o, p \in L : g.stack[o] = g.stack[p] => o = p
  BY <1>5 DEF Owned
<1>15. Owned(g, L)
  BY <1>11, <1>12, <1>13, <1>14 DEF Owned
<1>16. QED
  BY <1>5, <1>15 DEF g
-----------------------------------------------------------------------------
LEMMA StacksInitially == StackInit => StackInv
<1> SUFFICES ASSUME StackInit PROVE StackInv
  OBVIOUS
<1>1. /\ prog \in [Fiber -> Seq(Call)]
      /\ born = {Main} /\ ended = {} /\ Main \in Fiber
  BY SchedulerAssumption DEF StackInit, SchedInit, SchedulerAssumption
<1>2. /\ heap.stack = [f \in Object |-> Nil]
      /\ heap.pool = <<>> /\ heap.mapped = {}
  BY DEF StackInit
<1>3. heap \in Heap
  <2>1. Main \in Link /\ Nil \in Link
    BY <1>1 DEF Link, Object
  <2>2. QED
    BY <2>1 DEF StackInit, Heap
<1>4. Stacked = {}
  BY <1>1, <1>2 DEF Stacked, Live, Object
<1>5. Owned(heap, Stacked)
  BY <1>2, <1>4 DEF Owned, InPool
<1>6. QED
  BY <1>1, <1>3, <1>5 DEF StackInv

(* Who is live changes with born, ended and the stack of the loop fiber.   *)
LEMMA StackedIs ==
  ASSUME StackInv
  PROVE  /\ Stacked = ((born \ ended) \ {Main}) \cup {l \in {Loop} : heap.stack[Loop] # Nil}
         /\ (born \ ended) \ {Main} \in SUBSET Fiber
         /\ Stacked \in SUBSET Object
BY SchedulerAssumption DEF Stacked, Live, StackInv, Object, SchedulerAssumption

(* The induction step, action by action.                                   *)
LEMMA StacksInductive == StackInv /\ [StackNext]_stackVars => StackInv'
<1> SUFFICES ASSUME StackInv, [StackNext]_stackVars PROVE StackInv'
  OBVIOUS
<1> USE SchedulerAssumption
<1>0. /\ prog \in [Fiber -> Seq(Call)]
      /\ born \subseteq Fiber /\ ended \subseteq born /\ Main \in born
      /\ heap \in Heap /\ Owned(heap, Stacked)
      /\ Loop \notin Fiber /\ Loop \in Object /\ Fiber \subseteq Object
  BY DEF StackInv, SchedulerAssumption, Object
<1>1. ASSUME NEW f \in Fiber, SpawnOnStack(f) PROVE StackInv'
  <2>1. PICK g \in Fiber : g = ThisCall(f).fiber
    <3>1. ThisCall(f) \in Call /\ ThisCall(f).op = "spawn"
      BY <1>0, <1>1 DEF SpawnOnStack, Spawn, Calls, ThisCall
    <3>2. QED
      BY <3>1 DEF SchedulerAssumption
  <2>2. /\ g \notin born /\ born' = born \cup {g}
        /\ ended' = ended /\ prog' = prog
        /\ heap' \in Created(heap, g)
    BY <1>1, <2>1 DEF SpawnOnStack, Spawn
  <2>3. g \in Object \ Stacked /\ g # Main /\ g # Loop /\ g \notin ended
    BY <1>0, <2>2 DEF Stacked, Live
  <2>4. /\ heap' \in Heap
        /\ Owned(heap', Stacked \cup {g})
        /\ \A o \in Object \ {g} : heap'.stack[o] = heap.stack[o]
    <3>1. Stacked \in SUBSET Object
      BY StackedIs
    <3>2. PICK L \in SUBSET Object : L = Stacked
      BY <3>1
    <3>3. PICK h \in Heap : h = heap
      BY <1>0
    <3>4. g \in Object \ L /\ Owned(h, L)
      BY <1>0, <2>3, <3>2, <3>3
    <3>5. PICK k \in Created(h, g) : k = heap'
      BY <2>2, <3>3
    <3>6. k \in Heap
      BY <3>4, CreatedOwned
    <3>7. Owned(k, L \cup {g})
      BY <3>4, CreatedOwned
    <3>8. \A o \in Object \ {g} : k.stack[o] = h.stack[o]
      BY <3>4, CreatedOwned
    <3>9. QED
      BY <3>2, <3>3, <3>5, <3>6, <3>7, <3>8
  <2>5. Stacked' = Stacked \cup {g}
    <3>1. heap'.stack[Loop] = heap.stack[Loop]
      BY <1>0, <2>3, <2>4
    <3>2. QED
      BY <1>0, <2>2, <2>3, <3>1 DEF Stacked, Live
  <2>6. QED
    BY <1>0, <2>2, <2>4, <2>5 DEF StackInv
<1>2. ASSUME NEW f \in Fiber, Switch(f) PROVE StackInv'
  <2>1. UNCHANGED <<prog, born, ended>> /\ heap' \in Rescheduled(heap)
    BY <1>2 DEF Switch, Sleep, SleepForever
  <2> DEFINE F == (born \ ended) \ {Main}
  <2>2. F \in SUBSET Fiber /\ Stacked = F \cup {l \in {Loop} : heap.stack[Loop] # Nil}
    BY StackedIs
  <2>3. /\ heap' \in Heap
        /\ Owned(heap', F \cup {l \in {Loop} : heap'.stack[Loop] # Nil})
    <3> HIDE DEF F
    <3>1. QED
      BY <1>0, <2>1, <2>2, RescheduledOwned
  <2>4. Stacked' = F \cup {l \in {Loop} : heap'.stack[Loop] # Nil}
    BY <1>0, <2>1 DEF Stacked, Live
  <2>5. QED
    BY <1>0, <2>1, <2>3, <2>4 DEF StackInv
<1>3. ASSUME NEW f \in Fiber, FinishOnStack(f) PROVE StackInv'
  <2>1. /\ f \in born \ ended /\ f # Main /\ f # Loop /\ ended' = ended \cup {f}
        /\ UNCHANGED <<prog, born>>
        /\ heap' \in Rescheduled(Unlinked(Pooled(heap, f), f))
    BY <1>0, <1>3 DEF FinishOnStack, Finish, Active
  <2> DEFINE F == ((born \ ended) \ {Main}) \ {f}
             h == Unlinked(Pooled(heap, f), f)
  <2>2. f \in Stacked
    BY <1>0, <2>1 DEF Stacked, Live
  <2>3. h \in Heap /\ Owned(h, Stacked \ {f}) /\ h.stack = heap.stack
    <3>1. /\ Pooled(heap, f) \in Heap
          /\ Owned(Pooled(heap, f), Stacked \ {f})
          /\ Pooled(heap, f).stack = heap.stack
      BY <1>0, <2>2, StackedIs, PooledOwned
    <3>2. QED
      BY <1>0, <3>1, UnlinkedOwned
  <2> HIDE DEF h
  <2>4. /\ F \in SUBSET Fiber
        /\ Stacked \ {f} = F \cup {l \in {Loop} : h.stack[Loop] # Nil}
    BY <1>0, <2>1, <2>3, StackedIs
  <2>5. heap' \in Rescheduled(h)
    BY <2>1 DEF h
  <2>6. /\ heap' \in Heap
        /\ Owned(heap', F \cup {l \in {Loop} : heap'.stack[Loop] # Nil})
    <3> HIDE DEF F
    <3>1. QED
      BY <2>3, <2>4, <2>5, RescheduledOwned
  <2>7. Stacked' = F \cup {l \in {Loop} : heap'.stack[Loop] # Nil}
    BY <1>0, <2>1 DEF Stacked, Live
  <2>8. QED
    BY <1>0, <2>1, <2>6, <2>7 DEF StackInv
<1>4. ASSUME NEW f \in Fiber, Collect(f) PROVE StackInv'
  <2>1. UNCHANGED <<prog, born, ended>> /\ heap' = Collected(heap)
    BY <1>4 DEF Collect
  <2>2. heap' \in Heap /\ Owned(heap', Stacked) /\ heap'.stack = heap.stack
    BY <1>0, <2>1, StackedIs, CollectedOwned
  <2>3. Stacked' = Stacked
    BY <2>1, <2>2 DEF Stacked, Live
  <2>4. QED
    BY <1>0, <2>1, <2>2, <2>3 DEF StackInv
<1>5. ASSUME UNCHANGED <<prog, born, ended, heap>> PROVE StackInv'
  BY <1>0, <1>5 DEF StackInv, Stacked, Live
<1>6. ASSUME NEW f \in Fiber, SpawnFails(f) \/ Continue(f) PROVE StackInv'
  BY <1>5, <1>6 DEF SpawnFails, Continue, Awake, Jump, Fire
<1>7. CASE Exit /\ UNCHANGED heap
  BY <1>5, <1>7 DEF Exit
<1>8. CASE UNCHANGED stackVars
  BY <1>5, <1>8 DEF stackVars, schedVars
<1>9. QED
  BY <1>1, <1>2, <1>3, <1>4, <1>6, <1>7, <1>8 DEF StackNext

(* Whatever fibers start and end, and whenever the pool is collected, each *)
(* live fiber has a mapped stack of its own, and the pool only stacks that *)
(* no live fiber has (Fiber.allocate_stack, Fiber#run).                    *)
THEOREM StacksOwned == StackSpec => []StackOwned
<1>1. StackInv => StackOwned
  BY DEF StackInv, Owned, InPool, StackOwned
<1>2. QED
  BY StacksInitially, StacksInductive, <1>1, PTL DEF StackSpec

(* Every mapping that Fiber.allocate_stack made is in use, in the pool, or *)
(* has been unmapped by Fiber.stack_pool_collect.                          *)
THEOREM StacksNotLeaked == StackSpec => []NoLeak
<1>1. StackInv => NoLeak
  BY DEF StackInv, Owned, InPool, NoLeak
<1>2. QED
  BY StacksInitially, StacksInductive, <1>1, PTL DEF StackSpec

-----------------------------------------------------------------------------
(* The list of the fibers: q has what first_fiber, last_fiber and the      *)
(* links of heap h say, in order, and L is all that is in it.              *)
Threaded(h, q) ==
  /\ h.first = q[1] /\ h.last = q[Len(q)]
  /\ \A i \in 1 .. Len(q) : h.prev[q[i]] = IF i = 1 THEN Nil ELSE q[i - 1]
  /\ \A i \in 1 .. Len(q) : h.next[q[i]] = IF i = Len(q) THEN Nil ELSE q[i + 1]

Lists(h, q, L) ==
  /\ q \in Seq(Object) /\ q # <<>>
  /\ Threaded(h, q)
  /\ \A i, j \in 1 .. Len(q) : q[i] = q[j] => i = j
  /\ \A i \in 1 .. Len(q) : q[i] \in L
  /\ \A o \in L : \E i \in 1 .. Len(q) : q[i] = o

(* Linking sets no next_fiber of the fiber itself: that of a fiber that    *)
(* was not created yet is Nil.                                             *)
Unborn == (Fiber \ born) \cup {l \in {Loop} : heap.stack[Loop] = Nil}

Linking ==
  /\ \E q \in Seq(Object) : Lists(heap, q, Live)
  /\ \A o \in Unborn : heap.next[o] = Nil

ListInv ==
  /\ StackInv /\ Main \notin ended
  /\ IsFiniteSet(born)
  /\ Linking

(* The links are all that matters.                                         *)
LEMMA SameLinks ==
  ASSUME NEW h, NEW g, NEW q, NEW L, Lists(h, q, L),
         g.first = h.first, g.last = h.last, g.prev = h.prev, g.next = h.next
  PROVE  Lists(g, q, L)
BY DEF Lists, Threaded

LEMMA LinksOfSteps ==
  ASSUME NEW h \in Heap, NEW f \in Object
  PROVE  /\ \A g \in Allocated(h, f) :
              g.first = h.first /\ g.last = h.last /\ g.prev = h.prev /\ g.next = h.next
         /\ LET g == Pooled(h, f) IN
              g.first = h.first /\ g.last = h.last /\ g.prev = h.prev /\ g.next = h.next
         /\ LET g == Collected(h) IN
              g.first = h.first /\ g.last = h.last /\ g.prev = h.prev /\ g.next = h.next
BY DEF Heap, Allocated, Pooled, Collected

LEMMA OtherStacks ==
  ASSUME NEW h \in Heap, NEW f \in Object, NEW g \in Allocated(h, f)
  PROVE  \A o \in Object \ {f} : g.stack[o] = h.stack[o]
BY DEF Heap, Allocated

(* A new fiber goes to the end.                                            *)
LEMMA LinkedLists ==
  ASSUME NEW h \in Heap, NEW q, NEW L \in SUBSET Object, Lists(h, q, L),
         NEW f \in Object \ L, h.next[f] = Nil
  PROVE  /\ \E r \in Seq(Object) : Lists(Linked(h, f), r, L \cup {f})
         /\ \A o \in Object \ L : Linked(h, f).next[o] = h.next[o]
<1> DEFINE n == Len(q)
           g == Linked(h, f)
           r == Append(q, f)
<1>1. /\ q \in Seq(Object) /\ n \in Nat \ {0} /\ h.last = q[n] /\ q[n] \in L /\ q[n] # Nil
  BY StackAssumption DEF Lists, Threaded, StackAssumption, Object
<1>2. /\ g.first = h.first /\ g.last = f
      /\ g.prev = [h.prev EXCEPT ![f] = q[n]]
      /\ g.next = [h.next EXCEPT ![q[n]] = f]
  BY <1>1 DEF Linked, Heap
<1>3. h.prev \in [Object -> Link] /\ h.next \in [Object -> Link]
  BY DEF Heap
<1>4. /\ r \in Seq(Object) /\ Len(r) = n + 1 /\ r[n + 1] = f
      /\ \A i \in 1 .. n : r[i] = q[i]
  BY <1>1
<1> HIDE DEF g, r, n
<1>5. \A i \in 1 .. n : q[i] \in L /\ q[i] # f /\ q[i] \in Object
  BY DEF Lists, n
<1>6. \A i, j \in 1 .. n : q[i] = q[j] => i = j
  BY DEF Lists, n
<1>7. \A i \in 1 .. n + 1 : g.prev[r[i]] = IF i = 1 THEN Nil ELSE r[i - 1]
  <2>1. \A i \in 1 .. n : h.prev[q[i]] = IF i = 1 THEN Nil ELSE q[i - 1]
    BY DEF Lists, Threaded, n
  <2>2. \A i \in 1 .. n : g.prev[q[i]] = h.prev[q[i]]
    BY <1>2, <1>3, <1>5
  <2>3. g.prev[f] = q[n]
    BY <1>2, <1>3
  <2>4. ASSUME NEW i \in 1 .. n PROVE g.prev[r[i]] = IF i = 1 THEN Nil ELSE r[i - 1]
    BY <1>1, <1>4, <2>1, <2>2
  <2>5. g.prev[r[n + 1]] = r[n]
    BY <1>1, <1>4, <2>3
  <2>6. QED
    BY <1>1, <2>4, <2>5
<1>8. \A i \in 1 .. n + 1 : g.next[r[i]] = IF i = n + 1 THEN Nil ELSE r[i + 1]
  <2>1. \A i \in 1 .. n : h.next[q[i]] = IF i = n THEN Nil ELSE q[i + 1]
    BY DEF Lists, Threaded, n
  <2>2. \A i \in 1 .. n : i # n => g.next[q[i]] = h.next[q[i]]
    BY <1>1, <1>2, <1>3, <1>5, <1>6
  <2>3. g.next[q[n]] = f /\ g.next[f] = Nil
    BY <1>1, <1>2, <1>3, <1>5
  <2>4. ASSUME NEW i \in 1 .. n, i # n PROVE g.next[r[i]] = r[i + 1]
    <3>1. i \in 1 .. n /\ i + 1 \in 1 .. n
      BY <1>1, <2>4
    <3>2. g.next[q[i]] = q[i + 1]
      BY <2>1, <2>2, <2>4, <3>1
    <3>3. QED
      BY <1>4, <3>1, <3>2
  <2>5. g.next[r[n]] = r[n + 1] /\ g.next[r[n + 1]] = Nil
    BY <1>1, <1>4, <2>3
  <2>6. QED
    BY <1>1, <2>4, <2>5
<1>9. Threaded(g, r)
  <2>1. g.first = r[1]
    BY <1>1, <1>2, <1>4 DEF Lists, Threaded, n
  <2>2. QED
    BY <1>2, <1>4, <1>7, <1>8, <2>1 DEF Threaded
<1>10. \A i, j \in 1 .. n + 1 : r[i] = r[j] => i = j
  <2>1. \A i \in 1 .. n + 1 : i = n + 1 \/ i \in 1 .. n
    BY <1>1
  <2>2. QED
    BY <1>4, <1>5, <1>6, <2>1
<1>11. /\ \A i \in 1 .. n + 1 : r[i] \in L \cup {f}
       /\ \A o \in L \cup {f} : \E i \in 1 .. n + 1 : r[i] = o
  <2>1. \A i \in 1 .. n + 1 : i = n + 1 \/ i \in 1 .. n
    BY <1>1
  <2>2. \A o \in L : \E i \in 1 .. n : q[i] = o
    BY DEF Lists, n
  <2>3. n + 1 \in 1 .. n + 1 /\ \A i \in 1 .. n : i \in 1 .. n + 1
    BY <1>1
  <2>4. QED
    BY <1>4, <1>5, <2>1, <2>2, <2>3
<1>12. Lists(g, r, L \cup {f})
  <2>1. r # <<>>
    BY <1>1, <1>4
  <2>2. QED
    BY <1>4, <1>9, <1>10, <1>11, <2>1 DEF Lists
<1>13. \A o \in Object \ L : g.next[o] = h.next[o]
  BY <1>1, <1>2, <1>3
<1>14. QED
  BY <1>4, <1>12, <1>13 DEF g

(* A fiber that ends leaves the list, which keeps its order.               *)
LEMMA UnlinkedLists ==
  ASSUME NEW h \in Heap, NEW q, NEW L \in SUBSET Object, Lists(h, q, L),
         NEW f \in L, L # {f}
  PROVE  /\ \E r \in Seq(Object) : Lists(Unlinked(h, f), r, L \ {f})
         /\ \A o \in Object \ L : Unlinked(h, f).next[o] = h.next[o]
<1> DEFINE n == Len(q)
           g == Unlinked(h, f)
<1>1. q \in Seq(Object) /\ n \in Nat
  BY DEF Lists
<1>2. PICK k \in 1 .. n : q[k] = f
  BY DEF Lists
<1> DEFINE r == [i \in 1 .. n - 1 |-> IF i < k THEN q[i] ELSE q[i + 1]]
<1>3. /\ \A i, j \in 1 .. n : q[i] = q[j] => i = j
      /\ \A i \in 1 .. n : q[i] \in L /\ q[i] \in Object /\ q[i] # Nil
  BY StackAssumption DEF Lists, StackAssumption, Object
<1>4. n > 1
  <2>1. PICK o \in L : o # f
    OBVIOUS
  <2>2. PICK i \in 1 .. n : q[i] = o
    BY DEF Lists
  <2>3. QED
    BY <1>1, <1>2, <2>1, <2>2
<1> DEFINE p == IF k = 1 THEN Nil ELSE q[k - 1]
           s == IF k = n THEN Nil ELSE q[k + 1]
<1>5. h.prev[f] = p /\ h.next[f] = s
  BY <1>2 DEF Lists, Threaded
<1>6. /\ k = 1 => p = Nil
      /\ k # 1 => p = q[k - 1] /\ k - 1 \in 1 .. n /\ p # Nil
      /\ k = n => s = Nil
      /\ k # n => s = q[k + 1] /\ k + 1 \in 1 .. n /\ s # Nil
  BY <1>1, <1>3, <1>2
<1> HIDE DEF p, s
<1>7. /\ g.next = IF k = 1 THEN h.next ELSE [h.next EXCEPT ![q[k - 1]] = s]
      /\ g.prev = IF k = n THEN h.prev ELSE [h.prev EXCEPT ![q[k + 1]] = p]
      /\ g.first = IF k = 1 THEN s ELSE h.first
      /\ g.last = IF k = n THEN p ELSE h.last
  BY <1>5, <1>6 DEF Unlinked, Heap
<1>8. h.prev \in [Object -> Link] /\ h.next \in [Object -> Link]
  BY DEF Heap
<1> HIDE DEF g, n
<1>9. /\ \A i \in 1 .. n : h.prev[q[i]] = IF i = 1 THEN Nil ELSE q[i - 1]
      /\ \A i \in 1 .. n : h.next[q[i]] = IF i = n THEN Nil ELSE q[i + 1]
      /\ h.first = q[1] /\ h.last = q[n]
  BY DEF Lists, Threaded, n
<1>10. /\ \A i \in 1 .. n : g.next[q[i]] = IF i = k - 1 THEN s ELSE h.next[q[i]]
       /\ \A i \in 1 .. n : g.prev[q[i]] = IF i = k + 1 THEN p ELSE h.prev[q[i]]
  BY <1>1, <1>2, <1>3, <1>6, <1>7, <1>8
<1>11. /\ r \in Seq(Object) /\ Len(r) = n - 1 /\ r # <<>>
       /\ \A i \in 1 .. n - 1 : r[i] = IF i < k THEN q[i] ELSE q[i + 1]
  <2>1. \A i \in 1 .. n - 1 : (IF i < k THEN q[i] ELSE q[i + 1]) \in Object
    BY <1>1, <1>2, <1>3
  <2>2. r \in [1 .. n - 1 -> Object] /\ n - 1 \in Nat
    BY <1>1, <1>4, <2>1
  <2>3. r \in Seq(Object) /\ Len(r) = n - 1
    BY <2>2
  <2>4. r # <<>>
    BY <1>1, <1>4, <2>3
  <2>5. QED
    BY <2>3, <2>4
<1> HIDE DEF r
<1>12. \A i \in 1 .. n - 1 : g.prev[r[i]] = IF i = 1 THEN Nil ELSE r[i - 1]
  <2>1. ASSUME NEW i \in 1 .. n - 1, i < k PROVE g.prev[r[i]] = IF i = 1 THEN Nil ELSE r[i - 1]
    <3>1. i \in 1 .. n /\ i # k + 1 /\ r[i] = q[i] /\ (i # 1 => i - 1 \in 1 .. n - 1 /\ r[i - 1] = q[i - 1])
      BY <1>1, <1>2, <1>11, <2>1
    <3>2. QED
      BY <1>9, <1>10, <3>1
  <2>2. ASSUME NEW i \in 1 .. n - 1, i > k PROVE g.prev[r[i]] = IF i = 1 THEN Nil ELSE r[i - 1]
    <3>1. i + 1 \in 1 .. n /\ i + 1 # k + 1 /\ i # 1 /\ i - 1 \in 1 .. n - 1 /\ ~(i < k) /\ ~(i - 1 < k) /\ i - 1 + 1 = i /\ i + 1 # 1 /\ i + 1 - 1 = i
      BY <1>1, <1>2, <2>2
    <3>2. r[i] = q[i + 1] /\ r[i - 1] = q[i]
      BY <1>11, <3>1
    <3>3. QED
      BY <1>9, <1>10, <3>1, <3>2
  <2>3. ASSUME NEW i \in 1 .. n - 1, i = k PROVE g.prev[r[i]] = IF i = 1 THEN Nil ELSE r[i - 1]
    <3>1. k + 1 \in 1 .. n /\ ~(i < k) /\ (k # 1 => k - 1 \in 1 .. n - 1 /\ k - 1 < k)
      BY <1>1, <1>2, <2>3
    <3>2. r[i] = q[k + 1] /\ (k # 1 => r[k - 1] = q[k - 1])
      BY <1>11, <2>3, <3>1
    <3>3. QED
      BY <1>6, <1>10, <2>3, <3>1, <3>2
  <2>4. QED
    BY <1>1, <2>1, <2>2, <2>3
<1>13. \A i \in 1 .. n - 1 : g.next[r[i]] = IF i = n - 1 THEN Nil ELSE r[i + 1]
  <2>1. ASSUME NEW i \in 1 .. n - 1, i < k - 1 PROVE g.next[r[i]] = IF i = n - 1 THEN Nil ELSE r[i + 1]
    <3>1. i \in 1 .. n /\ i # k - 1 /\ i # n /\ i # n - 1 /\ i + 1 \in 1 .. n - 1 /\ i < k /\ i + 1 < k
      BY <1>1, <1>2, <2>1
    <3>2. r[i] = q[i] /\ r[i + 1] = q[i + 1]
      BY <1>11, <3>1
    <3>3. QED
      BY <1>9, <1>10, <3>1, <3>2
  <2>2. ASSUME NEW i \in 1 .. n - 1, i >= k PROVE g.next[r[i]] = IF i = n - 1 THEN Nil ELSE r[i + 1]
    <3>1. i + 1 \in 1 .. n /\ i + 1 # k - 1 /\ ~(i < k) /\ (i # n - 1 => i + 1 \in 1 .. n - 1 /\ ~(i + 1 < k) /\ i + 1 # n)
          /\ (i = n - 1 => i + 1 = n)
      BY <1>1, <1>2, <2>2
    <3>2. r[i] = q[i + 1] /\ (i # n - 1 => r[i + 1] = q[i + 1 + 1])
      BY <1>11, <3>1
    <3>3. QED
      BY <1>9, <1>10, <3>1, <3>2
  <2>3. ASSUME NEW i \in 1 .. n - 1, i = k - 1 PROVE g.next[r[i]] = IF i = n - 1 THEN Nil ELSE r[i + 1]
    <3>1. i \in 1 .. n /\ i < k /\ i + 1 = k /\ ~(k < k) /\ (k = n <=> i = n - 1) /\ (k # n => k \in 1 .. n - 1)
      BY <1>1, <1>2, <2>3
    <3>2. r[i] = q[i] /\ (k # n => r[k] = q[k + 1])
      BY <1>11, <3>1
    <3>3. QED
      BY <1>6, <1>10, <2>3, <3>1, <3>2
  <2>4. QED
    BY <1>1, <1>2, <2>1, <2>2, <2>3
<1>14. Threaded(g, r)
  <2>1. g.first = r[1]
    <3>1. 1 \in 1 .. n - 1 /\ (1 < k <=> k # 1)
      BY <1>1, <1>2, <1>4
    <3>2. r[1] = IF k = 1 THEN q[1 + 1] ELSE q[1]
      BY <1>11, <3>1
    <3>3. QED
      BY <1>1, <1>4, <1>6, <1>7, <1>9, <3>2
  <2>2. g.last = r[n - 1]
    <3>1. n - 1 \in 1 .. n - 1 /\ (n - 1 < k <=> k = n) /\ n - 1 + 1 = n
      BY <1>1, <1>2, <1>4
    <3>2. r[n - 1] = IF k = n THEN q[n - 1] ELSE q[n]
      BY <1>11, <3>1
    <3>3. QED
      BY <1>1, <1>4, <1>6, <1>7, <1>9, <3>2
  <2>3. QED
    BY <1>11, <1>12, <1>13, <2>1, <2>2 DEF Threaded
<1>15. /\ \A i, j \in 1 .. n - 1 : r[i] = r[j] => i = j
       /\ \A i \in 1 .. n - 1 : r[i] \in L \ {f}
       /\ \A o \in L \ {f} : \E i \in 1 .. n - 1 : r[i] = o
  <2>1. ASSUME NEW i \in 1 .. n - 1
        PROVE  \E m \in 1 .. n : r[i] = q[m] /\ m # k /\ m = IF i < k THEN i ELSE i + 1
    BY <1>1, <1>2, <1>11
  <2>2. \A i, j \in 1 .. n - 1 : r[i] = r[j] => i = j
    BY <1>1, <1>2, <1>3, <2>1
  <2>3. \A i \in 1 .. n - 1 : r[i] \in L \ {f}
    BY <1>2, <1>3, <2>1
  <2>4. ASSUME NEW o \in L \ {f} PROVE \E i \in 1 .. n - 1 : r[i] = o
    <3>1. PICK m \in 1 .. n : q[m] = o /\ m # k
      BY <1>2 DEF Lists, n
    <3>2. CASE m < k
      BY <1>1, <1>2, <1>11, <3>1, <3>2
    <3>3. CASE m > k
      <4>1. m - 1 \in 1 .. n - 1 /\ ~(m - 1 < k) /\ m - 1 + 1 = m
        BY <1>1, <1>2, <3>3
      <4>2. QED
        BY <1>11, <3>1, <4>1
    <3>4. QED
      BY <1>1, <3>1, <3>2, <3>3
  <2>5. QED
    BY <2>2, <2>3, <2>4
<1>16. Lists(g, r, L \ {f})
  BY <1>11, <1>14, <1>15 DEF Lists
<1>17. \A o \in Object \ L : g.next[o] = h.next[o]
  BY <1>3, <1>6, <1>7, <1>8
<1>18. QED
  BY <1>11, <1>16, <1>17 DEF g

-----------------------------------------------------------------------------
LEMMA ListInitially == StackInit => ListInv
<1> SUFFICES ASSUME StackInit PROVE ListInv
  OBVIOUS
<1>1. StackInv /\ born = {Main} /\ ended = {} /\ Main \in Object
  BY StacksInitially, SchedulerAssumption DEF StackInit, SchedInit, Object, SchedulerAssumption
<1>2. IsFiniteSet(born)
  BY <1>1, FS_Singleton
<1>3. Live = {Main}
  BY <1>1 DEF StackInit, Live, Object
<1>4. Lists(heap, <<Main>>, Live)
  BY <1>1, <1>3 DEF StackInit, Lists, Threaded
<1>5. \A o \in Unborn : heap.next[o] = Nil
  BY DEF Unborn, StackInit, Object
<1>6. <<Main>> \in Seq(Object)
  BY <1>1
<1>7. QED
  BY <1>1, <1>2, <1>4, <1>5, <1>6 DEF ListInv, Linking

(* The loop fiber joins the list in the step that creates it.              *)
LEMMA RescheduledLists ==
  ASSUME NEW h \in Heap, NEW F \in SUBSET Fiber, NEW q \in Seq(Object), NEW U \in SUBSET (Fiber \ F),
         Lists(h, q, F \cup {l \in {Loop} : h.stack[Loop] # Nil}),
         Owned(h, (F \ {Main}) \cup {l \in {Loop} : h.stack[Loop] # Nil}),
         \A o \in U \cup {l \in {Loop} : h.stack[Loop] = Nil} : h.next[o] = Nil,
         NEW g \in Rescheduled(h)
  PROVE  /\ \E r \in Seq(Object) : Lists(g, r, F \cup {l \in {Loop} : g.stack[Loop] # Nil})
         /\ \A o \in U \cup {l \in {Loop} : g.stack[Loop] = Nil} : g.next[o] = Nil
<1>0. Loop \notin Fiber /\ Loop \in Object /\ F \in SUBSET Object /\ U \in SUBSET Object /\ Nil \notin Stack
  BY SchedulerAssumption, StackAssumption DEF Object, SchedulerAssumption, StackAssumption
<1>1. CASE current' = Loop /\ h.stack[Loop] = Nil
  <2>1. g \in Created(h, Loop) /\ {l \in {Loop} : h.stack[Loop] # Nil} = {}
    BY <1>1 DEF Rescheduled
  <2>2. PICK k \in Allocated(h, Loop) : g = Linked(k, Loop)
    BY <2>1 DEF Created
  <2>3. Lists(h, q, F) /\ Owned(h, F \ {Main}) /\ h.next[Loop] = Nil
    BY <1>1, <2>1
  <2>4. k \in Heap /\ k.stack[Loop] \in Stack
    BY <1>0, <2>2, <2>3, AllocatedOwned
  <2>5. k.first = h.first /\ k.last = h.last /\ k.prev = h.prev /\ k.next = h.next
    BY <1>0, <2>2, LinksOfSteps
  <2>6. Lists(k, q, F)
    BY <2>3, <2>5, SameLinks
  <2>7. /\ \E r \in Seq(Object) : Lists(g, r, F \cup {Loop})
        /\ \A o \in Object \ F : g.next[o] = k.next[o]
    <3>1. Loop \in Object \ F /\ F \in SUBSET Object /\ k.next[Loop] = Nil
      BY <1>0, <2>3, <2>5
    <3>2. \E r \in Seq(Object) : Lists(Linked(k, Loop), r, F \cup {Loop})
      BY <2>4, <2>6, <3>1, LinkedLists
    <3>3. \A o \in Object \ F : Linked(k, Loop).next[o] = k.next[o]
      BY <2>4, <2>6, <3>1, LinkedLists
    <3>4. QED
      BY <2>2, <3>2, <3>3
  <2>8. g.stack[Loop] # Nil
    <3>1. Owned(k, (F \ {Main}) \cup {Loop})
      BY <1>0, <2>2, <2>3, AllocatedOwned
    <3>2. g.stack = k.stack
      BY <1>0, <2>2, <2>4, <3>1, LinkedOwned
    <3>3. QED
      BY <1>0, <2>4, <3>2
  <2>9. F \cup {l \in {Loop} : g.stack[Loop] # Nil} = F \cup {Loop}
    BY <2>8
  <2>10. \A o \in U \cup {l \in {Loop} : g.stack[Loop] = Nil} : o \in U /\ o \in Object \ F
    BY <1>0, <2>8
  <2>11. QED
    BY <2>5, <2>7, <2>9, <2>10
<1>2. CASE ~(current' = Loop /\ h.stack[Loop] = Nil)
  BY <1>2 DEF Rescheduled
<1>3. QED
  BY <1>1, <1>2

LEMMA ListInductive == ListInv /\ [StackNext]_stackVars => ListInv'
<1> SUFFICES ASSUME ListInv, [StackNext]_stackVars PROVE ListInv'
  OBVIOUS
<1> USE SchedulerAssumption
<1>0. /\ StackInv /\ StackInv' /\ Main \notin ended /\ IsFiniteSet(born)
      /\ born \subseteq Fiber /\ ended \subseteq born /\ Main \in born
      /\ heap \in Heap /\ Owned(heap, Stacked)
      /\ Loop \notin Fiber /\ Loop \in Object /\ Fiber \subseteq Object
  BY StacksInductive DEF ListInv, StackInv, SchedulerAssumption, Object
<1> DEFINE F == born \ ended
<1>a. PICK q \in Seq(Object) : Lists(heap, q, Live)
  BY DEF ListInv, Linking
<1>b. \A o \in Unborn : heap.next[o] = Nil
  BY DEF ListInv, Linking
<1>c. /\ Live = F \cup {l \in {Loop} : heap.stack[Loop] # Nil}
      /\ Stacked = (F \ {Main}) \cup {l \in {Loop} : heap.stack[Loop] # Nil}
      /\ Live \in SUBSET Object /\ F \in SUBSET Fiber
      /\ Unborn = (Fiber \ born) \cup {l \in {Loop} : heap.stack[Loop] = Nil}
  BY <1>0 DEF Live, Stacked, Unborn
<1>1. ASSUME NEW f \in Fiber, SpawnOnStack(f) PROVE ListInv'
  <2>1. PICK g \in Fiber : g = ThisCall(f).fiber
    <3>1. ThisCall(f) \in Call /\ ThisCall(f).op = "spawn"
      BY <1>0, <1>1 DEF SpawnOnStack, Spawn, Calls, ThisCall, StackInv
    <3>2. QED
      BY <3>1 DEF SchedulerAssumption
  <2>2. /\ g \notin born /\ born' = born \cup {g} /\ ended' = ended
        /\ heap' \in Created(heap, g)
    BY <1>1, <2>1 DEF SpawnOnStack, Spawn
  <2>3. g \in Object \ Live /\ g # Loop /\ g \notin ended /\ g \in Unborn
    BY <1>0, <2>2 DEF Live, Unborn
  <2>4. PICK k \in Allocated(heap, g) : heap' = Linked(k, g)
    BY <2>2 DEF Created
  <2>5. g \in Object \ Stacked /\ Stacked \in SUBSET Object
    BY <2>3, StackedIs, <1>0 DEF Stacked
  <2>6. /\ k \in Heap /\ Owned(k, Stacked \cup {g})
        /\ \A o \in Object \ {g} : k.stack[o] = heap.stack[o]
    <3>1. PICK L \in SUBSET Object : L = Stacked
      BY <2>5
    <3>2. PICK h \in Heap : h = heap
      BY <1>0
    <3>3. PICK m \in Allocated(h, g) : m = k
      BY <2>4, <3>2
    <3>4. g \in Object \ L /\ Owned(h, L)
      BY <1>0, <2>5, <3>1, <3>2
    <3>5. m \in Heap
      BY <3>4, AllocatedOwned
    <3>6. Owned(m, L \cup {g})
      BY <3>4, AllocatedOwned
    <3>7. \A o \in Object \ {g} : m.stack[o] = h.stack[o]
      BY <3>4, OtherStacks
    <3>8. QED
      BY <3>1, <3>2, <3>3, <3>5, <3>6, <3>7
  <2>7. k.first = heap.first /\ k.last = heap.last /\ k.prev = heap.prev /\ k.next = heap.next
    BY <1>0, <2>4, LinksOfSteps
  <2>8. Lists(k, q, Live) /\ k.next[g] = Nil
    BY <1>a, <1>b, <2>3, <2>7, SameLinks
  <2>9. /\ \E r \in Seq(Object) : Lists(heap', r, Live \cup {g})
        /\ \A o \in Object \ Live : heap'.next[o] = k.next[o]
    <3>1. PICK L \in SUBSET Object : L = Live
      BY <1>c
    <3>2. Lists(k, q, L) /\ g \in Object \ L /\ k \in Heap /\ k.next[g] = Nil
      BY <2>3, <2>6, <2>8, <3>1
    <3>3. \E r \in Seq(Object) : Lists(Linked(k, g), r, L \cup {g})
      BY <3>2, LinkedLists
    <3>4. \A o \in Object \ L : Linked(k, g).next[o] = k.next[o]
      BY <3>2, LinkedLists
    <3>5. QED
      BY <2>4, <3>1, <3>3, <3>4
  <2>10. heap'.stack[Loop] = heap.stack[Loop]
    BY <1>0, <2>3, <2>4, <2>6, LinkedOwned
  <2>11. Live' = Live \cup {g}
    BY <2>2, <2>3, <2>10 DEF Live
  <2>12. \A o \in Unborn' : o \in Unborn /\ o \in Object \ Live
    BY <1>0, <2>2, <2>10 DEF Unborn, Live
  <2>13. IsFiniteSet(born')
    BY <1>0, <2>2, FS_AddElement
  <2>14. QED
    BY <1>0, <1>b, <2>2, <2>7, <2>9, <2>11, <2>12, <2>13 DEF ListInv, Linking
<1>2. ASSUME NEW f \in Fiber, Switch(f) PROVE ListInv'
  <2>1. UNCHANGED <<born, ended>> /\ heap' \in Rescheduled(heap)
    BY <1>2 DEF Switch, Sleep, SleepForever
  <2>2. Fiber \ born \in SUBSET (Fiber \ F)
    OBVIOUS
  <2> HIDE DEF F
  <2>3. /\ \E r \in Seq(Object) : Lists(heap', r, F \cup {l \in {Loop} : heap'.stack[Loop] # Nil})
        /\ \A o \in (Fiber \ born) \cup {l \in {Loop} : heap'.stack[Loop] = Nil} : heap'.next[o] = Nil
    BY <1>0, <1>a, <1>b, <1>c, <2>1, <2>2, RescheduledLists
  <2>4. /\ Live' = F \cup {l \in {Loop} : heap'.stack[Loop] # Nil}
        /\ Unborn' = (Fiber \ born) \cup {l \in {Loop} : heap'.stack[Loop] = Nil}
    BY <2>1 DEF Live, Unborn, F
  <2>5. QED
    BY <1>0, <2>1, <2>3, <2>4 DEF ListInv, Linking
<1>3. ASSUME NEW f \in Fiber, FinishOnStack(f) PROVE ListInv'
  <2>1. /\ f \in F /\ f # Main /\ f # Loop /\ ended' = ended \cup {f} /\ born' = born
        /\ heap' \in Rescheduled(Unlinked(Pooled(heap, f), f))
    BY <1>0, <1>3 DEF FinishOnStack, Finish, Active
  <2> DEFINE k == Pooled(heap, f)
             h == Unlinked(k, f)
             G == F \ {f}
  <2>2. f \in Stacked /\ f \in Live /\ Live # {f} /\ f \in Object
    BY <1>0, <1>c, <2>1
  <2>3. k \in Heap /\ Owned(k, Stacked \ {f}) /\ k.stack = heap.stack
    BY <1>0, <2>2, StackedIs, PooledOwned
  <2>4. k.first = heap.first /\ k.last = heap.last /\ k.prev = heap.prev /\ k.next = heap.next
    BY <1>0, <2>2, LinksOfSteps
  <2> HIDE DEF k
  <2>5. h \in Heap /\ Owned(h, Stacked \ {f}) /\ h.stack = heap.stack
    BY <2>2, <2>3, UnlinkedOwned
  <2>6. Lists(k, q, Live)
    BY <1>a, <2>4, SameLinks
  <2>7. /\ \E r \in Seq(Object) : Lists(h, r, Live \ {f})
        /\ \A o \in Object \ Live : h.next[o] = k.next[o]
    BY <1>c, <2>2, <2>3, <2>6, UnlinkedLists
  <2>8. h = Unlinked(Pooled(heap, f), f)
    BY DEF k
  <2> HIDE DEF h
  <2>9. PICK r \in Seq(Object) : Lists(h, r, Live \ {f})
    BY <2>7
  <2>10. /\ Live \ {f} = G \cup {l \in {Loop} : h.stack[Loop] # Nil}
         /\ Stacked \ {f} = (G \ {Main}) \cup {l \in {Loop} : h.stack[Loop] # Nil}
    BY <1>c, <2>1, <2>5
  <2>11. \A o \in (Fiber \ born) \cup {l \in {Loop} : h.stack[Loop] = Nil} : h.next[o] = Nil
    <3>1. \A o \in Unborn : o \in Object \ Live
      BY <1>0 DEF Unborn, Live
    <3>2. QED
      BY <1>b, <1>c, <2>4, <2>5, <2>7, <3>1
  <2>12. G \in SUBSET Fiber /\ Fiber \ born \in SUBSET (Fiber \ G) /\ G = born' \ ended'
    BY <1>c, <2>1
  <2> HIDE DEF G, F
  <2>13. /\ \E t \in Seq(Object) : Lists(heap', t, G \cup {l \in {Loop} : heap'.stack[Loop] # Nil})
         /\ \A o \in (Fiber \ born) \cup {l \in {Loop} : heap'.stack[Loop] = Nil} : heap'.next[o] = Nil
    <3>1. /\ Lists(h, r, G \cup {l \in {Loop} : h.stack[Loop] # Nil})
          /\ Owned(h, (G \ {Main}) \cup {l \in {Loop} : h.stack[Loop] # Nil})
      BY <2>5, <2>9, <2>10
    <3>2. heap' \in Rescheduled(h)
      BY <2>1, <2>8
    <3>3. PICK U \in SUBSET (Fiber \ G) : U = Fiber \ born
      BY <2>12
    <3>4. \A o \in U \cup {l \in {Loop} : h.stack[Loop] = Nil} : h.next[o] = Nil
      BY <2>11, <3>3
    <3>5. PICK H \in Heap : H = h
      BY <2>5
    <3>6. PICK K \in Rescheduled(H) : K = heap'
      BY <3>2, <3>5
    <3>7. PICK E \in SUBSET Fiber : E = G
      BY <2>12
    <3>8. /\ Lists(H, r, E \cup {l \in {Loop} : H.stack[Loop] # Nil})
          /\ Owned(H, (E \ {Main}) \cup {l \in {Loop} : H.stack[Loop] # Nil})
          /\ \A o \in U \cup {l \in {Loop} : H.stack[Loop] = Nil} : H.next[o] = Nil
          /\ U \in SUBSET (Fiber \ E)
      BY <3>1, <3>3, <3>4, <3>5, <3>7
    <3>9. /\ \E t \in Seq(Object) : Lists(K, t, E \cup {l \in {Loop} : K.stack[Loop] # Nil})
          /\ \A o \in U \cup {l \in {Loop} : K.stack[Loop] = Nil} : K.next[o] = Nil
      BY <3>8, RescheduledLists
    <3>10. QED
      BY <3>3, <3>6, <3>7, <3>9
  <2>14. /\ Live' = G \cup {l \in {Loop} : heap'.stack[Loop] # Nil}
         /\ Unborn' = (Fiber \ born) \cup {l \in {Loop} : heap'.stack[Loop] = Nil}
    BY <2>1, <2>12 DEF Live, Unborn
  <2>15. QED
    BY <1>0, <2>1, <2>13, <2>14 DEF ListInv, Linking
<1>4. ASSUME NEW f \in Fiber, Collect(f) PROVE ListInv'
  <2>1. UNCHANGED <<born, ended>> /\ heap' = Collected(heap)
    BY <1>4 DEF Collect
  <2>2. /\ heap'.first = heap.first /\ heap'.last = heap.last
        /\ heap'.prev = heap.prev /\ heap'.next = heap.next
    BY <1>0, <2>1, LinksOfSteps
  <2>3. heap'.stack = heap.stack
    BY <1>0, <2>1, StackedIs, CollectedOwned
  <2>4. Live' = Live /\ Unborn' = Unborn
    BY <2>1, <2>3 DEF Live, Unborn
  <2>5. Lists(heap', q, Live)
    BY <1>a, <2>2, SameLinks
  <2>6. QED
    BY <1>0, <1>b, <2>1, <2>2, <2>4, <2>5 DEF ListInv, Linking
<1>5. ASSUME UNCHANGED <<prog, born, ended, heap>> PROVE ListInv'
  BY <1>0, <1>5 DEF ListInv, Linking, Live, Unborn, StackInv
<1>6. ASSUME NEW f \in Fiber, SpawnFails(f) \/ Continue(f) PROVE ListInv'
  BY <1>5, <1>6 DEF SpawnFails, Continue, Awake, Jump, Fire
<1>7. CASE Exit /\ UNCHANGED heap
  BY <1>5, <1>7 DEF Exit
<1>8. CASE UNCHANGED stackVars
  BY <1>5, <1>8 DEF stackVars, schedVars
<1>9. QED
  BY <1>1, <1>2, <1>3, <1>4, <1>6, <1>7, <1>8 DEF StackNext

-----------------------------------------------------------------------------
(* A set of numbers has a least one.                                       *)
LEMMA Least ==
  ASSUME NEW T \in SUBSET Nat, T # {}
  PROVE  \E m \in T : \A k \in T : m <= k
<1> DEFINE R == OpToRel(<, Nat)
<1>1. \A x, y \in Nat : x < y => <<x, y>> \in R
  BY Zenon DEF OpToRel
<1>2. IsWellFoundedOn(R, Nat)
  BY NatLessThanWellFounded, Zenon
<1> HIDE DEF R
<1>3. PICK m \in T : \A y \in T : ~ (<<y, m>> \in R)
  <2>1. \E x \in T : \A y \in T : ~ (<<y, x>> \in R)
    BY <1>2, WFMin
  <2>2. QED
    BY <2>1
<1>4. \A y \in T : ~(y < m)
  BY <1>1, <1>3, Zenon
<1>5. QED
  BY <1>4

(* The collector, going along next_fiber, comes to what the list holds in  *)
(* its order.                                                              *)
LEMMA WalkIs ==
  ASSUME NEW q, Lists(heap, q, Live)
  PROVE  /\ DOMAIN Walk = 1 .. Len(q) + 1
         /\ \A n \in 1 .. Len(q) : Walk[n] = q[n]
         /\ Walk[Len(q) + 1] = Nil
<1> DEFINE N == Len(q)
           Step(w, n) == IF n = 1 THEN heap.first
                         ELSE IF w[n - 1] = Nil THEN Nil ELSE heap.next[w[n - 1]]
           s == [n \in 1 .. N + 1 |-> IF n <= N THEN q[n] ELSE Nil]
<1>1. q \in Seq(Object) /\ N \in Nat \ {0} /\ \A i \in 1 .. N : q[i] # Nil
  BY StackAssumption DEF Lists, StackAssumption, Object
<1>2. Cardinality(Live) = N
  <2>1. q \in Bijection(1 .. N, Live)
    BY <1>1 DEF Lists, Bijection, Injection, Surjection, IsInjective
  <2>2. QED
    BY <1>1, <2>1, FS_CountingElements DEF ExistsBijection
<1>3. s = [n \in 1 .. N + 1 |-> Step(s, n)]
  <2>1. ASSUME NEW n \in 1 .. N + 1 PROVE s[n] = Step(s, n)
    <3>1. CASE n = 1
      BY <1>1, <3>1 DEF Lists, Threaded
    <3>2. CASE n # 1
      <4>1. n - 1 \in 1 .. N /\ n - 1 \in 1 .. N + 1 /\ n - 1 <= N /\ (n - 1 = N <=> ~(n <= N)) /\ n - 1 + 1 = n
        BY <1>1, <3>2
      <4>2. s[n - 1] = q[n - 1] /\ q[n - 1] # Nil
        BY <1>1, <4>1
      <4>3. heap.next[q[n - 1]] = IF n - 1 = N THEN Nil ELSE q[n]
        BY <4>1 DEF Lists, Threaded
      <4>4. QED
        BY <3>2, <4>1, <4>2, <4>3
    <3>3. QED
      BY <3>1, <3>2
  <2> HIDE DEF Step
  <2>2. QED
    BY <2>1
<1>4. Walk = [n \in 1 .. N + 1 |-> Step(Walk, n)]
  <2>1. Walk = CHOOSE w : w = [n \in 1 .. N + 1 |-> Step(w, n)]
    BY <1>2 DEF Walk
  <2> HIDE DEF Step, s
  <2>2. QED
    BY <1>3, <2>1
<1>5. \A n \in 1 .. N + 1 : Walk[n] = s[n]
  <2> DEFINE T == {n \in 1 .. N + 1 : Walk[n] # s[n]}
  <2>1. SUFFICES ASSUME T # {} PROVE FALSE
    OBVIOUS
  <2>2. PICK n \in T : \A k \in T : n <= k
    <3>1. T \in SUBSET Nat
      BY <1>1
    <3>2. QED
      BY <2>1, <3>1, Least
  <2> HIDE DEF s
  <2>3. n \in 1 .. N + 1 /\ Walk[n] = Step(Walk, n) /\ s[n] = Step(s, n)
    <3> HIDE DEF Step
    <3>1. QED
      BY <1>3, <1>4, <2>2
  <2>4. n # 1 => Walk[n - 1] = s[n - 1]
    BY <1>1, <2>2
  <2>5. QED
    BY <2>2, <2>3, <2>4
<1>6. QED
  BY <1>1, <1>4, <1>5

(* The collector finds every live fiber, each once, whatever fibers start  *)
(* and end in whatever order (Fiber#initialize, Fiber#run).                *)
THEOREM FibersFound == StackSpec => []RootsFound
<1>1. ListInv => RootsFound
  <2> SUFFICES ASSUME ListInv PROVE RootsFound
    OBVIOUS
  <2>1. PICK q \in Seq(Object) : Lists(heap, q, Live)
    BY DEF ListInv, Linking
  <2> DEFINE N == Len(q)
  <2>2. N \in Nat \ {0} /\ \A i \in 1 .. N : q[i] # Nil
    BY <2>1, StackAssumption DEF Lists, StackAssumption, Object
  <2>3. DOMAIN Walk = 1 .. N + 1 /\ (\A n \in 1 .. N : Walk[n] = q[n]) /\ Walk[N + 1] = Nil
    BY <2>1, WalkIs
  <2> HIDE DEF N
  <2>4. {n \in DOMAIN Walk : Walk[n] # Nil} = 1 .. N
    BY <2>2, <2>3
  <2>5. Cardinality(1 .. N) = N
    BY <2>2, FS_Interval
  <2>6. {Walk[n] : n \in 1 .. N} = Live
    BY <2>1, <2>3 DEF Lists, N
  <2>7. \A n \in 1 .. N : heap.prev[Walk[n]] = IF n = 1 THEN Nil ELSE Walk[n - 1]
    <3>1. \A n \in 1 .. N : n = 1 \/ n - 1 \in 1 .. N
      BY <2>2
    <3>2. QED
      BY <2>1, <2>3, <3>1 DEF Lists, Threaded, N
  <2>8. heap.last = Walk[N]
    BY <2>1, <2>2, <2>3 DEF Lists, Threaded, N
  <2>9. \A m, n \in 1 .. N : Walk[m] = Walk[n] => m = n
    BY <2>1, <2>3 DEF Lists, N
  <2>10. QED
    BY <2>4, <2>5, <2>6, <2>7, <2>8, <2>9 DEF RootsFound
<1>2. QED
  BY ListInitially, ListInductive, <1>1, PTL DEF StackSpec
=============================================================================
