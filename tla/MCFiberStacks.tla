---------------------------- MODULE MCFiberStacks ----------------------------
(***************************************************************************)
(* Fibers that start and end in many orders, and the background fiber that *)
(* collects the pool.                                                      *)
(***************************************************************************)
EXTENDS FiberStacks

CONSTANTS main, gc, f1, f2, f3, f4, loop

MCFiber == {main, gc, f1, f2, f3, f4}

sleep    == [op |-> "sleep"]
forever  == [op |-> "sleep forever"]
collect  == [op |-> "collect"]
spawn(f) == [op |-> "spawn", fiber |-> f]
again(i) == [op |-> "goto", to |-> i]

MCCall == {sleep, forever, collect, again(1), again(2)} \cup {spawn(f) : f \in MCFiber}

MainTexts ==
  { <<spawn(gc), spawn(f1), spawn(f2), sleep, spawn(f3), sleep>>,
    <<spawn(f1), sleep, spawn(gc), spawn(f2), spawn(f3), forever>> }

MCPrograms ==
  { [f \in MCFiber |->
       CASE f = main -> m
         [] f = gc -> <<sleep, collect, again(1)>>
         [] f = f1 -> x [] f = f2 -> y [] OTHER -> <<>>] :
      m \in MainTexts, x \in {<<sleep, spawn(f4)>>},
      y \in {<<>>, <<sleep, spawn(f3), sleep, spawn(f4)>>} }
=============================================================================
