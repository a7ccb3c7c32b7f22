----------------------------- MODULE MCScheduler -----------------------------
(***************************************************************************)
(* Scheduler on every choice of short programs for a few fibers.           *)
(***************************************************************************)
EXTENDS Scheduler

CONSTANTS main, f1, f2, f3, loop

MCFiber == {main, f1, f2, f3}

sleep   == [op |-> "sleep"]
forever == [op |-> "sleep forever"]
spawn(f) == [op |-> "spawn", fiber |-> f]
again(i) == [op |-> "goto", to |-> i]

MCCall == {sleep, forever} \cup {spawn(f) : f \in MCFiber}
                           \cup {again(i) : i \in 1 .. 3}

(* The main program starts two fibers and ends, waits, or waits forever;   *)
(* one of them starts the third.                                           *)
MainTexts ==
  { <<spawn(f1), spawn(f2)>> \o rest :
      rest \in {<<>>, <<sleep>>, <<sleep, sleep, forever>>,
                <<sleep, again(3)>>} }

Texts == { <<>>, <<sleep>>, <<sleep, sleep>>, <<forever>>,
           <<sleep, again(1)>> }

MCPrograms ==
  { [f \in MCFiber |->
       CASE f = main -> m
         [] f = f1   -> <<spawn(f3)>> \o a
         [] f = f2   -> b
         [] f = f3   -> c] : m \in MainTexts, a \in {<<>>, <<sleep>>},
                             b \in Texts, c \in Texts }
=============================================================================
