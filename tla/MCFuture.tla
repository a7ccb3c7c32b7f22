------------------------------ MODULE MCFuture ------------------------------
(***************************************************************************)
(* Four futures that the main fiber makes and two others get and cancel:   *)
(* p runs at once, d after a delay, z is lazy, n is p with a nilable type. *)
(***************************************************************************)
EXTENDS Future

CONSTANTS main, f1, f2, f3, worker, loop, p, d, n, z

MCFiber == {main, f1, f2, f3, worker}
MCCapacity == [u \in {} |-> 0]

sleep   == [op |-> "sleep"]
forever == [op |-> "sleep forever"]
spawn(f) == [op |-> "spawn", fiber |-> f]
On(op, u) == [op |-> op, future |-> u]
make(u) == [op |-> "future", future |-> u, fiber |-> worker]

MCCall == {sleep, forever} \cup {spawn(f) : f \in {f1, f2, f3}}
  \cup {make(u) : u \in Futures}
  \cup {On(op, u) : op \in {"get", "cancel", "compute"}, u \in Futures}

Texts(u) ==
  { <<On("get", u)>>, <<On("cancel", u)>>, <<sleep, On("get", u)>>,
    <<On("get", u), On("get", u)>>, <<On("cancel", u), On("get", u)>>,
    <<sleep, On("cancel", u), sleep, On("get", u)>> }

(* The main fiber waits forever, gets the answer and ends the process, or  *)
(* cancels.                                                                *)
MCPrograms ==
  UNION { { [f \in MCFiber |->
               CASE f = main -> <<make(u), spawn(f1), spawn(f2), spawn(f3)>> \o m
                 [] f = worker -> IF u \in Lazy THEN <<>> ELSE <<On("compute", u)>>
                 [] f = f1 -> x [] f = f2 -> y [] f = f3 -> w] :
              m \in {<<forever>>, <<On("get", u)>>, <<On("cancel", u), forever>>},
              x \in Texts(u), y \in Texts(u),
              w \in {<<On("get", u)>>, <<sleep, On("cancel", u)>>} } :
          u \in Futures }
=============================================================================
