------------------------------- MODULE MCSelect -------------------------------
(***************************************************************************)
(* Channel with select, on two buffered channels and an unbuffered one.    *)
(***************************************************************************)
EXTENDS Channel

CONSTANTS main, f1, f2, f3, loop, a, b, u

MCFiber == {main, f1, f2, f3}
MCCapacity == [c \in {a, b} |-> 1]

sleep    == [op |-> "sleep"]
forever  == [op |-> "sleep forever"]
spawn(f) == [op |-> "spawn", fiber |-> f]

On(op, c) == [op |-> op, ch |-> c]

select(ops, else) == [op |-> "select", ops |-> ops, else |-> else]

Action(do, c) == [do |-> do, ch |-> c]

Selects ==
  { select(<<Action(x, c), Action(y, d)>>, else) :
      x \in {"send", "receive"}, y \in {"send", "receive"},
      c \in {a, u}, d \in {b, u}, else \in BOOLEAN }

Drain == select(<<Action("receive", b), Action("receive", a)>>, FALSE)
Third == select(<<Action("receive", u), Action("receive", a)>>, FALSE)

MCCall == {sleep, forever}
  \cup {spawn(f) : f \in {f1, f2, f3}}
  \cup {On(op, c) : op \in {"send", "receive", "close"}, c \in {a, b, u}}
  \cup Selects \cup {Drain, Third}

(* The fiber that selects, once or twice, and sends what it got.           *)
SelectTexts == { <<x>> \o rest : x \in Selects,
                   rest \in {<<>>, <<On("send", u)>>, <<Drain>>} }

OtherTexts ==
  { <<On("send", a), On("send", b)>>, <<sleep, On("send", a), On("send", b)>>,
    <<On("receive", a), On("receive", b)>>, <<On("receive", u), On("close", a)>>,
    <<On("send", u), On("send", a)>> }

MCPrograms ==
  { [f \in MCFiber |->
       CASE f = main -> <<spawn(f1), spawn(f2), spawn(f3)>> \o m
         [] f = f1 -> x
         [] f = f2 -> y
         [] f = f3 -> z] :
      m \in {<<forever>>, <<sleep, On("receive", u), forever>>},
      x \in SelectTexts, y \in OtherTexts, 
      z \in {<<>>, <<On("receive", a)>>, <<sleep, On("send", a), On("send", b)>>,
             <<Third>>} }
=============================================================================
