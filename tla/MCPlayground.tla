---------------------------- MODULE MCPlayground ----------------------------
(***************************************************************************)
(* A text that runs and one that does not compile; the shorter one lacks a *)
(* line of the other, and its error is reported beyond its end.  The main  *)
(* page with a debounce, and a demo of the about page without.             *)
(***************************************************************************)
EXTENDS Playground

MCSource == {"good", "bad"}
MCLastLine == [good |-> 2, bad |-> 1]
MCCodeLines == [good |-> {1, 2}, bad |-> {1}]
MCOutcomes == [good |-> {"runs"}, bad |-> {"parse error", "compile error", "bug"}]
MCErrorLine == [good |-> 1, bad |-> 2]

Value1 == [kind |-> "value", line |-> 1, text |-> TRUE]
Raise(l, text) == [kind |-> "runtime-exception", line |-> l, text |-> text]
MCScripts ==
  [good |-> {[output |-> 2, agent |-> <<>>], [output |-> 0, agent |-> <<Value1, Raise(2, TRUE)>>],
             [output |-> 0, agent |-> <<Raise(2, FALSE)>>]},
   bad |-> {}]

(* Programs that print a little, for the liveness.                         *)
ShortScripts == [good |-> {[output |-> 1, agent |-> <<>>]}, bad |-> {}]

MainPage(n) == [debounce |-> TRUE, autorun |-> TRUE, demo |-> FALSE, inputs |-> n]
Demo == [debounce |-> FALSE, autorun |-> FALSE, demo |-> TRUE, inputs |-> 2]

(* The main page runs once by itself, so that each page asks for two runs. *)
MCSetups == {MainPage(1), Demo}

LiveSetups == {MainPage(2), Demo}
=============================================================================
