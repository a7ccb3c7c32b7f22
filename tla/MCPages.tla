------------------------------- MODULE MCPages -------------------------------
(***************************************************************************)
(* Two tabs, two codes beside the empty one, and the three settings; the   *)
(* debounce is a number of milliseconds or blank, or written so that       *)
(* parseInt shortens it.                                                   *)
(***************************************************************************)
EXTENDS Pages, TLC

CONSTANTS t1, t2, demo, mine

MCKey == {"settingsGithubToken", "settingsShowTypes", "settingsRunDebounce"}

MCValue == [settingsGithubToken |-> {"", "token"},
            settingsShowTypes   |-> {"true", "false"},
            settingsRunDebounce |-> {"800", "", "1.5", "1"}]

MCDefault == [settingsGithubToken |-> "",
              settingsShowTypes   |-> "true",
              settingsRunDebounce |-> "800"]

MCField == [k \in MCKey |-> [v \in MCValue[k] |-> IF v = "1.5" THEN "1" ELSE v]]

Symmetry == Permutations(Tab)
=============================================================================
