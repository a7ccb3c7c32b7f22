----------------------------- MODULE MCInspector -----------------------------
(***************************************************************************)
(* A line that yields numbers, and tuples with one or two named parts.     *)
(***************************************************************************)
EXTENDS Inspector

CONSTANTS one, two, pair, Int32, Tuple

Plain(v) == [value |-> v, value_type |-> Int32, data |-> NoData]
Named(names) == [value |-> pair, value_type |-> Tuple, data |-> names]

MCArrival == {Plain(one), Plain(two), Named(<<>>), Named(<<"x">>), Named(<<"x", "y">>)}
=============================================================================
