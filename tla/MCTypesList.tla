----------------------------- MODULE MCTypesList -----------------------------
(***************************************************************************)
(* Four types: http, http::server inside it, http::server::context inside  *)
(* that, and a type on its own.                                            *)
(***************************************************************************)
EXTENDS TypesList

CONSTANTS http, server, context, int

MCType == {http, server, context, int}
MCAbove == [t \in MCType |->
              CASE t = server -> {http} [] t = context -> {http, server} [] OTHER -> {}]

(* What the words of each text match; "*" is no regular expression.        *)
MCMatches == [blank |-> MCType, http |-> {http, server, context},
              context |-> {context}, int |-> {int}, none |-> {}, star |-> {}]
MCText == DOMAIN MCMatches
=============================================================================
