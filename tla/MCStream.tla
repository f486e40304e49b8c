------------------------------- MODULE MCStream -------------------------------
(***************************************************************************)
(* An instance of Stream for TLC: two requests, each a line, a header, an  *)
(* empty line and a body, over a connection that holds less than one.      *)
(***************************************************************************)
EXTENDS Stream

Line(n) == [line |-> TRUE, size |-> n]
Body(n) == [line |-> FALSE, size |-> n]
MCPieces == <<Line(3), Line(2), Line(1), Body(3), Line(2), Line(1), Body(2)>>
=============================================================================
