------------------------------- MODULE MCTimer -------------------------------
(***************************************************************************)
(* Instances of Timer for TLC. Three tickers are the thread of the timer,  *)
(* one it let go of and one that is joined.                                *)
(***************************************************************************)
EXTENDS Timer, TLC

Symmetry == Permutations(Tickers)
=============================================================================
