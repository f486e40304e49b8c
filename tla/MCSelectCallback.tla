-------------------------- MODULE MCSelectCallback ---------------------------
(***************************************************************************)
(* SelectCallback for TLC. An update may need three new threads at once.   *)
(***************************************************************************)
EXTENDS SelectCallback, TLC
=============================================================================
