------------------------------- MODULE MCMorph -------------------------------
(***************************************************************************)
(* Instances of Morph for TLC, bounded by the crashes and requests.        *)
(***************************************************************************)
EXTENDS Morph
=============================================================================
