----------------------------- MODULE MCDiscovery -----------------------------
(***************************************************************************)
(* Instances of Discovery for TLC: the name appears up to three times.     *)
(***************************************************************************)
EXTENDS Discovery
=============================================================================
