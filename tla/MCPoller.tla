------------------------------ MODULE MCPoller -------------------------------
(***************************************************************************)
(* Poller for TLC: two descriptors, one mask, and two slots that double to *)
(* four, of which three are in use at a time. An index is freed below, at  *)
(* and above the last position and then reused, before and after the       *)
(* arrays grow.                                                            *)
(***************************************************************************)
EXTENDS Poller, TLC

Symmetry == Permutations(Fds)
Few == used <= 3
=============================================================================
