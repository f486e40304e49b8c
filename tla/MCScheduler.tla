----------------------------- MODULE MCScheduler -----------------------------
(***************************************************************************)
(* Scheduler for TLC.  Three threads (the main one and two that it or its  *)
(* children create) are the least with which one thread joins a second     *)
(* while a third kills it, or waits for a handle that a second frees and a *)
(* third reuses.  Safety allows every fault at once, the live run the kill *)
(* of queued threads only, the violation that of threads in the poller.    *)
(***************************************************************************)
EXTENDS Scheduler, TLC

Symmetry == Permutations(Threads \ {Main})
=============================================================================
