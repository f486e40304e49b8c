------------------------------ MODULE PollerMap ------------------------------
(***************************************************************************)
(* What a poller promises its only client, the scheduler (the interface    *)
(* described in lk/lib/lk/Poller.lua): a map from small integer handles    *)
(* ("idx") to what is polled.  A handle keeps its meaning until it is      *)
(* removed, whatever is added or removed meanwhile; a new handle is the    *)
(* lowest one that is free; events() called right after poll() returns     *)
(* exactly the handles poll() found ready, later on some registered        *)
(* handles; poll() returns false only after an interruption.               *)
(*                                                                         *)
(* Nothing is said of arrays, positions or compaction: module Poller       *)
(* implements this one.                                                    *)
(***************************************************************************)
EXTENDS Integers, FiniteSets

CONSTANTS Fds,       \* what can be polled: file descriptors and zmq sockets
          Masks      \* the event masks a client passes (POLLIN, POLLOUT)

VARIABLES
  reg,          \* the registered handles, each with its [fd, events]
  ready,        \* the handles the next events() returns
  interrupted,  \* SIGINT was received
  ret           \* what the last call returned to the client

vars == <<reg, ready, interrupted, ret>>

\* The answer of a call: its kind, with the handles it carries.
Answer(kind, handles) == [kind |-> kind, handles |-> handles]

\* The lowest handle not in use. It is at most the number of handles in use.
FirstFree(i) ==
  /\ i \notin DOMAIN reg
  /\ \A j \in 0 .. i - 1 : j \in DOMAIN reg

Init ==
  /\ reg = <<>>
  /\ ready = {}
  /\ interrupted = FALSE
  /\ ret = Answer("none", {})

\* Which handles are ready is open again until the next poll.
Add(fd, mask) ==
  \E i \in 0 .. Cardinality(DOMAIN reg) :
    /\ FirstFree(i)
    /\ reg' = [k \in DOMAIN reg \union {i} |->
                 IF k = i THEN [fd |-> fd, events |-> mask] ELSE reg[k]]
    /\ ret' = Answer("idx", {i})
    /\ ready' \in SUBSET DOMAIN reg'
    /\ UNCHANGED interrupted

\* The handle is kept, what it polls changes.
Modify(i, fd, mask) ==
  /\ i \in DOMAIN reg
  /\ reg' = [reg EXCEPT ![i] = [fd |-> fd, events |-> mask]]
  /\ ret' = Answer("none", {})
  /\ ready' \in SUBSET DOMAIN reg'
  /\ UNCHANGED interrupted

Remove(i) ==
  /\ i \in DOMAIN reg
  /\ reg' = [k \in DOMAIN reg \ {i} |-> reg[k]]
  /\ ret' = Answer("none", {})
  /\ ready' \in SUBSET DOMAIN reg'
  /\ UNCHANGED interrupted

\* A call that is refused, or a poll that fails, leaves every handle as it was.
Refuse ==
  /\ ret' = Answer("error", {})
  /\ ready' \in {ready, {}}
  /\ UNCHANGED <<reg, interrupted>>

PollTrue ==
  /\ ready' \in SUBSET DOMAIN reg
  /\ ret' = Answer("true", {})
  /\ UNCHANGED <<reg, interrupted>>

PollFalse ==
  /\ interrupted
  /\ ret' = Answer("false", {})
  /\ ready' \in {ready, {}}
  /\ UNCHANGED <<reg, interrupted>>

Events ==
  /\ ret' = Answer("events", ready)
  /\ ready' = {}
  /\ UNCHANGED <<reg, interrupted>>

Interrupt ==
  /\ ~interrupted
  /\ interrupted' = TRUE
  /\ UNCHANGED <<reg, ready, ret>>

Next ==
  \/ \E fd \in Fds, mask \in Masks : Add(fd, mask)
  \/ \E i \in DOMAIN reg, fd \in Fds, mask \in Masks : Modify(i, fd, mask)
  \/ \E i \in DOMAIN reg : Remove(i)
  \/ Refuse
  \/ PollTrue
  \/ PollFalse
  \/ Events
  \/ Interrupt

Spec == Init /\ [][Next]_vars
==============================================================================
