------------------------------- MODULE Poller --------------------------------
(***************************************************************************)
(* zmq::Poller (zmq/include/zmq/Poller.h, zmq/src/core/poller.cpp).        *)
(*                                                                         *)
(* The items to poll are kept in a contiguous array, as zmq_poll wants     *)
(* them, so removing one moves the last item into the hole.  Clients hold  *)
(* an index ("idx") that must survive those moves: two tables translate    *)
(* between an idx and the position its item has now.  The three arrays     *)
(* double in size when they are full.                                      *)
(*                                                                         *)
(* poll() is not atomic: it tests interrupted_, then enters zmq_poll.  A   *)
(* SIGINT may arrive before, between and after the two.                    *)
(***************************************************************************)
EXTENDS Integers, FiniteSets

CONSTANTS Fds,       \* file descriptors and zmq sockets
          Masks,     \* event masks: POLLIN, POLLOUT
          NoFd,      \* content of a slot that was never used
          Reserve,   \* argument of the constructor
          MaxSize    \* bound: the arrays grow up to this many slots

ASSUME PollerAssumption ==
  /\ Reserve \in Int
  /\ MaxSize \in Nat
  /\ NoFd \notin Fds \union Masks

VARIABLES
  items,        \* pollitems_
  size,         \* pollitems_size_
  idxToPos,     \* idx_to_pos_
  posToIdx,     \* pos_to_idx_
  used,         \* used_count_
  eventCount,   \* event_count_
  interrupted,  \* interrupted_
  pc,           \* where the thread is: in no call, or in poll() at ...
  forever,      \* the timeout of the poll() in progress is -1 (FALSE outside)
  ret           \* what the last call returned to the client

tables == <<items, size, idxToPos, posToIdx, used>>
vars == <<items, size, idxToPos, posToIdx, used, eventCount, interrupted, pc,
          forever, ret>>

Answer(kind, handles) == [kind |-> kind, handles |-> handles]
Item(fd, mask, revents) == [fd |-> fd, events |-> mask, revents |-> revents]

Slots == 0 .. size - 1            \* positions and indexes the arrays hold
Live == {i \in Slots : idxToPos[i] # -1}
Free == {i \in Slots : idxToPos[i] = -1}

Init ==
  /\ size = IF Reserve <= 0 THEN 10 ELSE Reserve
  /\ items = [p \in Slots |-> Item(NoFd, NoFd, FALSE)]
  /\ idxToPos = [i \in Slots |-> -1]
  /\ posToIdx = [p \in Slots |-> -1]
  /\ used = 0
  /\ eventCount = 0
  /\ interrupted = FALSE
  /\ pc = "idle"
  /\ forever = FALSE
  /\ ret = Answer("none", {})

-----------------------------------------------------------------------------
(* add, modify, remove *)

\* The arrays after the reallocation of addItem, cleared from used_count_ on.
GrownShiftedClear(table, blank) ==   \* mutant: clears from used_count_ + 1
  [k \in 0 .. 2 * size - 1 |->
     IF k < used THEN table[k] ELSE IF k = used THEN table[0] ELSE blank]
Grown(table, blank) ==
  [k \in 0 .. 2 * size - 1 |-> IF k < used THEN table[k] ELSE blank]

\* Store an item at the end of `its` and give it the lowest free index of
\* table `i2p`. revents is not written: a reused position keeps the old one.
Place(its, i2p, p2i, fd, mask) ==
  \E idx \in DOMAIN i2p :
    /\ i2p[idx] < 0
    /\ \A j \in DOMAIN i2p : j < idx => i2p[j] >= 0
    /\ items' = [its EXCEPT ![used] = Item(fd, mask, @.revents)]
    /\ idxToPos' = [i2p EXCEPT ![idx] = used]
    /\ posToIdx' = [p2i EXCEPT ![used] = idx]
    /\ ret' = Answer("idx", {idx})

Add(fd, mask) ==
  /\ pc = "idle"
  /\ used < size
  /\ Place(items, idxToPos, posToIdx, fd, mask)
  /\ used' = used + 1
  /\ UNCHANGED <<size, eventCount, interrupted, pc, forever>>

AddGrow(fd, mask) ==
  /\ pc = "idle"
  /\ used >= size
  /\ 2 * size <= MaxSize
  /\ Place(Grown(items, Item(NoFd, NoFd, FALSE)), Grown(idxToPos, -1),
           Grown(posToIdx, -1), fd, mask)
  /\ size' = 2 * size
  /\ used' = used + 1
  /\ UNCHANGED <<eventCount, interrupted, pc, forever>>

\* realloc refuses: an exception, before any counter has changed.
AddFails ==
  /\ pc = "idle"
  /\ used >= size
  /\ ret' = Answer("error", {})
  /\ UNCHANGED <<tables, eventCount, interrupted, pc, forever>>

\* modify does not test that idx is in use: its client must hold the index
\* (module Scheduler checks that it does). `fd` is the fourth argument or, when
\* there is none, the one the item has.
Modify(idx, fd, mask) ==
  /\ pc = "idle"
  /\ idx \in Live
  /\ items' = [items EXCEPT ![idxToPos[idx]] = Item(fd, mask, @.revents)]
  /\ ret' = Answer("none", {})
  /\ UNCHANGED <<size, idxToPos, posToIdx, used, eventCount, interrupted, pc,
                 forever>>

RemoveLosesBackLink(idx) ==   \* mutant: pos_to_idx_ of the moved item is not set
  LET pos == idxToPos[idx]
      lastPos == used - 1
      lastIdx == posToIdx[lastPos]
  IN /\ pc = "idle"
     /\ idx \in Live
     /\ used' = used - 1
     /\ idxToPos' = IF pos = lastPos THEN [idxToPos EXCEPT ![idx] = -1]
                    ELSE [idxToPos EXCEPT ![idx] = -1, ![lastIdx] = pos]
     /\ items' = [items EXCEPT ![pos] = items[lastPos]]
     /\ ret' = Answer("none", {})
     /\ UNCHANGED <<posToIdx, size, eventCount, interrupted, pc, forever>>

RemoveKeepsIndex(idx) ==   \* mutant: the index is not marked free
  /\ pc = "idle"
  /\ idx \in Live
  /\ used' = used - 1
  /\ ret' = Answer("none", {})
  /\ UNCHANGED <<items, idxToPos, posToIdx, size, eventCount, interrupted, pc,
                 forever>>

RemoveWithoutCopy(idx) ==   \* mutant: the tables follow the move, the item does not
  LET pos == idxToPos[idx]
      lastPos == used - 1
      lastIdx == posToIdx[lastPos]
  IN /\ pc = "idle"
     /\ idx \in Live
     /\ used' = used - 1
     /\ IF pos = lastPos
        THEN /\ idxToPos' = [idxToPos EXCEPT ![idx] = -1]
             /\ UNCHANGED posToIdx
        ELSE /\ idxToPos' = [idxToPos EXCEPT ![idx] = -1, ![lastIdx] = pos]
             /\ posToIdx' = [posToIdx EXCEPT ![lastPos] = -1, ![pos] = lastIdx]
     /\ ret' = Answer("none", {})
     /\ UNCHANGED <<items, size, eventCount, interrupted, pc, forever>>

\* The index is freed. Unless its item was the last one, the last item takes
\* its position; the last position keeps a stale copy of the item.
Remove(idx) ==
  LET pos == idxToPos[idx]
      lastPos == used - 1
      lastIdx == posToIdx[lastPos]
  IN /\ pc = "idle"
     /\ idx \in Live
     /\ used' = used - 1
     /\ IF pos = lastPos
        THEN /\ idxToPos' = [idxToPos EXCEPT ![idx] = -1]
             /\ UNCHANGED <<items, posToIdx>>
        ELSE /\ idxToPos' = [idxToPos EXCEPT ![idx] = -1, ![lastIdx] = pos]
             /\ posToIdx' = [posToIdx EXCEPT ![lastPos] = -1, ![pos] = lastIdx]
             /\ items' = [items EXCEPT ![pos] = items[lastPos]]
     /\ ret' = Answer("none", {})
     /\ UNCHANGED <<size, eventCount, interrupted, pc, forever>>

\* "Invalid index" and "removed twice".
RemoveFails(idx) ==
  /\ pc = "idle"
  /\ idx \in Slots => idx \in Free
  /\ ret' = Answer("error", {})
  /\ UNCHANGED <<tables, eventCount, interrupted, pc, forever>>

-----------------------------------------------------------------------------
(* poll *)

PollCall(noTimeout) ==
  /\ pc = "idle"
  /\ ~interrupted
  /\ pc' = "tested"
  /\ forever' = noTimeout
  /\ UNCHANGED <<tables, eventCount, interrupted, ret>>

PollRefused ==
  /\ pc = "idle"
  /\ interrupted
  /\ ret' = Answer("false", {})
  /\ UNCHANGED <<tables, eventCount, interrupted, pc, forever>>

\* Past the test of interrupted_, zmq_poll starts to wait.
PollWait ==
  /\ pc = "tested"
  /\ pc' = "waiting"
  /\ UNCHANGED <<tables, eventCount, interrupted, forever, ret>>

\* zmq_poll returns: revents of every item it was given is written, and the
\* number of ready items becomes event_count_.
Return(readyPos) ==
  /\ items' = [p \in Slots |->
                 IF p < used THEN [items[p] EXCEPT !.revents = p \in readyPos]
                             ELSE items[p]]
  /\ eventCount' = Cardinality(readyPos)
  /\ pc' = "idle"
  /\ forever' = FALSE
  /\ ret' = Answer("true", {})
  /\ UNCHANGED <<size, idxToPos, posToIdx, used, interrupted>>

PollReady(readyPos) ==
  /\ pc = "waiting"
  /\ readyPos # {}
  /\ Return(readyPos)

PollTimeout ==
  /\ pc = "waiting"
  /\ ~forever
  /\ Return({})

PollFailKeepsCount ==   \* mutant: event_count_ keeps the -1 of zmq_poll
  /\ pc = "eintr"
  /\ eventCount' = -1
  /\ pc' = "idle"
  /\ forever' = FALSE
  /\ ret' = Answer(IF interrupted THEN "false" ELSE "error", {})
  /\ UNCHANGED <<tables, interrupted>>

\* zmq_poll returned -1.
PollFail ==
  /\ pc = "eintr"
  /\ eventCount' = 0
  /\ pc' = "idle"
  /\ forever' = FALSE
  /\ ret' = Answer(IF interrupted THEN "false" ELSE "error", {})
  /\ UNCHANGED <<tables, interrupted>>

\* SIGINT (sInterrupted). The handler resets itself: a second one kills the
\* process. Only a zmq_poll that already waits is woken by the signal.
Interrupt ==
  /\ ~interrupted
  /\ interrupted' = TRUE
  /\ pc' = IF pc = "waiting" THEN "eintr" ELSE pc
  /\ UNCHANGED <<tables, eventCount, forever, ret>>

\* Another signal or an error of zmq_poll.
ZmqError ==
  /\ pc = "waiting"
  /\ pc' = "eintr"
  /\ UNCHANGED <<tables, eventCount, interrupted, forever, ret>>

-----------------------------------------------------------------------------
(* events *)

ReadyPos == {p \in 0 .. used - 1 : items[p].revents}

ReportedStopsEarly == {p \in ReadyPos :   \* mutant: leaves the loop one item early
                         Cardinality({q \in ReadyPos : q <= p}) < eventCount}

\* The first event_count_ positions that have something in revents.
Reported == {p \in ReadyPos :
               Cardinality({q \in ReadyPos : q <= p}) <= eventCount}

Events ==
  /\ pc = "idle"
  /\ ret' = Answer("events", {posToIdx[p] : p \in Reported})
  /\ eventCount' = 0
  /\ UNCHANGED <<tables, interrupted, pc, forever>>

-----------------------------------------------------------------------------
Client ==
  \/ \E fd \in Fds, mask \in Masks : Add(fd, mask) \/ AddGrow(fd, mask)
  \/ AddFails
  \/ \E idx \in Slots, fd \in Fds, mask \in Masks : Modify(idx, fd, mask)
  \/ \E idx \in Slots : Remove(idx)
  \/ \E idx \in -1 .. size : RemoveFails(idx)
  \/ \E noTimeout \in BOOLEAN : PollCall(noTimeout)
  \/ PollRefused
  \/ Events

InPoll ==
  \/ PollWait
  \/ PollTimeout
  \/ PollFail

Environment ==
  \/ \E readyPos \in SUBSET (0 .. used - 1) : PollReady(readyPos)
  \/ Interrupt
  \/ ZmqError

Next == Client \/ InPoll \/ Environment

Spec == Init /\ [][Next]_vars

-----------------------------------------------------------------------------
(* Properties *)

TypeOK ==
  /\ size \in Nat \ {0}
  /\ used \in 0 .. size
  /\ items \in [Slots -> [fd : Fds \union {NoFd}, events : Masks \union {NoFd},
                          revents : BOOLEAN]]
  /\ idxToPos \in [Slots -> Slots \union {-1}]
  /\ posToIdx \in [Slots -> Slots \union {-1}]
  /\ eventCount \in Nat
  /\ interrupted \in BOOLEAN
  /\ forever \in BOOLEAN
  /\ pc \in {"idle", "tested", "waiting", "eintr"}
  /\ ret \in [kind : {"none", "idx", "events", "true", "false", "error"},
              handles : SUBSET Nat]

\* The two tables are inverse to each other on the positions in use, in spite
\* of compaction (remove) and growth (addItem): every used position belongs to
\* one index, which leads back to it, and every live index leads to a used
\* position. A stale entry of pos_to_idx_ beyond used_count_ is allowed.
TablesInverse ==
  /\ \A p \in 0 .. used - 1 :
       /\ posToIdx[p] \in Slots
       /\ idxToPos[posToIdx[p]] = p
  /\ \A i \in Live :
       /\ idxToPos[i] < used
       /\ posToIdx[idxToPos[i]] = i

\* addItem writes idx_to_pos_[idx] without testing that its search found an
\* index: while a position is unused, an index must be free too.
FreeIndexExists == used < size => Free # {}

\* Right after a poll that found some items ready, events() (163-179) reports
\* exactly them, although it stops at event_count_ and earlier revents survive
\* compaction. A call between the poll and events() may change what it reports.
EventsExact ==
  [][\A S \in SUBSET (0 .. used - 1) : PollReady(S) => Reported' = S]_vars

\* What the poller implements: handles with a stable meaning.
Map == INSTANCE PollerMap WITH
         reg <- [i \in Live |-> [fd |-> items[idxToPos[i]].fd,
                                 events |-> items[idxToPos[i]].events]],
         ready <- {posToIdx[p] : p \in Reported}

\* Every step of the arrays is a step of the map (or invisible): an index keeps
\* its item until it is removed, a new one is the lowest free.
ImplementsMap == Map!Spec
==============================================================================
