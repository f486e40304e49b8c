---------------------------- MODULE PollerProofs -----------------------------
(***************************************************************************)
(* Proofs about module Poller, for every set of descriptors, every initial *)
(* size and every bound on growth.                                         *)
(*                                                                         *)
(* TablesInverse is inductive together with the types: the argument of     *)
(* Remove needs both directions of the translation (the moved item is      *)
(* found by posToIdx, the other items must not be), and the types say that *)
(* what is read from the tables is a slot.                                 *)
(***************************************************************************)
EXTENDS Poller, FiniteSetTheorems, TLAPS

\* What is said of the slots: their types, and that the tables are inverse.
SlotTables ==
  /\ size \in Nat \ {0}
  /\ used \in 0 .. size
  /\ items \in [Slots -> [fd : Fds \union {NoFd}, events : Masks \union {NoFd},
                          revents : BOOLEAN]]
  /\ idxToPos \in [Slots -> Slots \union {-1}]
  /\ posToIdx \in [Slots -> Slots \union {-1}]
  /\ TablesInverse

\* The rest of TypeOK.
CallTypes ==
  /\ eventCount \in Nat
  /\ interrupted \in BOOLEAN
  /\ forever \in BOOLEAN
  /\ pc \in {"idle", "tested", "waiting", "eintr"}
  /\ ret \in [kind : {"none", "idx", "events", "true", "false", "error"},
              handles : SUBSET Nat]

IInv == SlotTables /\ CallTypes

\* The inductive invariant is the conjunction of the two that TLC checks.
LEMMA IInvIsEnough == IInv => TypeOK /\ TablesInverse
  BY DEF IInv, TypeOK, SlotTables, CallTypes

\* An answer is a pair of a kind and a set of indexes.
LEMMA AnswerType ==
  ASSUME NEW k \in {"none", "idx", "events", "true", "false", "error"},
         NEW S \in SUBSET Nat
  PROVE  Answer(k, S) \in [kind : {"none", "idx", "events", "true", "false", "error"},
                           handles : SUBSET Nat]
  BY DEF Answer

\* A step that leaves the tables alone keeps what is said of them.
LEMMA SameTables ==
  ASSUME SlotTables, UNCHANGED tables
  PROVE  SlotTables'
  BY DEF SlotTables, TablesInverse, Live, Slots, tables

-----------------------------------------------------------------------------
\* The constructor (poller.cpp 35-74).
LEMMA InitIInv == Init => IInv
<1> SUFFICES ASSUME Init PROVE SlotTables /\ CallTypes
  BY DEF IInv
<1>1. size \in Nat \ {0}
  BY PollerAssumption DEF Init
<1>2. SlotTables
  BY <1>1, PollerAssumption DEF Init, SlotTables, TablesInverse, Live, Slots, Item
<1>3. CallTypes
  BY AnswerType DEF Init, CallTypes
<1> QED BY <1>2, <1>3

\* addItem without reallocation.
LEMMA AddIInv ==
  ASSUME IInv, NEW fd \in Fds, NEW mask \in Masks, Add(fd, mask)
  PROVE  IInv'
<1>0. SlotTables /\ CallTypes
  BY DEF IInv
<1>1. PICK idx \in Slots :
        /\ idxToPos[idx] < 0
        /\ items' = [items EXCEPT ![used] = Item(fd, mask, @.revents)]
        /\ idxToPos' = [idxToPos EXCEPT ![idx] = used]
        /\ posToIdx' = [posToIdx EXCEPT ![used] = idx]
        /\ ret' = Answer("idx", {idx})
  BY <1>0 DEF Add, Place, SlotTables
<1>2. used' = used + 1 /\ size' = size /\ used < size
  BY DEF Add
<1>3. used \in Slots /\ Slots' = Slots
  BY <1>0, <1>2 DEF SlotTables, Slots
<1>4. items[used].revents \in BOOLEAN
  BY <1>0, <1>3 DEF SlotTables
<1>5. items' \in [Slots' -> [fd : Fds \union {NoFd}, events : Masks \union {NoFd},
                             revents : BOOLEAN]]
  BY <1>0, <1>1, <1>3, <1>4 DEF SlotTables, Item
<1>6. /\ idxToPos' \in [Slots' -> Slots' \union {-1}]
      /\ posToIdx' \in [Slots' -> Slots' \union {-1}]
  BY <1>0, <1>1, <1>3 DEF SlotTables
<1>7. TablesInverse'
  BY <1>0, <1>1, <1>2, <1>3 DEF SlotTables, TablesInverse, Live, Slots
<1>8. SlotTables'
  BY <1>0, <1>2, <1>3, <1>5, <1>6, <1>7 DEF SlotTables, Slots
<1>9. CallTypes'
  <2>1. {idx} \in SUBSET Nat
    BY <1>0 DEF SlotTables, Slots
  <2> QED BY <1>0, <1>1, <2>1, AnswerType DEF CallTypes, Add
<1> QED BY <1>8, <1>9 DEF IInv

\* addItem after the arrays have doubled: the new half is free.
LEMMA AddGrowIInv ==
  ASSUME IInv, NEW fd \in Fds, NEW mask \in Masks, AddGrow(fd, mask)
  PROVE  IInv'
<1>0. SlotTables /\ CallTypes
  BY DEF IInv
<1>1. used' = used + 1 /\ size' = 2 * size /\ used = size
  <2>1. used' = used + 1 /\ size' = 2 * size /\ used >= size
    BY DEF AddGrow
  <2>2. size \in Nat /\ used \in 0 .. size
    BY <1>0 DEF SlotTables
  <2> QED BY <2>1, <2>2
<1> DEFINE its == Grown(items, Item(NoFd, NoFd, FALSE))
           i2p == Grown(idxToPos, -1)
           p2i == Grown(posToIdx, -1)
<1>2. /\ Slots' = 0 .. 2 * size - 1
      /\ Slots = 0 .. used - 1
      /\ Slots \subseteq Slots'
      /\ used \in Slots'
      /\ size \in Nat \ {0}
  BY <1>0, <1>1 DEF SlotTables, Slots
<1>3. /\ its \in [Slots' -> [fd : Fds \union {NoFd}, events : Masks \union {NoFd},
                             revents : BOOLEAN]]
      /\ i2p \in [Slots' -> Slots \union {-1}]
      /\ p2i \in [Slots' -> Slots \union {-1}]
  BY <1>0, <1>1, <1>2 DEF SlotTables, Grown, Item, Slots
<1>4. \A k \in Slots : i2p[k] = idxToPos[k] /\ p2i[k] = posToIdx[k]
  BY <1>1, <1>2 DEF Grown
<1>5. \A k \in Slots' \ Slots : i2p[k] = -1 /\ p2i[k] = -1
  BY <1>1, <1>2 DEF Grown
<1> HIDE DEF its, i2p, p2i
<1>6. PICK idx \in Slots' :
        /\ i2p[idx] < 0
        /\ items' = [its EXCEPT ![used] = Item(fd, mask, @.revents)]
        /\ idxToPos' = [i2p EXCEPT ![idx] = used]
        /\ posToIdx' = [p2i EXCEPT ![used] = idx]
        /\ ret' = Answer("idx", {idx})
  <2>1. Place(its, i2p, p2i, fd, mask)
    BY DEF AddGrow, its, i2p, p2i
  <2>2. DOMAIN i2p = Slots'
    BY <1>3
  <2> QED BY <2>1, <2>2 DEF Place
<1>7. its[used].revents \in BOOLEAN
  BY <1>2, <1>3
<1>8. items' \in [Slots' -> [fd : Fds \union {NoFd}, events : Masks \union {NoFd},
                             revents : BOOLEAN]]
  BY <1>2, <1>3, <1>6, <1>7 DEF Item
<1>9. /\ idxToPos' \in [Slots' -> Slots' \union {-1}]
      /\ posToIdx' \in [Slots' -> Slots' \union {-1}]
  BY <1>2, <1>3, <1>6
<1>10. TablesInverse'
  <2>1. ASSUME NEW p \in 0 .. used' - 1
        PROVE  posToIdx'[p] \in Slots' /\ idxToPos'[posToIdx'[p]] = p
    <3>1. CASE p = used
      BY <1>2, <1>3, <1>6, <3>1
    <3>2. CASE p # used
      <4>1. p \in 0 .. used - 1 /\ p \in Slots /\ p \in Slots'
        BY <1>1, <1>2, <3>2, <2>1
      <4>2. posToIdx[p] \in Slots /\ idxToPos[posToIdx[p]] = p
        BY <1>0, <4>1 DEF SlotTables, TablesInverse
      <4>3. posToIdx'[p] = posToIdx[p]
        BY <1>3, <1>4, <1>6, <3>2, <4>1
      <4>4. posToIdx[p] # idx
        BY <1>4, <1>6, <4>1, <4>2, <1>2
      <4> QED BY <1>2, <1>3, <1>4, <1>6, <4>2, <4>3, <4>4
    <3> QED BY <3>1, <3>2
  <2>2. ASSUME NEW i \in Live'
        PROVE  idxToPos'[i] < used' /\ posToIdx'[idxToPos'[i]] = i
    <3>1. i \in Slots' /\ idxToPos'[i] # -1
      BY DEF Live
    <3>2. CASE i = idx
      BY <1>1, <1>2, <1>3, <1>6, <3>2
    <3>3. CASE i # idx
      <4>1. idxToPos'[i] = i2p[i]
        BY <1>3, <1>6, <3>1, <3>3
      <4>2. i \in Slots /\ idxToPos[i] = i2p[i]
        BY <1>4, <1>5, <3>1, <4>1
      <4>3. i \in Live
        BY <3>1, <4>1, <4>2 DEF Live
      <4>4. idxToPos[i] \in Slots /\ idxToPos[i] < used /\ posToIdx[idxToPos[i]] = i
        BY <1>0, <4>2, <4>3 DEF SlotTables, TablesInverse, Live
      <4>5. posToIdx'[idxToPos[i]] = posToIdx[idxToPos[i]]
        BY <1>2, <1>3, <1>4, <1>6, <4>4
      <4> QED BY <1>1, <1>2, <4>1, <4>2, <4>4, <4>5
    <3> QED BY <3>2, <3>3
  <2> QED BY <2>1, <2>2 DEF TablesInverse
<1>11. SlotTables'
  BY <1>0, <1>1, <1>2, <1>8, <1>9, <1>10 DEF SlotTables
<1>12. CallTypes'
  <2>1. {idx} \in SUBSET Nat
    BY <1>2
  <2> QED BY <1>0, <1>6, <2>1, AnswerType DEF CallTypes, AddGrow
<1> QED BY <1>11, <1>12 DEF IInv

\* modify: no table changes, one item does.
LEMMA ModifyIInv ==
  ASSUME IInv, NEW idx \in Slots, NEW fd \in Fds, NEW mask \in Masks,
         Modify(idx, fd, mask)
  PROVE  IInv'
<1>0. SlotTables /\ CallTypes
  BY DEF IInv
<1>1. idxToPos[idx] \in Slots
  BY <1>0 DEF Modify, Live, SlotTables
<1>2. items[idxToPos[idx]].revents \in BOOLEAN
  BY <1>0, <1>1 DEF SlotTables
<1>3. SlotTables'
  BY <1>0, <1>1, <1>2 DEF Modify, SlotTables, TablesInverse, Live, Slots, Item
<1>4. CallTypes'
  BY <1>0, AnswerType DEF Modify, CallTypes
<1> QED BY <1>3, <1>4 DEF IInv

\* remove: the last item takes the position of the removed one.
LEMMA RemoveIInv ==
  ASSUME IInv, NEW idx \in Slots, Remove(idx)
  PROVE  IInv'
<1>0. SlotTables /\ CallTypes
  BY DEF IInv
<1> DEFINE pos == idxToPos[idx]
           lastPos == used - 1
           lastIdx == posToIdx[lastPos]
<1>1. /\ pos \in 0 .. used - 1
      /\ posToIdx[pos] = idx
      /\ lastPos \in 0 .. used - 1
      /\ lastPos \in Slots
      /\ pos \in Slots
      /\ lastIdx \in Slots
      /\ idxToPos[lastIdx] = lastPos
  BY <1>0 DEF Remove, SlotTables, TablesInverse, Live, Slots
<1>2. used' = used - 1 /\ size' = size /\ Slots' = Slots
  BY DEF Remove, Slots
<1>3. SlotTables'
  <2>1. CASE pos = lastPos
    <3>1. /\ idxToPos' = [idxToPos EXCEPT ![idx] = -1]
          /\ UNCHANGED <<items, posToIdx>>
      BY <2>1 DEF Remove
    <3>2. TablesInverse'
      BY <1>0, <1>1, <1>2, <2>1, <3>1 DEF SlotTables, TablesInverse, Live, Slots
    <3> QED BY <1>0, <1>1, <1>2, <3>1, <3>2 DEF SlotTables
  <2>2. CASE pos # lastPos
    <3>1. /\ idxToPos' = [idxToPos EXCEPT ![idx] = -1, ![lastIdx] = pos]
          /\ posToIdx' = [posToIdx EXCEPT ![lastPos] = -1, ![pos] = lastIdx]
          /\ items' = [items EXCEPT ![pos] = items[lastPos]]
      BY <2>2 DEF Remove
    <3>2. lastIdx # idx
      BY <1>1, <2>2
    <3>3. /\ items' \in [Slots -> [fd : Fds \union {NoFd}, events : Masks \union {NoFd},
                                   revents : BOOLEAN]]
          /\ idxToPos' \in [Slots -> Slots \union {-1}]
          /\ posToIdx' \in [Slots -> Slots \union {-1}]
      BY <1>0, <1>1, <3>1 DEF SlotTables
    <3>4. ASSUME NEW p \in 0 .. used' - 1
          PROVE  posToIdx'[p] \in Slots /\ idxToPos'[posToIdx'[p]] = p
      <4>1. CASE p = pos
        BY <1>0, <1>1, <3>1, <3>2, <4>1 DEF SlotTables
      <4>2. CASE p # pos
        <5>1. p \in 0 .. used - 1 /\ p \in Slots /\ p # lastPos
          BY <1>0, <1>2, <3>4 DEF SlotTables, Slots
        <5>2. posToIdx[p] \in Slots /\ idxToPos[posToIdx[p]] = p
          BY <1>0, <5>1 DEF SlotTables, TablesInverse
        <5>3. posToIdx'[p] = posToIdx[p]
          BY <1>0, <3>1, <4>2, <5>1 DEF SlotTables
        <5>4. posToIdx[p] # idx /\ posToIdx[p] # lastIdx
          BY <1>1, <4>2, <5>1, <5>2
        <5> QED BY <1>0, <3>1, <5>2, <5>3, <5>4 DEF SlotTables
      <4> QED BY <4>1, <4>2
    <3>5. ASSUME NEW i \in Slots, idxToPos'[i] # -1
          PROVE  idxToPos'[i] < used' /\ posToIdx'[idxToPos'[i]] = i
      <4>1. CASE i = lastIdx
        <5>1. idxToPos'[i] = pos /\ posToIdx'[pos] = lastIdx
          BY <1>0, <1>1, <3>1, <4>1 DEF SlotTables
        <5>2. pos < used'
          <6>1. used \in Nat
            BY <1>0 DEF SlotTables
          <6> HIDE DEF pos
          <6> QED BY <6>1, <1>1, <1>2, <2>2
        <5> QED BY <4>1, <5>1, <5>2
      <4>2. CASE i # lastIdx
        <5>1. i # idx
          BY <1>0, <3>1, <3>2, <3>5 DEF SlotTables
        <5>2. idxToPos'[i] = idxToPos[i]
          BY <1>0, <3>1, <4>2, <5>1 DEF SlotTables
        <5>3. idxToPos[i] \in Slots /\ idxToPos[i] < used /\ posToIdx[idxToPos[i]] = i
          BY <1>0, <3>5, <5>2 DEF SlotTables, TablesInverse, Live
        <5>4. idxToPos[i] # lastPos /\ idxToPos[i] # pos
          BY <1>1, <4>2, <5>1, <5>3
        <5>5. posToIdx'[idxToPos[i]] = posToIdx[idxToPos[i]]
          BY <1>0, <3>1, <5>3, <5>4 DEF SlotTables
        <5>6. idxToPos[i] < used'
          BY <1>0, <1>2, <5>3, <5>4 DEF SlotTables, Slots
        <5> QED BY <5>2, <5>3, <5>5, <5>6
      <4> QED BY <4>1, <4>2
    <3>6. TablesInverse'
      BY <1>2, <3>4, <3>5 DEF TablesInverse, Live
    <3>7. used' \in 0 .. size'
      BY <1>0, <1>1, <1>2 DEF SlotTables
    <3> QED BY <1>0, <1>2, <3>3, <3>6, <3>7 DEF SlotTables
  <2> QED BY <2>1, <2>2
<1>4. CallTypes'
  BY <1>0, AnswerType DEF Remove, CallTypes
<1> QED BY <1>3, <1>4 DEF IInv

\* zmq_poll writes revents of the used items and counts them.
LEMMA ReturnIInv ==
  ASSUME IInv, NEW readyPos \in SUBSET (0 .. used - 1), Return(readyPos)
  PROVE  IInv'
<1>0. SlotTables /\ CallTypes
  BY DEF IInv
<1>1. UNCHANGED <<size, idxToPos, posToIdx, used>>
  BY DEF Return
<1>2. items' \in [Slots -> [fd : Fds \union {NoFd}, events : Masks \union {NoFd},
                            revents : BOOLEAN]]
  <2>1. items' = [p \in Slots |->
                    IF p < used THEN [items[p] EXCEPT !.revents = p \in readyPos]
                                ELSE items[p]]
    BY DEF Return
  <2>2. ASSUME NEW p \in Slots
        PROVE  [items[p] EXCEPT !.revents = p \in readyPos]
                 \in [fd : Fds \union {NoFd}, events : Masks \union {NoFd},
                      revents : BOOLEAN]
    <3>1. (p \in readyPos) \in BOOLEAN
      OBVIOUS
    <3>2. items[p] \in [fd : Fds \union {NoFd}, events : Masks \union {NoFd},
                        revents : BOOLEAN]
      BY <1>0 DEF SlotTables
    <3> QED BY <3>1, <3>2
  <2> QED BY <1>0, <2>1, <2>2 DEF SlotTables
<1>3. SlotTables'
  BY <1>0, <1>1, <1>2 DEF SlotTables, TablesInverse, Live, Slots
<1>4. Cardinality(readyPos) \in Nat
  <2>1. IsFiniteSet(0 .. used - 1)
    BY <1>0, FS_Interval DEF SlotTables
  <2>2. IsFiniteSet(readyPos)
    BY <2>1, FS_Subset
  <2> QED BY <2>2, FS_CardinalityType
<1>5. CallTypes'
  BY <1>0, <1>4, AnswerType DEF Return, CallTypes
<1> QED BY <1>3, <1>5 DEF IInv

\* events: what is reported are indexes, since a used position has one.
LEMMA EventsIInv ==
  ASSUME IInv, Events
  PROVE  IInv'
<1>0. SlotTables /\ CallTypes
  BY DEF IInv
<1>1. {posToIdx[p] : p \in Reported} \in SUBSET Nat
  <2>1. Reported \subseteq 0 .. used - 1
    BY DEF Reported, ReadyPos
  <2>2. \A p \in 0 .. used - 1 : posToIdx[p] \in Slots
    BY <1>0 DEF SlotTables, TablesInverse
  <2>3. Slots \subseteq Nat
    BY <1>0 DEF SlotTables, Slots
  <2> QED BY <2>1, <2>2, <2>3
<1>2. SlotTables'
  BY <1>0, SameTables DEF Events
<1>3. CallTypes'
  BY <1>0, <1>1, AnswerType DEF Events, CallTypes
<1> QED BY <1>2, <1>3 DEF IInv

\* The calls and steps that leave the tables alone.
LEMMA OtherIInv ==
  ASSUME IInv,
         \/ AddFails \/ PollRefused \/ PollWait \/ PollFail \/ Interrupt \/ ZmqError
         \/ \E idx \in -1 .. size : RemoveFails(idx)
         \/ \E noTimeout \in BOOLEAN : PollCall(noTimeout)
         \/ UNCHANGED vars
  PROVE  IInv'
<1>0. SlotTables /\ CallTypes
  BY DEF IInv
<1>1. UNCHANGED tables
  BY DEF AddFails, PollRefused, PollWait, PollFail, Interrupt, ZmqError, RemoveFails,
         PollCall, vars, tables
<1>2. SlotTables'
  BY <1>0, <1>1, SameTables
<1>3. CallTypes'
  <2>1. CASE \/ AddFails \/ PollRefused \/ \E idx \in -1 .. size : RemoveFails(idx)
    BY <1>0, <2>1, AnswerType DEF AddFails, PollRefused, RemoveFails, CallTypes
  <2>2. CASE \/ PollWait \/ Interrupt \/ ZmqError
             \/ \E noTimeout \in BOOLEAN : PollCall(noTimeout)
    BY <1>0, <2>2 DEF PollWait, Interrupt, ZmqError, PollCall, CallTypes
  <2>3. CASE PollFail
    <3>1. ret' = Answer("false", {}) \/ ret' = Answer("error", {})
      BY <2>3 DEF PollFail
    <3>2. ret' \in [kind : {"none", "idx", "events", "true", "false", "error"},
                    handles : SUBSET Nat]
      BY <3>1, AnswerType
    <3> QED BY <1>0, <2>3, <3>2 DEF PollFail, CallTypes
  <2>4. CASE UNCHANGED vars
    BY <1>0, <2>4 DEF vars, CallTypes
  <2> QED BY <2>1, <2>2, <2>3, <2>4
<1> QED BY <1>2, <1>3 DEF IInv

\* Every step preserves the invariant.
LEMMA NextIInv == IInv /\ [Next]_vars => IInv'
<1> SUFFICES ASSUME IInv, [Next]_vars PROVE IInv'
  OBVIOUS
<1>0. used \in Nat
  BY DEF IInv, SlotTables
<1>1. CASE \E fd \in Fds, mask \in Masks : Add(fd, mask)
  BY <1>1, AddIInv
<1>2. CASE \E fd \in Fds, mask \in Masks : AddGrow(fd, mask)
  BY <1>2, AddGrowIInv
<1>3. CASE \E idx \in Slots, fd \in Fds, mask \in Masks : Modify(idx, fd, mask)
  BY <1>3, ModifyIInv
<1>4. CASE \E idx \in Slots : Remove(idx)
  BY <1>4, RemoveIInv
<1>5. CASE \E readyPos \in SUBSET (0 .. used - 1) : PollReady(readyPos)
  BY <1>5, ReturnIInv DEF PollReady
<1>6. CASE PollTimeout
  BY <1>6, ReturnIInv DEF PollTimeout
<1>7. CASE Events
  BY <1>7, EventsIInv
<1>8. CASE \/ AddFails \/ PollRefused \/ PollWait \/ PollFail \/ Interrupt \/ ZmqError
           \/ \E idx \in -1 .. size : RemoveFails(idx)
           \/ \E noTimeout \in BOOLEAN : PollCall(noTimeout)
           \/ UNCHANGED vars
  BY <1>8, OtherIInv
<1> QED
  BY <1>1, <1>2, <1>3, <1>4, <1>5, <1>6, <1>7, <1>8
     DEF Next, Client, InPoll, Environment

-----------------------------------------------------------------------------
\* The arrays keep their types: no step reads outside of them or writes a
\* position or an index that does not exist.
THEOREM TypeCorrect == Spec => []TypeOK
<1>1. Spec => []IInv
  BY InitIInv, NextIInv, PTL DEF Spec
<1> QED BY <1>1, IInvIsEnough, PTL

\* The two tables stay inverse under any sequence of adds, removes and growths.
THEOREM TablesStayInverse == Spec => []TablesInverse
<1>1. Spec => []IInv
  BY InitIInv, NextIInv, PTL DEF Spec
<1> QED BY <1>1, IInvIsEnough, PTL

\* Pigeonhole: if every index were live while a position is unused, two indexes
\* would share a position.
LEMMA FreeIndex == IInv => FreeIndexExists
<1> SUFFICES ASSUME IInv, used < size, Free = {} PROVE FALSE
  BY DEF FreeIndexExists
<1>0. SlotTables
  BY DEF IInv
<1>1. Slots = Live
  BY DEF Free, Live
<1> DEFINE taken == 0 .. used - 1
<1>2. idxToPos \in [Slots -> taken]
  <2>1. \A i \in Slots : /\ idxToPos[i] \in Slots
                         /\ idxToPos[i] < used
                         /\ posToIdx[idxToPos[i]] = i
    BY <1>0, <1>1 DEF SlotTables, TablesInverse, Live
  <2> QED BY <1>0, <2>1 DEF SlotTables, Slots
<1>3. IsFiniteSet(Slots) /\ Cardinality(Slots) = size
  BY <1>0, FS_Interval DEF SlotTables, Slots
<1>4. IsFiniteSet(taken) /\ Cardinality(taken) = used
  BY <1>0, FS_Interval DEF SlotTables
<1>5. PICK x, y \in Slots : x # y /\ idxToPos[x] = idxToPos[y]
  BY <1>2, <1>3, <1>4, FS_PigeonHole
<1> QED BY <1>0, <1>1, <1>5 DEF SlotTables, TablesInverse

\* addItem always finds an index, so it never writes past idx_to_pos_.
THEOREM AddFindsIndex == Spec => []FreeIndexExists
<1>1. Spec => []IInv
  BY InitIInv, NextIInv, PTL DEF Spec
<1> QED BY <1>1, FreeIndex, PTL
-----------------------------------------------------------------------------
\* What the map of module PollerMap is made of, named: its handles, and what
\* the next events() returns.
Reg == [i \in Live |-> [fd |-> items[idxToPos[i]].fd,
                        events |-> items[idxToPos[i]].events]]
ReadyIdx == {posToIdx[p] : p \in Reported}

\* events() speaks of registered handles only: a used position has an index,
\* and that index is live.
LEMMA ReadyIsLive == IInv => ReadyIdx \subseteq Live
<1> SUFFICES ASSUME IInv PROVE ReadyIdx \subseteq Live
  OBVIOUS
<1>1. Reported \subseteq 0 .. used - 1
  BY DEF Reported, ReadyPos
<1>2. used \in Nat
  BY DEF IInv, SlotTables
<1>3. \A p \in 0 .. used - 1 : posToIdx[p] \in Slots /\ idxToPos[posToIdx[p]] = p
  BY DEF IInv, SlotTables, TablesInverse
<1>4. \A p \in 0 .. used - 1 : p # -1
  BY <1>2
<1>5. \A p \in 0 .. used - 1 : posToIdx[p] \in Live
  BY <1>3, <1>4 DEF Live
<1> QED BY <1>1, <1>5 DEF ReadyIdx

LEMMA ReadyIsLiveNext == IInv' => (ReadyIdx \subseteq Live)'
  BY ReadyIsLive, PTL

\* With event_count_ at 0, events() returns nothing: the first item that has
\* something in revents is already one too many.
LEMMA NothingToReport == used \in Nat /\ eventCount = 0 => Reported = {}
<1> SUFFICES ASSUME used \in Nat, eventCount = 0, NEW p \in Reported PROVE FALSE
  OBVIOUS
<1> DEFINE before == {q \in ReadyPos : q <= p}
<1>1. p \in ReadyPos /\ Cardinality(before) <= 0
  BY DEF Reported
<1>2. ReadyPos \subseteq 0 .. used - 1
  BY DEF ReadyPos
<1>3. p \in before
  BY <1>1, <1>2
<1>4. IsFiniteSet(before)
  <2>1. IsFiniteSet(0 .. used - 1)
    BY FS_Interval
  <2>2. before \in SUBSET (0 .. used - 1)
    BY <1>2
  <2> QED BY <2>1, <2>2, FS_Subset
<1>5. Cardinality(before) \in Nat
  BY <1>4, FS_CardinalityType
<1>6. Cardinality(before) = 0
  BY <1>1, <1>5
<1>7. before = {}
  BY <1>4, <1>6, FS_EmptySet
<1> QED BY <1>3, <1>7

LEMMA NothingToReportNext == (used \in Nat)' /\ (eventCount = 0)' => (Reported = {})'
  BY NothingToReport, PTL

\* Module PollerMap counts as this one does.
LEMMA SameCount ==
  ASSUME NEW S
  PROVE  Map!Cardinality(S) = Cardinality(S)
BY DEF Map!Cardinality, Cardinality

\* The lowest free index is at most the number of live ones: all those below
\* it are live.
LEMMA LowestIsSmall ==
  ASSUME IInv, NEW idx \in Nat, \A j \in 0 .. idx - 1 : j \in Live
  PROVE  idx \in 0 .. Cardinality(Live)
<1>1. size \in Nat
  BY DEF IInv, SlotTables
<1>2. IsFiniteSet(Live)
  <2>1. IsFiniteSet(0 .. size - 1)
    BY <1>1, FS_Interval
  <2>2. Live \in SUBSET (0 .. size - 1)
    BY DEF Live, Slots
  <2> QED BY <2>1, <2>2, FS_Subset
<1>3. Cardinality(Live) \in Nat
  BY <1>2, FS_CardinalityType
<1>4. 0 .. idx - 1 \in SUBSET Live
  OBVIOUS
<1>5. Cardinality(0 .. idx - 1) <= Cardinality(Live)
  BY <1>2, <1>4, FS_Subset
<1>6. Cardinality(0 .. idx - 1) = idx
  <2>1. 0 \in Int /\ idx - 1 \in Int
    OBVIOUS
  <2>2. Cardinality(0 .. idx - 1) = IF 0 > idx - 1 THEN 0 ELSE idx - 1 - 0 + 1
    BY <2>1, FS_Interval
  <2> QED BY <2>2
<1> QED BY <1>3, <1>5, <1>6

\* A reported position really is the one zmq_poll filled, all of them: what
\* events() counts down from is the number of items that are ready.
LEMMA ReportedIsReady ==
  ASSUME IInv, NEW S \in SUBSET (0 .. used - 1), PollReady(S)
  PROVE  Reported' = S
<1>1. used \in Nat /\ size \in Nat /\ used <= size
  BY DEF IInv, SlotTables
<1>2. /\ items' = [p \in Slots |->
                     IF p < used THEN [items[p] EXCEPT !.revents = p \in S]
                                 ELSE items[p]]
      /\ eventCount' = Cardinality(S)
      /\ used' = used
  BY DEF PollReady, Return
<1>3. \A p \in 0 .. used - 1 : items'[p].revents = (p \in S)
  <2> TAKE p \in 0 .. used - 1
  <2>1. p \in Slots /\ p < used
    BY <1>1 DEF Slots
  <2>2. items[p] \in [fd : Fds \union {NoFd}, events : Masks \union {NoFd},
                      revents : BOOLEAN]
    BY <2>1 DEF IInv, SlotTables
  <2>3. items'[p] = [items[p] EXCEPT !.revents = p \in S]
    BY <1>2, <2>1
  <2>4. items'[p].revents = (p \in S)
    BY <2>2, <2>3, Zenon
  <2> QED BY <2>4
<1>4. ReadyPos' = S
  BY <1>2, <1>3 DEF ReadyPos
<1>5. IsFiniteSet(S)
  <2>1. IsFiniteSet(0 .. used - 1)
    BY <1>1, FS_Interval
  <2> QED BY <2>1, FS_Subset
<1>6. \A p \in S : Cardinality({q \in S : q <= p}) <= Cardinality(S)
  <2> TAKE p \in S
  <2>1. {q \in S : q <= p} \in SUBSET S
    OBVIOUS
  <2> QED BY <1>5, <2>1, FS_Subset
<1> QED BY <1>2, <1>4, <1>6 DEF Reported

-----------------------------------------------------------------------------
\* Arrays over `slots` that agree with the current ones wherever an item is in
\* use, and are free elsewhere.
Agree(its, i2p, slots) ==
  /\ i2p \in [slots -> slots \union {-1}]
  /\ DOMAIN its = slots
  /\ used \in slots
  /\ \A i \in slots : i2p[i] # -1 => i \in Live
  /\ \A i \in Live : /\ i \in slots
                     /\ i2p[i] = idxToPos[i]
                     /\ its[idxToPos[i]] = items[idxToPos[i]]

\* Both forms of addItem end in Place, on such arrays.
LEMMA PlaceIsAdd ==
  ASSUME IInv, IInv', NEW STATE its, NEW STATE i2p, NEW STATE p2i,
         NEW fd \in Fds, NEW mask \in Masks,
         Place(its, i2p, p2i, fd, mask), Agree(its, i2p, Slots'),
         UNCHANGED interrupted
  PROVE  Map!Add(fd, mask)
<1>a. i2p \in [Slots' -> Slots' \union {-1}]
  BY DEF Agree
<1>b. DOMAIN its = Slots' /\ used \in Slots'
  BY DEF Agree
<1>c. \A i \in Slots' : i2p[i] # -1 => i \in Live
  BY DEF Agree
<1>d. \A i \in Live : /\ i \in Slots'
                      /\ i2p[i] = idxToPos[i]
                      /\ its[idxToPos[i]] = items[idxToPos[i]]
  BY DEF Agree
<1>1. PICK idx :
        /\ idx \in Slots'
        /\ i2p[idx] < 0
        /\ \A j \in Slots' : j < idx => i2p[j] >= 0
        /\ items' = [its EXCEPT ![used] = Item(fd, mask, @.revents)]
        /\ idxToPos' = [i2p EXCEPT ![idx] = used]
        /\ ret' = Answer("idx", {idx})
  BY <1>a DEF Place
<1>2. PICK n \in Nat : Slots' = 0 .. n - 1
  BY DEF IInv, SlotTables, Slots
<1>3. idx \in Nat /\ idx \notin Live /\ used \in Nat
  <2>1. i2p[idx] < 0
    BY <1>1
  <2>2. idx \in Nat /\ used \in Nat
    BY <1>b, <1>1, <1>2
  <2>3. ASSUME idx \in Live PROVE FALSE
    <3>1. i2p[idx] \in Nat
      <4>1. idxToPos[idx] \in Slots
        BY <2>3 DEF Live, IInv, SlotTables
      <4>2. Slots \subseteq Nat
        BY DEF IInv, SlotTables, Slots
      <4> QED BY <1>d, <2>3, <4>1, <4>2
    <3> QED BY <2>1, <3>1
  <2> QED BY <2>2, <2>3
<1>4. \A j \in 0 .. idx - 1 : j \in Live
  <2> TAKE j \in 0 .. idx - 1
  <2>1. j \in Slots' /\ j < idx
    BY <1>1, <1>2, <1>3
  <2>2. i2p[j] >= 0
    BY <1>1, <2>1
  <2>3. i2p[j] # -1
    BY <2>2
  <2> QED BY <1>c, <2>1, <2>3
<1>5. idx \in 0 .. Cardinality(Live)
  BY <1>3, <1>4, LowestIsSmall
<1>6. Live' = Live \union {idx}
  <2>1. \A i \in Slots' : i # idx => idxToPos'[i] = i2p[i]
    BY <1>a, <1>1
  <2>2. idxToPos'[idx] = used /\ used # -1
    BY <1>a, <1>1, <1>3
  <2>3. Live' = {i \in Slots' : idxToPos'[i] # -1}
    BY DEF Live
  <2>4. \A i \in Live : idxToPos[i] # -1
    BY DEF Live
  <2>5. ASSUME NEW i \in Slots', i # idx
        PROVE  idxToPos'[i] # -1 <=> i \in Live
    BY <1>c, <1>d, <2>1, <2>4, <2>5
  <2>6. Live \subseteq Slots'
    BY <1>d
  <2> QED BY <1>1, <2>2, <2>3, <2>5, <2>6
<1>7. Reg' = [k \in Live \union {idx} |->
                IF k = idx THEN [fd |-> fd, events |-> mask] ELSE Reg[k]]
  <2>1. items'[idxToPos'[idx]].fd = fd /\ items'[idxToPos'[idx]].events = mask
    BY <1>a, <1>b, <1>1 DEF Item
  <2>2. ASSUME NEW k \in Live
        PROVE  items'[idxToPos'[k]] = items[idxToPos[k]]
    <3>1. idxToPos'[k] = idxToPos[k]
      BY <1>a, <1>d, <1>1, <1>3
    <3>2. idxToPos[k] < used /\ idxToPos[k] \in Slots'
      <4>1. idxToPos[k] < used
        BY DEF IInv, SlotTables, TablesInverse
      <4>2. idxToPos[k] # -1
        BY DEF Live
      <4> QED BY <1>a, <1>d, <4>1, <4>2
    <3>3. idxToPos[k] # used
      BY <1>3, <3>2
    <3> QED BY <1>b, <1>d, <1>1, <3>1, <3>2, <3>3
  <2>3. \A k \in Live : Reg[k] = [fd |-> items[idxToPos[k]].fd,
                                  events |-> items[idxToPos[k]].events]
    BY DEF Reg
  <2>4. Reg' = [k \in Live' |-> [fd |-> items'[idxToPos'[k]].fd,
                                 events |-> items'[idxToPos'[k]].events]]
    BY DEF Reg
  <2> QED BY <1>3, <1>6, <2>1, <2>2, <2>3, <2>4
<1>8. DOMAIN Reg = Live /\ DOMAIN Reg' = Live'
  BY DEF Reg
<1>9. ReadyIdx' \in SUBSET Live'
  BY ReadyIsLiveNext
<1>10. ret' = Map!Answer("idx", {idx}) /\ interrupted' = interrupted
  BY <1>1 DEF Answer, Map!Answer
<1>11. /\ idx \notin DOMAIN Reg
       /\ \A j \in 0 .. idx - 1 : j \in DOMAIN Reg
       /\ idx \in 0 .. Cardinality(DOMAIN Reg)
       /\ Reg' = [k \in DOMAIN Reg \union {idx} |->
                    IF k = idx THEN [fd |-> fd, events |-> mask] ELSE Reg[k]]
       /\ ReadyIdx' \in SUBSET DOMAIN Reg'
  BY <1>3, <1>4, <1>5, <1>7, <1>8, <1>9
<1>12. Map!FirstFree(idx)
  BY <1>11 DEF Map!FirstFree, Reg
<1>13. Map!Cardinality(DOMAIN Reg) = Cardinality(DOMAIN Reg)
  BY SameCount
<1> QED BY <1>10, <1>11, <1>12, <1>13 DEF Map!Add, Reg, ReadyIdx

LEMMA AddIsAdd ==
  ASSUME IInv, IInv', NEW fd \in Fds, NEW mask \in Masks, Add(fd, mask)
  PROVE  Map!Add(fd, mask)
<1>1. Slots' = Slots /\ used \in Slots
  BY DEF Add, Slots, IInv, SlotTables
<1>2. \A i \in Slots : idxToPos[i] # -1 <=> i \in Live
  BY DEF Live
<1>3. Live \subseteq Slots
  BY DEF Live
<1>4. idxToPos \in [Slots -> Slots \union {-1}] /\ DOMAIN items = Slots
  BY DEF IInv, SlotTables
<1>5. Place(items, idxToPos, posToIdx, fd, mask) /\ UNCHANGED interrupted
  BY DEF Add
<1>6. Agree(items, idxToPos, Slots')
  BY <1>1, <1>2, <1>3, <1>4 DEF Agree
<1> QED BY <1>5, <1>6, PlaceIsAdd

LEMMA AddGrowIsAdd ==
  ASSUME IInv, IInv', NEW fd \in Fds, NEW mask \in Masks, AddGrow(fd, mask)
  PROVE  Map!Add(fd, mask)
<1> DEFINE its == Grown(items, Item(NoFd, NoFd, FALSE))
           i2p == Grown(idxToPos, -1)
           p2i == Grown(posToIdx, -1)
<1>0. SlotTables
  BY DEF IInv
<1>1. used' = used + 1 /\ size' = 2 * size /\ used = size
  <2>1. used' = used + 1 /\ size' = 2 * size /\ used >= size
    BY DEF AddGrow
  <2>2. size \in Nat /\ used \in 0 .. size
    BY <1>0 DEF SlotTables
  <2> QED BY <2>1, <2>2
<1>2. /\ Slots' = 0 .. 2 * size - 1
      /\ Slots = 0 .. used - 1
      /\ Slots \subseteq Slots'
      /\ used \in Slots'
  BY <1>0, <1>1 DEF SlotTables, Slots
<1>3. DOMAIN its = Slots' /\ i2p \in [Slots' -> Slots' \union {-1}]
  BY <1>0, <1>1, <1>2 DEF SlotTables, Grown, Slots
<1>4. \A k \in Slots : i2p[k] = idxToPos[k] /\ its[k] = items[k]
  <2> TAKE k \in Slots
  <2>1. k \in 0 .. 2 * size - 1 /\ k < used
    BY <1>0, <1>2 DEF SlotTables
  <2> QED BY <2>1 DEF Grown
<1>5. \A k \in Slots' \ Slots : i2p[k] = -1
  <2> TAKE k \in Slots' \ Slots
  <2>1. k \in 0 .. 2 * size - 1 /\ ~(k < used)
    BY <1>0, <1>2 DEF SlotTables
  <2> QED BY <2>1 DEF Grown
<1>6. Place(its, i2p, p2i, fd, mask) /\ UNCHANGED interrupted
  BY DEF AddGrow
<1> HIDE DEF its, i2p, p2i
<1>7. \A i \in Slots' : i2p[i] # -1 => i \in Live
  BY <1>2, <1>4, <1>5 DEF Live
<1>8. \A i \in Live : i \in Slots /\ idxToPos[i] \in Slots
  BY <1>0 DEF SlotTables, Live
<1>9. \A i \in Live : /\ i \in Slots'
                      /\ i2p[i] = idxToPos[i]
                      /\ its[idxToPos[i]] = items[idxToPos[i]]
  BY <1>2, <1>4, <1>8
<1>10. Agree(its, i2p, Slots')
  BY <1>2, <1>3, <1>7, <1>9 DEF Agree
<1> QED BY <1>6, <1>10, PlaceIsAdd

\* modify changes one item; no other index leads to its position.
LEMMA ModifyIsModify ==
  ASSUME IInv, IInv', NEW idx \in Slots, NEW fd \in Fds, NEW mask \in Masks,
         Modify(idx, fd, mask)
  PROVE  idx \in Live /\ Map!Modify(idx, fd, mask)
<1>1. /\ idx \in Live
      /\ items' = [items EXCEPT ![idxToPos[idx]] = Item(fd, mask, @.revents)]
      /\ UNCHANGED <<idxToPos, size, interrupted>>
      /\ ret' = Answer("none", {})
  BY DEF Modify
<1>2. Slots' = Slots /\ Live' = Live
  BY <1>1 DEF Slots, Live
<1>3. \A k \in Live : /\ idxToPos[k] \in Slots
                      /\ posToIdx[idxToPos[k]] = k
  BY DEF IInv, SlotTables, TablesInverse, Live
<1>4. DOMAIN items = Slots
  BY DEF IInv, SlotTables
<1>5. items'[idxToPos[idx]].fd = fd /\ items'[idxToPos[idx]].events = mask
  BY <1>1, <1>3, <1>4 DEF Item
<1>6. \A k \in Live : k # idx => items'[idxToPos[k]] = items[idxToPos[k]]
  BY <1>1, <1>3, <1>4
<1>7. Reg' = [Reg EXCEPT ![idx] = [fd |-> fd, events |-> mask]]
  <2>1. Reg' = [k \in Live |-> [fd |-> items'[idxToPos[k]].fd,
                                events |-> items'[idxToPos[k]].events]]
    BY <1>1, <1>2 DEF Reg
  <2> QED BY <1>1, <1>5, <1>6, <2>1 DEF Reg
<1>8. DOMAIN Reg = Live /\ DOMAIN Reg' = Live'
  BY DEF Reg
<1>9. ReadyIdx' \in SUBSET Live'
  BY ReadyIsLiveNext
<1> QED BY <1>1, <1>7, <1>8, <1>9 DEF Map!Modify, Map!Answer, Answer, Reg, ReadyIdx

\* remove moves an item, but the index of the moved item still leads to it.
LEMMA RemoveIsRemove ==
  ASSUME IInv, IInv', NEW idx \in Slots, Remove(idx)
  PROVE  idx \in Live /\ Map!Remove(idx)
<1> DEFINE pos == idxToPos[idx]
           lastPos == used - 1
           lastIdx == posToIdx[lastPos]
<1>0. SlotTables
  BY DEF IInv
<1>1. /\ idx \in Live
      /\ UNCHANGED <<size, interrupted>>
      /\ ret' = Answer("none", {})
      /\ Slots' = Slots
  BY DEF Remove, Slots
<1>2. /\ pos \in 0 .. used - 1
      /\ posToIdx[pos] = idx
      /\ lastPos \in 0 .. used - 1
      /\ lastPos \in Slots
      /\ pos \in Slots
      /\ pos # -1
      /\ lastIdx \in Slots
      /\ idxToPos[lastIdx] = lastPos
      /\ lastPos # -1
  BY <1>0 DEF Remove, SlotTables, TablesInverse, Live, Slots
<1>3. idxToPos \in [Slots -> Slots \union {-1}] /\ DOMAIN items = Slots
  BY <1>0 DEF SlotTables
<1>4. \A k \in Live : k \in Slots /\ idxToPos[k] \in Slots /\ posToIdx[idxToPos[k]] = k
  BY <1>0 DEF SlotTables, TablesInverse, Live
<1>5. Live' = Live \ {idx} /\ \A k \in Live' : items'[idxToPos'[k]] = items[idxToPos[k]]
  <2>1. CASE pos = lastPos
    <3>1. /\ idxToPos' = [idxToPos EXCEPT ![idx] = -1]
          /\ UNCHANGED items
      BY <2>1 DEF Remove
    <3> QED BY <1>1, <1>3, <3>1 DEF Live
  <2>2. CASE pos # lastPos
    <3>1. /\ idxToPos' = [idxToPos EXCEPT ![idx] = -1, ![lastIdx] = pos]
          /\ items' = [items EXCEPT ![pos] = items[lastPos]]
      BY <2>2 DEF Remove
    <3>2. lastIdx # idx /\ lastIdx \in Live
      BY <1>2, <2>2 DEF Live
    <3>3. /\ idxToPos'[idx] = -1
          /\ idxToPos'[lastIdx] = pos
          /\ \A k \in Slots : k # idx /\ k # lastIdx => idxToPos'[k] = idxToPos[k]
      BY <1>2, <1>3, <3>1, <3>2
    <3>4. Live' = Live \ {idx}
      <4> HIDE DEF pos, lastPos, lastIdx
      <4> QED BY <1>1, <1>2, <3>2, <3>3 DEF Live
    <3>5. ASSUME NEW k \in Live, k # idx
          PROVE  items'[idxToPos'[k]] = items[idxToPos[k]]
      <4>1. CASE k = lastIdx
        BY <1>2, <1>3, <3>1, <3>3, <4>1
      <4>2. CASE k # lastIdx
        <5>1. idxToPos'[k] = idxToPos[k] /\ idxToPos[k] # pos
          BY <1>2, <1>4, <3>3, <3>5, <4>2
        <5> QED BY <1>3, <1>4, <3>1, <5>1
      <4> QED BY <4>1, <4>2
    <3> QED BY <3>4, <3>5
  <2> QED BY <2>1, <2>2
<1> HIDE DEF pos, lastPos, lastIdx
<1>6. Reg' = [k \in Live \ {idx} |-> Reg[k]]
  <2>1. Reg' = [k \in Live' |-> [fd |-> items'[idxToPos'[k]].fd,
                                 events |-> items'[idxToPos'[k]].events]]
    BY DEF Reg
  <2>2. \A k \in Live : Reg[k] = [fd |-> items[idxToPos[k]].fd,
                                  events |-> items[idxToPos[k]].events]
    BY DEF Reg
  <2> QED BY <1>5, <2>1, <2>2
<1>7. DOMAIN Reg = Live /\ DOMAIN Reg' = Live'
  BY DEF Reg
<1>8. ReadyIdx' \in SUBSET Live'
  BY ReadyIsLiveNext
<1> QED BY <1>1, <1>6, <1>7, <1>8 DEF Map!Remove, Map!Answer, Answer, Reg, ReadyIdx

\* zmq_poll returns: only revents and event_count_ change.
LEMMA ReturnIsPollTrue ==
  ASSUME IInv, IInv', NEW S \in SUBSET (0 .. used - 1), Return(S)
  PROVE  Map!PollTrue
<1>1. /\ items' = [p \in Slots |->
                     IF p < used THEN [items[p] EXCEPT !.revents = p \in S]
                                 ELSE items[p]]
      /\ UNCHANGED <<size, idxToPos, posToIdx, used, interrupted>>
      /\ ret' = Answer("true", {})
  BY DEF Return
<1>2. Slots' = Slots /\ Live' = Live
  BY <1>1 DEF Slots, Live
<1>3. \A k \in Live : idxToPos[k] \in Slots
  BY DEF IInv, SlotTables, Live
<1>4. ASSUME NEW p \in Slots
      PROVE  items'[p].fd = items[p].fd /\ items'[p].events = items[p].events
  <2>1. items[p] \in [fd : Fds \union {NoFd}, events : Masks \union {NoFd},
                      revents : BOOLEAN]
    BY DEF IInv, SlotTables
  <2>2. CASE p < used
    <3>1. items'[p] = [items[p] EXCEPT !.revents = p \in S]
      BY <1>1, <2>2
    <3>2. items'[p].fd = items[p].fd
      BY <2>1, <3>1, Zenon
    <3>3. items'[p].events = items[p].events
      BY <2>1, <3>1, Zenon
    <3> QED BY <3>2, <3>3
  <2>3. CASE ~(p < used)
    BY <1>1, <2>3
  <2> QED BY <2>2, <2>3
<1>5. Reg' = Reg
  <2>1. Reg' = [k \in Live |-> [fd |-> items'[idxToPos[k]].fd,
                                events |-> items'[idxToPos[k]].events]]
    BY <1>1, <1>2 DEF Reg
  <2> QED BY <1>3, <1>4, <2>1 DEF Reg
<1>6. DOMAIN Reg = Live
  BY DEF Reg
<1>7. ReadyIdx' \in SUBSET Live
  BY <1>2, ReadyIsLiveNext
<1> QED BY <1>1, <1>5, <1>6, <1>7 DEF Map!PollTrue, Map!Answer, Answer, Reg, ReadyIdx

\* A step that leaves the tables alone leaves every handle as it was.
LEMMA SameReg ==
  ASSUME UNCHANGED tables
  PROVE  Reg' = Reg /\ (eventCount' = eventCount => ReadyIdx' = ReadyIdx)
BY DEF tables, Reg, Live, Slots, ReadyIdx, Reported, ReadyPos
\* A fresh poller is the empty map.
LEMMA InitIsInit ==
  ASSUME Init
  PROVE  Map!Init
<1>1. size \in Nat \ {0}
  BY PollerAssumption DEF Init
<1>2. Live = {}
  BY DEF Init, Live
<1>3. Reg = <<>>
  BY <1>2 DEF Reg
<1>4. ReadyIdx = {}
  <2>1. used \in Nat /\ eventCount = 0
    BY DEF Init
  <2> QED BY <2>1, NothingToReport DEF ReadyIdx
<1>5. interrupted = FALSE /\ ret = Map!Answer("none", {})
  BY DEF Init, Answer, Map!Answer
<1> QED BY <1>3, <1>4, <1>5 DEF Map!Init, Reg, ReadyIdx

\* A call that is refused leaves the map alone.
LEMMA RefusalIsRefuse ==
  ASSUME AddFails \/ \E idx \in -1 .. size : RemoveFails(idx)
  PROVE  Map!Refuse
<1>1. UNCHANGED tables /\ eventCount' = eventCount /\ interrupted' = interrupted
  BY DEF AddFails, RemoveFails
<1>2. ret' = Map!Answer("error", {})
  BY DEF AddFails, RemoveFails, Answer, Map!Answer
<1>3. Reg' = Reg /\ ReadyIdx' = ReadyIdx
  BY <1>1, SameReg
<1> QED BY <1>1, <1>2, <1>3 DEF Map!Refuse, Reg, ReadyIdx

\* poll after an interruption.
LEMMA RefusedIsPollFalse ==
  ASSUME PollRefused
  PROVE  Map!PollFalse
<1>1. /\ UNCHANGED tables
      /\ eventCount' = eventCount
      /\ interrupted
      /\ interrupted' = interrupted
  BY DEF PollRefused
<1>2. ret' = Map!Answer("false", {})
  BY DEF PollRefused, Answer, Map!Answer
<1>3. Reg' = Reg /\ ReadyIdx' = ReadyIdx
  BY <1>1, SameReg
<1> QED BY <1>1, <1>2, <1>3 DEF Map!PollFalse, Reg, ReadyIdx

\* A zmq_poll that fails is a poll interrupted, or an error: in both cases the
\* next events() returns nothing.
LEMMA FailureIsAnAnswer ==
  ASSUME IInv', PollFail
  PROVE  Map!PollFalse \/ Map!Refuse
<1>1. UNCHANGED tables /\ interrupted' = interrupted /\ eventCount' = 0
  BY DEF PollFail
<1>2. Reg' = Reg
  BY <1>1, SameReg
<1>3. ReadyIdx' = {}
  <2>1. used' \in Nat
    BY DEF IInv, SlotTables
  <2>2. Reported' = {}
    BY <1>1, <2>1, NothingToReportNext
  <2> QED BY <2>2 DEF ReadyIdx
<1>4. CASE interrupted
  <2>1. ret' = Map!Answer("false", {})
    BY <1>4 DEF PollFail, Answer, Map!Answer
  <2> QED BY <1>1, <1>2, <1>3, <1>4, <2>1 DEF Map!PollFalse, Reg, ReadyIdx
<1>5. CASE ~interrupted
  <2>1. ret' = Map!Answer("error", {})
    BY <1>5 DEF PollFail, Answer, Map!Answer
  <2> QED BY <1>1, <1>2, <1>3, <2>1 DEF Map!Refuse, Reg, ReadyIdx
<1> QED BY <1>4, <1>5

\* events() answers once: it sets event_count_ to 0.
LEMMA EventsIsEvents ==
  ASSUME IInv', Events
  PROVE  Map!Events
<1>1. UNCHANGED tables /\ interrupted' = interrupted /\ eventCount' = 0
  BY DEF Events
<1>2. Reg' = Reg
  BY <1>1, SameReg
<1>3. ReadyIdx' = {}
  <2>1. used' \in Nat
    BY DEF IInv, SlotTables
  <2>2. Reported' = {}
    BY <1>1, <2>1, NothingToReportNext
  <2> QED BY <2>2 DEF ReadyIdx
<1>4. ret' = Map!Answer("events", ReadyIdx)
  BY DEF Events, ReadyIdx, Answer, Map!Answer
<1> QED BY <1>1, <1>2, <1>3, <1>4 DEF Map!Events, Reg, ReadyIdx

\* The steps of poll() before zmq_poll returns are invisible; a signal shows.
LEMMA QuietSteps ==
  ASSUME \/ \E noTimeout \in BOOLEAN : PollCall(noTimeout)
         \/ PollWait \/ ZmqError \/ Interrupt \/ UNCHANGED vars
  PROVE  Map!Interrupt \/ UNCHANGED Map!vars
<1>1. UNCHANGED tables /\ eventCount' = eventCount /\ ret' = ret
  BY DEF PollCall, PollWait, ZmqError, Interrupt, vars, tables
<1>2. Reg' = Reg /\ ReadyIdx' = ReadyIdx
  BY <1>1, SameReg
<1>3. (~interrupted /\ interrupted' = TRUE) \/ interrupted' = interrupted
  BY DEF PollCall, PollWait, ZmqError, Interrupt, vars
<1> QED BY <1>1, <1>2, <1>3 DEF Map!Interrupt, Map!vars, Reg, ReadyIdx

\* Every step of the arrays is a step of the map, or invisible.
LEMMA NextIsNext ==
  ASSUME IInv, IInv', [Next]_vars
  PROVE  [Map!Next]_Map!vars
<1>0. used \in Nat
  BY DEF IInv, SlotTables
<1>1. CASE \E fd \in Fds, mask \in Masks : Add(fd, mask) \/ AddGrow(fd, mask)
  BY <1>1, AddIsAdd, AddGrowIsAdd DEF Map!Next
<1>2. CASE \E idx \in Slots, fd \in Fds, mask \in Masks : Modify(idx, fd, mask)
  <2>1. PICK idx \in Slots, fd \in Fds, mask \in Masks : Modify(idx, fd, mask)
    BY <1>2
  <2>2. idx \in Live /\ Map!Modify(idx, fd, mask)
    BY <2>1, ModifyIsModify
  <2> QED BY <2>2 DEF Map!Next
<1>3. CASE \E idx \in Slots : Remove(idx)
  <2>1. PICK idx \in Slots : Remove(idx)
    BY <1>3
  <2>2. idx \in Live /\ Map!Remove(idx)
    BY <2>1, RemoveIsRemove
  <2> QED BY <2>2 DEF Map!Next
<1>4. CASE \E readyPos \in SUBSET (0 .. used - 1) : PollReady(readyPos)
  BY <1>4, ReturnIsPollTrue DEF PollReady, Map!Next
<1>5. CASE PollTimeout
  BY <1>5, ReturnIsPollTrue DEF PollTimeout, Map!Next
<1>6. CASE AddFails \/ \E idx \in -1 .. size : RemoveFails(idx)
  BY <1>6, RefusalIsRefuse DEF Map!Next
<1>7. CASE PollRefused
  BY <1>7, RefusedIsPollFalse DEF Map!Next
<1>8. CASE PollFail
  BY <1>8, FailureIsAnAnswer DEF Map!Next
<1>9. CASE Events
  BY <1>9, EventsIsEvents DEF Map!Next
<1>10. CASE \/ \E noTimeout \in BOOLEAN : PollCall(noTimeout)
            \/ PollWait \/ ZmqError \/ Interrupt \/ UNCHANGED vars
  BY <1>10, QuietSteps DEF Map!Next
<1> QED
  BY <1>1, <1>2, <1>3, <1>4, <1>5, <1>6, <1>7, <1>8, <1>9, <1>10
     DEF Next, Client, InPoll, Environment

\* The poller implements the map its client relies on: a handle keeps its item
\* until it is removed, a new one is the lowest free, events() returns what the
\* last poll found, whatever compaction and growth did to the positions.
THEOREM PollerIsMap == Spec => ImplementsMap
<1>1. Spec => []IInv
  BY InitIInv, NextIInv, PTL DEF Spec
<1>2. Init => Map!Init
  BY InitIsInit
<1>3. IInv /\ IInv' /\ [Next]_vars => [Map!Next]_Map!vars
  BY NextIsNext
<1> QED BY <1>1, <1>2, <1>3, PTL DEF Spec, ImplementsMap, Map!Spec

\* Right after zmq_poll found some items ready, events() would return exactly
\* them (poller.cpp 163-179). What it returns after a later add or remove is not
\* the matter here: an item added at a position with old revents is returned too.
THEOREM EventsReportReady == Spec => EventsExact
<1>1. Spec => []IInv
  BY InitIInv, NextIInv, PTL DEF Spec
<1>2. IInv /\ [Next]_vars
        => [\A S \in SUBSET (0 .. used - 1) : PollReady(S) => Reported' = S]_vars
  BY ReportedIsReady
<1> QED BY <1>1, <1>2, PTL DEF Spec, EventsExact
=============================================================================
