--------------------------- MODULE SchedulerProofs ---------------------------
(***************************************************************************)
(* Proofs about module Scheduler, for any finite set of threads, any set   *)
(* of descriptors, any choice of what may be killed and of what may go     *)
(* wrong.                                                                  *)
(*                                                                         *)
(* The invariant IInv is the conjunction of four parts, one per group of   *)
(* variables; an action preserves each part by itself, except that the     *)
(* thread taken from a queue must be known to be a thread.  The part about *)
(* descriptors is FdTables with its types and the finiteness of the        *)
(* poller, without which its number of handles means nothing.              *)
(*                                                                         *)
(* Four more are relative to IInv: QInv, which places every thread that    *)
(* joined another one (it is in one place of one table and nowhere else),  *)
(* without which the end of a thread might queue another one twice;        *)
(* DatePart, the order of the list with the entries that kill has changed; *)
(* EventPart, the handles that poll() reported and that are to be served;  *)
(* HeldInv, by which a thread that is nowhere waits for one that will end. *)
(***************************************************************************)
EXTENDS Scheduler, FiniteSetTheorems, TLAPS

ThreadPart ==
  /\ obj \in [Threads -> {"unborn", "live", "gone"}]
  /\ ref \in [Threads -> BOOLEAN]
  /\ co \in [Threads -> BOOLEAN]
  /\ joins \in [Threads -> Seq(Threads \union {NoThread})]
  /\ joining \in [Threads -> Threads \union {NoThread}]

QueuePart ==
  /\ at \in [Threads -> Dates \union {None}]
  /\ atList \in Seq(Threads)
  /\ nowList \in Seq(Threads)

FdPart ==
  /\ fd \in [Threads -> Fds \union {NoFd}]
  /\ idx \in [Threads -> Nat \union {None}]
  /\ fdCount \in Nat
  /\ DOMAIN idxToThread \subseteq Nat /\ Elems(idxToThread) \subseteq Threads
  /\ DOMAIN poller \subseteq Nat /\ Elems(poller) \subseteq Fds
  /\ IsFiniteSet(DOMAIN poller)
  /\ FdTables

LoopPart ==
  /\ shouldRun \in BOOLEAN
  /\ pc \in {"loop", "now", "poll", "events", "stopped", "crashed"}
  /\ evList \in Seq(Nat)
  /\ cur \in Threads \union {NoThread}
  /\ clock \in 0 .. MaxTime

IInv == ThreadPart /\ QueuePart /\ FdPart /\ LoopPart

\* The inductive invariant implies the two that TLC checks.
LEMMA IInvIsEnough == IInv => TypeOK /\ FdTables
  BY DEF IInv, ThreadPart, QueuePart, FdPart, LoopPart, TypeOK

-----------------------------------------------------------------------------
(* Operators on sequences and dates *)

\* A set of positions closed downwards is an initial segment.
LEMMA InitialSegment ==
  ASSUME NEW L \in Nat, NEW S \in SUBSET (1 .. L),
         \A x \in S : \A y \in 1 .. x : y \in S
  PROVE  Cardinality(S) \in 0 .. L /\ S = 1 .. Cardinality(S)
<1> DEFINE n == Cardinality(S)
<1>1. IsFiniteSet(1 .. L) /\ Cardinality(1 .. L) = L
  BY FS_Interval
<1>2. IsFiniteSet(S) /\ n \in Nat /\ n <= L
  BY <1>1, FS_Subset, FS_CardinalityType
<1>3. S \subseteq 1 .. n
  <2> SUFFICES ASSUME NEW x \in S, x > n PROVE FALSE
    BY <1>2
  <2>1. x \in Nat /\ 1 .. x \subseteq S
    OBVIOUS
  <2>2. Cardinality(1 .. x) = x
    BY <2>1, FS_Interval
  <2>3. Cardinality(1 .. x) <= n
    BY <1>2, <2>1, FS_Subset
  <2> QED BY <1>2, <2>1, <2>2, <2>3
<1>4. IsFiniteSet(1 .. n) /\ Cardinality(1 .. n) = n
  BY <1>2, FS_Interval
<1>5. S = 1 .. n
  BY <1>3, <1>4, FS_Subset
<1> QED BY <1>2, <1>5

\* Dates has a first element.
LEMMA ZeroIsDate == 0 \in Dates
  BY SchedulerAssumption DEF Dates

\* scheduleAt keeps the list a list of threads and the dates dates.
LEMMA ScheduleAtType ==
  ASSUME at \in [Threads -> Dates \union {None}], atList \in Seq(Threads),
         NEW date \in Dates, NEW ws \in Seq(Threads), ScheduleAt(date, ws)
  PROVE  at' \in [Threads -> Dates \union {None}] /\ atList' \in Seq(Threads)
<1> DEFINE earlier == {i \in DOMAIN atList : \A j \in 1 .. i : at[atList[j]] <= date}
           n == Cardinality(earlier)
<1>1. n \in 0 .. Len(atList)
  <2>1. DOMAIN atList = 1 .. Len(atList) /\ Len(atList) \in Nat
    OBVIOUS
  <2>2. earlier \in SUBSET (1 .. Len(atList))
    BY <2>1
  <2>3. \A x \in earlier : \A y \in 1 .. x : y \in earlier
    BY <2>1
  <2> HIDE DEF earlier
  <2> QED BY <2>1, <2>2, <2>3, InitialSegment
<1>2. atList' = SubSeq(atList, 1, n) \o ws \o SubSeq(atList, n + 1, Len(atList))
  BY DEF ScheduleAt
<1>3. at' = [t \in Threads |-> IF t \in Elems(ws) THEN date ELSE at[t]]
  BY DEF ScheduleAt
<1> HIDE DEF n
<1>4. SubSeq(atList, 1, n) \in Seq(Threads)
      /\ SubSeq(atList, n + 1, Len(atList)) \in Seq(Threads)
  BY <1>1
<1> QED BY <1>2, <1>3, <1>4

\* The threads to resume are threads, those at the beginning of the table: ipairs
\* has stopped before the first hole.
LEMMA JoinedType ==
  ASSUME ThreadPart, NEW t \in Threads
  PROVE  /\ Joined(t) \in Seq(Threads)
         /\ \A i \in DOMAIN Joined(t) :
              /\ i \in DOMAIN joins[t]
              /\ Joined(t)[i] = joins[t][i]
              /\ joins[t][i] # NoThread
<1> DEFINE s == joins[t]
           filled == {i \in DOMAIN s : \A j \in 1 .. i : s[j] # NoThread}
           n == Cardinality(filled)
<1>1. s \in Seq(Threads \union {NoThread})
  BY DEF ThreadPart
<1>2. Len(s) \in Nat /\ DOMAIN s = 1 .. Len(s)
  BY <1>1
<1>3. n \in 0 .. Len(s) /\ filled = 1 .. n
  <2>1. filled \in SUBSET (1 .. Len(s))
    BY <1>2
  <2>2. \A x \in filled : \A y \in 1 .. x : y \in filled
    BY <1>2
  <2> HIDE DEF filled
  <2> QED BY <1>2, <2>1, <2>2, InitialSegment
<1>4. \A i \in 1 .. n : s[i] \in Threads
  <2> SUFFICES ASSUME NEW i \in 1 .. n PROVE s[i] \in Threads
    OBVIOUS
  <2>1. i \in DOMAIN s /\ s[i] # NoThread
    BY <1>3
  <2> QED BY <1>1, <2>1
<1>5. Joined(t) = SubSeq(s, 1, n)
  BY DEF Joined
<1> HIDE DEF n, s
<1>6. Len(SubSeq(s, 1, n)) = n /\ \A i \in 1 .. n : SubSeq(s, 1, n)[i] = s[i]
  BY <1>1, <1>3
<1>7. SubSeq(s, 1, n) \in Seq(Threads \union {NoThread})
  BY <1>1, <1>3
<1>8. \A i \in 1 .. n : i \in DOMAIN s /\ s[i] # NoThread
  BY <1>2, <1>3, <1>4, SchedulerAssumption
<1> HIDE DEF s
<1>9. SubSeq(s, 1, n) \in Seq(Threads) /\ DOMAIN SubSeq(s, 1, n) = 1 .. n
  BY <1>3, <1>4, <1>6, <1>7
<1> QED BY <1>5, <1>6, <1>8, <1>9 DEF s

\* Thread:finalize keeps the types of the list of dates.
LEMMA FinalizeType ==
  ASSUME ThreadPart, at \in [Threads -> Dates \union {None}], atList \in Seq(Threads),
         NEW t \in Threads, Finalize(t)
  PROVE  at' \in [Threads -> Dates \union {None}] /\ atList' \in Seq(Threads)
  BY JoinedType, ScheduleAtType, ZeroIsDate DEF Finalize, atVars

-----------------------------------------------------------------------------
(* The table of descriptors *)

\* removeFd frees the handle of t everywhere, or does nothing.
LEMMA RemoveFdPart ==
  ASSUME FdPart, NEW t \in Threads, RemoveFd(t)
  PROVE  FdPart'
<1>1. CASE fd[t] = NoFd
  BY <1>1 DEF RemoveFd, fdVars, FdPart, FdTables, Elems
<1>2. CASE fd[t] # NoFd
  <2> DEFINE i == idx[t]
  <2>1. /\ poller' = Without(poller, i)
        /\ idxToThread' = Without(idxToThread, i)
        /\ fd' = [fd EXCEPT ![t] = NoFd]
        /\ idx' = [idx EXCEPT ![t] = None]
        /\ fdCount' = fdCount - 1
    BY <1>2 DEF RemoveFd
  <2>2. i \in DOMAIN poller /\ i \in DOMAIN idxToThread /\ idxToThread[i] = t
    BY <1>2 DEF FdPart, FdTables
  <2>3. /\ DOMAIN poller' = DOMAIN poller \ {i}
        /\ DOMAIN idxToThread' = DOMAIN idxToThread \ {i}
        /\ \A k \in DOMAIN poller \ {i} : poller'[k] = poller[k]
        /\ \A k \in DOMAIN idxToThread \ {i} : idxToThread'[k] = idxToThread[k]
    BY <2>1 DEF Without
  <2>4. /\ IsFiniteSet(DOMAIN poller')
        /\ Cardinality(DOMAIN poller') = Cardinality(DOMAIN poller) - 1
        /\ Cardinality(DOMAIN poller') \in Nat
    BY <2>2, <2>3, FS_RemoveElement, FS_CardinalityType DEF FdPart
  <2>5. fdCount' = Cardinality(DOMAIN poller') /\ fdCount' \in Nat
    BY <2>1, <2>4 DEF FdPart, FdTables
  <2>6. /\ fd' \in [Threads -> Fds \union {NoFd}]
        /\ idx' \in [Threads -> Nat \union {None}]
        /\ fd'[t] = NoFd /\ idx'[t] = None
        /\ \A u \in Threads \ {t} : fd'[u] = fd[u] /\ idx'[u] = idx[u]
    BY <2>1 DEF FdPart
  <2>7. /\ DOMAIN idxToThread' \subseteq Nat /\ Elems(idxToThread') \subseteq Threads
        /\ DOMAIN poller' \subseteq Nat /\ Elems(poller') \subseteq Fds
    BY <2>3 DEF FdPart, Elems
  <2>8. \A u \in Threads : fd'[u] = NoFd <=> idx'[u] = None
    BY <2>6 DEF FdPart, FdTables
  <2>9. ASSUME NEW u \in Threads, fd'[u] # NoFd
        PROVE  idx'[u] \in DOMAIN poller' /\ idxToThread'[idx'[u]] = u
    <3>1. u # t /\ fd[u] # NoFd /\ idx'[u] = idx[u]
      BY <2>6, <2>9
    <3>2. idx[u] \in DOMAIN poller /\ idx[u] \in DOMAIN idxToThread
          /\ idxToThread[idx[u]] = u
      BY <3>1 DEF FdPart, FdTables
    <3>3. idx[u] # i
      BY <2>2, <3>1, <3>2
    <3> QED BY <2>3, <3>1, <3>2, <3>3
  <2>10. ASSUME NEW k \in DOMAIN idxToThread'
         PROVE  idx'[idxToThread'[k]] = k
    <3>1. k \in DOMAIN idxToThread /\ k # i /\ idxToThread'[k] = idxToThread[k]
      BY <2>3
    <3>2. idxToThread[k] \in Threads /\ idx[idxToThread[k]] = k
      BY <3>1 DEF FdPart, FdTables, Elems
    <3>3. idxToThread[k] # t
      BY <3>1, <3>2
    <3> QED BY <2>6, <3>1, <3>2, <3>3
  <2>11. DOMAIN idxToThread' = DOMAIN poller'
    BY <2>3 DEF FdPart, FdTables
  <2> HIDE DEF i
  <2>12. FdTables'
    BY <2>5, <2>8, <2>9, <2>10, <2>11 DEF FdTables
  <2> QED BY <2>4, <2>5, <2>6, <2>7, <2>12 DEF FdPart
<1> QED BY <1>1, <1>2

\* poller:add gives t a handle that nobody has.
LEMMA AddFdPart ==
  ASSUME FdPart, NEW t \in Threads, NEW f \in Fds, fd[t] = NoFd, AddFd(t, f)
  PROVE  FdPart'
<1>1. Cardinality(DOMAIN poller) \in Nat
  BY FS_CardinalityType DEF FdPart
<1>2. PICK i \in 0 .. Cardinality(DOMAIN poller) :
        /\ i \notin DOMAIN poller
        /\ poller' = [k \in DOMAIN poller \union {i} |-> IF k = i THEN f ELSE poller[k]]
        /\ idxToThread' = [k \in DOMAIN idxToThread \union {i} |->
                             IF k = i THEN t ELSE idxToThread[k]]
        /\ fd' = [fd EXCEPT ![t] = f]
        /\ idx' = [idx EXCEPT ![t] = i]
        /\ fdCount' = fdCount + 1
  BY DEF AddFd
<1>3. i \in Nat /\ i # None
  BY <1>1 DEF None
<1>4. /\ DOMAIN poller' = DOMAIN poller \union {i}
      /\ DOMAIN idxToThread' = DOMAIN idxToThread \union {i}
      /\ poller'[i] = f /\ idxToThread'[i] = t
      /\ \A k \in DOMAIN poller : poller'[k] = poller[k]
      /\ \A k \in DOMAIN idxToThread \ {i} : idxToThread'[k] = idxToThread[k]
  BY <1>2
<1>5. DOMAIN idxToThread = DOMAIN poller
  BY DEF FdPart, FdTables
<1>6. /\ IsFiniteSet(DOMAIN poller')
      /\ Cardinality(DOMAIN poller') = Cardinality(DOMAIN poller) + 1
  BY <1>2, <1>4, FS_AddElement DEF FdPart
<1>7. fdCount' = Cardinality(DOMAIN poller') /\ fdCount' \in Nat
  BY <1>2, <1>6 DEF FdPart, FdTables
<1>8. /\ fd' \in [Threads -> Fds \union {NoFd}]
      /\ idx' \in [Threads -> Nat \union {None}]
      /\ fd'[t] = f /\ idx'[t] = i
      /\ \A u \in Threads \ {t} : fd'[u] = fd[u] /\ idx'[u] = idx[u]
  BY <1>2, <1>3 DEF FdPart
<1>9. /\ DOMAIN idxToThread' \subseteq Nat /\ Elems(idxToThread') \subseteq Threads
      /\ DOMAIN poller' \subseteq Nat /\ Elems(poller') \subseteq Fds
  BY <1>3, <1>4, <1>5 DEF FdPart, Elems
<1>10. \A u \in Threads : fd'[u] = NoFd <=> idx'[u] = None
  BY <1>3, <1>8, SchedulerAssumption DEF FdPart, FdTables
<1>11. ASSUME NEW u \in Threads, fd'[u] # NoFd
       PROVE  idx'[u] \in DOMAIN poller' /\ idxToThread'[idx'[u]] = u
  <2>1. CASE u = t
    BY <1>4, <1>8, <2>1
  <2>2. CASE u # t
    <3>1. fd[u] # NoFd /\ idx'[u] = idx[u]
      BY <1>8, <1>11, <2>2
    <3>2. idx[u] \in DOMAIN poller /\ idxToThread[idx[u]] = u
      BY <3>1 DEF FdPart, FdTables
    <3>3. idx[u] # i
      BY <1>2, <3>2
    <3> QED BY <1>4, <1>5, <3>1, <3>2, <3>3
  <2> QED BY <2>1, <2>2
<1>12. ASSUME NEW k \in DOMAIN idxToThread'
       PROVE  idx'[idxToThread'[k]] = k
  <2>1. CASE k = i
    BY <1>4, <1>8, <2>1
  <2>2. CASE k # i
    <3>1. k \in DOMAIN idxToThread /\ idxToThread'[k] = idxToThread[k]
      BY <1>4, <2>2
    <3>2. idxToThread[k] \in Threads /\ idx[idxToThread[k]] = k
      BY <3>1 DEF FdPart, FdTables, Elems
    <3>3. idxToThread[k] # t
      <4>1. idx[t] = None
        BY DEF FdPart, FdTables
      <4>2. k \in Nat
        BY <3>1 DEF FdPart
      <4> QED BY <3>2, <4>1, <4>2 DEF None
    <3> QED BY <1>8, <3>1, <3>2, <3>3
  <2> QED BY <2>1, <2>2
<1>13. DOMAIN idxToThread' = DOMAIN poller'
  BY <1>4, <1>5
<1>14. FdTables'
  BY <1>7, <1>10, <1>11, <1>12, <1>13 DEF FdTables
<1> QED BY <1>6, <1>7, <1>8, <1>9, <1>14 DEF FdPart

\* poller:modify changes what a handle polls and nothing else.
LEMMA ModifyFdPart ==
  ASSUME FdPart, NEW t \in Threads, NEW f \in Fds, fd[t] # NoFd, ModifyFd(t, f)
  PROVE  FdPart'
<1>1. UNCHANGED <<fd, idx, fdCount, idxToThread>>
  BY DEF ModifyFd
<1>2. DOMAIN poller' = DOMAIN poller
  BY DEF ModifyFd
<1>3. Elems(poller') \subseteq Fds
  BY DEF ModifyFd, FdPart, Elems
<1>4. FdTables'
  BY <1>1, <1>2 DEF FdPart, FdTables
<1> QED BY <1>1, <1>2, <1>3, <1>4 DEF FdPart

\* Nothing about descriptors changes.
LEMMA SameFdPart ==
  ASSUME FdPart, UNCHANGED fdVars
  PROVE  FdPart'
  BY DEF FdPart, FdTables, fdVars, Elems

-----------------------------------------------------------------------------
(* The steps *)

\* A new scheduler, with nothing but its main thread queued.
LEMMA InitIInv == Init => IInv
<1> SUFFICES ASSUME Init PROVE IInv
  OBVIOUS
<1>1. ThreadPart
  BY SchedulerAssumption DEF Init, ThreadPart
<1>2. QueuePart
  BY SchedulerAssumption, ZeroIsDate DEF Init, QueuePart
<1>3. FdPart
  <2>1. DOMAIN poller = {} /\ DOMAIN idxToThread = {}
    BY DEF Init
  <2>2. IsFiniteSet(DOMAIN poller) /\ Cardinality(DOMAIN poller) = 0
    BY <2>1, FS_EmptySet
  <2>3. \A t \in Threads : fd[t] = NoFd /\ idx[t] = None
    BY DEF Init
  <2>4. FdTables
    BY <2>1, <2>2, <2>3 DEF FdTables, Init
  <2> QED BY <2>1, <2>2, <2>4 DEF Init, FdPart, Elems
<1>4. LoopPart
  BY SchedulerAssumption DEF Init, LoopPart
<1> QED BY <1>1, <1>2, <1>3, <1>4 DEF IInv

\* runThread, whether the thread is resumed or was killed meanwhile.
LEMMA RunThreadParts ==
  ASSUME IInv, NEW w \in Threads, RunThread(w)
  PROVE  /\ FdPart'
         /\ at' \in [Threads -> Dates \union {None}]
         /\ atList' \in Seq(Threads)
         /\ joining' \in [Threads -> Threads \union {NoThread}]
         /\ cur' \in Threads \union {NoThread}
<1>0. ThreadPart /\ QueuePart /\ FdPart /\ LoopPart
  BY DEF IInv
<1>1. CASE Bury(w)
  <2>1. FdPart'
    BY <1>0, <1>1, RemoveFdPart DEF Bury
  <2>2. at' \in [Threads -> Dates \union {None}] /\ atList' \in Seq(Threads)
    BY <1>0, <1>1, FinalizeType DEF Bury, QueuePart, atVars
  <2>3. joining' = joining /\ cur' = cur
    BY <1>1 DEF Bury
  <2> QED BY <1>0, <2>1, <2>2, <2>3 DEF ThreadPart, LoopPart
<1>2. CASE Resume(w)
  <2>1. FdPart'
    BY <1>0, <1>2, SameFdPart DEF Resume
  <2> QED BY <1>0, <1>2, <2>1 DEF Resume, ThreadPart, QueuePart
<1> QED BY <1>1, <1>2 DEF RunThread

\* The steps of the main loop: collecting, resuming or burying a thread.
LEMMA LoopIInv ==
  ASSUME IInv, Loop
  PROVE  IInv'
<1>0. ThreadPart /\ QueuePart /\ FdPart /\ LoopPart
  BY DEF IInv
<1>1. CASE Collect
  <2> DEFINE due == {i \in DOMAIN atList : \A j \in 1 .. i : at[atList[j]] < clock}
             n == Cardinality(due)
  <2>1. n \in 0 .. Len(atList)
    <3>1. DOMAIN atList = 1 .. Len(atList) /\ Len(atList) \in Nat
      BY <1>0 DEF QueuePart
    <3>2. due \in SUBSET (1 .. Len(atList))
      BY <3>1
    <3>3. \A x \in due : \A y \in 1 .. x : y \in due
      BY <3>1
    <3> HIDE DEF due
    <3> QED BY <3>1, <3>2, <3>3, InitialSegment
  <2>2. /\ nowList' = SubSeq(atList, 1, n)
        /\ atList' = SubSeq(atList, n + 1, Len(atList))
        /\ pc' = "now"
        /\ UNCHANGED <<threadVars, fdVars, at, shouldRun, evList, cur, clock>>
    BY <1>1 DEF Collect
  <2> HIDE DEF n
  <2>3. QueuePart'
    BY <1>0, <2>1, <2>2 DEF QueuePart
  <2>4. FdPart'
    BY <1>0, <2>2, SameFdPart
  <2>5. ThreadPart'
    BY <1>0, <2>2 DEF ThreadPart, threadVars
  <2>6. LoopPart'
    BY <1>0, <2>2 DEF LoopPart
  <2> QED BY <2>3, <2>4, <2>5, <2>6 DEF IInv
<1>2. CASE RunNext
  <2>1. Head(nowList) \in Threads /\ Tail(nowList) \in Seq(Threads)
    BY <1>0, <1>2 DEF RunNext, QueuePart
  <2>2. /\ FdPart'
        /\ at' \in [Threads -> Dates \union {None}]
        /\ atList' \in Seq(Threads)
        /\ joining' \in [Threads -> Threads \union {NoThread}]
        /\ cur' \in Threads \union {NoThread}
    BY <1>2, <2>1, RunThreadParts DEF RunNext
  <2>3. nowList' = Tail(nowList)
        /\ UNCHANGED <<obj, ref, co, joins, shouldRun, pc, evList, clock>>
    BY <1>2 DEF RunNext
  <2> QED BY <1>0, <2>1, <2>2, <2>3 DEF IInv, ThreadPart, QueuePart, LoopPart
<1>3. CASE EventNext
  <2>1. idxToThread[Head(evList)] \in Threads
    BY <1>0, <1>3 DEF EventNext, FdPart, Elems
  <2>2. Tail(evList) \in Seq(Nat)
    BY <1>0, <1>3 DEF EventNext, LoopPart
  <2>3. /\ FdPart'
        /\ at' \in [Threads -> Dates \union {None}]
        /\ atList' \in Seq(Threads)
        /\ joining' \in [Threads -> Threads \union {NoThread}]
        /\ cur' \in Threads \union {NoThread}
    BY <1>3, <2>1, RunThreadParts DEF EventNext
  <2>4. evList' = Tail(evList)
        /\ UNCHANGED <<obj, ref, co, joins, shouldRun, pc, nowList, clock>>
    BY <1>3 DEF EventNext
  <2> QED BY <1>0, <2>2, <2>3, <2>4 DEF IInv, ThreadPart, QueuePart, LoopPart
<1>4. CASE Stop \/ RunDone \/ EventUnknown \/ EventsDone
  <2>1. UNCHANGED <<threadVars, fdVars, atVars, nowList, evList, cur, clock>>
    BY <1>4 DEF Stop, RunDone, EventUnknown, EventsDone
  <2>2. shouldRun' \in BOOLEAN
        /\ pc' \in {"loop", "now", "poll", "events", "stopped", "crashed"}
    BY <1>0, <1>4 DEF Stop, RunDone, EventUnknown, EventsDone, LoopPart
  <2>3. FdPart'
    BY <1>0, <2>1, SameFdPart
  <2> QED BY <1>0, <2>1, <2>2, <2>3
          DEF IInv, ThreadPart, QueuePart, LoopPart, threadVars, atVars
<1> QED BY <1>1, <1>2, <1>3, <1>4 DEF Loop

\* The ways poll() ends.
LEMMA PollIInv ==
  ASSUME IInv, PollTimedOut \/ Polled \/ PollInterrupted \/ PollError
  PROVE  IInv'
<1>0. ThreadPart /\ QueuePart /\ FdPart /\ LoopPart
  BY DEF IInv
<1>1. UNCHANGED <<threadVars, fdVars, atVars, nowList, cur, clock>>
  BY DEF PollTimedOut, Polled, PollReady, PollInterrupted, PollError
<1>2. evList' \in Seq(Nat)
  <2>1. CASE PollTimedOut
    BY <2>1 DEF PollTimedOut
  <2>2. CASE PollInterrupted \/ PollError
    BY <1>0, <2>2 DEF PollInterrupted, PollError, LoopPart
  <2>3. CASE Polled
    <3>1. PICK S \in SUBSET DOMAIN poller : evList' \in Orders(S)
      BY <2>3 DEF Polled, PollReady
    <3>2. IsFiniteSet(S) /\ Cardinality(S) \in Nat
      BY <1>0, <3>1, FS_Subset, FS_CardinalityType DEF FdPart
    <3>3. evList' \in [1 .. Cardinality(S) -> S]
      BY <3>1 DEF Orders
    <3>4. S \subseteq Nat
      BY <1>0, <3>1 DEF FdPart
    <3> QED BY <3>2, <3>3, <3>4
  <2> QED BY <2>1, <2>2, <2>3
<1>3. shouldRun' \in BOOLEAN
      /\ pc' \in {"loop", "now", "poll", "events", "stopped", "crashed"}
  BY <1>0 DEF PollTimedOut, Polled, PollReady, PollInterrupted, PollError, LoopPart
<1>4. FdPart'
  BY <1>0, <1>1, SameFdPart
<1> QED BY <1>0, <1>1, <1>2, <1>3, <1>4
        DEF IInv, ThreadPart, QueuePart, LoopPart, threadVars, atVars

\* What the running thread does to others: create, kill, let go, quit.
LEMMA WorkIInv ==
  ASSUME IInv, Work
  PROVE  IInv'
<1>0. ThreadPart /\ QueuePart /\ FdPart /\ LoopPart
  BY DEF IInv
<1>1. ASSUME NEW u \in Threads, NEW date \in Dates, Spawn(u, date)
      PROVE  IInv'
  <2>1. /\ obj' = [obj EXCEPT ![u] = "live"]
        /\ ref' = [ref EXCEPT ![u] = TRUE]
        /\ co' = [co EXCEPT ![u] = TRUE]
        /\ ScheduleAt(date, <<u>>)
        /\ UNCHANGED <<joins, joining, fdVars, loopVars, cur, clock>>
    BY <1>1 DEF Spawn
  <2>2. at' \in [Threads -> Dates \union {None}] /\ atList' \in Seq(Threads)
    <3>1. <<u>> \in Seq(Threads)
      OBVIOUS
    <3> QED BY <1>0, <2>1, <3>1, ScheduleAtType DEF QueuePart
  <2>3. FdPart'
    BY <1>0, <2>1, SameFdPart
  <2>4. ThreadPart'
    BY <1>0, <2>1 DEF ThreadPart
  <2> QED BY <1>0, <2>1, <2>2, <2>3, <2>4 DEF IInv, QueuePart, LoopPart, loopVars
<1>2. ASSUME NEW u \in Threads, Kill(u)
      PROVE  IInv'
  <2>1. FdPart'
    BY <1>0, <1>2, RemoveFdPart DEF Kill
  <2>2. QueuePart'
    BY <1>0, <1>2, ZeroIsDate DEF Kill, QueuePart, loopVars
  <2>3. ThreadPart' /\ LoopPart'
    BY <1>0, <1>2 DEF Kill, ThreadPart, LoopPart, loopVars
  <2> QED BY <2>1, <2>2, <2>3 DEF IInv
<1>3. ASSUME NEW u \in Threads, Drop(u)
      PROVE  IInv'
  <2>1. FdPart'
    BY <1>0, <1>3, SameFdPart DEF Drop
  <2> QED BY <1>0, <1>3, <2>1
          DEF Drop, IInv, ThreadPart, QueuePart, LoopPart, atVars, loopVars
<1>4. CASE Quit
  <2>1. FdPart'
    BY <1>0, <1>4, SameFdPart DEF Quit
  <2> QED BY <1>0, <1>4, <2>1
          DEF Quit, IInv, ThreadPart, QueuePart, LoopPart, threadVars, atVars
<1> QED BY <1>1, <1>2, <1>3, <1>4 DEF Work

\* addJoin writes a thread into the table of joins, or behind it.
LEMMA AddJoinType ==
  ASSUME ThreadPart, NEW t \in Threads, NEW u \in Threads, AddJoin(u, t)
  PROVE  joins' \in [Threads -> Seq(Threads \union {NoThread})]
<1> DEFINE s == joins[u]
<1>1. s \in Seq(Threads \union {NoThread})
  BY DEF ThreadPart
<1>2. PICK n \in Borders(s) :
        joins' = [joins EXCEPT ![u] = IF n = Len(s) THEN Append(s, t)
                                      ELSE [s EXCEPT ![n + 1] = t]]
  BY DEF AddJoin
<1>3. n \in 0 .. Len(s)
  BY DEF Borders
<1> HIDE DEF s
<1>4. Append(s, t) \in Seq(Threads \union {NoThread})
  BY <1>1
<1>5. [s EXCEPT ![n + 1] = t] \in Seq(Threads \union {NoThread})
  <2>1. Len(s) \in Nat /\ s \in [1 .. Len(s) -> Threads \union {NoThread}]
    BY <1>1
  <2>2. [s EXCEPT ![n + 1] = t] \in [1 .. Len(s) -> Threads \union {NoThread}]
    BY <2>1
  <2> QED BY <2>1, <2>2
<1> QED BY <1>2, <1>4, <1>5 DEF ThreadPart

\* What follows a yield in runThread.
LEMMA YieldIInv ==
  ASSUME IInv, Yield
  PROVE  IInv'
<1>0. ThreadPart /\ QueuePart /\ FdPart /\ LoopPart
  BY DEF IInv
<1>1. ASSUME NEW t \in Threads, NEW f \in Fds, YieldFd(t, f)
      PROVE  IInv'
  <2>1. FdPart'
    BY <1>0, <1>1, AddFdPart, ModifyFdPart DEF YieldFd
  <2> QED BY <1>0, <1>1, <2>1
          DEF YieldFd, IInv, ThreadPart, QueuePart, LoopPart, threadVars, atVars, loopVars
<1>2. ASSUME NEW t \in Threads, NEW u \in Threads, YieldJoin(t, u)
      PROVE  IInv'
  <2>1. FdPart'
    BY <1>0, <1>2, RemoveFdPart DEF YieldJoin
  <2>2. joins' \in [Threads -> Seq(Threads \union {NoThread})]
    BY <1>0, <1>2, AddJoinType DEF YieldJoin
  <2> QED BY <1>0, <1>2, <2>1, <2>2
          DEF YieldJoin, IInv, ThreadPart, QueuePart, LoopPart, atVars, loopVars
<1>3. ASSUME NEW t \in Threads, NEW date \in Dates, YieldWait(t, date)
      PROVE  IInv'
  <2>1. FdPart'
    BY <1>0, <1>3, RemoveFdPart DEF YieldWait
  <2>2. at' \in [Threads -> Dates \union {None}] /\ atList' \in Seq(Threads)
    <3>1. <<t>> \in Seq(Threads)
      OBVIOUS
    <3>2. ScheduleAt(date, <<t>>)
      BY <1>3 DEF YieldWait
    <3> QED BY <1>0, <3>1, <3>2, ScheduleAtType DEF QueuePart
  <2> QED BY <1>0, <1>3, <2>1, <2>2
          DEF YieldWait, IInv, ThreadPart, QueuePart, LoopPart, threadVars, loopVars
<1>4. ASSUME NEW t \in Threads, YieldEnd(t)
      PROVE  IInv'
  <2>1. FdPart'
    BY <1>0, <1>4, RemoveFdPart DEF YieldEnd
  <2>2. at' \in [Threads -> Dates \union {None}] /\ atList' \in Seq(Threads)
    BY <1>0, <1>4, FinalizeType DEF YieldEnd, QueuePart
  <2> QED BY <1>0, <1>4, <2>1, <2>2
          DEF YieldEnd, IInv, ThreadPart, QueuePart, LoopPart, loopVars
<1>5. ASSUME NEW t \in Threads, YieldError(t)
      PROVE  IInv'
  <2>1. FdPart'
    BY <1>0, <1>5, SameFdPart DEF YieldError
  <2> QED BY <1>0, <1>5, <2>1
          DEF YieldError, IInv, ThreadPart, QueuePart, LoopPart, atVars, loopVars
<1>6. ASSUME NEW t \in Threads, YieldBad(t)
      PROVE  IInv'
  <2>1. FdPart'
    BY <1>0, <1>6, RemoveFdPart DEF YieldBad
  <2> QED BY <1>0, <1>6, <2>1
          DEF YieldBad, IInv, ThreadPart, QueuePart, LoopPart, threadVars, atVars, loopVars
<1> QED BY <1>1, <1>2, <1>3, <1>4, <1>5, <1>6 DEF Yield

\* The garbage collector: sched:remove and the holes in tables of joins.
LEMMA CollectorIInv ==
  ASSUME IInv, Collector
  PROVE  IInv'
<1>0. ThreadPart /\ QueuePart /\ FdPart /\ LoopPart
  BY DEF IInv
<1>1. ASSUME NEW t \in Threads, Gc(t)
      PROVE  IInv'
  <2>1. FdPart'
    BY <1>0, <1>1, RemoveFdPart DEF Gc
  <2> QED BY <1>0, <1>1, <2>1
          DEF Gc, IInv, ThreadPart, QueuePart, LoopPart, atVars, loopVars
<1>2. ASSUME NEW t \in Threads, GcWrap(t)
      PROVE  IInv'
  <2>1. FdPart'
    BY <1>0, <1>2, SameFdPart DEF GcWrap
  <2>2. ASSUME NEW u \in Threads
        PROVE  [i \in DOMAIN joins[u] |-> IF joins[u][i] = t THEN NoThread ELSE joins[u][i]]
                 \in Seq(Threads \union {NoThread})
    <3> DEFINE s == joins[u]
    <3>1. s \in Seq(Threads \union {NoThread})
      BY <1>0 DEF ThreadPart
    <3> HIDE DEF s
    <3>2. Len(s) \in Nat /\ DOMAIN s = 1 .. Len(s)
          /\ s \in [1 .. Len(s) -> Threads \union {NoThread}]
      BY <3>1
    <3>3. [i \in DOMAIN s |-> IF s[i] = t THEN NoThread ELSE s[i]]
            \in [1 .. Len(s) -> Threads \union {NoThread}]
      BY <3>2
    <3>4. [i \in DOMAIN s |-> IF s[i] = t THEN NoThread ELSE s[i]]
            \in Seq(Threads \union {NoThread})
      BY <3>2, <3>3
    <3> QED BY <3>4 DEF s
  <2>3. joins' \in [Threads -> Seq(Threads \union {NoThread})]
    BY <1>2, <2>2 DEF GcWrap
  <2> QED BY <1>0, <1>2, <2>1, <2>3
          DEF GcWrap, IInv, ThreadPart, QueuePart, LoopPart, atVars, loopVars
<1> QED BY <1>1, <1>2 DEF Collector

\* Every step preserves the invariant.
LEMMA NextIInv == IInv /\ [Next]_vars => IInv'
<1> SUFFICES ASSUME IInv, [Next]_vars PROVE IInv'
  OBVIOUS
<1>0. ThreadPart /\ QueuePart /\ FdPart /\ LoopPart
  BY DEF IInv
<1>1. CASE Tick
  <2>1. FdPart'
    BY <1>0, <1>1, SameFdPart DEF Tick
  <2>2. clock' \in 0 .. MaxTime
    BY <1>0, <1>1, SchedulerAssumption DEF Tick, LoopPart
  <2> QED BY <1>0, <1>1, <2>1, <2>2
          DEF Tick, IInv, ThreadPart, QueuePart, LoopPart, threadVars, atVars, loopVars
<1>2. CASE UNCHANGED vars
  <2>1. FdPart'
    BY <1>0, <1>2, SameFdPart DEF vars
  <2> QED BY <1>0, <1>2, <2>1
          DEF vars, IInv, ThreadPart, QueuePart, LoopPart, threadVars, atVars, loopVars
<1> QED
  BY <1>1, <1>2, LoopIInv, PollIInv, WorkIInv, YieldIInv, CollectorIInv DEF Next

-----------------------------------------------------------------------------
\* Everything keeps its type: in particular only threads are ever queued, so the
\* holes in a table of joins never reach the list of dates.
THEOREM TypeCorrect == Spec => []TypeOK
<1>1. Spec => []IInv
  BY InitIInv, NextIInv, PTL DEF Spec
<1> QED BY <1>1, IInvIsEnough, PTL

\* thread.fd, thread.idx, idx_to_thread, fd_count and the poller agree whatever
\* is killed, collected or restarted, in whatever order.
THEOREM FdTablesAgree == Spec => []FdTables
<1>1. Spec => []IInv
  BY InitIInv, NextIInv, PTL DEF Spec
<1> QED BY <1>1, IInvIsEnough, PTL

-----------------------------------------------------------------------------
(* Where a thread is *)

\* No two entries are equal.
Distinct(s) == \A i, j \in DOMAIN s : s[i] = s[j] => i = j

\* t is not in a list, does not run and has no descriptor.
Nowhere(t) == t \notin Listed /\ t # cur /\ fd[t] = NoFd

\* QueuedOnce, by list.
ListPart ==
  /\ Distinct(nowList) /\ Distinct(atList)
  /\ Elems(nowList) \cap Elems(atList) = {}
  /\ \A t \in Listed : t # cur /\ fd[t] = NoFd

\* over are the threads that have been finalised.  Those that wait for another one
\* are in one place of its table of joins and in nothing else.
JoinPart(over) ==
  /\ \A t \in over : Nowhere(t)
  /\ \A u \in Threads \ over : \A i \in DOMAIN joins[u] : joins[u][i] # NoThread =>
       Nowhere(joins[u][i]) /\ joins[u][i] \notin over /\ obj[joins[u][i]] # "unborn"
  /\ \A u, v \in Threads \ over : \A i \in DOMAIN joins[u] : \A j \in DOMAIN joins[v] :
       joins[u][i] = joins[v][j] /\ joins[u][i] # NoThread => u = v /\ i = j
  /\ \A t \in Threads : obj[t] = "unborn" => Nowhere(t) /\ t \notin over

\* The two together; which threads are over is found along the way.
QInv == ListPart /\ \E over \in SUBSET Threads : JoinPart(over)

-----------------------------------------------------------------------------
(* Lists *)

\* What a concatenation holds, by position.
LEMMA Concatenated ==
  ASSUME NEW S, NEW a \in Seq(S), NEW b \in Seq(S)
  PROVE  /\ a \o b \in Seq(S) /\ Len(a \o b) = Len(a) + Len(b)
         /\ \A i \in 1 .. Len(a) + Len(b) :
              (a \o b)[i] = IF i <= Len(a) THEN a[i] ELSE b[i - Len(a)]
  OBVIOUS

\* What a list holds after ws has been put behind its first n entries.
LEMMA Inserted ==
  ASSUME NEW S, NEW l \in Seq(S), NEW ws \in Seq(S), NEW n \in 0 .. Len(l)
  PROVE  LET s == SubSeq(l, 1, n) \o ws \o SubSeq(l, n + 1, Len(l))
         IN  /\ s \in Seq(S) /\ Len(s) = Len(l) + Len(ws)
             /\ \A i \in 1 .. Len(s) :
                  s[i] = IF i <= n THEN l[i] ELSE IF i <= n + Len(ws) THEN ws[i - n]
                         ELSE l[i - Len(ws)]
<1> DEFINE a == SubSeq(l, 1, n)
           c == SubSeq(l, n + 1, Len(l))
           s == a \o ws \o c
<1>1. Len(l) \in Nat /\ Len(ws) \in Nat
  OBVIOUS
<1>2. a \in Seq(S) /\ Len(a) = n /\ \A i \in 1 .. n : a[i] = l[i]
  BY <1>1
<1>3. c \in Seq(S) /\ Len(c) = Len(l) - n /\ \A i \in 1 .. Len(l) - n : c[i] = l[n + i]
  BY <1>1
<1> HIDE DEF a, c
<1> DEFINE ab == a \o ws
<1>4. /\ ab \in Seq(S) /\ Len(ab) = n + Len(ws)
      /\ \A i \in 1 .. n + Len(ws) : ab[i] = IF i <= n THEN a[i] ELSE ws[i - n]
  BY <1>1, <1>2
<1> HIDE DEF ab
<1>5. /\ ab \o c \in Seq(S) /\ Len(ab \o c) = Len(l) + Len(ws)
      /\ \A i \in 1 .. Len(l) + Len(ws) :
           (ab \o c)[i] = IF i <= n + Len(ws) THEN ab[i] ELSE c[i - (n + Len(ws))]
  <2>1. ab \in Seq(S) /\ c \in Seq(S) /\ Len(ab) = n + Len(ws) /\ Len(c) = Len(l) - n
    BY <1>3, <1>4
  <2>2. /\ ab \o c \in Seq(S) /\ Len(ab \o c) = Len(ab) + Len(c)
        /\ \A i \in 1 .. Len(ab) + Len(c) :
             (ab \o c)[i] = IF i <= Len(ab) THEN ab[i] ELSE c[i - Len(ab)]
    BY <2>1, Concatenated
  <2>3. (n + Len(ws)) + (Len(l) - n) = Len(l) + Len(ws)
    BY <1>1
  <2> QED BY <1>1, <2>1, <2>2, <2>3
<1>6. ASSUME NEW i \in 1 .. Len(l) + Len(ws)
      PROVE  (ab \o c)[i] = IF i <= n THEN l[i] ELSE IF i <= n + Len(ws) THEN ws[i - n]
                            ELSE l[i - Len(ws)]
  <2>1. CASE i <= n + Len(ws)
    <3>1. i \in 1 .. n + Len(ws)
      BY <1>1, <2>1
    <3>2. (ab \o c)[i] = ab[i]
      BY <1>5, <2>1
    <3> QED BY <1>2, <1>4, <2>1, <3>1, <3>2
  <2>2. CASE i > n + Len(ws)
    <3>1. (ab \o c)[i] = c[i - (n + Len(ws))]
      <4>1. ~(i <= n + Len(ws))
        BY <1>1, <2>2
      <4> QED BY <1>5, <4>1
    <3>2. i - (n + Len(ws)) \in 1 .. Len(l) - n
      BY <1>1, <2>2
    <3>3. c[i - (n + Len(ws))] = l[n + (i - (n + Len(ws)))]
      BY <1>3, <3>2
    <3>4. n + (i - (n + Len(ws))) = i - Len(ws) /\ ~(i <= n)
      BY <1>1, <2>2
    <3> QED BY <1>1, <2>2, <3>1, <3>3, <3>4
  <2>3. i <= n + Len(ws) \/ i > n + Len(ws)
    BY <1>1
  <2> QED BY <2>1, <2>2, <2>3
<1> QED BY <1>5, <1>6 DEF a, c, ab

\* Where scheduleAt inserts: behind everything that is not later.
LEMMA ScheduleAtPlace ==
  ASSUME at \in [Threads -> Dates \union {None}], atList \in Seq(Threads),
         NEW date \in Dates, NEW ws \in Seq(Threads), ScheduleAt(date, ws)
  PROVE  \E n \in 0 .. Len(atList) :
           /\ \A i \in 1 .. n : at[atList[i]] <= date
           /\ n < Len(atList) => at[atList[n + 1]] > date
           /\ Len(atList') = Len(atList) + Len(ws)
           /\ \A i \in 1 .. Len(atList') :
                atList'[i] = IF i <= n THEN atList[i]
                             ELSE IF i <= n + Len(ws) THEN ws[i - n]
                             ELSE atList[i - Len(ws)]
<1> DEFINE earlier == {i \in DOMAIN atList : \A j \in 1 .. i : at[atList[j]] <= date}
           n == Cardinality(earlier)
<1>1. DOMAIN atList = 1 .. Len(atList) /\ Len(atList) \in Nat
  OBVIOUS
<1>2. n \in 0 .. Len(atList) /\ earlier = 1 .. n
  <2>2. earlier \in SUBSET (1 .. Len(atList))
    BY <1>1
  <2>3. \A x \in earlier : \A y \in 1 .. x : y \in earlier
    BY <1>1
  <2> HIDE DEF earlier
  <2> QED BY <1>1, <2>2, <2>3, InitialSegment
<1>3. atList' = SubSeq(atList, 1, n) \o ws \o SubSeq(atList, n + 1, Len(atList))
  BY DEF ScheduleAt
<1>4. \A i \in 1 .. n : at[atList[i]] <= date
  <2> TAKE i \in 1 .. n
  <2>1. i \in earlier
    BY <1>2
  <2>2. i \in 1 .. i
    BY <1>2
  <2> QED BY <2>1, <2>2
<1>5. n < Len(atList) => at[atList[n + 1]] > date
  <2> SUFFICES ASSUME n < Len(atList), ~(at[atList[n + 1]] > date) PROVE FALSE
    OBVIOUS
  <2>1. n + 1 \in DOMAIN atList /\ atList[n + 1] \in Threads
    BY <1>1, <1>2
  <2>2. at[atList[n + 1]] \in Int /\ date \in Int
    BY <2>1 DEF Dates, None
  <2>3. at[atList[n + 1]] <= date
    BY <2>2
  <2>4. \A j \in 1 .. n + 1 : at[atList[j]] <= date
    BY <1>2, <1>4, <2>3
  <2>5. n + 1 \in earlier
    BY <2>1, <2>4
  <2> HIDE DEF earlier
  <2> QED BY <1>2, <2>5
<1> HIDE DEF n, earlier
<1>6. /\ Len(atList') = Len(atList) + Len(ws)
      /\ \A i \in 1 .. Len(atList') :
           atList'[i] = IF i <= n THEN atList[i]
                        ELSE IF i <= n + Len(ws) THEN ws[i - n]
                        ELSE atList[i - Len(ws)]
  BY <1>2, <1>3, Inserted
<1> QED BY <1>2, <1>4, <1>5, <1>6

\* scheduleAt of threads that are not in the list: each is then in it once, with
\* those that were there.
LEMMA ScheduleAtOnce ==
  ASSUME at \in [Threads -> Dates \union {None}], atList \in Seq(Threads),
         NEW date \in Dates, NEW ws \in Seq(Threads), ScheduleAt(date, ws),
         Distinct(atList), Distinct(ws), Elems(ws) \cap Elems(atList) = {}
  PROVE  Distinct(atList') /\ Elems(atList') = Elems(atList) \cup Elems(ws)
<1>1. PICK n \in 0 .. Len(atList) :
           /\ Len(atList') = Len(atList) + Len(ws)
           /\ \A i \in 1 .. Len(atList') :
                atList'[i] = IF i <= n THEN atList[i]
                             ELSE IF i <= n + Len(ws) THEN ws[i - n]
                             ELSE atList[i - Len(ws)]
  BY ScheduleAtPlace
<1>2. /\ Len(atList) \in Nat /\ Len(ws) \in Nat
      /\ DOMAIN atList = 1 .. Len(atList) /\ DOMAIN ws = 1 .. Len(ws)
  OBVIOUS
<1>3. DOMAIN atList' = 1 .. Len(atList')
  BY ScheduleAtType
<1>4. Distinct(atList')
  <2> SUFFICES ASSUME NEW i \in 1 .. Len(atList'), NEW j \in 1 .. Len(atList'), i < j
               PROVE  atList'[i] # atList'[j]
    BY <1>1, <1>2, <1>3 DEF Distinct
  <2>1. \A a \in 1 .. Len(atList) : \A b \in 1 .. Len(ws) : atList[a] # ws[b]
    BY <1>2 DEF Elems
  <2>2. \A a, b \in 1 .. Len(atList) : atList[a] = atList[b] => a = b
    BY <1>2 DEF Distinct
  <2>3. \A a, b \in 1 .. Len(ws) : ws[a] = ws[b] => a = b
    BY <1>2 DEF Distinct
  <2>4. n \in Int /\ i \in Int /\ j \in Int /\ Len(atList') = Len(atList) + Len(ws)
    BY <1>1, <1>2
  <2>5. CASE j <= n
    BY <1>1, <1>2, <2>2, <2>4, <2>5
  <2>6. CASE n < j /\ j <= n + Len(ws)
    <3>1. atList'[j] = ws[j - n] /\ j - n \in 1 .. Len(ws)
      BY <1>1, <1>2, <2>4, <2>6
    <3>2. CASE i <= n
      <4>1. atList'[i] = atList[i] /\ i \in 1 .. Len(atList)
        BY <1>1, <1>2, <2>4, <3>2
      <4> QED BY <2>1, <3>1, <4>1
    <3>3. CASE i > n
      <4>1. atList'[i] = ws[i - n] /\ i - n \in 1 .. Len(ws) /\ i - n # j - n
        BY <1>1, <1>2, <2>4, <2>6, <3>3
      <4> QED BY <2>3, <3>1, <4>1
    <3> QED BY <2>4, <3>2, <3>3
  <2>7. CASE n + Len(ws) < j
    <3>1. PICK q \in 1 .. Len(atList) : q = j - Len(ws) /\ q > n /\ atList'[j] = atList[q]
      <4>1. j - Len(ws) \in 1 .. Len(atList) /\ j - Len(ws) > n /\ atList'[j] = atList[j - Len(ws)]
        BY <1>1, <1>2, <2>4, <2>7
      <4> QED BY <4>1
    <3>2. CASE i <= n
      <4>1. atList'[i] = atList[i] /\ i \in 1 .. Len(atList) /\ i # q
        BY <1>1, <1>2, <2>4, <3>1, <3>2
      <4> QED BY <2>2, <3>1, <4>1
    <3>3. CASE n < i /\ i <= n + Len(ws)
      <4>1. atList'[i] = ws[i - n] /\ i - n \in 1 .. Len(ws)
        BY <1>1, <1>2, <2>4, <3>3
      <4> QED BY <1>1, <2>1, <3>1, <4>1
    <3>4. CASE n + Len(ws) < i
      <4>1. PICK p \in 1 .. Len(atList) : p = i - Len(ws) /\ atList'[i] = atList[p]
        <5>1. i - Len(ws) \in 1 .. Len(atList) /\ atList'[i] = atList[i - Len(ws)]
          BY <1>1, <1>2, <2>4, <3>4
        <5> QED BY <5>1
      <4>2. p # q
        BY <1>2, <2>4, <3>1, <4>1
      <4> QED BY <2>2, <3>1, <4>1, <4>2
    <3> QED BY <1>2, <2>4, <3>2, <3>3, <3>4
  <2> QED BY <1>2, <2>4, <2>5, <2>6, <2>7
<1>5. Elems(atList') \subseteq Elems(atList) \cup Elems(ws)
  <2> SUFFICES ASSUME NEW i \in 1 .. Len(atList')
               PROVE  \/ \E k \in 1 .. Len(atList) : atList'[i] = atList[k]
                      \/ \E k \in 1 .. Len(ws) : atList'[i] = ws[k]
    BY <1>2, <1>3 DEF Elems
  <2>1. CASE i <= n
    BY <1>1, <1>2, <2>1
  <2>2. CASE i > n /\ i <= n + Len(ws)
    <3>1. atList'[i] = ws[i - n] /\ i - n \in 1 .. Len(ws)
      BY <1>1, <1>2, <2>2
    <3> QED BY <3>1
  <2>3. CASE i > n + Len(ws)
    <3>1. i - Len(ws) \in 1 .. Len(atList) /\ ~(i <= n) /\ ~(i <= n + Len(ws))
      BY <1>1, <1>2, <2>3
    <3>2. atList'[i] = atList[i - Len(ws)]
      BY <1>1, <3>1
    <3> QED BY <3>1, <3>2
  <2> QED BY <1>1, <1>2, <2>1, <2>2, <2>3
<1>6. Elems(ws) \subseteq Elems(atList')
  <2> SUFFICES ASSUME NEW k \in 1 .. Len(ws) PROVE \E i \in 1 .. Len(atList') : atList'[i] = ws[k]
    BY <1>2, <1>3 DEF Elems
  <2>1. n + k \in 1 .. Len(atList') /\ atList'[n + k] = ws[k]
    BY <1>1, <1>2
  <2> QED BY <2>1
<1>7. Elems(atList) \subseteq Elems(atList')
  <2> SUFFICES ASSUME NEW k \in 1 .. Len(atList)
               PROVE  \E i \in 1 .. Len(atList') : atList'[i] = atList[k]
    BY <1>2, <1>3 DEF Elems
  <2>1. CASE k <= n
    BY <1>1, <1>2, <2>1
  <2>2. CASE k > n
    <3>1. k + Len(ws) \in 1 .. Len(atList') /\ atList'[k + Len(ws)] = atList[k]
      BY <1>1, <1>2, <2>2
    <3> QED BY <3>1
  <2> QED BY <1>1, <1>2, <2>1, <2>2
<1> QED BY <1>4, <1>5, <1>6, <1>7

-----------------------------------------------------------------------------
(* No thread is queued twice *)

\* removeFd leaves t without a descriptor and the others with theirs.
LEMMA RemoveFdFrees ==
  ASSUME FdPart, NEW t \in Threads, RemoveFd(t)
  PROVE  fd'[t] = NoFd /\ \A u \in Threads \ {t} : fd'[u] = fd[u] /\ idx'[u] = idx[u]
  BY DEF RemoveFd, fdVars, FdPart

\* The lists stay as they are.
LEMMA SameLists ==
  ASSUME ListPart, UNCHANGED <<nowList, atList>>, cur' \in {cur, NoThread},
         LoopPart, QueuePart,
         \A t \in Listed : fd[t] = NoFd => fd'[t] = NoFd
  PROVE  ListPart'
<1>1. Listed' = Listed /\ Listed \subseteq Threads
  BY DEF Listed, Elems, QueuePart
<1>2. \A t \in Listed : t # cur'
  BY <1>1, SchedulerAssumption DEF ListPart
<1> QED BY <1>1, <1>2 DEF ListPart, Distinct, Elems

\* A step that queues, resumes or hands a descriptor to no thread that was nowhere,
\* unless it creates it.
LEMMA SameJoins ==
  ASSUME UNCHANGED joins, NEW over \in SUBSET Threads, JoinPart(over), ThreadPart,
         \A t \in Threads : Nowhere(t) /\ obj[t] # "unborn" => Nowhere(t)' /\ obj'[t] # "unborn",
         \A t \in Threads : obj'[t] = "unborn" => obj[t] = "unborn" /\ Nowhere(t)'
  PROVE  JoinPart(over)'
<1>1. \A t \in over : Nowhere(t) /\ obj[t] # "unborn"
  BY DEF JoinPart
<1>2. ASSUME NEW u \in Threads \ over, NEW i \in DOMAIN joins[u], joins[u][i] # NoThread
      PROVE  (Nowhere(joins[u][i]))' /\ joins[u][i] \notin over /\ obj'[joins[u][i]] # "unborn"
  <2>1. Nowhere(joins[u][i]) /\ joins[u][i] \notin over /\ obj[joins[u][i]] # "unborn"
    BY <1>2 DEF JoinPart
  <2>2. joins[u][i] \in Threads
    BY <1>2 DEF ThreadPart
  <2>3. \A t \in Threads : t = joins[u][i] =>
          Nowhere(t)' /\ t \notin over /\ obj'[t] # "unborn"
    BY <2>1
  <2> QED BY <2>2, <2>3 DEF Nowhere
<1>3. \A t \in Threads : obj'[t] = "unborn" => Nowhere(t)' /\ t \notin over
  BY <1>1
<1>4. \A t \in over : Nowhere(t)'
  BY <1>1
<1>5. \A u, v \in Threads \ over : \A i \in DOMAIN joins[u] : \A j \in DOMAIN joins[v] :
       joins[u][i] = joins[v][j] /\ joins[u][i] # NoThread => u = v /\ i = j
  BY DEF JoinPart
<1> QED BY <1>2, <1>3, <1>4, <1>5 DEF JoinPart, Nowhere

\* The end of a thread that was running, queued or in the poller: those that joined
\* it are queued, and its table is not read again.
LEMMA FinalizeQueue ==
  ASSUME IInv, QInv, NEW t \in Threads, ~Nowhere(t),
         Finalize(t), RemoveFd(t), UNCHANGED <<obj, joins>>, cur' = NoThread,
         nowList' \in Seq(Threads), Distinct(nowList'), Elems(nowList') \subseteq Elems(nowList),
         t \notin Elems(nowList'), t \notin Elems(atList),
         cur \in {t, NoThread}
  PROVE  QInv'
<1>0. ThreadPart /\ QueuePart /\ FdPart /\ LoopPart
  BY DEF IInv
<1>1. PICK over \in SUBSET Threads : JoinPart(over)
  BY DEF QInv
<1>2. t \notin over
  BY <1>1 DEF JoinPart
<1> DEFINE ws == Joined(t)
<1>3. /\ ws \in Seq(Threads)
      /\ \A i \in DOMAIN ws : i \in DOMAIN joins[t] /\ ws[i] = joins[t][i]
                              /\ joins[t][i] # NoThread
  BY <1>0, JoinedType
<1> HIDE DEF ws
<1>4. Distinct(ws)
  <2> SUFFICES ASSUME NEW i \in DOMAIN ws, NEW j \in DOMAIN ws, ws[i] = ws[j] PROVE i = j
    BY DEF Distinct
  <2> QED BY <1>1, <1>2, <1>3 DEF JoinPart
<1>5. \A x \in Elems(ws) : x \in Threads /\ Nowhere(x) /\ x \notin over /\ obj[x] # "unborn"
  BY <1>1, <1>2, <1>3 DEF JoinPart, Elems
<1>6. Elems(ws) \cap Elems(atList) = {}
  BY <1>5 DEF Nowhere, Listed
<1>7. Distinct(atList') /\ Elems(atList') = Elems(atList) \cup Elems(ws)
  <2>0. at \in [Threads -> Dates \union {None}] /\ atList \in Seq(Threads) /\ Distinct(atList)
    BY <1>0 DEF QueuePart, QInv, ListPart
  <2>1. CASE ws = <<>>
    <3>1. Elems(ws) = {} /\ atList' = atList
      BY <2>1 DEF Elems, Finalize, atVars, ws
    <3> QED BY <2>0, <3>1
  <2>2. CASE ws # <<>>
    <3>1. ScheduleAt(0, ws)
      BY <2>2 DEF Finalize, ws
    <3> QED BY <1>3, <1>4, <1>6, <2>0, <3>1, ScheduleAtOnce, ZeroIsDate
  <2> QED BY <2>1, <2>2
<1>8. fd'[t] = NoFd /\ \A u \in Threads \ {t} : fd'[u] = fd[u]
  BY <1>0, RemoveFdFrees
<1>9. Listed' \subseteq (Listed \cup Elems(ws)) /\ t \notin Elems(ws) /\ t \notin Listed'
  BY <1>5, <1>7 DEF Listed
<1>10. ListPart'
  <2>1. Elems(nowList') \cap Elems(atList') = {}
    BY <1>5, <1>7 DEF Nowhere, Listed, QInv, ListPart
  <2>2. Listed' \subseteq Threads
    <3>1. Listed \subseteq Threads
      BY <1>0 DEF QueuePart, Listed, Elems
    <3> QED BY <1>5, <1>9, <3>1
  <2>3. \A x \in Listed' : x # t /\ fd[x] = NoFd
    BY <1>5, <1>9 DEF Nowhere, QInv, ListPart
  <2>4. \A x \in Listed' : x # cur' /\ fd'[x] = NoFd
    BY <1>8, <2>2, <2>3, SchedulerAssumption
  <2> QED BY <1>7, <2>1, <2>4 DEF ListPart
<1>11. ASSUME NEW x \in Threads, Nowhere(x), x \notin Elems(ws)
       PROVE  Nowhere(x)'
  BY <1>8, <1>9, <1>11, SchedulerAssumption DEF Nowhere
<1>12. Nowhere(t)'
  BY <1>8, <1>9, SchedulerAssumption DEF Nowhere
<1>13. JoinPart(over \cup {t})'
  <2>1. \A x \in over \cup {t} : Nowhere(x)'
    BY <1>1, <1>5, <1>11, <1>12 DEF JoinPart
  <2>2. ASSUME NEW u \in Threads \ (over \cup {t}), NEW i \in DOMAIN joins[u],
               joins[u][i] # NoThread
        PROVE  /\ (Nowhere(joins[u][i]))'
               /\ joins[u][i] \notin over \cup {t}
               /\ obj'[joins[u][i]] # "unborn"
    <3>1. PICK x \in Threads : x = joins[u][i]
      BY <1>0, <2>2 DEF ThreadPart
    <3>2. Nowhere(x) /\ x \notin over /\ obj[x] # "unborn"
      BY <1>1, <2>2, <3>1 DEF JoinPart
    <3>3. x \notin Elems(ws)
      <4> SUFFICES ASSUME NEW j \in DOMAIN ws, ws[j] = x PROVE FALSE
        BY DEF Elems
      <4>1. j \in DOMAIN joins[t] /\ joins[t][j] = joins[u][i]
        BY <1>3, <3>1
      <4> QED BY <1>1, <1>2, <2>2, <4>1 DEF JoinPart
    <3>4. Nowhere(x)'
      BY <1>11, <3>2, <3>3
    <3> QED BY <3>1, <3>2, <3>4 DEF Nowhere
  <2>3. \A u, v \in Threads \ (over \cup {t}) :
          \A i \in DOMAIN joins[u] : \A j \in DOMAIN joins[v] :
            joins[u][i] = joins[v][j] /\ joins[u][i] # NoThread => u = v /\ i = j
    BY <1>1 DEF JoinPart
  <2>4. ASSUME NEW x \in Threads, obj[x] = "unborn"
        PROVE  Nowhere(x)' /\ x \notin over \cup {t}
    BY <1>1, <1>5, <1>11, <2>4 DEF JoinPart
  <2> QED BY <2>1, <2>2, <2>3, <2>4 DEF JoinPart, Nowhere
<1>14. over \cup {t} \in SUBSET Threads
  OBVIOUS
<1> QED BY <1>10, <1>13, <1>14 DEF QInv

\* A new scheduler has one thread in its list, and no thread has joiners.
LEMMA InitQInv == Init => QInv
<1> SUFFICES ASSUME Init PROVE QInv
  OBVIOUS
<1>1. nowList = <<>> /\ atList = <<Main>> /\ cur = NoThread
      /\ \A t \in Threads : fd[t] = NoFd /\ joins[t] = <<>>
  BY DEF Init
<1>2. Elems(nowList) = {} /\ Elems(atList) = {Main}
  BY <1>1 DEF Elems
<1>3. ListPart
  BY <1>1, <1>2, SchedulerAssumption DEF ListPart, Distinct, Listed
<1>4. \A t \in Threads : DOMAIN joins[t] = {}
  BY <1>1
<1>5. \A t \in Threads : obj[t] = "unborn" => Nowhere(t)
  <2> TAKE t \in Threads
  <2>1. obj[t] = "unborn" => t # Main
    BY DEF Init
  <2> QED BY <1>1, <1>2, <2>1, SchedulerAssumption DEF Nowhere, Listed
<1>6. JoinPart({})
  BY <1>4, <1>5 DEF JoinPart
<1> QED BY <1>3, <1>6 DEF QInv

\* runThread for the next thread of a queue.  That it was not in the other one, and
\* not finalised before, is the invariant.
LEMMA RunThreadQueue ==
  ASSUME IInv, QInv, NEW w \in Threads, RunThread(w), ~Nowhere(w), cur = NoThread,
         UNCHANGED <<obj, joins>>, w \notin Elems(atList),
         nowList' \in Seq(Threads), Distinct(nowList'),
         Elems(nowList') \subseteq Elems(nowList), w \notin Elems(nowList'),
         fd[w] # NoFd \/ w \in Elems(nowList)
  PROVE  QInv'
<1>0. ThreadPart /\ QueuePart /\ FdPart /\ LoopPart
  BY DEF IInv
<1>1. CASE Bury(w) /\ obj[w] = "live"
  <2>1. Finalize(w) /\ RemoveFd(w) /\ cur' = NoThread
    BY <1>1 DEF Bury
  <2> QED BY <2>1, FinalizeQueue
<1>2. CASE Resume(w) \/ (Bury(w) /\ obj[w] # "live")
  <2>1. atList' = atList /\ cur' \in {NoThread, w}
    BY <1>2 DEF Resume, Bury, atVars
  <2>2. \A t \in Threads : fd[t] = NoFd => fd'[t] = NoFd
    <3>1. CASE Resume(w)
      BY <3>1 DEF Resume, fdVars
    <3>2. CASE Bury(w)
      BY <1>0, <3>2, RemoveFdFrees DEF Bury
    <3> QED BY <1>2, <3>1, <3>2
  <2>3. Listed' \subseteq Listed /\ w \notin Listed' /\ Listed \subseteq Threads
    <3>1. Elems(atList') = Elems(atList)
      BY <2>1
    <3>2. Listed \subseteq Threads
      BY <1>0 DEF Listed, Elems, QueuePart
    <3> QED BY <3>1, <3>2 DEF Listed
  <2>4. \A t \in Listed' : t # cur' /\ fd'[t] = NoFd
    BY <2>1, <2>2, <2>3, SchedulerAssumption DEF QInv, ListPart
  <2>5. ListPart'
    BY <2>1, <2>4 DEF QInv, ListPart, Distinct, Elems
  <2>6. \A t \in Threads : Nowhere(t) => Nowhere(t)'
    BY <2>1, <2>2, <2>3, SchedulerAssumption DEF Nowhere
  <2>7. PICK over \in SUBSET Threads : JoinPart(over)
    BY DEF QInv
  <2>8. JoinPart(over)'
    BY <1>0, <2>6, <2>7, SameJoins DEF JoinPart
  <2> QED BY <2>5, <2>8 DEF QInv
<1> QED BY <1>1, <1>2 DEF RunThread, Bury

\* A step that leaves the lists, the tables of joins and the objects as they are.
LEMMA QuietQueue ==
  ASSUME IInv, QInv, UNCHANGED <<nowList, atList, joins>>, cur' \in {cur, NoThread},
         \A t \in Threads : fd[t] = NoFd => fd'[t] = NoFd \/ t = cur,
         \A t \in Threads : (obj[t] = "unborn") = (obj'[t] = "unborn")
  PROVE  QInv'
<1>0. ThreadPart /\ QueuePart /\ FdPart /\ LoopPart
  BY DEF IInv
<1>1. Listed' = Listed /\ Listed \subseteq Threads
  BY <1>0 DEF Listed, Elems, QueuePart
<1>2. ListPart'
  BY <1>0, <1>1, SameLists DEF QInv, ListPart
<1>3. \A t \in Threads : Nowhere(t) => Nowhere(t)'
  BY <1>1, SchedulerAssumption DEF Nowhere
<1>4. PICK over \in SUBSET Threads : JoinPart(over)
  BY DEF QInv
<1>5. JoinPart(over)'
  BY <1>0, <1>3, <1>4, SameJoins DEF JoinPart
<1> QED BY <1>2, <1>5 DEF QInv

\* The next thread of now_list is in no other place and not queued again.
LEMMA HeadIsListed ==
  ASSUME IInv, QInv, nowList # <<>>
  PROVE  /\ Head(nowList) \in Threads /\ Head(nowList) \in Elems(nowList)
         /\ Head(nowList) \notin Elems(atList) /\ ~Nowhere(Head(nowList))
         /\ Tail(nowList) \in Seq(Threads) /\ Distinct(Tail(nowList))
         /\ Elems(Tail(nowList)) \subseteq Elems(nowList)
         /\ Head(nowList) \notin Elems(Tail(nowList))
<1> DEFINE w == Head(nowList)
           s == Tail(nowList)
<1>1. nowList \in Seq(Threads) /\ nowList # <<>>
  BY DEF IInv, QueuePart
<1>2. /\ w \in Threads /\ w = nowList[1] /\ 1 \in DOMAIN nowList
      /\ s \in Seq(Threads)
      /\ \A i \in DOMAIN s :
           i + 1 \in DOMAIN nowList /\ i \in Nat \ {0} /\ s[i] = nowList[i + 1]
  BY <1>1
<1> HIDE DEF w, s
<1>3. \A i, j \in DOMAIN nowList : nowList[i] = nowList[j] => i = j
  BY DEF QInv, ListPart, Distinct
<1>4. Distinct(s) /\ Elems(s) \subseteq Elems(nowList) /\ w \notin Elems(s)
  <2>1. \A i, j \in DOMAIN s : s[i] = s[j] => i + 1 = j + 1
    BY <1>2, <1>3
  <2>2. \A i, j \in DOMAIN s : i + 1 = j + 1 => i = j
    BY <1>2
  <2>3. ASSUME NEW i \in DOMAIN s PROVE s[i] # w
    <3>1. i + 1 # 1
      BY <1>2
    <3> QED BY <1>2, <1>3, <3>1
  <2> QED BY <1>2, <2>1, <2>2, <2>3 DEF Distinct, Elems
<1>5. w \in Elems(nowList) /\ w \notin Elems(atList) /\ ~Nowhere(w)
  BY <1>2 DEF Elems, QInv, ListPart, Nowhere, Listed
<1> QED BY <1>2, <1>4, <1>5 DEF w, s

\* The thread of a handle waits for a descriptor and for nothing else.
LEMMA EventIsWaiting ==
  ASSUME IInv, QInv, NEW h \in DOMAIN idxToThread
  PROVE  /\ idxToThread[h] \in Threads /\ fd[idxToThread[h]] # NoFd
         /\ idxToThread[h] \notin Listed /\ ~Nowhere(idxToThread[h])
<1> DEFINE w == idxToThread[h]
<1>0. FdPart
  BY DEF IInv
<1>1. w \in Threads /\ idx[w] = h /\ h \in Nat
  BY <1>0 DEF FdPart, FdTables, Elems
<1>2. fd[w] # NoFd
  BY <1>0, <1>1 DEF FdPart, FdTables, None
<1> QED BY <1>1, <1>2 DEF QInv, ListPart, Nowhere

\* The steps of the main loop: collect moves threads from one list to the other, and
\* resuming takes one out.
LEMMA LoopQInv ==
  ASSUME IInv, QInv, Loop
  PROVE  QInv'
<1>0. ThreadPart /\ QueuePart /\ FdPart /\ LoopPart
  BY DEF IInv
<1>1. CASE Collect
  <2> DEFINE due == {i \in DOMAIN atList : \A j \in 1 .. i : at[atList[j]] < clock}
             n == Cardinality(due)
  <2>1. n \in 0 .. Len(atList) /\ DOMAIN atList = 1 .. Len(atList) /\ Len(atList) \in Nat
    <3>1. DOMAIN atList = 1 .. Len(atList) /\ Len(atList) \in Nat
      BY <1>0 DEF QueuePart
    <3>2. due \in SUBSET (1 .. Len(atList))
      BY <3>1
    <3>3. \A x \in due : \A y \in 1 .. x : y \in due
      BY <3>1
    <3> HIDE DEF due
    <3> QED BY <3>1, <3>2, <3>3, InitialSegment
  <2>2. /\ nowList' = SubSeq(atList, 1, n)
        /\ atList' = SubSeq(atList, n + 1, Len(atList))
        /\ pc' = "now"
        /\ UNCHANGED <<threadVars, fdVars, at, shouldRun, evList, cur, clock>>
    BY <1>1 DEF Collect
  <2> HIDE DEF n
  <2>3. /\ DOMAIN nowList' = 1 .. n /\ \A i \in 1 .. n : nowList'[i] = atList[i]
        /\ DOMAIN atList' = 1 .. Len(atList) - n
        /\ \A i \in 1 .. Len(atList) - n : atList'[i] = atList[n + i]
    BY <1>0, <2>1, <2>2 DEF QueuePart
  <2>4. \A i, j \in 1 .. Len(atList) : atList[i] = atList[j] => i = j
    BY <2>1 DEF QInv, ListPart, Distinct
  <2>5. Distinct(nowList')
    BY <2>1, <2>3, <2>4 DEF Distinct
  <2>6. Distinct(atList')
    <3> SUFFICES ASSUME NEW i \in 1 .. Len(atList) - n, NEW j \in 1 .. Len(atList) - n,
                        atList'[i] = atList'[j] PROVE i = j
      BY <2>3 DEF Distinct
    <3>1. n + i \in 1 .. Len(atList) /\ n + j \in 1 .. Len(atList)
          /\ atList[n + i] = atList[n + j]
      BY <2>1, <2>3
    <3>2. n + i = n + j
      BY <2>4, <3>1
    <3> QED BY <2>1, <3>2
  <2>7. Elems(nowList') \cap Elems(atList') = {}
    <3> SUFFICES ASSUME NEW i \in 1 .. n, NEW j \in 1 .. Len(atList) - n,
                        nowList'[i] = atList'[j] PROVE FALSE
      BY <2>3 DEF Elems
    <3>1. i \in 1 .. Len(atList) /\ n + j \in 1 .. Len(atList) /\ atList[i] = atList[n + j]
      BY <2>1, <2>3
    <3>2. i = n + j
      BY <2>4, <3>1
    <3> QED BY <2>1, <3>2
  <2>8. Listed' \subseteq Listed
    <3>1. Elems(nowList') \subseteq Elems(atList)
      BY <2>1, <2>3 DEF Elems
    <3>2. ASSUME NEW j \in 1 .. Len(atList) - n PROVE atList'[j] \in Elems(atList)
      <4>1. n + j \in DOMAIN atList /\ atList'[j] = atList[n + j]
        BY <2>1, <2>3
      <4> QED BY <4>1 DEF Elems
    <3>3. Elems(atList') \subseteq Elems(atList)
      BY <2>3, <3>2 DEF Elems
    <3> QED BY <3>1, <3>3 DEF Listed
  <2>9. ListPart'
    BY <2>2, <2>5, <2>6, <2>7, <2>8 DEF QInv, ListPart, fdVars
  <2>10. \A t \in Threads : Nowhere(t) => Nowhere(t)'
    BY <2>2, <2>8 DEF Nowhere, fdVars
  <2>11. PICK over \in SUBSET Threads : JoinPart(over)
    BY DEF QInv
  <2>12. joins' = joins /\ obj' = obj
    BY <2>2 DEF threadVars
  <2>13. JoinPart(over)'
    BY <1>0, <2>10, <2>11, <2>12, SameJoins DEF JoinPart
  <2> QED BY <2>9, <2>13 DEF QInv
<1>2. CASE RunNext
  <2> DEFINE w == Head(nowList)
  <2>1. /\ nowList \in Seq(Threads) /\ nowList # <<>> /\ nowList' = Tail(nowList)
        /\ cur = NoThread /\ RunThread(w) /\ UNCHANGED <<obj, joins>>
    BY <1>0, <1>2 DEF RunNext, QueuePart
  <2>2. /\ w \in Threads /\ w \in Elems(nowList) /\ w \notin Elems(atList) /\ ~Nowhere(w)
        /\ nowList' \in Seq(Threads) /\ Distinct(nowList') /\ w \notin Elems(nowList')
        /\ Elems(nowList') \subseteq Elems(nowList)
    BY <2>1, HeadIsListed
  <2> HIDE DEF w
  <2> QED BY <2>1, <2>2, RunThreadQueue
<1>3. CASE EventNext
  <2> DEFINE w == idxToThread[Head(evList)]
  <2>1. /\ RunThread(w) /\ cur = NoThread /\ UNCHANGED <<obj, joins, nowList>>
        /\ Head(evList) \in DOMAIN idxToThread
    BY <1>3 DEF EventNext
  <2>2. w \in Threads /\ fd[w] # NoFd /\ w \notin Listed /\ ~Nowhere(w)
    BY <2>1, EventIsWaiting
  <2> HIDE DEF w
  <2>3. nowList' \in Seq(Threads) /\ Distinct(nowList')
    BY <1>0, <2>1 DEF QueuePart, QInv, ListPart
  <2> QED BY <2>1, <2>2, <2>3, RunThreadQueue DEF Listed
<1>4. CASE Stop \/ RunDone \/ EventUnknown \/ EventsDone
  <2>1. UNCHANGED <<threadVars, fdVars, atVars, nowList, cur>>
    BY <1>4 DEF Stop, RunDone, EventUnknown, EventsDone
  <2> QED BY <2>1, QuietQueue DEF threadVars, fdVars, atVars
<1> QED BY <1>1, <1>2, <1>3, <1>4 DEF Loop

\* A thread is queued by itself or by the one that creates it.
LEMMA ScheduleOneQueue ==
  ASSUME IInv, QInv, NEW t \in Threads, NEW date \in Dates, ScheduleAt(date, <<t>>),
         t \notin Listed, fd'[t] = NoFd, t # cur', cur' \in {cur, NoThread},
         \A x \in Threads : fd[x] = NoFd => fd'[x] = NoFd,
         ~Nowhere(t) \/ obj[t] = "unborn", obj'[t] # "unborn",
         \A x \in Threads \ {t} : obj'[x] = obj[x],
         UNCHANGED <<nowList, joins>>
  PROVE  QInv'
<1>0. ThreadPart /\ QueuePart /\ FdPart /\ LoopPart
  BY DEF IInv
<1>1. <<t>> \in Seq(Threads) /\ Elems(<<t>>) = {t} /\ Distinct(<<t>>)
  BY DEF Elems, Distinct
<1>2. Distinct(atList') /\ Elems(atList') = Elems(atList) \cup {t}
  <2>1. Elems(<<t>>) \cap Elems(atList) = {}
    BY <1>1 DEF Listed
  <2>2. at \in [Threads -> Dates \union {None}] /\ atList \in Seq(Threads) /\ Distinct(atList)
    BY <1>0 DEF QueuePart, QInv, ListPart
  <2> HIDE DEF Elems
  <2> QED BY <1>1, <2>1, <2>2, ScheduleAtOnce
<1>3. Listed' = Listed \cup {t} /\ Listed \subseteq Threads
  <2>1. Elems(nowList') = Elems(nowList)
    OBVIOUS
  <2>2. Listed \subseteq Threads
    BY <1>0 DEF QueuePart, Listed, Elems
  <2> QED BY <1>2, <2>1, <2>2 DEF Listed
<1>4. ListPart'
  <2>1. Elems(nowList') \cap Elems(atList') = {} /\ Distinct(nowList')
    BY <1>2 DEF Listed, QInv, ListPart, Distinct
  <2>2. \A x \in Listed' : x # cur' /\ fd'[x] = NoFd
    BY <1>3, SchedulerAssumption DEF QInv, ListPart
  <2> QED BY <1>2, <2>1, <2>2 DEF ListPart
<1>5. \A x \in Threads : Nowhere(x) /\ obj[x] # "unborn" => Nowhere(x)' /\ obj'[x] # "unborn"
  BY <1>3, SchedulerAssumption DEF Nowhere
<1>6. PICK over \in SUBSET Threads : JoinPart(over)
  BY DEF QInv
<1>7. \A x \in Threads : obj'[x] = "unborn" => obj[x] = "unborn" /\ Nowhere(x)'
  BY <1>3, <1>6, SchedulerAssumption DEF JoinPart, Nowhere
<1>8. JoinPart(over)'
  BY <1>0, <1>5, <1>6, <1>7, SameJoins
<1> QED BY <1>4, <1>8 DEF QInv

\* What the running thread does to others: one that it creates was nowhere, one that
\* it kills stays where it is in the list.
LEMMA WorkQInv ==
  ASSUME IInv, QInv, Work
  PROVE  QInv'
<1>0. ThreadPart /\ QueuePart /\ FdPart /\ LoopPart
  BY DEF IInv
<1>1. ASSUME NEW u \in Threads, NEW date \in Dates, Spawn(u, date)
      PROVE  QInv'
  <2>1. Nowhere(u)
    BY <1>1 DEF Spawn, QInv, JoinPart
  <2>2. /\ obj[u] = "unborn" /\ obj'[u] # "unborn"
        /\ \A x \in Threads \ {u} : obj'[x] = obj[x]
        /\ ScheduleAt(date, <<u>>)
        /\ UNCHANGED <<joins, fd, nowList, cur>>
    BY <1>0, <1>1 DEF Spawn, ThreadPart, fdVars, loopVars
  <2> QED BY <2>1, <2>2, ScheduleOneQueue DEF Nowhere
<1>2. ASSUME NEW u \in Threads, Kill(u)
      PROVE  QInv'
  <2>1. \A t \in Threads : fd[t] = NoFd => fd'[t] = NoFd
    BY <1>0, <1>2, RemoveFdFrees DEF Kill
  <2> QED BY <1>2, <2>1, QuietQueue DEF Kill, loopVars
<1>3. ASSUME NEW u \in Threads, Drop(u)
      PROVE  QInv'
  BY <1>3, QuietQueue DEF Drop, fdVars, atVars, loopVars
<1>4. CASE Quit
  BY <1>4, QuietQueue DEF Quit, threadVars, fdVars, atVars
<1> QED BY <1>1, <1>2, <1>3, <1>4 DEF Work

\* t is put into the table of u, in a hole or at the end.
LEMMA YieldJoinQueue ==
  ASSUME IInv, QInv, NEW t \in Threads, NEW u \in Threads, YieldJoin(t, u)
  PROVE  QInv'
<1>0. ThreadPart /\ QueuePart /\ FdPart /\ LoopPart
  BY DEF IInv
<1>1. /\ cur = t /\ cur' = NoThread /\ AddJoin(u, t) /\ RemoveFd(t)
      /\ UNCHANGED <<obj, atList, nowList>>
  BY <1>0 DEF YieldJoin, Running, atVars, loopVars
<1>2. fd'[t] = NoFd /\ \A x \in Threads \ {t} : fd'[x] = fd[x]
  BY <1>0, <1>1, RemoveFdFrees
<1>3. Listed' = Listed /\ Listed \subseteq Threads /\ t \notin Listed
  BY <1>0, <1>1 DEF Listed, Elems, QueuePart, QInv, ListPart
<1>4. ListPart'
  <2>1. \A x \in Listed : fd[x] = NoFd => fd'[x] = NoFd
    BY <1>2, <1>3
  <2> QED BY <1>0, <1>1, <2>1, SameLists DEF QInv
<1>5. \A x \in Threads : Nowhere(x) => Nowhere(x)'
  BY <1>1, <1>2, <1>3, SchedulerAssumption DEF Nowhere
<1>6. Nowhere(t)' /\ ~Nowhere(t)
  BY <1>1, <1>2, <1>3, SchedulerAssumption DEF Nowhere
<1>7. PICK over \in SUBSET Threads : JoinPart(over)
  BY DEF QInv
<1>8. t \notin over /\ obj[t] # "unborn"
  BY <1>6, <1>7 DEF JoinPart
<1>9. PICK m \in Nat :
        /\ DOMAIN joins'[u] \subseteq DOMAIN joins[u] \cup {m}
        /\ joins'[u][m] = t
        /\ \A i \in DOMAIN joins[u] : i # m => joins'[u][i] = joins[u][i]
  <2> DEFINE s == joins[u]
  <2>1. s \in Seq(Threads \union {NoThread})
    BY <1>0 DEF ThreadPart
  <2>2. PICK n \in 0 .. Len(s) :
          joins' = [joins EXCEPT ![u] = IF n = Len(s) THEN Append(s, t)
                                        ELSE [s EXCEPT ![n + 1] = t]]
    BY <1>1 DEF AddJoin, Borders
  <2> HIDE DEF s
  <2>4. Len(s) \in Nat /\ DOMAIN s = 1 .. Len(s)
    BY <2>1
  <2>5. DOMAIN joins = Threads
    BY <1>0 DEF ThreadPart
  <2>6. CASE n = Len(s)
    <3>1. joins'[u] = Append(s, t)
      BY <2>2, <2>5, <2>6
    <3>2. /\ DOMAIN Append(s, t) = 1 .. Len(s) + 1 /\ Append(s, t)[Len(s) + 1] = t
          /\ \A i \in 1 .. Len(s) : Append(s, t)[i] = s[i]
      BY <2>1
    <3>3. Len(s) + 1 \in Nat /\ 1 .. Len(s) + 1 = (1 .. Len(s)) \cup {Len(s) + 1}
      BY <2>4
    <3> QED BY <2>4, <3>1, <3>2, <3>3 DEF s
  <2>7. CASE n # Len(s)
    <3>1. joins'[u] = [s EXCEPT ![n + 1] = t]
      BY <2>2, <2>5, <2>7
    <3>2. n + 1 \in DOMAIN s /\ n + 1 \in Nat
      <4>1. Len(s) \in Nat
        BY <2>4
      <4>2. n \in Nat /\ n <= Len(s)
        BY <4>1
      <4>3. n < Len(s)
        BY <2>7, <4>1, <4>2
      <4> QED BY <2>4, <4>2, <4>3
    <3> QED BY <2>4, <3>1, <3>2 DEF s
  <2> QED BY <2>6, <2>7
<1>10. \A v \in Threads \ {u} : joins'[v] = joins[v]
  BY <1>0, <1>1 DEF AddJoin, ThreadPart
\* Every entry is an old one, or it is that of t.
<1>11. \A v \in Threads : \A i \in DOMAIN joins'[v] :
         \/ v = u /\ i = m /\ joins'[v][i] = t
         \/ i \in DOMAIN joins[v] /\ joins'[v][i] = joins[v][i]
  BY <1>9, <1>10
<1>12. \A v \in Threads \ over : \A i \in DOMAIN joins[v] : joins[v][i] # t
  BY <1>6, <1>7, SchedulerAssumption DEF JoinPart
<1>13. JoinPart(over)'
  <2>1. \A x \in over : Nowhere(x)'
    BY <1>5, <1>7 DEF JoinPart
  <2>2. ASSUME NEW v \in Threads \ over, NEW i \in DOMAIN joins'[v], joins'[v][i] # NoThread
        PROVE  /\ (Nowhere(joins[v][i]))'
               /\ joins'[v][i] \notin over /\ obj'[joins'[v][i]] # "unborn"
    <3>1. CASE joins'[v][i] = t
      BY <1>1, <1>6, <1>8, <3>1 DEF Nowhere
    <3>2. CASE i \in DOMAIN joins[v] /\ joins'[v][i] = joins[v][i]
      <4>1. PICK x \in Threads : x = joins[v][i]
        BY <1>0, <2>2, <3>2 DEF ThreadPart
      <4>2. Nowhere(x) /\ x \notin over /\ obj[x] # "unborn"
        BY <1>7, <2>2, <3>2, <4>1 DEF JoinPart
      <4>3. Nowhere(x)' /\ obj'[x] # "unborn"
        BY <1>1, <1>5, <4>2
      <4> QED BY <3>2, <4>1, <4>2, <4>3 DEF Nowhere
    <3> QED BY <1>11, <2>2, <3>1, <3>2
  <2>3. ASSUME NEW v \in Threads \ over, NEW w \in Threads \ over,
               NEW i \in DOMAIN joins'[v], NEW j \in DOMAIN joins'[w],
               joins'[v][i] = joins'[w][j], joins'[v][i] # NoThread
        PROVE  v = w /\ i = j
    <3>1. CASE joins'[v][i] = t
      <4>1. v = u /\ i = m
        BY <1>11, <1>12, <2>3, <3>1
      <4>2. joins'[w][j] = t
        BY <2>3, <3>1
      <4>3. w = u /\ j = m
        BY <1>11, <1>12, <2>3, <4>2
      <4> QED BY <4>1, <4>3
    <3>2. CASE joins'[v][i] # t
      <4>1. i \in DOMAIN joins[v] /\ joins[v][i] = joins'[v][i]
            /\ j \in DOMAIN joins[w] /\ joins[w][j] = joins'[w][j]
        BY <1>11, <2>3, <3>2
      <4> QED BY <1>7, <2>3, <4>1 DEF JoinPart
    <3> QED BY <3>1, <3>2
  <2>4. \A x \in Threads : obj'[x] = "unborn" => Nowhere(x)' /\ x \notin over
    BY <1>1, <1>5, <1>7 DEF JoinPart
  <2> QED BY <2>1, <2>2, <2>3, <2>4 DEF JoinPart, Nowhere
<1> QED BY <1>4, <1>13 DEF QInv

\* What follows a yield: the thread that ran was in no list.
LEMMA YieldQInv ==
  ASSUME IInv, QInv, Yield
  PROVE  QInv'
<1>0. ThreadPart /\ QueuePart /\ FdPart /\ LoopPart
  BY DEF IInv
<1>1. ASSUME NEW t \in Threads, Running(t)
      PROVE  t = cur /\ t \notin Listed /\ ~Nowhere(t) /\ t # NoThread
  BY <1>1 DEF Running, Nowhere, QInv, ListPart
<1>2. ASSUME NEW t \in Threads, NEW f \in Fds, YieldFd(t, f)
      PROVE  QInv'
  <2>1. t = cur /\ \A x \in Threads : fd[x] = NoFd => fd'[x] = NoFd \/ x = cur
    BY <1>0, <1>2 DEF YieldFd, Running, AddFd, ModifyFd, FdPart
  <2> QED BY <1>2, <2>1, QuietQueue DEF YieldFd, threadVars, atVars, loopVars
<1>3. ASSUME NEW t \in Threads, NEW date \in Dates, YieldWait(t, date)
      PROVE  QInv'
  <2>1. t \notin Listed /\ ~Nowhere(t) /\ t # NoThread
    BY <1>1, <1>3 DEF YieldWait
  <2>2. fd'[t] = NoFd /\ \A x \in Threads : fd[x] = NoFd => fd'[x] = NoFd
    BY <1>0, <1>3, RemoveFdFrees DEF YieldWait
  <2>3. obj[t] # "unborn"
    BY <2>1 DEF QInv, JoinPart
  <2> QED BY <1>3, <2>1, <2>2, <2>3, ScheduleOneQueue DEF YieldWait, threadVars, loopVars
<1>4. ASSUME NEW t \in Threads, YieldEnd(t)
      PROVE  QInv'
  <2>1. t = cur /\ t \notin Listed /\ ~Nowhere(t)
    BY <1>1, <1>4 DEF YieldEnd
  <2>2. nowList' = nowList /\ nowList \in Seq(Threads) /\ Distinct(nowList)
    BY <1>0, <1>4 DEF YieldEnd, QueuePart, QInv, ListPart, loopVars
  <2>3. Finalize(t) /\ RemoveFd(t) /\ cur' = NoThread /\ UNCHANGED <<obj, joins>>
    BY <1>4 DEF YieldEnd
  <2>4. Distinct(nowList') /\ t \notin Elems(nowList') /\ t \notin Elems(atList)
    BY <2>1, <2>2 DEF Listed
  <2> QED BY <2>1, <2>2, <2>3, <2>4, FinalizeQueue
<1>5. ASSUME NEW t \in Threads, YieldError(t)
      PROVE  QInv'
  BY <1>5, QuietQueue DEF YieldError, fdVars, atVars, loopVars
<1>6. ASSUME NEW t \in Threads, YieldBad(t)
      PROVE  QInv'
  <2>1. \A x \in Threads : fd[x] = NoFd => fd'[x] = NoFd
    BY <1>0, <1>6, RemoveFdFrees DEF YieldBad
  <2> QED BY <1>6, <2>1, QuietQueue DEF YieldBad, threadVars, atVars, loopVars
<1> QED BY <1>2, <1>3, <1>4, <1>5, <1>6, YieldJoinQueue DEF Yield

\* The garbage collector takes nothing out of a list, and makes holes in the tables.
LEMMA CollectorQInv ==
  ASSUME IInv, QInv, Collector
  PROVE  QInv'
<1>0. ThreadPart /\ QueuePart /\ FdPart /\ LoopPart
  BY DEF IInv
<1>1. ASSUME NEW t \in Threads, Gc(t)
      PROVE  QInv'
  <2>1. \A x \in Threads : fd[x] = NoFd => fd'[x] = NoFd
    BY <1>0, <1>1, RemoveFdFrees DEF Gc
  <2>2. \A x \in Threads : (obj[x] = "unborn") = (obj'[x] = "unborn")
    BY <1>0, <1>1 DEF Gc, ThreadPart
  <2> QED BY <1>1, <2>1, <2>2, QuietQueue DEF Gc, atVars, loopVars
<1>2. ASSUME NEW t \in Threads, GcWrap(t)
      PROVE  QInv'
  <2>1. /\ UNCHANGED <<obj, fd, cur, nowList, atList>>
        /\ joins' = [u \in Threads |-> [i \in DOMAIN joins[u] |->
                       IF joins[u][i] = t THEN NoThread ELSE joins[u][i]]]
    BY <1>2 DEF GcWrap, fdVars, atVars, loopVars
  <2>2. Listed' = Listed /\ Listed \subseteq Threads
    BY <1>0, <2>1 DEF Listed, Elems, QueuePart
  <2>3. ListPart'
    BY <1>0, <2>1, <2>2, SameLists DEF QInv
  <2>4. PICK over \in SUBSET Threads : JoinPart(over)
    BY DEF QInv
  <2>5. \A u \in Threads : \A i \in DOMAIN joins'[u] : joins'[u][i] # NoThread =>
          i \in DOMAIN joins[u] /\ joins'[u][i] = joins[u][i]
    BY <2>1
  <2>6. \A x \in Threads : Nowhere(x) <=> Nowhere(x)'
    BY <2>1, <2>2 DEF Nowhere
  <2>7. \A x \in over : Nowhere(x)'
    BY <2>4, <2>6 DEF JoinPart
  <2>8. ASSUME NEW u \in Threads \ over, NEW i \in DOMAIN joins'[u], joins'[u][i] # NoThread
        PROVE  /\ (Nowhere(joins[u][i]))'
               /\ joins'[u][i] \notin over /\ obj'[joins'[u][i]] # "unborn"
    <3>1. i \in DOMAIN joins[u] /\ joins'[u][i] = joins[u][i]
      BY <2>5, <2>8
    <3>2. PICK x \in Threads : x = joins[u][i]
      BY <1>0, <2>8, <3>1 DEF ThreadPart
    <3>3. Nowhere(x) /\ x \notin over /\ obj[x] # "unborn"
      BY <2>4, <2>8, <3>1, <3>2 DEF JoinPart
    <3> QED BY <2>1, <2>6, <3>1, <3>2, <3>3 DEF Nowhere
  <2>9. \A u, v \in Threads \ over : \A i \in DOMAIN joins'[u] : \A j \in DOMAIN joins'[v] :
          joins'[u][i] = joins'[v][j] /\ joins'[u][i] # NoThread => u = v /\ i = j
    BY <2>4, <2>5 DEF JoinPart
  <2>10. \A x \in Threads : obj'[x] = "unborn" => Nowhere(x)' /\ x \notin over
    BY <2>1, <2>4, <2>6 DEF JoinPart
  <2>11. JoinPart(over)'
    BY <2>7, <2>8, <2>9, <2>10 DEF JoinPart, Nowhere
  <2> QED BY <2>3, <2>11 DEF QInv
<1> QED BY <1>1, <1>2 DEF Collector

\* Every step preserves the invariant about queues.
LEMMA NextQInv == IInv /\ QInv /\ [Next]_vars => QInv'
<1> SUFFICES ASSUME IInv, QInv, [Next]_vars PROVE QInv'
  OBVIOUS
<1>1. CASE PollTimedOut \/ Polled \/ PollInterrupted \/ PollError
  <2>1. UNCHANGED <<threadVars, fdVars, atVars, nowList, cur>>
    BY <1>1 DEF PollTimedOut, Polled, PollReady, PollInterrupted, PollError
  <2> QED BY <2>1, QuietQueue DEF threadVars, fdVars, atVars
<1>2. CASE Tick \/ UNCHANGED vars
  <2>1. UNCHANGED <<threadVars, fdVars, atVars, nowList, cur>>
    BY <1>2 DEF Tick, vars, loopVars, threadVars, fdVars, atVars
  <2> QED BY <2>1, QuietQueue DEF threadVars, fdVars, atVars
<1> QED BY <1>1, <1>2, LoopQInv, WorkQInv, YieldQInv, CollectorQInv DEF Next

\* It implies the one that TLC checks, about the two lists as one queue.
LEMMA QInvIsEnough == IInv /\ QInv => QueuedOnce
<1> SUFFICES ASSUME IInv, QInv PROVE QueuedOnce
  OBVIOUS
<1>1. nowList \in Seq(Threads) /\ atList \in Seq(Threads)
  BY DEF IInv, QueuePart
<1> DEFINE queue == nowList \o atList
<1>2. /\ DOMAIN queue = 1 .. Len(nowList) + Len(atList)
      /\ \A i \in 1 .. Len(nowList) + Len(atList) :
           queue[i] = IF i <= Len(nowList) THEN nowList[i] ELSE atList[i - Len(nowList)]
  BY <1>1
<1> HIDE DEF queue
<1>3. /\ Len(nowList) \in Nat /\ Len(atList) \in Nat
      /\ DOMAIN nowList = 1 .. Len(nowList) /\ DOMAIN atList = 1 .. Len(atList)
  BY <1>1
<1>4. ASSUME NEW i \in DOMAIN queue, NEW j \in DOMAIN queue, i < j
      PROVE  queue[i] # queue[j]
  <2>1. CASE j <= Len(nowList)
    <3>1. i \in DOMAIN nowList /\ j \in DOMAIN nowList /\ i # j
          /\ queue[i] = nowList[i] /\ queue[j] = nowList[j]
      BY <1>2, <1>3, <1>4, <2>1
    <3> QED BY <3>1 DEF QInv, ListPart, Distinct
  <2>2. CASE i <= Len(nowList) /\ j > Len(nowList)
    <3>1. i \in DOMAIN nowList /\ j - Len(nowList) \in DOMAIN atList
          /\ queue[i] = nowList[i] /\ queue[j] = atList[j - Len(nowList)]
      BY <1>2, <1>3, <1>4, <2>2
    <3> QED BY <3>1 DEF QInv, ListPart, Elems
  <2>3. CASE i > Len(nowList)
    <3>1. i - Len(nowList) \in DOMAIN atList /\ j - Len(nowList) \in DOMAIN atList
          /\ i - Len(nowList) # j - Len(nowList)
          /\ queue[i] = atList[i - Len(nowList)] /\ queue[j] = atList[j - Len(nowList)]
      BY <1>2, <1>3, <1>4, <2>3
    <3> QED BY <3>1 DEF QInv, ListPart, Distinct
  <2> QED BY <1>2, <1>3, <1>4, <2>1, <2>2, <2>3
<1>5. \A i, j \in DOMAIN queue : queue[i] = queue[j] => i = j
  BY <1>2, <1>3, <1>4
<1> QED BY <1>5 DEF QueuedOnce, QInv, ListPart, queue

\* No thread is queued twice, or queued while it runs or waits in the poller: the
\* linked list of dates is never tied into a loop or cut by scheduleAt, whatever is
\* killed, collected, joined, finalised or restarted, in whatever order.
THEOREM QueueHasNoDuplicate == Spec => []QueuedOnce
<1>1. Spec => [](IInv /\ QInv)
  BY InitIInv, NextIInv, InitQInv, NextQInv, PTL DEF Spec
<1> QED BY <1>1, QInvIsEnough, PTL

-----------------------------------------------------------------------------
(* The list of dates is in their order *)

\* DatesInOrder, with the entries that kill has made 0 behind anything.
DatePart ==
  /\ \A t \in Listed : at[t] # None
  /\ \A i, j \in DOMAIN atList : i < j =>
       \/ at[atList[i]] <= at[atList[j]]
       \/ at[atList[j]] = 0 /\ ~co[atList[j]]

\* The joiners of a thread that is somewhere are nowhere.
LEMMA JoinedNowhere ==
  ASSUME IInv, QInv, NEW t \in Threads, ~Nowhere(t)
  PROVE  Joined(t) \in Seq(Threads) /\ Elems(Joined(t)) \cap Listed = {}
<1> DEFINE ws == Joined(t)
<1>1. /\ ws \in Seq(Threads)
      /\ \A i \in DOMAIN ws : i \in DOMAIN joins[t] /\ ws[i] = joins[t][i]
                              /\ joins[t][i] # NoThread
  BY JoinedType DEF IInv
<1> HIDE DEF ws
<1>2. \A i \in DOMAIN ws : ws[i] \notin Listed
  BY <1>1 DEF QInv, JoinPart, Nowhere
<1>3. Elems(ws) \cap Listed = {}
  BY <1>2 DEF Elems
<1> QED BY <1>1, <1>3 DEF ws

\* The entries of the list keep their dates and their order.
LEMMA SameDates ==
  ASSUME QueuePart, DatePart, UNCHANGED atList, Elems(nowList') \subseteq Elems(nowList),
         \A t \in Elems(nowList') \cup Elems(atList) : at'[t] = at[t] /\ (co'[t] => co[t])
  PROVE  DatePart'
<1>1. Elems(atList') = Elems(atList) /\ DOMAIN atList' = DOMAIN atList
  OBVIOUS
<1>2. \A t \in Listed' : at'[t] # None
  BY <1>1 DEF DatePart, Listed
<1>3. \A i \in DOMAIN atList : at'[atList[i]] = at[atList[i]] /\ (co'[atList[i]] => co[atList[i]])
  BY DEF Elems
<1>4. ASSUME NEW i \in DOMAIN atList, NEW j \in DOMAIN atList, i < j
      PROVE  at'[atList[i]] <= at'[atList[j]] \/ (at'[atList[j]] = 0 /\ ~co'[atList[j]])
  <2>1. at[atList[i]] <= at[atList[j]] \/ (at[atList[j]] = 0 /\ ~co[atList[j]])
    BY <1>4 DEF DatePart
  <2>2. CASE at[atList[i]] <= at[atList[j]]
    BY <1>3, <2>2
  <2>3. CASE at[atList[j]] = 0 /\ ~co[atList[j]]
    BY <1>3, <2>3
  <2> QED BY <2>1, <2>2, <2>3
<1> QED BY <1>1, <1>2, <1>4 DEF DatePart

\* scheduleAt puts threads between what is not later and what is, or is killed.
LEMMA ScheduleDates ==
  ASSUME QueuePart, DatePart, NEW date \in Dates, NEW ws \in Seq(Threads),
         ScheduleAt(date, ws), Elems(ws) \cap Listed = {},
         Elems(nowList') \subseteq Elems(nowList),
         \A t \in Listed : co'[t] <=> co[t]
  PROVE  DatePart'
<1>1. PICK n \in 0 .. Len(atList) :
           /\ \A i \in 1 .. n : at[atList[i]] <= date
           /\ n < Len(atList) => at[atList[n + 1]] > date
           /\ Len(atList') = Len(atList) + Len(ws)
           /\ \A i \in 1 .. Len(atList') :
                atList'[i] = IF i <= n THEN atList[i]
                             ELSE IF i <= n + Len(ws) THEN ws[i - n]
                             ELSE atList[i - Len(ws)]
  BY ScheduleAtPlace DEF QueuePart
<1>2. /\ Len(atList) \in Nat /\ Len(ws) \in Nat
      /\ DOMAIN atList = 1 .. Len(atList) /\ DOMAIN ws = 1 .. Len(ws)
  BY DEF QueuePart
<1>3. DOMAIN atList' = 1 .. Len(atList')
  BY ScheduleAtType DEF QueuePart
<1>4. at' = [t \in Threads |-> IF t \in Elems(ws) THEN date ELSE at[t]]
  BY DEF ScheduleAt
<1>5. Listed \subseteq Threads
  BY DEF QueuePart, Listed, Elems
<1>6. \A t \in Listed : at'[t] = at[t]
  BY <1>4, <1>5
<1>7. \A t \in Listed : at[t] \in Dates
  BY <1>5 DEF DatePart, QueuePart
<1>8. Dates \subseteq Nat
  BY SchedulerAssumption DEF Dates
\* What the list held, and what is new in it.
<1>9. \A k \in 1 .. Len(atList) :
        /\ at'[atList[k]] = at[atList[k]] /\ at[atList[k]] \in Nat
        /\ co'[atList[k]] <=> co[atList[k]]
        /\ atList[k] \in Listed
  <2> TAKE k \in 1 .. Len(atList)
  <2>1. atList[k] \in Listed
    BY <1>2 DEF Listed, Elems
  <2> QED BY <1>6, <1>7, <1>8, <2>1
<1>10. \A k \in 1 .. Len(ws) : at'[ws[k]] = date
  <2> TAKE k \in 1 .. Len(ws)
  <2>1. ws[k] \in Elems(ws) /\ ws[k] \in Threads
    BY <1>2 DEF Elems
  <2> QED BY <1>4, <2>1
<1>11. \A i, j \in 1 .. Len(atList) : i < j =>
       \/ at[atList[i]] <= at[atList[j]]
       \/ at[atList[j]] = 0 /\ ~co[atList[j]]
  BY <1>2 DEF DatePart
<1>12. ASSUME NEW q \in 1 .. Len(atList), q > n
       PROVE  date <= at[atList[q]] \/ (at[atList[q]] = 0 /\ ~co[atList[q]])
  <2>1. n + 1 \in 1 .. Len(atList) /\ at[atList[n + 1]] > date
    BY <1>1, <1>2, <1>12
  <2>2. at[atList[n + 1]] \in Nat /\ at[atList[q]] \in Nat /\ date \in Nat
    BY <1>8, <1>9, <2>1
  <2>3. CASE q = n + 1
    BY <2>1, <2>2, <2>3
  <2>4. CASE n + 1 < q
    <3>1. at[atList[n + 1]] <= at[atList[q]] \/ (at[atList[q]] = 0 /\ ~co[atList[q]])
      BY <1>11, <2>1, <2>4
    <3> QED BY <2>1, <2>2, <3>1
  <2> QED BY <1>2, <1>12, <2>3, <2>4
<1> DEFINE InOrder(x, y) == at'[x] <= at'[y] \/ (at'[y] = 0 /\ ~co'[y])
<1>13. ASSUME NEW i \in 1 .. Len(atList), NEW j \in 1 .. Len(atList), i < j
       PROVE  InOrder(atList[i], atList[j])
  <2>1. at[atList[i]] <= at[atList[j]] \/ (at[atList[j]] = 0 /\ ~co[atList[j]])
    BY <1>11, <1>13
  <2>2. CASE at[atList[i]] <= at[atList[j]]
    BY <1>9, <2>2
  <2>3. CASE at[atList[j]] = 0 /\ ~co[atList[j]]
    BY <1>9, <2>3
  <2> QED BY <2>1, <2>2, <2>3
<1>14. ASSUME NEW k \in 1 .. Len(ws), NEW q \in 1 .. Len(atList), q > n
       PROVE  InOrder(ws[k], atList[q])
  <2>1. CASE date <= at[atList[q]]
    BY <1>9, <1>10, <2>1
  <2>2. CASE at[atList[q]] = 0 /\ ~co[atList[q]]
    BY <1>9, <2>2
  <2> QED BY <1>12, <1>14, <2>1, <2>2
<1>15. \A i \in 1 .. n, k \in 1 .. Len(ws) : InOrder(atList[i], ws[k])
  <2> TAKE i \in 1 .. n, k \in 1 .. Len(ws)
  <2>1. i \in 1 .. Len(atList)
    BY <1>2
  <2>2. at'[atList[i]] <= at'[ws[k]]
    BY <1>1, <1>9, <1>10, <2>1
  <2> QED BY <2>2
<1>16. \A k, l \in 1 .. Len(ws) : InOrder(ws[k], ws[l])
  <2> TAKE k, l \in 1 .. Len(ws)
  <2>1. at'[ws[k]] = date /\ at'[ws[l]] = date /\ date \in Nat
    BY <1>8, <1>10
  <2> QED BY <2>1
<1> HIDE DEF InOrder
<1>17. ASSUME NEW i \in 1 .. Len(atList'), NEW j \in 1 .. Len(atList'), i < j
       PROVE  InOrder(atList'[i], atList'[j])
  <2>1. n \in Int /\ i \in Int /\ j \in Int
    BY <1>1, <1>2
  <2>2. CASE j <= n
    <3>1. /\ atList'[i] = atList[i] /\ i \in 1 .. Len(atList)
          /\ atList'[j] = atList[j] /\ j \in 1 .. Len(atList)
      BY <1>1, <1>2, <1>17, <2>1, <2>2
    <3> QED BY <1>13, <1>17, <3>1
  <2>3. CASE n < j /\ j <= n + Len(ws)
    <3>1. PICK k \in 1 .. Len(ws) : atList'[j] = ws[k]
      <4>1. atList'[j] = ws[j - n] /\ j - n \in 1 .. Len(ws)
        BY <1>1, <1>2, <2>1, <2>3
      <4> QED BY <4>1
    <3>2. CASE i <= n
      <4>1. atList'[i] = atList[i] /\ i \in 1 .. n
        BY <1>1, <1>2, <2>1, <3>2
      <4> QED BY <1>15, <3>1, <4>1
    <3>3. CASE i > n
      <4>1. atList'[i] = ws[i - n] /\ i - n \in 1 .. Len(ws)
        BY <1>1, <1>2, <1>17, <2>1, <2>3, <3>3
      <4> QED BY <1>16, <3>1, <4>1
    <3> QED BY <2>1, <3>2, <3>3
  <2>4. CASE n + Len(ws) < j
    <3>1. PICK q \in 1 .. Len(atList) : q = j - Len(ws) /\ q > n /\ atList'[j] = atList[q]
      <4>1. /\ j - Len(ws) \in 1 .. Len(atList) /\ j - Len(ws) > n
            /\ atList'[j] = atList[j - Len(ws)]
        BY <1>1, <1>2, <2>1, <2>4
      <4> QED BY <4>1
    <3>2. CASE i <= n
      <4>1. atList'[i] = atList[i] /\ i \in 1 .. Len(atList) /\ i < q
        BY <1>1, <1>2, <2>1, <3>1, <3>2
      <4> QED BY <1>13, <3>1, <4>1
    <3>3. CASE n < i /\ i <= n + Len(ws)
      <4>1. atList'[i] = ws[i - n] /\ i - n \in 1 .. Len(ws)
        BY <1>1, <1>2, <2>1, <3>3
      <4> QED BY <1>14, <3>1, <4>1
    <3>4. CASE n + Len(ws) < i
      <4>1. PICK p \in 1 .. Len(atList) : p = i - Len(ws) /\ atList'[i] = atList[p]
        <5>1. i - Len(ws) \in 1 .. Len(atList) /\ atList'[i] = atList[i - Len(ws)]
          BY <1>1, <1>2, <2>1, <3>4
        <5> QED BY <5>1
      <4>2. p < q
        BY <1>2, <1>17, <2>1, <3>1, <4>1
      <4> QED BY <1>13, <3>1, <4>1, <4>2
    <3> QED BY <1>2, <2>1, <3>2, <3>3, <3>4
  <2> QED BY <1>2, <2>1, <2>2, <2>3, <2>4
<1>18. ASSUME NEW i \in 1 .. Len(atList') PROVE at'[atList'[i]] \in Nat
  <2>1. n \in Int /\ i \in Int
    BY <1>1, <1>2
  <2>2. CASE i <= n
    <3>1. atList'[i] = atList[i] /\ i \in 1 .. Len(atList)
      BY <1>1, <1>2, <2>1, <2>2
    <3> QED BY <1>9, <3>1
  <2>3. CASE n < i /\ i <= n + Len(ws)
    <3>1. atList'[i] = ws[i - n] /\ i - n \in 1 .. Len(ws)
      BY <1>1, <1>2, <2>1, <2>3
    <3> QED BY <1>8, <1>10, <3>1
  <2>4. CASE n + Len(ws) < i
    <3>1. i - Len(ws) \in 1 .. Len(atList) /\ atList'[i] = atList[i - Len(ws)]
      BY <1>1, <1>2, <2>1, <2>4
    <3> QED BY <1>9, <3>1
  <2> QED BY <1>2, <2>1, <2>2, <2>3, <2>4
<1>19. \A t \in Elems(atList') : at'[t] # None
  <2> SUFFICES ASSUME NEW i \in 1 .. Len(atList') PROVE at'[atList'[i]] # None
    BY <1>3 DEF Elems
  <2> QED BY <1>18 DEF None
<1>20. \A t \in Elems(nowList') : at'[t] # None
  BY <1>6 DEF DatePart, Listed
<1> QED BY <1>3, <1>17, <1>19, <1>20 DEF DatePart, Listed, InOrder

\* Thread:finalize, of a thread that is somewhere.
LEMMA FinalizeDates ==
  ASSUME IInv, QInv, DatePart, NEW t \in Threads, ~Nowhere(t), Finalize(t),
         Elems(nowList') \subseteq Elems(nowList),
         \A x \in Listed : co'[x] <=> co[x]
  PROVE  DatePart'
<1>0. QueuePart
  BY DEF IInv
<1>1. Joined(t) \in Seq(Threads) /\ Elems(Joined(t)) \cap Listed = {}
  BY JoinedNowhere
<1>2. CASE Joined(t) = <<>>
  BY <1>0, <1>2, SameDates DEF Finalize, atVars, Listed
<1>3. CASE Joined(t) # <<>>
  BY <1>0, <1>1, <1>3, ScheduleDates, ZeroIsDate DEF Finalize
<1> QED BY <1>2, <1>3

\* runThread for a thread that has left the lists: its date is erased, or its joiners
\* are queued.
LEMMA RunThreadDates ==
  ASSUME IInv, QInv, DatePart, NEW w \in Threads, RunThread(w), ~Nowhere(w),
         UNCHANGED co, w \notin Elems(atList),
         Elems(nowList') \subseteq Elems(nowList), w \notin Elems(nowList')
  PROVE  DatePart'
<1>0. QueuePart
  BY DEF IInv
<1>1. CASE Bury(w) /\ obj[w] = "live"
  BY <1>1, FinalizeDates DEF Bury
<1>2. CASE Bury(w) /\ obj[w] # "live"
  BY <1>0, <1>2, SameDates DEF Bury, atVars
<1>3. CASE Resume(w)
  <2>1. \A t \in Threads \ {w} : at'[t] = at[t]
    BY <1>0, <1>3 DEF Resume, QueuePart
  <2>2. Elems(atList) \subseteq Threads /\ Elems(nowList) \subseteq Threads
    BY <1>0 DEF QueuePart, Elems
  <2>3. \A t \in Elems(nowList') \cup Elems(atList) : at'[t] = at[t]
    BY <2>1, <2>2
  <2> QED BY <1>0, <1>3, <2>3, SameDates DEF Resume
<1> QED BY <1>1, <1>2, <1>3 DEF RunThread

\* The list of a new scheduler has one entry.
LEMMA InitDates == Init => DatePart
<1> SUFFICES ASSUME Init PROVE DatePart
  OBVIOUS
<1>1. Listed = {Main} /\ DOMAIN atList = {1}
  BY DEF Init, Listed, Elems
<1>2. at[Main] # None
  BY SchedulerAssumption DEF Init, None
<1> QED BY <1>1, <1>2 DEF DatePart

\* The steps of the main loop: what collect leaves in the list is its end.
LEMMA LoopDates ==
  ASSUME IInv, QInv, DatePart, Loop
  PROVE  DatePart'
<1>0. ThreadPart /\ QueuePart /\ FdPart /\ LoopPart
  BY DEF IInv
<1>1. CASE Collect
  <2> DEFINE due == {i \in DOMAIN atList : \A j \in 1 .. i : at[atList[j]] < clock}
             n == Cardinality(due)
  <2>1. n \in 0 .. Len(atList) /\ DOMAIN atList = 1 .. Len(atList) /\ Len(atList) \in Nat
    <3>1. DOMAIN atList = 1 .. Len(atList) /\ Len(atList) \in Nat
      BY <1>0 DEF QueuePart
    <3>2. due \in SUBSET (1 .. Len(atList))
      BY <3>1
    <3>3. \A x \in due : \A y \in 1 .. x : y \in due
      BY <3>1
    <3> HIDE DEF due
    <3> QED BY <3>1, <3>2, <3>3, InitialSegment
  <2>2. /\ nowList' = SubSeq(atList, 1, n)
        /\ atList' = SubSeq(atList, n + 1, Len(atList))
        /\ UNCHANGED <<at, co>>
    BY <1>1 DEF Collect, threadVars
  <2> HIDE DEF n
  <2>3. /\ DOMAIN nowList' = 1 .. n /\ \A i \in 1 .. n : nowList'[i] = atList[i]
        /\ DOMAIN atList' = 1 .. Len(atList) - n
        /\ \A i \in 1 .. Len(atList) - n : atList'[i] = atList[n + i]
    BY <1>0, <2>1, <2>2 DEF QueuePart
  <2>4. \A i \in 1 .. Len(atList) - n : n + i \in 1 .. Len(atList)
    BY <2>1
  <2>5. \A t \in Listed' : t \in Elems(atList)
    <3>1. Elems(nowList') \subseteq Elems(atList)
      BY <2>1, <2>3 DEF Elems
    <3>2. Elems(atList') \subseteq Elems(atList)
      BY <2>1, <2>3, <2>4 DEF Elems
    <3> QED BY <3>1, <3>2 DEF Listed
  <2>6. \A t \in Listed' : at'[t] # None
    BY <2>2, <2>5 DEF DatePart, Listed
  <2>7. ASSUME NEW i \in 1 .. Len(atList) - n, NEW j \in 1 .. Len(atList) - n, i < j
        PROVE  \/ at[atList'[i]] <= at[atList'[j]]
               \/ at[atList'[j]] = 0 /\ ~co[atList'[j]]
    <3>1. n + i \in DOMAIN atList /\ n + j \in DOMAIN atList /\ n + i < n + j
      BY <2>1, <2>4, <2>7
    <3>2. \/ at[atList[n + i]] <= at[atList[n + j]]
          \/ at[atList[n + j]] = 0 /\ ~co[atList[n + j]]
      BY <3>1 DEF DatePart
    <3> QED BY <2>3, <3>2
  <2> QED BY <2>2, <2>3, <2>6, <2>7 DEF DatePart
<1>2. CASE RunNext
  <2> DEFINE w == Head(nowList)
  <2>1. /\ nowList \in Seq(Threads) /\ nowList # <<>> /\ nowList' = Tail(nowList)
        /\ cur = NoThread /\ RunThread(w) /\ UNCHANGED co
    BY <1>0, <1>2 DEF RunNext, QueuePart
  <2>2. w \in Threads /\ w \in Elems(nowList) /\ w \notin Elems(atList) /\ ~Nowhere(w)
    BY <2>1, HeadIsListed
  <2>3. w \notin Elems(nowList') /\ Elems(nowList') \subseteq Elems(nowList)
    BY <2>1, HeadIsListed
  <2> HIDE DEF w
  <2> QED BY <2>1, <2>2, <2>3, RunThreadDates
<1>3. CASE EventNext
  <2> DEFINE w == idxToThread[Head(evList)]
  <2>1. RunThread(w) /\ UNCHANGED <<co, nowList>> /\ Head(evList) \in DOMAIN idxToThread
    BY <1>3 DEF EventNext
  <2>2. w \in Threads /\ w \notin Listed /\ ~Nowhere(w)
    BY <2>1, EventIsWaiting
  <2> HIDE DEF w
  <2> QED BY <2>1, <2>2, RunThreadDates DEF Listed
<1>4. CASE Stop \/ RunDone \/ EventUnknown \/ EventsDone
  <2>1. UNCHANGED <<threadVars, atVars, nowList>>
    BY <1>4 DEF Stop, RunDone, EventUnknown, EventsDone
  <2> QED BY <1>0, <2>1, SameDates DEF threadVars, atVars
<1> QED BY <1>1, <1>2, <1>3, <1>4 DEF Loop

\* What the running thread does to others: kill makes an entry the earliest and
\* leaves it where it is, so that only killed threads are out of order.
LEMMA WorkDates ==
  ASSUME IInv, QInv, DatePart, Work
  PROVE  DatePart'
<1>0. ThreadPart /\ QueuePart /\ FdPart /\ LoopPart
  BY DEF IInv
<1>1. ASSUME NEW u \in Threads, NEW date \in Dates, Spawn(u, date)
      PROVE  DatePart'
  <2>1. u \notin Listed
    BY <1>1 DEF Spawn, QInv, JoinPart, Nowhere
  <2>2. <<u>> \in Seq(Threads) /\ Elems(<<u>>) = {u}
    BY DEF Elems
  <2>3. Elems(<<u>>) \cap Listed = {} /\ \A t \in Listed : co'[t] <=> co[t]
    <3>1. Listed \subseteq Threads
      BY <1>0 DEF QueuePart, Listed, Elems
    <3>2. co' = [co EXCEPT ![u] = TRUE]
      BY <1>1 DEF Spawn
    <3> QED BY <1>0, <2>1, <2>2, <3>1, <3>2 DEF ThreadPart
  <2>4. ScheduleAt(date, <<u>>) /\ nowList' = nowList
    BY <1>1 DEF Spawn, loopVars
  <2> QED BY <1>0, <2>2, <2>3, <2>4, ScheduleDates
<1>2. ASSUME NEW u \in Threads, Kill(u)
      PROVE  DatePart'
  <2>1. UNCHANGED <<atList, nowList>>
    BY <1>2 DEF Kill, loopVars
  <2>2. at'[u] = 0 /\ ~co'[u]
        /\ \A t \in Threads \ {u} : at'[t] = at[t] /\ (co'[t] <=> co[t])
    BY <1>0, <1>2 DEF Kill, ThreadPart, QueuePart
  <2>3. Listed' = Listed /\ Listed \subseteq Threads /\ \A t \in Listed : at[t] \in Nat
    <3>1. Listed \subseteq Threads
      BY <1>0 DEF QueuePart, Listed, Elems
    <3>2. Listed' = Listed
      BY <2>1 DEF Listed, Elems
    <3> QED BY <1>0, <3>1, <3>2, SchedulerAssumption DEF QueuePart, DatePart, Dates
  <2>4. \A t \in Listed' : at'[t] # None
    BY <2>2, <2>3 DEF None, DatePart
  <2>5. ASSUME NEW i \in DOMAIN atList, NEW j \in DOMAIN atList, i < j
        PROVE  at'[atList[i]] <= at'[atList[j]] \/ (at'[atList[j]] = 0 /\ ~co'[atList[j]])
    <3>1. atList[i] \in Listed /\ atList[j] \in Listed
      BY DEF Listed, Elems
    <3>2. CASE atList[j] = u
      BY <2>2, <3>2
    <3>3. CASE atList[i] = u /\ atList[j] # u
      <4>1. at'[atList[j]] \in Nat
        BY <2>2, <2>3, <3>1, <3>3
      <4> QED BY <2>2, <3>3, <4>1
    <3>4. CASE atList[i] # u /\ atList[j] # u
      <4>1. /\ at'[atList[i]] = at[atList[i]] /\ at'[atList[j]] = at[atList[j]]
            /\ co'[atList[j]] <=> co[atList[j]]
        BY <2>2, <2>3, <3>1, <3>4
      <4>2. at[atList[i]] <= at[atList[j]] \/ (at[atList[j]] = 0 /\ ~co[atList[j]])
        BY <2>5 DEF DatePart
      <4>3. CASE at[atList[i]] <= at[atList[j]]
        BY <4>1, <4>3
      <4>4. CASE at[atList[j]] = 0 /\ ~co[atList[j]]
        BY <4>1, <4>4
      <4> QED BY <4>2, <4>3, <4>4
    <3> QED BY <3>2, <3>3, <3>4
  <2> QED BY <2>1, <2>4, <2>5 DEF DatePart
<1>3. ASSUME NEW u \in Threads, Drop(u)
      PROVE  DatePart'
  BY <1>0, <1>3, SameDates DEF Drop, atVars, loopVars
<1>4. CASE Quit
  BY <1>0, <1>4, SameDates DEF Quit, threadVars, atVars
<1> QED BY <1>1, <1>2, <1>3, <1>4 DEF Work

\* What follows a yield: the thread gets a date, or its joiners do.
LEMMA YieldDates ==
  ASSUME IInv, QInv, DatePart, Yield
  PROVE  DatePart'
<1>0. ThreadPart /\ QueuePart /\ FdPart /\ LoopPart
  BY DEF IInv
<1>1. ASSUME NEW t \in Threads, Running(t)
      PROVE  t \notin Listed /\ ~Nowhere(t) /\ Listed \subseteq Threads
  <2>1. t \notin Listed /\ ~Nowhere(t)
    BY <1>1 DEF Running, Nowhere, QInv, ListPart
  <2>2. Listed \subseteq Threads
    BY <1>0 DEF QueuePart, Listed, Elems
  <2> QED BY <2>1, <2>2
<1>2. ASSUME NEW t \in Threads, NEW date \in Dates, YieldWait(t, date)
      PROVE  DatePart'
  <2>1. Elems(<<t>>) = {t} /\ <<t>> \in Seq(Threads)
    BY DEF Elems
  <2>2. Elems(<<t>>) \cap Listed = {}
    BY <1>1, <1>2, <2>1 DEF YieldWait
  <2>3. ScheduleAt(date, <<t>>) /\ UNCHANGED <<co, nowList>>
    BY <1>2 DEF YieldWait, threadVars, loopVars
  <2> QED BY <1>0, <2>1, <2>2, <2>3, ScheduleDates
<1>3. ASSUME NEW t \in Threads, YieldEnd(t)
      PROVE  DatePart'
  <2>1. t \notin Listed /\ ~Nowhere(t) /\ Listed \subseteq Threads
    BY <1>1, <1>3 DEF YieldEnd
  <2>2. \A x \in Listed : co'[x] <=> co[x]
    BY <1>0, <1>3, <2>1 DEF YieldEnd, ThreadPart
  <2>3. Finalize(t) /\ nowList' = nowList
    BY <1>3 DEF YieldEnd, loopVars
  <2> QED BY <2>1, <2>2, <2>3, FinalizeDates
<1>4. ASSUME NEW t \in Threads, YieldError(t)
      PROVE  DatePart'
  <2>1. t \notin Listed /\ Listed \subseteq Threads
    BY <1>1, <1>4 DEF YieldError
  <2>2. \A x \in Listed : co'[x] <=> co[x]
    BY <1>0, <1>4, <2>1 DEF YieldError, ThreadPart
  <2>3. UNCHANGED <<nowList, atList, at>>
    BY <1>4 DEF YieldError, atVars, loopVars
  <2> QED BY <1>0, <2>2, <2>3, SameDates DEF Listed
<1>5. ASSUME NEW t \in Threads,
             \/ \E f \in Fds : YieldFd(t, f)
             \/ \E u \in Threads : YieldJoin(t, u)
             \/ YieldBad(t)
      PROVE  DatePart'
  <2>1. UNCHANGED <<nowList, atList, at, co>>
    BY <1>5 DEF YieldFd, YieldJoin, YieldBad, threadVars, atVars, loopVars
  <2> QED BY <1>0, <2>1, SameDates
<1> QED BY <1>2, <1>3, <1>4, <1>5 DEF Yield

\* The garbage collector moves nothing and only takes coroutines away.
LEMMA CollectorDates ==
  ASSUME IInv, QInv, DatePart, Collector
  PROVE  DatePart'
<1>0. ThreadPart /\ QueuePart
  BY DEF IInv
<1>1. PICK t \in Threads : Gc(t) \/ GcWrap(t)
  BY DEF Collector
<1>2. UNCHANGED <<nowList, atList, at>>
  BY <1>1 DEF Gc, GcWrap, atVars, loopVars
<1>3. \A x \in Threads : co'[x] => co[x]
  BY <1>0, <1>1 DEF Gc, GcWrap, ThreadPart
<1>4. Elems(nowList) \cup Elems(atList) \subseteq Threads
  BY <1>0 DEF QueuePart, Elems
<1> QED BY <1>0, <1>2, <1>3, <1>4, SameDates

\* Every step preserves the order of the list.
LEMMA NextDates == IInv /\ QInv /\ DatePart /\ [Next]_vars => DatePart'
<1> SUFFICES ASSUME IInv, QInv, DatePart, [Next]_vars PROVE DatePart'
  OBVIOUS
<1>0. QueuePart
  BY DEF IInv
<1>1. CASE PollTimedOut \/ Polled \/ PollInterrupted \/ PollError \/ Tick \/ UNCHANGED vars
  <2>1. UNCHANGED <<nowList, atList, at, co>>
    BY <1>1 DEF PollTimedOut, Polled, PollReady, PollInterrupted, PollError, Tick, vars,
                threadVars, atVars, loopVars
  <2> QED BY <1>0, <2>1, SameDates
<1> QED BY <1>1, LoopDates, WorkDates, YieldDates, CollectorDates DEF Next

\* Among those that can be resumed, nothing but the order of dates is left.
LEMMA DatesAreEnough == IInv /\ DatePart => DatesInOrder
  BY DEF IInv, DatePart, DatesInOrder

\* The loop never compares the date of a thread that has none, and those that can be
\* resumed are reached in the order of their dates although kill writes 0 into
\* entries that stay where they are.
THEOREM ListIsInOrder == Spec => []DatesInOrder
<1>1. Spec => [](IInv /\ QInv /\ DatePart)
  BY InitIInv, NextIInv, InitQInv, NextQInv, InitDates, NextDates, PTL DEF Spec
<1> QED BY <1>1, DatesAreEnough, PTL

-----------------------------------------------------------------------------
(* The events that are still to be served *)

\* Between two polls no thread runs, and the handles that are still to be served are
\* distinct and not that of the running thread, which has been served.
EventPart ==
  /\ pc \notin {"now", "events"} => cur = NoThread
  /\ pc = "events" => Distinct(evList) /\ (cur # NoThread => idx[cur] \notin Elems(evList))

\* The events are listed once each: an order of a set has no two equal entries.
LEMMA OrdersDistinct ==
  ASSUME NEW S, IsFiniteSet(S), NEW s \in Orders(S)
  PROVE  Distinct(s)
<1> DEFINE n == Cardinality(S)
<1>1. n \in Nat
  BY FS_CardinalityType
<1>2. IsFiniteSet(1 .. n) /\ Cardinality(1 .. n) = n
  BY <1>1, FS_Interval
<1>3. s \in [1 .. n -> S] /\ Elems(s) = S /\ DOMAIN s = 1 .. n
  BY DEF Orders
<1>4. s \in Surjection(1 .. n, S)
  BY <1>3 DEF Surjection, Elems
<1>5. s \in Injection(1 .. n, S)
  BY <1>2, <1>4, FS_SurjSameCardinalityImpliesInj
<1> QED BY <1>3, <1>5 DEF Injection, IsInjective, Distinct

\* removeFd(t) takes away the handle of t and no other.
LEMMA RemoveFdKeeps ==
  ASSUME FdPart, NEW t \in Threads, RemoveFd(t), NEW i \in DOMAIN idxToThread
  PROVE  \/ i \in DOMAIN idxToThread' /\ idxToThread'[i] = idxToThread[i]
         \/ fd[t] # NoFd /\ i = idx[t] /\ idxToThread[i] = t
<1>1. CASE fd[t] = NoFd
  BY <1>1 DEF RemoveFd, fdVars
<1>2. CASE fd[t] # NoFd
  BY <1>2 DEF RemoveFd, Without, FdPart, FdTables
<1> QED BY <1>1, <1>2

\* removeFd(t) changes the index of no other thread, and that of t to nil.
LEMMA RemoveFdIdx ==
  ASSUME FdPart, NEW t \in Threads, RemoveFd(t), NEW u \in Threads
  PROVE  idx'[u] = idx[u] \/ (u = t /\ idx'[u] = None)
  BY DEF RemoveFd, fdVars, FdPart

\* There are no events before the first poll.
LEMMA InitEvents == Init => EventPart
  BY DEF Init, EventPart

\* Every step preserves what is known of the events.
LEMMA NextEvents == IInv /\ EventPart /\ [Next]_vars => EventPart'
<1> SUFFICES ASSUME IInv, EventPart, [Next]_vars PROVE EventPart'
  OBVIOUS
<1>0. ThreadPart /\ QueuePart /\ FdPart /\ LoopPart
  BY DEF IInv
<1>1. CASE EventNext
  <2> DEFINE w == idxToThread[Head(evList)]
             s == Tail(evList)
  <2>1. /\ evList \in Seq(Nat) /\ evList # <<>> /\ evList' = s /\ pc' = pc /\ pc = "events"
        /\ cur = NoThread /\ RunThread(w) /\ Head(evList) \in DOMAIN idxToThread
    BY <1>0, <1>1 DEF EventNext, LoopPart
  <2>2. /\ Head(evList) = evList[1] /\ 1 \in DOMAIN evList /\ s \in Seq(Nat)
        /\ \A i \in DOMAIN s : i \in Nat \ {0} /\ i + 1 \in DOMAIN evList
                               /\ s[i] = evList[i + 1]
    BY <2>1
  <2>3. w \in Threads /\ idx[w] = Head(evList)
    BY <1>0, <2>1 DEF FdPart, FdTables, Elems
  <2> HIDE DEF w, s
  <2>4. \A i, j \in DOMAIN evList : evList[i] = evList[j] => i = j
    BY <2>1 DEF EventPart, Distinct
  <2>5. Distinct(s)
    <3>1. \A i, j \in DOMAIN s : s[i] = s[j] => i + 1 = j + 1
      BY <2>2, <2>4
    <3>2. \A i, j \in DOMAIN s : i + 1 = j + 1 => i = j
      BY <2>2
    <3> QED BY <3>1, <3>2 DEF Distinct
  <2>6. Head(evList) \notin Elems(s)
    <3> SUFFICES ASSUME NEW i \in DOMAIN s PROVE s[i] # Head(evList)
      BY DEF Elems
    <3>1. i + 1 # 1
      BY <2>2
    <3> QED BY <2>2, <2>4, <3>1
  <2>7. cur' = NoThread \/ (cur' = w /\ idx' = idx)
    BY <2>1 DEF RunThread, Bury, Resume, fdVars
  <2> QED BY <2>1, <2>3, <2>5, <2>6, <2>7 DEF EventPart
<1>2. CASE Collect \/ Stop \/ RunNext \/ RunDone \/ EventUnknown \/ EventsDone
  BY <1>2 DEF Collect, Stop, RunNext, RunDone, EventUnknown, EventsDone, EventPart
<1>3. CASE PollTimedOut \/ PollInterrupted \/ PollError
  BY <1>3 DEF PollTimedOut, PollInterrupted, PollError, EventPart, Distinct, Elems
<1>4. CASE Polled
  <2>1. PICK S \in SUBSET DOMAIN poller : PollReady(S)
    BY <1>4 DEF Polled
  <2>2. IsFiniteSet(S)
    BY <1>0, <2>1, FS_Subset DEF FdPart
  <2>3. evList' \in Orders(S) /\ cur' = cur /\ pc = "poll" /\ pc' = "events"
    BY <2>1 DEF PollReady
  <2>4. Distinct(evList')
    BY <2>2, <2>3, OrdersDistinct
  <2> QED BY <2>3, <2>4 DEF EventPart
<1>5. CASE Work
  <2>1. UNCHANGED <<pc, evList, cur>> /\ cur # NoThread
    BY <1>5 DEF Work, Spawn, Kill, Drop, Quit, loopVars
  <2>2. cur \in Threads /\ None \notin Elems(evList)
    BY <1>0, <2>1 DEF LoopPart, Elems, None
  <2>3. idx'[cur] = idx[cur] \/ idx'[cur] = None
    <3>1. ASSUME NEW u \in Threads, Kill(u) PROVE idx'[cur] = idx[cur] \/ idx'[cur] = None
      BY <1>0, <2>2, <3>1, RemoveFdIdx DEF Kill
    <3> QED BY <1>5, <3>1 DEF Work, Spawn, Drop, Quit, fdVars
  <2>4. Elems(evList') = Elems(evList) /\ (Distinct(evList) => Distinct(evList'))
    BY <2>1
  <2> QED BY <2>1, <2>2, <2>3, <2>4 DEF EventPart
<1>6. CASE Yield
  <2>1. cur' = NoThread /\ UNCHANGED <<pc, evList>>
    BY <1>6 DEF Yield, YieldFd, YieldJoin, YieldWait, YieldEnd, YieldError, YieldBad, loopVars
  <2> QED BY <2>1 DEF EventPart, Distinct
<1>7. CASE Collector
  <2>1. PICK t \in Threads : Gc(t) \/ GcWrap(t)
    BY <1>7 DEF Collector
  <2>2. UNCHANGED <<pc, evList, cur>>
    BY <2>1 DEF Gc, GcWrap, loopVars
  <2>3. cur # NoThread => idx'[cur] = idx[cur]
    <3>1. CASE Gc(t)
      <4>1. cur # t /\ RemoveFd(t)
        BY <3>1 DEF Gc, Reachable
      <4> QED BY <1>0, <4>1, RemoveFdIdx DEF LoopPart
    <3>2. CASE GcWrap(t)
      BY <3>2 DEF GcWrap, fdVars
    <3> QED BY <2>1, <3>1, <3>2
  <2> QED BY <2>2, <2>3 DEF EventPart, Distinct, Elems
<1>8. CASE Tick \/ UNCHANGED vars
  <2>1. UNCHANGED <<pc, evList, cur, idx>>
    BY <1>8 DEF Tick, vars, loopVars, fdVars
  <2> QED BY <2>1 DEF EventPart, Distinct, Elems
<1> QED BY <1>1, <1>2, <1>3, <1>4, <1>5, <1>6, <1>7, <1>8 DEF Next, Loop

\* A step between two events.
LEMMA PendingKept ==
  ASSUME IInv, EventPart, [Next]_vars, pc = "events", pc' = "events",
         NEW i \in Elems(evList') \cap DOMAIN idxToThread
  PROVE  \/ i \in DOMAIN idxToThread' /\ idxToThread'[i] = idxToThread[i]
         \/ Kill(idxToThread[i]) \/ Gc(idxToThread[i])
<1>0. ThreadPart /\ QueuePart /\ FdPart /\ LoopPart
  BY DEF IInv
<1> DEFINE Kept == i \in DOMAIN idxToThread' /\ idxToThread'[i] = idxToThread[i]
<1>1. CASE EventNext
  <2> DEFINE w == idxToThread[Head(evList)]
  <2>1. /\ evList \in Seq(Nat) /\ evList # <<>> /\ evList' = Tail(evList)
        /\ RunThread(w) /\ Head(evList) \in DOMAIN idxToThread
    BY <1>0, <1>1 DEF EventNext, LoopPart
  <2>2. w \in Threads /\ idx[w] = Head(evList)
    BY <1>0, <2>1 DEF FdPart, FdTables, Elems
  <2>3. i # Head(evList)
    <3>1. /\ Head(evList) = evList[1] /\ 1 \in DOMAIN evList
          /\ \A k \in DOMAIN Tail(evList) : k \in Nat \ {0} /\ k + 1 \in DOMAIN evList
                                            /\ Tail(evList)[k] = evList[k + 1]
      BY <2>1
    <3>2. PICK k \in DOMAIN Tail(evList) : Tail(evList)[k] = i
      BY <2>1 DEF Elems
    <3>3. k + 1 # 1
      BY <3>1
    <3> QED BY <3>1, <3>2, <3>3 DEF EventPart, Distinct
  <2> HIDE DEF w
  <2>4. CASE Bury(w)
    BY <1>0, <2>2, <2>3, <2>4, RemoveFdKeeps DEF Bury
  <2>5. CASE Resume(w)
    BY <2>5 DEF Resume, fdVars
  <2> QED BY <2>1, <2>4, <2>5 DEF RunThread
<1>2. ASSUME NEW u \in Threads, Kill(u) PROVE Kept \/ Kill(idxToThread[i])
  BY <1>0, <1>2, RemoveFdKeeps DEF Kill
<1>3. ASSUME NEW t \in Threads, Gc(t) PROVE Kept \/ Gc(idxToThread[i])
  BY <1>0, <1>3, RemoveFdKeeps DEF Gc
<1>4. CASE Yield
  <2>1. PICK t \in Threads :
          \/ \E f \in Fds : YieldFd(t, f)
          \/ YieldError(t)
          \/ RemoveFd(t) /\ Running(t)
    BY <1>4 DEF Yield, YieldJoin, YieldWait, YieldEnd, YieldBad
  <2>2. CASE RemoveFd(t) /\ Running(t)
    <3>1. evList' = evList
      BY <1>4 DEF Yield, YieldFd, YieldJoin, YieldWait, YieldEnd, YieldError, YieldBad, loopVars
    <3>2. i # idx[t]
      BY <2>2, <3>1 DEF Running, EventPart
    <3> QED BY <1>0, <2>2, <3>2, RemoveFdKeeps
  <2>3. CASE \E f \in Fds : YieldFd(t, f)
    <3>1. PICK f \in Fds : YieldFd(t, f)
      BY <2>3
    <3>2. CASE ModifyFd(t, f)
      BY <3>2 DEF ModifyFd
    <3>3. CASE AddFd(t, f)
      <4>1. PICK k \in 0 .. Cardinality(DOMAIN poller) :
              /\ k \notin DOMAIN poller
              /\ idxToThread' = [m \in DOMAIN idxToThread \union {k} |->
                                   IF m = k THEN t ELSE idxToThread[m]]
        BY <3>3 DEF AddFd
      <4>2. k # i
        BY <1>0, <4>1 DEF FdPart, FdTables
      <4> QED BY <4>1, <4>2
    <3> QED BY <3>1, <3>2, <3>3 DEF YieldFd
  <2>4. CASE YieldError(t)
    BY <2>4 DEF YieldError, fdVars
  <2> QED BY <2>1, <2>2, <2>3, <2>4
<1>5. CASE \/ Collect \/ Stop \/ RunNext \/ RunDone \/ EventUnknown \/ EventsDone
           \/ PollTimedOut \/ Polled \/ PollInterrupted \/ PollError
  BY <1>5 DEF Collect, Stop, RunNext, RunDone, EventUnknown, EventsDone,
              PollTimedOut, Polled, PollReady, PollInterrupted, PollError
<1>6. CASE Quit \/ Tick \/ UNCHANGED vars
           \/ (\E u \in Threads, date \in Dates : Spawn(u, date))
           \/ (\E u \in Threads : Drop(u) \/ GcWrap(u))
  BY <1>6 DEF Quit, Tick, vars, Spawn, Drop, GcWrap, fdVars
<1> QED BY <1>1, <1>2, <1>3, <1>4, <1>5, <1>6 DEF Next, Loop, Work, Collector

\* Whatever the threads that are served first do, a handle that is still to be served
\* keeps its thread, unless that one is killed or collected.
THEOREM PendingEventsKept == Spec => PendingEventsKeepThread
<1>1. IInv /\ EventPart /\ [Next]_vars =>
        [pc = "events" /\ pc' = "events" =>
           \A i \in Elems(evList') \intersect DOMAIN idxToThread :
             \/ i \in DOMAIN idxToThread' /\ idxToThread'[i] = idxToThread[i]
             \/ Kill(idxToThread[i]) \/ Gc(idxToThread[i])]_vars
  BY PendingKept
<1> QED BY <1>1, InitIInv, NextIInv, InitEvents, NextEvents, PTL
        DEF Spec, PendingEventsKeepThread

-----------------------------------------------------------------------------
(* Nobody is forgotten *)

\* A thread with a coroutine runs, is in a list, waits in the poller, or is suspended in
\* the join of a thread of which the same is true: the property by which the end of a
\* thread reaches everyone who waits for it.  held are the threads that something holds;
\* threads that join each other in a ring hold one another, which the code allows.
Held(held) ==
  /\ \A t \in Threads : co[t] => t \in held
  /\ \A t \in held : Nowhere(t) =>
       \E u \in held : joining[t] = u /\ t \in Elems(joins[u])

NobodyForgotten == \E held \in SUBSET Threads : Held(held)

\* What could lose a thread does not happen: the kill of one that waits in the poller,
\* which nobody finalises, a collection, which makes holes in the tables of joins, a
\* restart, which queues nothing, and an unknown yield.
NothingLoses == "fd" \notin Killable /\ Faults \cap {"gc", "error", "badYield"} = {}

\* With it, the tables of joins have no holes, no thread is collected and the list of
\* due threads is empty when new ones are collected.
HeldInv ==
  /\ NobodyForgotten
  /\ \A u \in Threads : \A i \in DOMAIN joins[u] : joins[u][i] # NoThread
  /\ \A t \in Threads : obj[t] # "gone"
  /\ pc # "now" => nowList = <<>>

\* scheduleAt loses nobody.
LEMMA ScheduleAtHolds ==
  ASSUME at \in [Threads -> Dates \union {None}], atList \in Seq(Threads),
         NEW date \in Dates, NEW ws \in Seq(Threads), ScheduleAt(date, ws)
  PROVE  Elems(atList) \cup Elems(ws) \subseteq Elems(atList')
<1>1. PICK n \in 0 .. Len(atList) :
           /\ Len(atList') = Len(atList) + Len(ws)
           /\ \A i \in 1 .. Len(atList') :
                atList'[i] = IF i <= n THEN atList[i]
                             ELSE IF i <= n + Len(ws) THEN ws[i - n]
                             ELSE atList[i - Len(ws)]
  BY ScheduleAtPlace
<1>2. /\ Len(atList) \in Nat /\ Len(ws) \in Nat
      /\ DOMAIN atList = 1 .. Len(atList) /\ DOMAIN ws = 1 .. Len(ws)
  OBVIOUS
<1>3. atList' \in Seq(Threads) /\ DOMAIN atList' = 1 .. Len(atList')
  BY ScheduleAtType
<1>4. ASSUME NEW i \in 1 .. Len(atList)
      PROVE  \E j \in DOMAIN atList' : atList'[j] = atList[i]
  <2>1. CASE i <= n
    <3>1. i \in DOMAIN atList'
      BY <1>1, <1>2, <1>3
    <3> QED BY <1>1, <1>3, <2>1, <3>1
  <2>2. CASE i > n
    <3>1. /\ i + Len(ws) \in DOMAIN atList' /\ ~(i + Len(ws) <= n)
          /\ ~(i + Len(ws) <= n + Len(ws)) /\ i + Len(ws) - Len(ws) = i
      BY <1>1, <1>2, <1>3, <2>2
    <3> QED BY <1>1, <1>3, <3>1
  <2> QED BY <1>2, <2>1, <2>2
<1>5. ASSUME NEW i \in 1 .. Len(ws)
      PROVE  \E j \in DOMAIN atList' : atList'[j] = ws[i]
  <2> DEFINE j == n + i
  <2>1. j \in DOMAIN atList' /\ ~(j <= n) /\ j <= n + Len(ws) /\ j - n = i
    BY <1>1, <1>2, <1>3
  <2> HIDE DEF j
  <2>2. atList'[j] = ws[j - n]
    BY <1>1, <1>3, <2>1
  <2> QED BY <2>1, <2>2
<1> QED BY <1>2, <1>4, <1>5 DEF Elems

\* Without holes all that joined are resumed.
LEMMA JoinedIsAll ==
  ASSUME ThreadPart, NEW t \in Threads, \A i \in DOMAIN joins[t] : joins[t][i] # NoThread
  PROVE  Joined(t) = joins[t]
<1> DEFINE s == joins[t]
           filled == {i \in DOMAIN s : \A j \in 1 .. i : s[j] # NoThread}
<1>1. s \in Seq(Threads \union {NoThread}) /\ DOMAIN s = 1 .. Len(s) /\ Len(s) \in Nat
  BY DEF ThreadPart
<1>2. filled = 1 .. Len(s)
  BY <1>1
<1>3. Cardinality(1 .. Len(s)) = Len(s)
  BY <1>1, FS_Interval
<1>4. SubSeq(s, 1, Len(s)) = s
  <2> HIDE DEF s
  <2> QED BY <1>1
<1> QED BY <1>2, <1>3, <1>4 DEF Joined

\* A step after which nobody is nowhere who was not, and that ends nobody.
LEMMA KeepHeld ==
  ASSUME NobodyForgotten, joins' = joins,
         \A t \in Threads : co'[t] => co[t],
         \A t \in Threads : Nowhere(t)' => Nowhere(t) /\ joining'[t] = joining[t]
  PROVE  NobodyForgotten'
<1>1. PICK held \in SUBSET Threads : Held(held)
  BY DEF NobodyForgotten
<1>2. \A t \in Threads : co'[t] => t \in held
  BY <1>1 DEF Held
<1>3. ASSUME NEW t \in held, Nowhere(t)'
      PROVE  \E u \in held : joining'[t] = u /\ t \in Elems(joins[u])
  BY <1>1, <1>3 DEF Held
<1>4. Held(held)'
  BY <1>2, <1>3 DEF Held, Elems
<1> QED BY <1>4 DEF NobodyForgotten

\* The end of a thread queues everyone who waits for it.
LEMMA FinalizeHeld ==
  ASSUME IInv, HeldInv, NEW t \in Threads, Finalize(t), RemoveFd(t),
         UNCHANGED <<joins, joining>>, cur' = NoThread, cur \in {t, NoThread},
         ~co'[t], \A x \in Threads : co'[x] => co[x],
         Elems(nowList) \ {t} \subseteq Elems(nowList')
  PROVE  NobodyForgotten'
<1>0. ThreadPart /\ QueuePart /\ FdPart
  BY DEF IInv
<1>1. PICK held \in SUBSET Threads : Held(held)
  BY DEF HeldInv, NobodyForgotten
<1> DEFINE ws == Joined(t)
<1>2. ws = joins[t] /\ ws \in Seq(Threads)
  BY <1>0, JoinedIsAll, JoinedType DEF HeldInv
<1> HIDE DEF ws
<1>3. Elems(atList) \cup Elems(ws) \subseteq Elems(atList')
  <2>1. CASE ws = <<>>
    <3>1. Elems(ws) = {} /\ atList' = atList
      BY <2>1 DEF Elems, Finalize, atVars, ws
    <3> QED BY <3>1
  <2>2. CASE ws # <<>>
    <3>1. ScheduleAt(0, ws)
      BY <2>2 DEF Finalize, ws
    <3> QED BY <1>0, <1>2, <3>1, ScheduleAtHolds, ZeroIsDate DEF QueuePart
  <2> QED BY <2>1, <2>2
<1>4. \A x \in Threads \ {t} : fd'[x] = fd[x]
  BY <1>0, RemoveFdFrees
<1>5. ASSUME NEW x \in Threads \ {t}, Nowhere(x)'
      PROVE  Nowhere(x) /\ x \notin Elems(joins[t])
  BY <1>2, <1>3, <1>4, <1>5, SchedulerAssumption DEF Nowhere, Listed
<1>6. \A x \in Threads : co'[x] => x \in held \ {t}
  BY <1>1 DEF Held
<1>7. ASSUME NEW x \in held \ {t}, Nowhere(x)'
      PROVE  \E u \in held \ {t} : joining[x] = u /\ x \in Elems(joins[u])
  <2>1. Nowhere(x) /\ x \notin Elems(joins[t])
    BY <1>5, <1>7
  <2>2. PICK u \in held : joining[x] = u /\ x \in Elems(joins[u])
    BY <1>1, <2>1 DEF Held
  <2> QED BY <2>1, <2>2
<1>8. Held(held \ {t})'
  BY <1>6, <1>7 DEF Held, Elems
<1> QED BY <1>8 DEF NobodyForgotten

\* runThread: the thread is resumed, or it is finalised, since it is live.
LEMMA RunThreadHeld ==
  ASSUME IInv, QInv, HeldInv, NEW w \in Threads, RunThread(w), ~Nowhere(w),
         cur = NoThread, UNCHANGED <<obj, co, joins>>,
         Elems(nowList) \ {w} \subseteq Elems(nowList')
  PROVE  NobodyForgotten'
<1>0. ThreadPart
  BY DEF IInv
<1>1. obj[w] = "live"
  BY <1>0 DEF QInv, JoinPart, HeldInv, ThreadPart
<1>2. CASE Bury(w)
  <2>1. Finalize(w) /\ RemoveFd(w) /\ UNCHANGED <<joining, cur>> /\ ~co[w]
    BY <1>1, <1>2 DEF Bury
  <2> QED BY <2>1, FinalizeHeld
<1>3. CASE Resume(w)
  <2>1. /\ cur' = w /\ atList' = atList /\ fd' = fd
        /\ joining' = [joining EXCEPT ![w] = NoThread]
    BY <1>3 DEF Resume, fdVars
  <2>2. \A t \in Threads \ {w} : joining'[t] = joining[t]
    BY <1>0, <2>1 DEF ThreadPart
  <2>3. \A t \in Threads : Nowhere(t)' => t # w /\ Nowhere(t)
    BY <2>1, SchedulerAssumption DEF Nowhere, Listed
  <2> QED BY <2>2, <2>3, KeepHeld DEF HeldInv
<1> QED BY <1>2, <1>3 DEF RunThread

\* A step that changes no place, no join and no coroutine.
LEMMA QuietHeld ==
  ASSUME HeldInv, UNCHANGED <<joins, joining, co, obj, fd, atList, nowList, cur>>,
         pc' = "now" \/ pc # "now" \/ nowList = <<>>
  PROVE  HeldInv'
<1>1. NobodyForgotten'
  BY KeepHeld DEF HeldInv, Nowhere, Listed, Elems
<1>2. pc' # "now" => nowList' = <<>>
  BY DEF HeldInv
<1> QED BY <1>1, <1>2 DEF HeldInv

\* A new scheduler: its one thread is in the list.
LEMMA InitHeld == Init => HeldInv
<1> SUFFICES ASSUME Init PROVE HeldInv
  OBVIOUS
<1>1. /\ nowList = <<>> /\ atList = <<Main>> /\ cur = NoThread
      /\ \A t \in Threads : joins[t] = <<>> /\ obj[t] # "gone" /\ (co[t] <=> t = Main)
  BY DEF Init
<1>2. Main \in Elems(atList)
  BY <1>1 DEF Elems
<1>3. Held({Main})
  BY <1>1, <1>2 DEF Held, Nowhere, Listed
<1>4. \A t \in Threads : DOMAIN joins[t] = {}
  BY <1>1
<1> QED BY <1>1, <1>3, <1>4, SchedulerAssumption DEF HeldInv, NobodyForgotten

\* The main loop.
LEMMA LoopHeld ==
  ASSUME IInv, QInv, HeldInv, Loop
  PROVE  HeldInv'
<1>0. ThreadPart /\ QueuePart
  BY DEF IInv
<1>1. CASE Collect
  <2> DEFINE due == {i \in DOMAIN atList : \A j \in 1 .. i : at[atList[j]] < clock}
             n == Cardinality(due)
  <2>1. n \in 0 .. Len(atList) /\ DOMAIN atList = 1 .. Len(atList) /\ Len(atList) \in Nat
    <3>1. DOMAIN atList = 1 .. Len(atList) /\ Len(atList) \in Nat
      BY <1>0 DEF QueuePart
    <3>2. due \in SUBSET (1 .. Len(atList))
      BY <3>1
    <3>3. \A x \in due : \A y \in 1 .. x : y \in due
      BY <3>1
    <3> HIDE DEF due
    <3> QED BY <3>1, <3>2, <3>3, InitialSegment
  <2>2. /\ nowList' = SubSeq(atList, 1, n)
        /\ atList' = SubSeq(atList, n + 1, Len(atList))
        /\ pc = "loop" /\ pc' = "now"
        /\ UNCHANGED <<joins, joining, co, obj, fd, cur>>
    BY <1>1 DEF Collect, threadVars, fdVars
  <2> HIDE DEF n
  <2>3. /\ DOMAIN nowList' = 1 .. n /\ \A i \in 1 .. n : nowList'[i] = atList[i]
        /\ DOMAIN atList' = 1 .. Len(atList) - n
        /\ \A i \in 1 .. Len(atList) - n : atList'[i] = atList[n + i]
    BY <1>0, <2>1, <2>2 DEF QueuePart
  <2>4. ASSUME NEW i \in DOMAIN atList
        PROVE  atList[i] \in Elems(nowList') \cup Elems(atList')
    <3>1. CASE i <= n
      <4>1. i \in DOMAIN nowList' /\ nowList'[i] = atList[i]
        BY <2>1, <2>3, <3>1
      <4> QED BY <4>1 DEF Elems
    <3>2. CASE i > n
      <4>1. i - n \in DOMAIN atList' /\ n + (i - n) = i
        BY <2>1, <2>3, <3>2
      <4>2. atList'[i - n] = atList[i]
        BY <2>3, <4>1
      <4> QED BY <4>1, <4>2 DEF Elems
    <3> QED BY <2>1, <3>1, <3>2
  <2>5. Elems(nowList) = {}
    BY <2>2 DEF HeldInv, Elems
  <2>6. Listed \subseteq Listed'
    BY <2>4, <2>5 DEF Listed, Elems
  <2>7. \A t \in Threads : Nowhere(t)' => Nowhere(t)
    BY <2>2, <2>6 DEF Nowhere
  <2>8. NobodyForgotten'
    BY <2>2, <2>7, KeepHeld DEF HeldInv
  <2> QED BY <2>2, <2>8 DEF HeldInv
<1>2. CASE RunNext
  <2> DEFINE w == Head(nowList)
  <2>1. /\ nowList \in Seq(Threads) /\ nowList # <<>> /\ nowList' = Tail(nowList)
        /\ cur = NoThread /\ RunThread(w) /\ UNCHANGED <<obj, joins, co>>
        /\ pc' = "now"
    BY <1>0, <1>2 DEF RunNext, QueuePart
  <2>2. w \in Threads /\ ~Nowhere(w)
    BY <2>1, HeadIsListed
  <2>3. Elems(nowList) \ {w} \subseteq Elems(nowList')
    <3> SUFFICES ASSUME NEW i \in DOMAIN nowList, nowList[i] # w
                 PROVE  nowList[i] \in Elems(nowList')
      BY DEF Elems
    <3>1. i \in 1 .. Len(nowList) /\ i # 1 /\ Len(nowList) \in Nat
      BY <2>1
    <3>2. i - 1 \in 1 .. Len(nowList) - 1 /\ i - 1 + 1 = i
      BY <3>1
    <3>3. i - 1 \in DOMAIN nowList' /\ nowList'[i - 1] = nowList[i]
      BY <2>1, <3>1, <3>2
    <3> QED BY <3>3 DEF Elems
  <2> HIDE DEF w
  <2>4. NobodyForgotten'
    BY <2>1, <2>2, <2>3, RunThreadHeld
  <2> QED BY <2>1, <2>4 DEF HeldInv
<1>3. CASE EventNext
  <2> DEFINE w == idxToThread[Head(evList)]
  <2>1. /\ RunThread(w) /\ cur = NoThread /\ UNCHANGED <<obj, joins, co, nowList>>
        /\ Head(evList) \in DOMAIN idxToThread /\ pc # "now" /\ pc' = pc
    BY <1>3 DEF EventNext
  <2>2. w \in Threads /\ ~Nowhere(w)
    BY <2>1, EventIsWaiting
  <2> HIDE DEF w
  <2>3. NobodyForgotten'
    BY <2>1, <2>2, RunThreadHeld
  <2> QED BY <2>1, <2>3 DEF HeldInv
<1>4. CASE Stop \/ RunDone \/ EventUnknown \/ EventsDone
  <2>1. /\ UNCHANGED <<joins, joining, co, obj, fd, atList, nowList, cur>>
        /\ pc # "now" \/ nowList = <<>>
    BY <1>4 DEF Stop, RunDone, EventUnknown, EventsDone, threadVars, fdVars, atVars
  <2> QED BY <2>1, QuietHeld
<1> QED BY <1>1, <1>2, <1>3, <1>4 DEF Loop

\* What the running thread does to others.  One that it kills stays where it is: the
\* only place it could lose is the poller.
LEMMA WorkHeld ==
  ASSUME IInv, HeldInv, NothingLoses, Work
  PROVE  HeldInv'
<1>0. ThreadPart /\ QueuePart /\ FdPart
  BY DEF IInv
<1>1. ASSUME NEW u \in Threads, NEW date \in Dates, Spawn(u, date)
      PROVE  HeldInv'
  <2>1. /\ obj' = [obj EXCEPT ![u] = "live"] /\ co' = [co EXCEPT ![u] = TRUE]
        /\ ScheduleAt(date, <<u>>)
        /\ UNCHANGED <<joins, joining, fd, nowList, cur, pc>>
    BY <1>1 DEF Spawn, fdVars, loopVars
  <2>2. Elems(atList) \cup {u} \subseteq Elems(atList')
    <3>1. <<u>> \in Seq(Threads) /\ Elems(<<u>>) = {u}
      BY DEF Elems
    <3> QED BY <1>0, <2>1, <3>1, ScheduleAtHolds DEF QueuePart
  <2>3. PICK held \in SUBSET Threads : Held(held)
    BY DEF HeldInv, NobodyForgotten
  <2>4. \A t \in Threads : Nowhere(t)' => Nowhere(t) /\ t # u
    BY <2>1, <2>2 DEF Nowhere, Listed
  <2>5. \A t \in Threads : co'[t] => t \in held \cup {u}
    BY <1>0, <2>1, <2>3 DEF Held, ThreadPart
  <2>6. ASSUME NEW t \in held \cup {u}, Nowhere(t)'
        PROVE  \E v \in held \cup {u} : joining[t] = v /\ t \in Elems(joins[v])
    BY <2>3, <2>4, <2>6 DEF Held
  <2>7. Held(held \cup {u})'
    BY <2>1, <2>5, <2>6 DEF Held, Elems
  <2>8. \A t \in Threads : obj'[t] # "gone"
    BY <1>0, <2>1 DEF HeldInv, ThreadPart
  <2> QED BY <2>1, <2>7, <2>8 DEF HeldInv, NobodyForgotten
<1>2. ASSUME NEW u \in Threads, Kill(u)
      PROVE  HeldInv'
  <2>1. /\ RemoveFd(u) /\ Place(u) \in Killable /\ co' = [co EXCEPT ![u] = FALSE]
        /\ UNCHANGED <<obj, joins, joining, atList, nowList, cur, pc>>
    BY <1>2 DEF Kill, loopVars
  <2>2. \A t \in Threads : co'[t] => co[t]
    BY <1>0, <2>1 DEF ThreadPart
  <2>3. \A t \in Threads \ {u} : fd'[t] = fd[t]
    BY <1>0, <2>1, RemoveFdFrees
  <2>4. cur = u \/ u \in Listed \/ fd[u] = NoFd
    BY <2>1 DEF Place, NothingLoses
  <2>5. Listed' = Listed
    BY <2>1 DEF Listed, Elems
  <2>6. \A t \in Threads : Nowhere(t)' => Nowhere(t)
    BY <2>1, <2>3, <2>4, <2>5 DEF Nowhere
  <2>7. NobodyForgotten'
    BY <2>1, <2>2, <2>6, KeepHeld DEF HeldInv
  <2> QED BY <2>1, <2>7 DEF HeldInv
<1>3. CASE Quit \/ \E u \in Threads : Drop(u)
  <2>1. UNCHANGED <<joins, joining, co, obj, fd, atList, nowList, cur, pc>>
    BY <1>3 DEF Quit, Drop, threadVars, fdVars, atVars, loopVars
  <2> QED BY <2>1, QuietHeld DEF HeldInv
<1> QED BY <1>1, <1>2, <1>3 DEF Work

\* t joins u, which has a coroutine: it is reached, and t with it.
LEMMA YieldJoinHeld ==
  ASSUME IInv, HeldInv, NEW t \in Threads, NEW u \in Threads, YieldJoin(t, u)
  PROVE  HeldInv'
<1>0. ThreadPart /\ QueuePart /\ FdPart
  BY DEF IInv
<1>1. /\ cur = t /\ cur' = NoThread /\ AddJoin(u, t) /\ RemoveFd(t) /\ co[u]
      /\ joining' = [joining EXCEPT ![t] = u]
      /\ UNCHANGED <<obj, co, atList, nowList, pc>>
  BY DEF YieldJoin, Running, atVars, loopVars
<1> DEFINE s == joins[u]
<1>2. s \in Seq(Threads \union {NoThread}) /\ DOMAIN s = 1 .. Len(s) /\ Len(s) \in Nat
  BY <1>0 DEF ThreadPart
<1>3. \A i \in 1 .. Len(s) : s[i] # NoThread
  BY <1>2 DEF HeldInv
<1>4. joins'[u] = Append(s, t) /\ \A v \in Threads \ {u} : joins'[v] = joins[v]
  <2>1. PICK n \in Borders(s) :
          joins' = [joins EXCEPT ![u] = IF n = Len(s) THEN Append(s, t)
                                        ELSE [s EXCEPT ![n + 1] = t]]
    BY <1>1 DEF AddJoin
  <2>2. n \in 0 .. Len(s) /\ (n < Len(s) => s[n + 1] = NoThread)
    BY DEF Borders
  <2> HIDE DEF s
  <2>3. n = Len(s)
    <3> SUFFICES ASSUME n # Len(s) PROVE FALSE
      OBVIOUS
    <3>1. Len(s) \in Nat
      BY <1>2
    <3>2. n \in Nat /\ n <= Len(s)
      BY ONLY <2>2, <3>1
    <3>3. n < Len(s) /\ n + 1 \in 1 .. Len(s)
      BY <3>1, <3>2
    <3> QED BY <1>3, <2>2, <3>3
  <2> QED BY <1>0, <2>1, <2>3 DEF ThreadPart
<1>5. /\ DOMAIN Append(s, t) = 1 .. Len(s) + 1 /\ Append(s, t)[Len(s) + 1] = t
      /\ \A i \in 1 .. Len(s) : Append(s, t)[i] = s[i]
  <2> HIDE DEF s
  <2> QED BY <1>2
<1> HIDE DEF s
<1>6. t \in Elems(joins'[u]) /\ \A v \in Threads : Elems(joins[v]) \subseteq Elems(joins'[v])
  <2>1. Len(s) + 1 \in 1 .. Len(s) + 1 /\ 1 .. Len(s) \subseteq 1 .. Len(s) + 1
    BY <1>2
  <2>2. t \in Elems(joins'[u])
    BY <1>4, <1>5, <2>1 DEF Elems
  <2>3. Elems(s) \subseteq Elems(joins'[u])
    <3> SUFFICES ASSUME NEW i \in DOMAIN s PROVE s[i] \in Elems(joins'[u])
      BY DEF Elems
    <3>1. i \in DOMAIN joins'[u] /\ joins'[u][i] = s[i]
      BY <1>2, <1>4, <1>5, <2>1
    <3> QED BY <3>1 DEF Elems
  <2> QED BY <1>4, <2>2, <2>3 DEF s
<1>7. \A v \in Threads : \A i \in DOMAIN joins'[v] : joins'[v][i] # NoThread
  <2>1. \A i \in 1 .. Len(s) + 1 : i \in 1 .. Len(s) \/ i = Len(s) + 1
    BY <1>2
  <2>2. \A i \in DOMAIN joins'[u] : joins'[u][i] # NoThread
    BY <1>3, <1>4, <1>5, <2>1, SchedulerAssumption
  <2> QED BY <1>4, <2>2 DEF HeldInv
<1>8. PICK held \in SUBSET Threads : Held(held)
  BY DEF HeldInv, NobodyForgotten
<1>9. joining'[t] = u /\ \A x \in Threads \ {t} : joining'[x] = joining[x]
  BY <1>0, <1>1 DEF ThreadPart
<1>10. \A x \in Threads \ {t} : Nowhere(x)' => Nowhere(x)
  <2>1. \A x \in Threads \ {t} : fd'[x] = fd[x]
    BY <1>0, <1>1, RemoveFdFrees
  <2> QED BY <1>1, <2>1 DEF Nowhere, Listed, Elems
<1>11. ASSUME NEW x \in held, Nowhere(x)'
       PROVE  \E v \in held : joining'[x] = v /\ x \in Elems(joins'[v])
  <2>1. CASE x = t
    BY <1>1, <1>6, <1>8, <1>9, <2>1 DEF Held
  <2>2. CASE x # t
    <3>1. PICK v \in held : joining[x] = v /\ x \in Elems(joins[v])
      BY <1>8, <1>10, <1>11, <2>2 DEF Held
    <3> QED BY <1>6, <1>9, <2>2, <3>1
  <2> QED BY <2>1, <2>2
<1>12. \A x \in Threads : co'[x] => x \in held
  BY <1>1, <1>8 DEF Held
<1>13. Held(held)'
  BY <1>11, <1>12 DEF Held, Elems
<1> QED BY <1>1, <1>7, <1>13 DEF HeldInv, NobodyForgotten

\* Every yield but an unknown one leaves the thread in a place, or ends it.
LEMMA YieldHeld ==
  ASSUME IInv, HeldInv, NothingLoses, Yield
  PROVE  HeldInv'
<1>0. ThreadPart /\ QueuePart /\ FdPart
  BY DEF IInv
<1>1. ASSUME NEW t \in Threads, NEW f \in Fds, YieldFd(t, f)
      PROVE  HeldInv'
  <2>1. /\ cur = t /\ cur' = NoThread
        /\ UNCHANGED <<joins, joining, co, obj, atList, nowList, pc>>
    BY <1>1 DEF YieldFd, Running, threadVars, atVars, loopVars
  <2>2. fd'[t] # NoFd /\ \A x \in Threads \ {t} : fd'[x] = fd[x]
    BY <1>0, <1>1, SchedulerAssumption DEF YieldFd, AddFd, ModifyFd, FdPart
  <2>3. \A x \in Threads : Nowhere(x)' => Nowhere(x)
    BY <2>1, <2>2 DEF Nowhere, Listed, Elems
  <2>4. NobodyForgotten'
    BY <2>1, <2>3, KeepHeld DEF HeldInv
  <2> QED BY <2>1, <2>4 DEF HeldInv
<1>2. ASSUME NEW t \in Threads, NEW date \in Dates, YieldWait(t, date)
      PROVE  HeldInv'
  <2>1. /\ cur = t /\ cur' = NoThread /\ RemoveFd(t) /\ ScheduleAt(date, <<t>>)
        /\ UNCHANGED <<joins, joining, co, obj, nowList, pc>>
    BY <1>2 DEF YieldWait, Running, threadVars, loopVars
  <2>2. Elems(atList) \cup {t} \subseteq Elems(atList')
    <3>1. <<t>> \in Seq(Threads) /\ Elems(<<t>>) = {t}
      BY DEF Elems
    <3> QED BY <1>0, <2>1, <3>1, ScheduleAtHolds DEF QueuePart
  <2>3. \A x \in Threads \ {t} : fd'[x] = fd[x]
    BY <1>0, <2>1, RemoveFdFrees
  <2>4. \A x \in Threads : Nowhere(x)' => Nowhere(x)
    BY <2>1, <2>2, <2>3 DEF Nowhere, Listed
  <2>5. NobodyForgotten'
    BY <2>1, <2>4, KeepHeld DEF HeldInv
  <2> QED BY <2>1, <2>5 DEF HeldInv
<1>3. ASSUME NEW t \in Threads, YieldEnd(t)
      PROVE  HeldInv'
  <2>1. /\ cur = t /\ cur' = NoThread /\ RemoveFd(t) /\ Finalize(t)
        /\ co' = [co EXCEPT ![t] = FALSE]
        /\ UNCHANGED <<joins, joining, obj, nowList, pc>>
    BY <1>3 DEF YieldEnd, Running, loopVars
  <2>2. ~co'[t] /\ \A x \in Threads : co'[x] => co[x]
    BY <1>0, <2>1 DEF ThreadPart
  <2>3. NobodyForgotten'
    BY <2>1, <2>2, FinalizeHeld DEF Elems
  <2> QED BY <2>1, <2>3 DEF HeldInv
<1>4. ASSUME NEW t \in Threads
      PROVE  ~YieldError(t) /\ ~YieldBad(t)
  BY DEF YieldError, YieldBad, NothingLoses
<1> QED BY <1>1, <1>2, <1>3, <1>4, YieldJoinHeld DEF Yield

LEMMA NextHeld ==
  ASSUME NothingLoses
  PROVE  IInv /\ QInv /\ HeldInv /\ [Next]_vars => HeldInv'
<1> SUFFICES ASSUME IInv, QInv, HeldInv, [Next]_vars PROVE HeldInv'
  OBVIOUS
<1>1. CASE PollTimedOut \/ Polled \/ PollInterrupted \/ PollError \/ Tick \/ UNCHANGED vars
  <2>1. /\ UNCHANGED <<joins, joining, co, obj, fd, atList, nowList, cur>>
        /\ pc # "now" \/ pc' = pc
    BY <1>1 DEF PollTimedOut, Polled, PollReady, PollInterrupted, PollError, Tick,
                vars, threadVars, fdVars, atVars, loopVars
  <2> QED BY <2>1, QuietHeld DEF HeldInv
<1>2. ~Collector
  BY DEF Collector, Gc, GcWrap, NothingLoses
<1> QED BY <1>1, <1>2, LoopHeld, WorkHeld, YieldHeld DEF Next

\* Every thread with a coroutine runs, is queued, waits in the poller, or is suspended in
\* the join of one that will be finalised, however threads create, join and kill each
\* other: only the four defects of NothingLoses leave a thread behind.  The safety part
\* of JoinersResumed.
THEOREM NobodyIsForgotten ==
  ASSUME NothingLoses
  PROVE  Spec => []NobodyForgotten
<1>1. Init => IInv /\ QInv /\ HeldInv
  BY InitIInv, InitQInv, InitHeld
<1>2. IInv /\ QInv /\ HeldInv /\ [Next]_vars => (IInv /\ QInv /\ HeldInv)'
  BY NextIInv, NextQInv, NextHeld
<1>3. HeldInv => NobodyForgotten
  BY DEF HeldInv
<1> QED BY <1>1, <1>2, <1>3, PTL DEF Spec

-----------------------------------------------------------------------------
(* What the scheduler asks of the poller *)

\* The scheduler calls its poller as the interface wants it (module PollerMap): it
\* removes and changes handles that are in use, each for the thread the handle belongs
\* to: the running one, or one that has ended, was killed or collected.
Ended(t) == obj'[t] # "live" \/ ~co'[t]

PollerUse ==
  \/ UNCHANGED poller
  \/ \E i \in DOMAIN poller :
       /\ idxToThread[i] = cur \/ Ended(idxToThread[i])
       /\ poller' = Without(poller, i)
  \/ \E i \in DOMAIN poller, f \in Fds :
       /\ idxToThread[i] = cur
       /\ poller' = [poller EXCEPT ![i] = f]
  \/ \E i \in Nat, f \in Fds :
       /\ i \notin DOMAIN poller /\ 0 .. i - 1 \subseteq DOMAIN poller
       /\ idxToThread'[i] = cur
       /\ poller' = [k \in DOMAIN poller \cup {i} |-> IF k = i THEN f ELSE poller[k]]

PollerUsed == [][PollerUse]_vars

\* removeFd frees a handle that is in use, that of its thread.
LEMMA RemoveFdUse ==
  ASSUME FdPart, NEW t \in Threads, RemoveFd(t), t = cur \/ Ended(t)
  PROVE  PollerUse
<1>1. CASE fd[t] = NoFd
  BY <1>1 DEF RemoveFd, fdVars, PollerUse
<1>2. CASE fd[t] # NoFd
  <2>1. idx[t] \in DOMAIN poller /\ idxToThread[idx[t]] = t
    BY <1>2 DEF FdPart, FdTables
  <2>2. poller' = Without(poller, idx[t])
    BY <1>2 DEF RemoveFd
  <2> QED BY <2>1, <2>2 DEF PollerUse
<1> QED BY <1>1, <1>2

LEMMA RunThreadUse ==
  ASSUME IInv, NEW w \in Threads, RunThread(w), UNCHANGED <<obj, co>>
  PROVE  PollerUse
<1>1. CASE Bury(w)
  BY <1>1, RemoveFdUse DEF Bury, Ended, IInv
<1>2. CASE Resume(w)
  BY <1>2 DEF Resume, fdVars, PollerUse
<1> QED BY <1>1, <1>2 DEF RunThread

LEMMA NextUse ==
  ASSUME IInv, Next
  PROVE  PollerUse
<1>0. ThreadPart /\ QueuePart /\ FdPart /\ LoopPart
  BY DEF IInv
<1>1. ASSUME RunNext \/ EventNext
      PROVE  PollerUse
  <2>1. PICK w \in Threads : RunThread(w) /\ UNCHANGED <<obj, co>>
    <3>1. CASE RunNext
      <4>1. Head(nowList) \in Threads
        BY <1>0, <3>1 DEF RunNext, QueuePart
      <4> QED BY <3>1, <4>1 DEF RunNext
    <3>2. CASE EventNext
      <4>1. idxToThread[Head(evList)] \in Threads
        BY <1>0, <3>2 DEF EventNext, FdPart, Elems
      <4> QED BY <3>2, <4>1 DEF EventNext
    <3> QED BY <1>1, <3>1, <3>2
  <2> QED BY <2>1, RunThreadUse
<1>2. ASSUME NEW u \in Threads, Kill(u) \/ Gc(u)
      PROVE  PollerUse
  <2>1. RemoveFd(u) /\ ~co'[u]
    BY <1>0, <1>2 DEF Kill, Gc, ThreadPart
  <2> QED BY <1>0, <2>1, RemoveFdUse DEF Ended
<1>3. ASSUME NEW t \in Threads, NEW f \in Fds, YieldFd(t, f)
      PROVE  PollerUse
  <2>1. cur = t
    BY <1>3 DEF YieldFd, Running
  <2>2. CASE fd[t] = NoFd
    <3>1. PICK i \in 0 .. Cardinality(DOMAIN poller) :
            /\ i \notin DOMAIN poller /\ 0 .. i - 1 \subseteq DOMAIN poller
            /\ poller' = [k \in DOMAIN poller \union {i} |-> IF k = i THEN f ELSE poller[k]]
            /\ idxToThread' = [k \in DOMAIN idxToThread \union {i} |->
                                 IF k = i THEN t ELSE idxToThread[k]]
      BY <1>3, <2>2 DEF YieldFd, AddFd
    <3>2. Cardinality(DOMAIN poller) \in Nat
      BY <1>0, FS_CardinalityType DEF FdPart
    <3>3. i \in Nat
      BY <3>2
    <3>4. idxToThread'[i] = cur
      BY <2>1, <3>1
    <3> QED BY <3>1, <3>3, <3>4 DEF PollerUse
  <2>3. CASE fd[t] # NoFd
    <3>1. idx[t] \in DOMAIN poller /\ idxToThread[idx[t]] = cur
      BY <1>0, <2>1, <2>3 DEF FdPart, FdTables
    <3>2. poller' = poller \/ poller' = [poller EXCEPT ![idx[t]] = f]
      BY <1>3, <2>3 DEF YieldFd, ModifyFd
    <3> QED BY <3>1, <3>2 DEF PollerUse
  <2> QED BY <2>2, <2>3
<1>4. ASSUME NEW t \in Threads,
             \/ \E u \in Threads : YieldJoin(t, u)
             \/ \E date \in Dates : YieldWait(t, date)
             \/ YieldEnd(t) \/ YieldBad(t)
      PROVE  PollerUse
  <2>1. cur = t /\ RemoveFd(t)
    BY <1>4 DEF YieldJoin, YieldWait, YieldEnd, YieldBad, Running
  <2> QED BY <1>0, <2>1, RemoveFdUse
<1>5. ASSUME \/ Collect \/ Stop \/ RunDone \/ EventUnknown \/ EventsDone
             \/ PollTimedOut \/ Polled \/ PollInterrupted \/ PollError
             \/ Quit \/ Tick
             \/ \E u \in Threads, date \in Dates : Spawn(u, date)
             \/ \E u \in Threads : Drop(u) \/ YieldError(u) \/ GcWrap(u)
      PROVE  PollerUse
  BY <1>5 DEF Collect, Stop, RunDone, EventUnknown, EventsDone, PollTimedOut, Polled,
              PollReady, PollInterrupted, PollError, Quit, Tick, Spawn, Drop, YieldError,
              GcWrap, fdVars, PollerUse
<1> QED BY <1>1, <1>2, <1>3, <1>4, <1>5 DEF Next, Loop, Work, Yield, Collector

\* The other side of the interface that module Poller implements: whatever is killed,
\* collected, ended or restarted, a handle is removed once, while it is in use, and
\* only its own thread waits for another descriptor with it.
THEOREM PollerIsUsedAsMap == Spec => PollerUsed
<1>1. IInv /\ [Next]_vars => [PollerUse]_vars
  BY NextUse
<1> QED BY <1>1, InitIInv, NextIInv, PTL DEF Spec, PollerUsed
================================================================================
