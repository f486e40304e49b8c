------------------------ MODULE SelectCallbackProofs ------------------------
(***************************************************************************)
(* Theorems about SelectCallback, for any number of threads.               *)
(*                                                                         *)
(* Slots and threads change several times within one update, so the part   *)
(* of the invariant that is about them (Fine) is stated of a pair of the   *)
(* two and preserved by Stopped and Started.  With it FlagsFollowed is     *)
(* inductive.  OneGhost is not: there may be several ghosts while events   *)
(* are served, and what is bounded is who may remain (GhostPart).          *)
(***************************************************************************)
EXTENDS SelectCallback, FiniteSetTheorems, WellFoundedInduction, TLAPS

USE SelectAssumption

\* The least of a set of numbers.
LEMMA LeastOf ==
  ASSUME NEW S \in SUBSET Nat, S # {}
  PROVE  Least(S) \in S
<1> DEFINE T == {0 .. i : i \in S}
<1>1. T \subseteq FiniteSubsetsOf(Nat) /\ T # {}
  <2>1. ASSUME NEW i \in S PROVE IsFiniteSet(0 .. i) /\ 0 .. i \in SUBSET Nat
    BY FS_Interval
  <2> QED BY <2>1 DEF FiniteSubsetsOf
<1>2. PICK x \in T : \A y \in T : ~ (<<y, x>> \in StrictSubsetOrdering(Nat))
  <2> HIDE DEF T
  <2> QED BY <1>1, FS_StrictSubsetOrderingWellFounded, WFMin
<1>3. PICK i \in S : x = 0 .. i
  OBVIOUS
<1>4. ASSUME NEW j \in S PROVE i <= j
  <2>1. ~ (<<0 .. j, 0 .. i>> \in StrictSubsetOrdering(Nat))
    BY <1>2, <1>3
  <2>2. 0 .. i \in SUBSET Nat /\ 0 .. j \in SUBSET Nat
    OBVIOUS
  <2>3. ~ (0 .. j \subseteq 0 .. i /\ 0 .. j # 0 .. i)
    BY <2>1, <2>2 DEF StrictSubsetOrdering
  <2>4. CASE j < i
    <3>1. 0 .. j \subseteq 0 .. i
      BY <2>4
    <3>2. i \in 0 .. i /\ i \notin 0 .. j
      BY <2>4
    <3> QED BY <2>3, <3>1, <3>2
  <2> QED BY <2>4
<1> QED BY <1>4 DEF Least

\* What a thread is.
ThreadTypes == [step : {"dead", "start", "poll", "sleep", "call"}, kind : Kinds,
                co : BOOLEAN, idx : 0 .. Pool]

\* No two threads have the same handle.
OwnHandles(tt) ==
  \A j, k \in Threads : tt[j].idx = tt[k].idx /\ tt[j].idx # None => j = k

\* There are as many handles as threads: one that has none finds a free one.
LEMMA HandleIsFree ==
  ASSUME th \in [Threads -> ThreadTypes], NEW k \in Threads, th[k].idx = None
  PROVE  FreeHandle \in 1 .. Pool /\ \A j \in Threads : th[j].idx # FreeHandle
<1> DEFINE H == {th[j].idx : j \in Threads}
           F == (1 .. Pool) \ H
           D == Threads \ {k}
           f == [j \in D |-> th[j].idx]
           R == {f[j] : j \in D}
<1>1. IsFiniteSet(Threads) /\ Cardinality(Threads) = Pool
  BY FS_Interval DEF Threads
<1>2. IsFiniteSet(D) /\ Cardinality(D) = Pool - 1
  BY <1>1, FS_RemoveElement
<1>3. f \in Surjection(D, R)
  BY DEF Surjection
<1>4. IsFiniteSet(R) /\ Cardinality(R) <= Pool - 1
  <2> HIDE DEF D, R, f
  <2> QED BY <1>2, <1>3, FS_Surjection
<1>5. F # {}
  <2> SUFFICES ASSUME F = {} PROVE FALSE
    OBVIOUS
  <2>1. 1 .. Pool \subseteq R
    <3> SUFFICES ASSUME NEW h \in 1 .. Pool PROVE h \in R
      OBVIOUS
    <3>1. PICK j \in Threads : h = th[j].idx
      OBVIOUS
    <3>2. j # k
      BY <3>1 DEF None
    <3> QED BY <3>1, <3>2
  <2>2. Cardinality(1 .. Pool) = Pool
    BY <1>1 DEF Threads
  <2> HIDE DEF R
  <2>3. Cardinality(1 .. Pool) <= Cardinality(R)
    BY <1>4, <2>1, FS_Subset
  <2>4. Cardinality(R) \in Nat
    BY <1>4, FS_CardinalityType
  <2> QED BY <1>4, <2>2, <2>3, <2>4
<1>6. FreeHandle \in F
  <2> HIDE DEF H
  <2>1. F \in SUBSET Nat
    OBVIOUS
  <2>2. Least(F) \in F
    BY <1>5, <2>1, LeastOf
  <2> QED BY <2>2 DEF FreeHandle, H
<1> QED BY <1>6

-----------------------------------------------------------------------------
(* The invariant, of the slots and threads s *)

\* The types of slots and threads.
Typed(s) ==
  /\ s.slot \in [Kinds -> Threads \cup {None}]
  /\ s.th \in [Threads -> ThreadTypes]

\* Only who waits in the poller or runs the callback has a handle.
Handled(tt) ==
  /\ \A k \in Threads : tt[k].step = "poll" => tt[k].idx # None
  /\ \A k \in Threads : tt[k].idx # None => tt[k].step \in {"poll", "call"}
  /\ OwnHandles(tt)

\* One thread runs the callback, and who sleeps is a timeout.
Running(tt) ==
  /\ \A k \in Threads : tt[k].step = "call" <=> k = cur
  /\ \A k \in Threads : tt[k].step = "sleep" => tt[k].kind = "timeout"

\* A slot holds a thread that can call back for its flag, and whoever can call back
\* is in its slot unless the object has lost it.
Kept(s) ==
  /\ \A f \in Kinds : s.slot[f] # None =>
       s.th[s.slot[f]].co /\ s.th[s.slot[f]].kind = f /\ s.slot[f] \notin strays
  /\ \A k \in Threads \ strays : s.th[k].co => s.slot[s.th[k].kind] = k
  /\ \A k \in strays : s.th[k].kind = "timeout"

\* What holds of slots and threads after every call of Stopped and Started.
Fine(s) == Typed(s) /\ Handled(s.th) /\ Running(s.th) /\ Kept(s)

\* Nobody comes to the poller, and who runs keeps its flag.
Calmer(s, t) ==
  \A k \in Threads :
    /\ t.th[k].step = "poll" => t.th[k] = s.th[k]
    /\ t.th[k].step = "call" => t.th[k].kind = s.th[k].kind

\* A killed thread has no wrapper and no handle.
LEMMA KilledThread ==
  ASSUME NEW r \in ThreadTypes, NEW h \in 0 .. Pool
  PROVE  \E n \in ThreadTypes :
           /\ n = [r EXCEPT !.co = FALSE, !.idx = h]
           /\ n.step = r.step /\ n.kind = r.kind /\ n.co = FALSE /\ n.idx = h
<1> DEFINE n == [r EXCEPT !.co = FALSE, !.idx = h]
<1>1. n \in ThreadTypes
  BY DEF ThreadTypes
<1>2. n.step = r.step /\ n.kind = r.kind
  BY DEF ThreadTypes
<1>3. n.co = FALSE
  BY DEF ThreadTypes
<1>4. n.idx = h
  BY DEF ThreadTypes
<1> HIDE DEF n
<1>5. n = [r EXCEPT !.co = FALSE, !.idx = h]
  BY DEF n
<1> QED BY <1>1, <1>2, <1>3, <1>4, <1>5

\* A stopped thread is out of its slot; the others are as before.
LEMMA StoppedFine ==
  ASSUME NEW s, Fine(s), strays \subseteq Threads, NEW f \in Kinds
  PROVE  /\ Fine(Stopped(s, f)) /\ Calmer(s, Stopped(s, f))
         /\ Stopped(s, f).slot = [s.slot EXCEPT ![f] = None]
         /\ Free(s.th) \subseteq Free(Stopped(s, f).th)
<1> DEFINE k == s.slot[f]
           t == Stopped(s, f)
<1>0. Typed(s) /\ Handled(s.th) /\ Running(s.th) /\ Kept(s)
  BY DEF Fine
<1>1. CASE k = None
  <2>1. t = s
    BY <1>1 DEF Stopped
  <2> QED BY <1>0, <1>1, <2>1 DEF Calmer, Fine, Typed
<1>2. CASE k # None
  <2>1. k \in Threads /\ k \notin strays /\ s.th[k].co /\ s.th[k].kind = f
    BY <1>0, <1>2 DEF Typed, Kept
  <2> DEFINE n == IF s.th[k].step = "poll" THEN Dead
                  ELSE [s.th[k] EXCEPT !.co = FALSE, !.idx = None]
  <2>2. t = [slot |-> [s.slot EXCEPT ![f] = None], th |-> [s.th EXCEPT ![k] = n]]
    BY <1>2 DEF Stopped
  <2>3. s.th[k] \in ThreadTypes
    BY <1>0, <2>1 DEF Typed
  <2>4. /\ n \in ThreadTypes /\ n.idx = None /\ n.co = FALSE /\ n.step # "poll"
        /\ n.step = "call" <=> s.th[k].step = "call"
        /\ n.step # "dead" => n.step = s.th[k].step /\ n.kind = s.th[k].kind
    <3>1. CASE s.th[k].step = "poll"
      <4>1. n = Dead
        BY <3>1
      <4>2. Dead \in ThreadTypes
        BY DEF ThreadTypes, Dead, Kinds, Flags, None
      <4> QED BY <3>1, <4>1, <4>2 DEF Dead
    <3>2. CASE s.th[k].step # "poll"
      <4>1. n = [s.th[k] EXCEPT !.co = FALSE, !.idx = None]
        BY <3>2
      <4>2. None \in 0 .. Pool
        BY DEF None
      <4> DEFINE r == s.th[k]
      <4> HIDE DEF n, r
      <4>3. r \in ThreadTypes /\ n = [r EXCEPT !.co = FALSE, !.idx = None]
        BY <2>3, <4>1 DEF r
      <4>4. n \in ThreadTypes /\ n.step = r.step /\ n.kind = r.kind /\ n.co = FALSE /\ n.idx = None
        <5>1. PICK m \in ThreadTypes :
                /\ m = [r EXCEPT !.co = FALSE, !.idx = None]
                /\ m.step = r.step /\ m.kind = r.kind /\ m.co = FALSE /\ m.idx = None
          BY <4>2, <4>3, KilledThread
        <5>2. n = m
          BY <4>3, <5>1
        <5> QED BY <5>1, <5>2
      <4> QED BY <3>2, <4>4 DEF r
    <3> QED BY <3>1, <3>2
  <2>5. s.th[k] # Dead
    BY <2>1 DEF Dead
  <2> HIDE DEF k, n, t
  <2>6. /\ t.slot = [s.slot EXCEPT ![f] = None]
        /\ \A j \in Threads : t.th[j] = IF j = k THEN n ELSE s.th[j]
        /\ Typed(t)
    BY <1>0, <2>1, <2>2, <2>4 DEF Typed
  <2>7. Handled(t.th)
    BY <1>0, <2>4, <2>6 DEF Handled, OwnHandles
  <2>8. Running(t.th)
    BY <1>0, <2>1, <2>4, <2>6 DEF Running
  <2>9. Kept(t)
    <3>1. \A g \in Kinds : t.slot[g] = IF g = f THEN None ELSE s.slot[g]
      BY <1>0, <2>6 DEF Typed
    <3>2. \A g \in Kinds : t.slot[g] # None => t.slot[g] = s.slot[g] /\ s.slot[g] # k
      BY <1>0, <2>1, <3>1 DEF Kept, k
    <3>3. \A g \in Kinds : t.slot[g] # None => t.slot[g] \in Threads
      BY <2>6 DEF Typed
    <3>4. \A j \in Threads \ strays : t.th[j].co => t.slot[t.th[j].kind] = j
      <4> SUFFICES ASSUME NEW j \in Threads \ strays, t.th[j].co PROVE t.slot[t.th[j].kind] = j
        OBVIOUS
      <4>1. j # k /\ t.th[j] = s.th[j]
        BY <2>4, <2>6
      <4>2. s.slot[s.th[j].kind] = j /\ s.th[j].kind \in Kinds
        BY <1>0, <4>1 DEF Kept, Typed, ThreadTypes
      <4> QED BY <3>1, <4>1, <4>2 DEF k
    <3> QED BY <1>0, <2>1, <2>6, <3>2, <3>3, <3>4 DEF Kept
  <2>10. Calmer(s, t)
    BY <2>4, <2>6 DEF Calmer
  <2>11. Free(s.th) \subseteq Free(t.th)
    BY <2>5, <2>6 DEF Free
  <2> QED BY <2>6, <2>7, <2>8, <2>9, <2>10, <2>11 DEF Fine, t
<1> QED BY <1>1, <1>2

\* A thread that is started had been free.
LEMMA StartedFine ==
  ASSUME NEW s, Fine(s), strays \subseteq Threads, NEW f \in Kinds,
         s.slot[f] = None, Free(s.th) # {}
  PROVE  /\ Fine(Started(s, f)) /\ Calmer(s, Started(s, f))
         /\ \E i \in Threads :
              /\ Started(s, f).slot = [s.slot EXCEPT ![f] = i]
              /\ Free(s.th) \ {i} \subseteq Free(Started(s, f).th)
<1> DEFINE k == Least(Free(s.th))
           t == Started(s, f)
           n == [step |-> "start", kind |-> f, co |-> TRUE, idx |-> None]
<1>0. Typed(s) /\ Handled(s.th) /\ Running(s.th) /\ Kept(s)
  BY DEF Fine
<1>1. k \in Threads /\ s.th[k] = Dead
  <2>1. Free(s.th) \in SUBSET Nat
    BY DEF Free, Threads
  <2>2. k \in Free(s.th)
    BY <2>1, LeastOf
  <2> QED BY <2>2 DEF Free
<1>2. t = [slot |-> [s.slot EXCEPT ![f] = k], th |-> [s.th EXCEPT ![k] = n]]
  BY DEF Started
<1>3. /\ n \in ThreadTypes /\ n.idx = None /\ n.co = TRUE /\ n.step = "start" /\ n.kind = f
  BY DEF ThreadTypes, None
<1>4. k \notin strays /\ ~s.th[k].co /\ s.th[k].step = "dead"
  BY <1>0, <1>1 DEF Kept, Dead
<1> HIDE DEF k, n, t
<1>5. /\ t.slot = [s.slot EXCEPT ![f] = k]
      /\ \A j \in Threads : t.th[j] = IF j = k THEN n ELSE s.th[j]
      /\ Typed(t)
  BY <1>0, <1>1, <1>2, <1>3 DEF Typed
<1>6. Handled(t.th)
  BY <1>0, <1>3, <1>5 DEF Handled, OwnHandles
<1>7. Running(t.th)
  BY <1>0, <1>3, <1>4, <1>5 DEF Running
<1>8. Kept(t)
  <2>1. \A g \in Kinds : t.slot[g] = IF g = f THEN k ELSE s.slot[g]
    BY <1>0, <1>5 DEF Typed
  <2>2. ASSUME NEW g \in Kinds, t.slot[g] # None
        PROVE  t.th[t.slot[g]].co /\ t.th[t.slot[g]].kind = g /\ t.slot[g] \notin strays
    <3>1. CASE g = f
      BY <1>1, <1>3, <1>4, <1>5, <2>1, <3>1
    <3>2. CASE g # f
      <4>1. t.slot[g] = s.slot[g] /\ s.slot[g] \in Threads /\ s.slot[g] # k
        BY <1>0, <1>4, <2>1, <2>2, <3>2 DEF Typed, Kept
      <4> QED BY <1>0, <1>5, <2>2, <4>1 DEF Kept
    <3> QED BY <3>1, <3>2
  <2>3. ASSUME NEW j \in Threads \ strays, t.th[j].co PROVE t.slot[t.th[j].kind] = j
    <3>1. CASE j = k
      BY <1>1, <1>3, <1>5, <2>1, <3>1
    <3>2. CASE j # k
      <4>1. t.th[j] = s.th[j]
        BY <1>5, <3>2
      <4>2. s.slot[s.th[j].kind] = j /\ s.th[j].kind \in Kinds /\ j # None
        BY <1>0, <2>3, <4>1 DEF Kept, Typed, ThreadTypes, Threads, None
      <4> QED BY <2>1, <4>1, <4>2
    <3> QED BY <3>1, <3>2
  <2> QED BY <1>0, <1>4, <1>5, <2>2, <2>3 DEF Kept
<1>9. Calmer(s, t)
  BY <1>3, <1>5 DEF Calmer
<1>10. Free(s.th) \ {k} \subseteq Free(t.th)
  BY <1>5 DEF Free
<1> QED BY <1>1, <1>5, <1>6, <1>7, <1>8, <1>9, <1>10 DEF Fine, t

\* Calmer is transitive.
LEMMA CalmerStill ==
  ASSUME NEW s, NEW t, NEW u, Running(t.th), Running(u.th), Calmer(s, t), Calmer(t, u)
  PROVE  Calmer(s, u)
  BY DEF Calmer, Running

\* t is s with one flag as it is in S, at the cost of at most one free thread.
FollowedTo(s, t, f, S) ==
  /\ Fine(t) /\ Calmer(s, t)
  /\ \A g \in Kinds \ {f} : t.slot[g] = s.slot[g]
  /\ f \in S <=> t.slot[f] # None
  /\ \E i : Free(s.th) \ {i} \subseteq Free(t.th)
  /\ Free(s.th) \subseteq Free(t.th) \/ (f \in S /\ s.slot[f] = None)

\* A flag is followed.
LEMMA FollowedFine ==
  ASSUME NEW s, Fine(s), strays \subseteq Threads, NEW f \in Flags, NEW S,
         f \in S /\ s.slot[f] = None => Free(s.th) # {}
  PROVE  FollowedTo(s, Followed(s, f, f \in S), f, S)
<1>0. f \in Kinds /\ s.slot \in [Kinds -> Threads \cup {None}] /\ Running(s.th)
  BY DEF Kinds, Fine, Typed
<1>1. CASE f \notin S
  <2>1. Followed(s, f, f \in S) = Stopped(s, f)
    BY <1>1 DEF Followed
  <2>2. /\ Fine(Stopped(s, f)) /\ Calmer(s, Stopped(s, f))
        /\ Stopped(s, f).slot = [s.slot EXCEPT ![f] = None]
        /\ Free(s.th) \subseteq Free(Stopped(s, f).th)
    BY <1>0, StoppedFine
  <2>3. Free(s.th) \ {f} \subseteq Free(Stopped(s, f).th)
    BY <2>2
  <2> QED BY <1>0, <1>1, <2>1, <2>2, <2>3 DEF FollowedTo
<1>2. CASE f \in S /\ s.slot[f] = None
  <2>1. Followed(s, f, f \in S) = Started(s, f)
    BY <1>2 DEF Followed
  <2>2. PICK i \in Threads :
          /\ Started(s, f).slot = [s.slot EXCEPT ![f] = i]
          /\ Free(s.th) \ {i} \subseteq Free(Started(s, f).th)
    BY <1>0, <1>2, StartedFine
  <2> QED BY <1>0, <1>2, <2>1, <2>2, StartedFine DEF FollowedTo, None, Threads
<1>3. CASE f \in S /\ s.slot[f] # None
  <2>1. Followed(s, f, f \in S) = s
    BY <1>3 DEF Followed
  <2> QED BY <1>0, <1>3, <2>1 DEF FollowedTo, Calmer
<1> QED BY <1>1, <1>2, <1>3

\* A timeout is set anew, S being what is set.
LEMMA ArmedFine ==
  ASSUME NEW s, Fine(s), strays \subseteq Threads, NEW S, "timeout" \in S => Free(s.th) # {}
  PROVE  LET t == Armed(s, "timeout" \in S)
         IN  /\ Fine(t) /\ Calmer(s, t)
             /\ \A g \in Flags : t.slot[g] = s.slot[g]
<1> DEFINE r == Stopped(s, "timeout")
<1>0. /\ "timeout" \in Kinds /\ "timeout" \notin Flags /\ Flags \subseteq Kinds
      /\ s.slot \in [Kinds -> Threads \cup {None}]
  BY DEF Kinds, Flags, Fine, Typed
<1>1. /\ Fine(r) /\ Calmer(s, r) /\ r.slot = [s.slot EXCEPT !["timeout"] = None]
      /\ Free(s.th) \subseteq Free(r.th)
  BY <1>0, StoppedFine
<1> HIDE DEF r
<1>2. CASE "timeout" \notin S
  <2>1. Armed(s, "timeout" \in S) = r
    BY <1>2 DEF Armed, r
  <2> QED BY <1>0, <1>1, <2>1
<1>3. CASE "timeout" \in S
  <2>1. Armed(s, "timeout" \in S) = Started(r, "timeout")
    BY <1>3 DEF Armed, r
  <2>2. r.slot["timeout"] = None /\ Free(r.th) # {}
    BY <1>0, <1>1, <1>3
  <2>3. Fine(Started(r, "timeout")) /\ Calmer(r, Started(r, "timeout"))
    BY <1>0, <1>1, <2>2, StartedFine
  <2>4. PICK i \in Threads : Started(r, "timeout").slot = [r.slot EXCEPT !["timeout"] = i]
    BY <1>0, <1>1, <2>2, StartedFine
  <2>5. Calmer(s, Started(r, "timeout"))
    BY <1>1, <2>3, CalmerStill DEF Fine
  <2> QED BY <1>0, <1>1, <2>1, <2>3, <2>4, <2>5
<1> QED BY <1>2, <1>3

-----------------------------------------------------------------------------
(* The inductive invariant *)

\* What is not a slot or a thread, and what the slots say of it.
RestPart ==
  /\ asks \in {Flags, {"timeout"}} /\ want \subseteq asks
  /\ cur \in Threads \cup {None} /\ timer \in Threads \cup {None}
  /\ ready \subseteq Flags /\ events \subseteq 1 .. Pool /\ strays \subseteq Threads
  /\ removed \in BOOLEAN /\ crashed \in BOOLEAN
  /\ removed => \A f \in Kinds : slot[f] = None
  /\ \A f \in Flags : f \in want <=> slot[f] # None

\* The conjunction is inductive; GhostPart is so relative to it.
IInv == Fine(Now) /\ RestPart

\* Who is or may become an entry of the poller that nobody calls back: who runs, the
\* ghosts whose event is not to be served, and whoever is to be called back.
MayStay(k) ==
  \/ k = cur
  \/ th[k].step = "poll" /\ (th[k].co <=> th[k].idx \in events)

\* There is one of them for a flag.
GhostPart ==
  \A f \in Flags : \A j, k \in Threads :
    th[j].kind = f /\ th[k].kind = f /\ MayStay(j) /\ MayStay(k) => j = k

\* The invariants imply the ones that TLC checks.
LEMMA IInvIsEnough == IInv => TypeOK /\ FlagsFollowed
<1> SUFFICES ASSUME IInv PROVE TypeOK /\ FlagsFollowed
  OBVIOUS
<1>1. Typed(Now) /\ Handled(Now.th) /\ Kept(Now) /\ RestPart
  BY DEF IInv, Fine
<1>2. Now.slot = slot /\ Now.th = th
  BY DEF Now
<1>3. slot \in [Kinds -> Threads \cup {None}] /\ th \in [Threads -> ThreadTypes]
  BY <1>1, <1>2 DEF Typed
<1>4. TypeOK
  <2>1. /\ \A k \in Threads : th[k].step = "poll" => th[k].idx # None
        /\ \A j, k \in Threads : j # k => th[j].idx # th[k].idx \/ th[j].idx = None
    BY <1>1, <1>2 DEF Handled, OwnHandles
  <2> QED BY <1>1, <1>3, <2>1 DEF TypeOK, RestPart, ThreadTypes
<1>5. FlagsFollowed
  <2>1. Flags \subseteq Kinds
    BY DEF Kinds
  <2> QED BY <1>1, <1>2, <2>1 DEF FlagsFollowed, Kept, RestPart, Alive
<1> QED BY <1>4, <1>5

\* A set whose elements are all the same has at most one.
LEMMA AtMostOne ==
  ASSUME NEW S, \A x, y \in S : x = y
  PROVE  Cardinality(S) <= 1
<1>1. CASE S = {}
  BY <1>1, FS_EmptySet
<1>2. CASE S # {}
  <2>1. PICK x \in S : TRUE
    BY <1>2
  <2>2. S = {x}
    BY <2>1
  <2>3. Cardinality({x}) = 1
    BY FS_Singleton
  <2> QED BY <2>2, <2>3
<1> QED BY <1>1, <1>2

\* Without events, every ghost may stay.
LEMMA GhostPartIsEnough == IInv /\ GhostPart => OneGhost
<1> SUFFICES ASSUME IInv, GhostPart, events = {}, NEW f \in Flags
             PROVE  Cardinality({k \in Threads :
                       th[k].step = "poll" /\ ~Alive(k) /\ th[k].kind = f}) <= 1
  BY DEF OneGhost
<1> DEFINE S == {k \in Threads : th[k].step = "poll" /\ ~Alive(k) /\ th[k].kind = f}
<1>1. ASSUME NEW k \in S PROVE k \in Threads /\ th[k].kind = f /\ MayStay(k)
  BY DEF MayStay, Alive
<1>2. \A j, k \in S : j = k
  <2> HIDE DEF S
  <2> QED BY <1>1 DEF GhostPart
<1> HIDE DEF S
<1>3. Cardinality(S) <= 1
  BY <1>2, AtMostOne
<1> QED BY <1>3 DEF S

\* There is no thread in the beginning.
LEMMA InitIInv == Init => IInv /\ GhostPart
<1> SUFFICES ASSUME Init PROVE IInv /\ GhostPart
  OBVIOUS
<1>1. /\ slot = [f \in Kinds |-> None] /\ th = [k \in Threads |-> Dead]
      /\ cur = None /\ strays = {} /\ events = {}
      /\ Now.slot = slot /\ Now.th = th
  BY DEF Init, Now
<1>2. Dead \in ThreadTypes /\ Dead.step = "dead" /\ Dead.idx = None /\ Dead.co = FALSE
  BY DEF Dead, ThreadTypes, Kinds, Flags, None
<1>3. \A k \in Threads : th[k] = Dead /\ k # cur
  BY <1>1 DEF Threads, None
<1>4. Typed(Now)
  BY <1>1, <1>2 DEF Typed
<1>5. Handled(Now.th) /\ Running(Now.th)
  BY <1>1, <1>2, <1>3 DEF Handled, Running, OwnHandles
<1>6. Kept(Now)
  BY <1>1, <1>2, <1>3 DEF Kept
<1>7. RestPart
  BY <1>1 DEF Init, RestPart, Kinds, Flags
<1>8. GhostPart
  BY <1>2, <1>3 DEF GhostPart, MayStay
<1> QED BY <1>4, <1>5, <1>6, <1>7, <1>8 DEF IInv, Fine

-----------------------------------------------------------------------------
(* The steps *)

\* update and remove bring nobody to the poller.
LEMMA CalmerGhosts ==
  ASSUME Running(th'), GhostPart, Calmer(Now, Now'), UNCHANGED <<cur, events>>
  PROVE  GhostPart'
<1>1. Now.th = th /\ Now'.th = th'
  BY DEF Now
<1>2. ASSUME NEW k \in Threads, MayStay(k)' PROVE MayStay(k) /\ th'[k].kind = th[k].kind
  <2>1. CASE k = cur
    BY <1>1, <2>1 DEF Calmer, Running, MayStay
  <2>2. CASE k # cur
    <3>1. th'[k].step = "poll" /\ (th'[k].co <=> th'[k].idx \in events)
      BY <1>2, <2>2 DEF MayStay
    <3>2. th'[k] = th[k]
      BY <1>1, <3>1 DEF Calmer
    <3> QED BY <3>1, <3>2 DEF MayStay
  <2> QED BY <2>1, <2>2
<1> QED BY <1>2 DEF GhostPart

\* An update has the threads it needs.
LEMMA RoomForUpdate ==
  ASSUME NEW S, S \subseteq Kinds,
         Cardinality(Free(th)) >= Cardinality({f \in S : slot[f] = None \/ f = "timeout"})
  PROVE  /\ \A f \in S : slot[f] = None \/ f = "timeout" => Free(th) # {}
         /\ \A f, g \in S : f # g /\ slot[f] = None /\ slot[g] = None => \A i : Free(th) \ {i} # {}
<1> DEFINE N == {f \in S : slot[f] = None \/ f = "timeout"}
           F == Free(th)
<1>1. IsFiniteSet(F) /\ Cardinality(F) \in Nat
  <2>1. IsFiniteSet(Threads) /\ F \in SUBSET Threads
    BY FS_Interval DEF Threads, Free
  <2> HIDE DEF F
  <2> QED BY <2>1, FS_Subset, FS_CardinalityType
<1>2. IsFiniteSet(N) /\ Cardinality(N) \in Nat
  <2>1. IsFiniteSet(Kinds)
    <3>1. Kinds = (({} \cup {"read"}) \cup {"write"}) \cup {"timeout"}
      BY DEF Kinds, Flags
    <3> QED BY <3>1, FS_EmptySet, FS_AddElement
  <2>2. N \in SUBSET Kinds
    OBVIOUS
  <2> HIDE DEF N
  <2> QED BY <2>1, <2>2, FS_Subset, FS_CardinalityType
<1>3. Cardinality(F) >= Cardinality(N)
  OBVIOUS
<1>4. ASSUME NEW f \in N PROVE F # {}
  <2> HIDE DEF N, F
  <2>1. Cardinality(N) # 0
    BY <1>2, <1>4, FS_EmptySet
  <2>2. Cardinality(F) # 0
    BY <1>1, <1>2, <1>3, <2>1
  <2> QED BY <2>2, FS_EmptySet
<1>5. ASSUME NEW f \in N, NEW g \in N, f # g, NEW i PROVE F \ {i} # {}
  <2> HIDE DEF N, F
  <2> SUFFICES ASSUME F \ {i} = {} PROVE FALSE
    OBVIOUS
  <2>1. IsFiniteSet(N \ {f}) /\ Cardinality(N \ {f}) = Cardinality(N) - 1
    BY <1>2, FS_RemoveElement
  <2>2. Cardinality(N \ {f}) # 0
    BY <1>5, <2>1, FS_EmptySet
  <2>3. Cardinality(N \ {f}) \in Nat
    BY <2>1, FS_CardinalityType
  <2>4. IsFiniteSet({i}) /\ Cardinality({i}) = 1
    BY FS_Singleton
  <2>5. F \in SUBSET {i}
    OBVIOUS
  <2>6. Cardinality(F) <= 1
    BY <2>4, <2>5, FS_Subset
  <2> QED BY <1>1, <1>2, <1>3, <2>1, <2>2, <2>3, <2>6
<1> QED BY <1>4, <1>5

\* update of what the object asks for, in a callback or not.
LEMMA UpdateStep ==
  ASSUME IInv, GhostPart, Update
  PROVE  IInv' /\ GhostPart'
<1>0. Fine(Now) /\ RestPart /\ strays \subseteq Threads
  BY DEF IInv, RestPart
<1> PICK on \in SUBSET asks :
       /\ Cardinality(Free(th)) >= Cardinality({f \in on : slot[f] = None \/ f = "timeout"})
       /\ LET s == Armed(Followed(Followed(Now, "read", "read" \in on), "write", "write" \in on),
                         "timeout" \in on)
          IN slot' = s.slot /\ th' = s.th
       /\ want' = on
       /\ timer' = slot'["timeout"]
  BY DEF Update
<1> DEFINE s1 == Followed(Now, "read", "read" \in on)
           s2 == Followed(s1, "write", "write" \in on)
           s3 == Armed(s2, "timeout" \in on)
<1>1. /\ slot' = s3.slot /\ th' = s3.th /\ want' = on /\ timer' = slot'["timeout"]
      /\ ~removed /\ UNCHANGED <<asks, cur, ready, events, removed, crashed, strays>>
  BY DEF Update
<1>2. /\ on \subseteq Kinds /\ {"read", "write"} \subseteq Flags /\ "timeout" \in Kinds
      /\ "timeout" \in on => "read" \notin on /\ "write" \notin on
      /\ \A f \in Flags : f = "read" \/ f = "write"
      /\ Flags \subseteq Kinds
  BY <1>0 DEF RestPart, Kinds, Flags
<1>3. Now.slot = slot /\ Now.th = th
  BY DEF Now
<1>4. /\ \A f \in on : slot[f] = None \/ f = "timeout" => Free(th) # {}
      /\ \A f, g \in on : f # g /\ slot[f] = None /\ slot[g] = None => \A i : Free(th) \ {i} # {}
  BY <1>2, RoomForUpdate
<1>5. FollowedTo(Now, s1, "read", on)
  <2>1. "read" \in on /\ Now.slot["read"] = None => Free(Now.th) # {}
    BY <1>3, <1>4
  <2>2. "read" \in Flags
    BY <1>2
  <2> QED BY <1>0, <2>1, <2>2, FollowedFine, Zenon
<1> HIDE DEF s1
<1>6. "write" \in on /\ s1.slot["write"] = None => Free(s1.th) # {}
  <2>1. s1.slot["write"] = slot["write"]
    BY <1>2, <1>3, <1>5 DEF FollowedTo
  <2> QED BY <1>3, <1>4, <1>5, <2>1 DEF FollowedTo
<1>7. FollowedTo(s1, s2, "write", on)
  <2>1. Fine(s1) /\ "write" \in Flags
    BY <1>2, <1>5 DEF FollowedTo
  <2> QED BY <1>0, <1>6, <2>1, FollowedFine, Zenon
<1> HIDE DEF s2
<1>8. "timeout" \in on => Free(s2.th) # {}
  BY <1>2, <1>3, <1>4, <1>5, <1>7 DEF FollowedTo
<1>9. Fine(s3) /\ Calmer(s2, s3) /\ \A g \in Flags : s3.slot[g] = s2.slot[g]
  <2>1. Fine(s2)
    BY <1>7 DEF FollowedTo
  <2> QED BY <1>0, <1>8, <2>1, ArmedFine, Zenon
<1> HIDE DEF s3
<1>10. \A f \in Flags : f \in on <=> s3.slot[f] # None
  BY <1>2, <1>5, <1>7, <1>9 DEF FollowedTo
<1>11. Now'.slot = s3.slot /\ Now'.th = s3.th
  BY <1>1 DEF Now
<1>12. Fine(Now)'
  BY <1>1, <1>9, <1>11 DEF Fine, Typed, Handled, OwnHandles, Running, Kept
<1>13. Calmer(Now, Now')
  <2>1. Calmer(Now, s2)
    BY <1>5, <1>7, CalmerStill DEF FollowedTo, Fine
  <2>2. Calmer(Now, s3)
    BY <1>7, <1>9, <2>1, CalmerStill DEF FollowedTo, Fine
  <2> QED BY <1>11, <2>2 DEF Calmer
<1>14. GhostPart'
  <2>1. Running(th')
    BY <1>1, <1>9 DEF Fine
  <2> QED BY <1>1, <1>13, <2>1, CalmerGhosts
<1>15. RestPart'
  <2>1. timer' \in Threads \cup {None}
    BY <1>1, <1>2, <1>9 DEF Fine, Typed
  <2> QED BY <1>0, <1>1, <1>10, <2>1 DEF RestPart
<1> QED BY <1>12, <1>14, <1>15 DEF IInv

\* The object is deleted.
LEMMA RemoveStep ==
  ASSUME IInv, GhostPart, Remove
  PROVE  IInv' /\ GhostPart'
<1>0. Fine(Now) /\ RestPart /\ strays \subseteq Threads
  BY DEF IInv, RestPart
<1> DEFINE s1 == Stopped(Now, "read")
           s2 == Stopped(s1, "write")
           s3 == Stopped(s2, "timeout")
<1>1. /\ slot' = s3.slot /\ th' = s3.th /\ want' = {} /\ timer' = None /\ removed' = TRUE
      /\ UNCHANGED <<asks, cur, ready, events, crashed, strays>>
  BY DEF Remove
<1>2. {"read", "write", "timeout"} = Kinds /\ Flags \subseteq Kinds
  BY DEF Kinds, Flags
<1>3. Now.slot = slot /\ Now.th = th
  BY DEF Now
<1>4. Fine(s1) /\ Calmer(Now, s1) /\ s1.slot = [slot EXCEPT !["read"] = None]
  BY <1>0, <1>2, <1>3, StoppedFine
<1> HIDE DEF s1
<1>5. Fine(s2) /\ Calmer(s1, s2) /\ s2.slot = [s1.slot EXCEPT !["write"] = None]
  BY <1>0, <1>2, <1>4, StoppedFine
<1> HIDE DEF s2
<1>6. Fine(s3) /\ Calmer(s2, s3) /\ s3.slot = [s2.slot EXCEPT !["timeout"] = None]
  BY <1>0, <1>2, <1>5, StoppedFine
<1> HIDE DEF s3
<1>7. \A f \in Kinds : slot'[f] = None
  BY <1>1, <1>2, <1>4, <1>5, <1>6, <1>3, <1>0 DEF Fine, Typed
<1>8. Now'.slot = s3.slot /\ Now'.th = s3.th
  BY <1>1 DEF Now
<1>9. Fine(Now)'
  BY <1>1, <1>6, <1>8 DEF Fine, Typed, Handled, OwnHandles, Running, Kept
<1>10. Calmer(Now, Now')
  <2>1. Calmer(Now, s2)
    BY <1>4, <1>5, CalmerStill DEF Fine
  <2>2. Calmer(Now, s3)
    BY <1>5, <1>6, <2>1, CalmerStill DEF Fine
  <2> QED BY <1>8, <2>2 DEF Calmer
<1>11. GhostPart'
  <2>1. Running(th')
    BY <1>1, <1>6 DEF Fine
  <2> QED BY <1>1, <1>10, <2>1, CalmerGhosts
<1>12. RestPart'
  BY <1>0, <1>1, <1>2, <1>7 DEF RestPart
<1> QED BY <1>9, <1>11, <1>12 DEF IInv

\* A thread that is in no slot and does not run is gone, with the event of its handle.
LEMMA GoneStep ==
  ASSUME IInv, GhostPart, NEW k \in Threads, Gone(k), k # cur, \A f \in Kinds : slot[f] # k,
         \/ UNCHANGED events
         \/ th[k].idx \in events /\ events' = events \ {th[k].idx},
         UNCHANGED <<slot, cur>>
  PROVE  Fine(Now)' /\ GhostPart' /\ events' \subseteq 1 .. Pool /\ strays' \subseteq Threads
<1>0. /\ Typed(Now) /\ Handled(Now.th) /\ Running(Now.th) /\ Kept(Now) /\ RestPart
      /\ Now.slot = slot /\ Now.th = th /\ Now'.slot = slot' /\ Now'.th = th'
  BY DEF IInv, Fine, Now
<1>1. /\ th' = [th EXCEPT ![k] = Dead] /\ strays' = strays \ {k}
  BY DEF Gone
<1>2. Dead \in ThreadTypes /\ Dead.step = "dead" /\ Dead.idx = None /\ Dead.co = FALSE
  BY DEF Dead, ThreadTypes, Kinds, Flags, None
<1>3. /\ \A j \in Threads : th'[j] = IF j = k THEN Dead ELSE th[j]
      /\ Typed(Now)'
  BY <1>0, <1>1, <1>2 DEF Typed
<1>4. Handled(th')
  BY <1>0, <1>2, <1>3 DEF Handled, OwnHandles
<1>5. Running(th)'
  BY <1>0, <1>2, <1>3 DEF Running
<1>6. Kept(Now)'
  <2>1. ASSUME NEW f \in Kinds, slot[f] # None
        PROVE  th'[slot[f]].co /\ th'[slot[f]].kind = f /\ slot[f] \notin strays'
    <3>1. slot[f] \in Threads /\ slot[f] # k
      BY <1>0, <2>1 DEF Typed
    <3> QED BY <1>0, <1>1, <1>3, <2>1, <3>1 DEF Kept
  <2>2. ASSUME NEW j \in Threads \ strays', th'[j].co PROVE slot[th'[j].kind] = j
    <3>1. j # k /\ j \notin strays /\ th'[j] = th[j]
      BY <1>1, <1>2, <1>3, <2>2
    <3> QED BY <1>0, <2>2, <3>1 DEF Kept
  <2>3. ASSUME NEW j \in strays' PROVE th'[j].kind = "timeout"
    BY <1>0, <1>1, <1>3 DEF Kept, RestPart
  <2> QED BY <1>0, <2>1, <2>2, <2>3 DEF Kept
<1>7. GhostPart'
  <2>1. ASSUME NEW j \in Threads, MayStay(j)' PROVE MayStay(j) /\ th'[j] = th[j]
    <3>1. j # k
      BY <1>2, <1>3, <2>1 DEF MayStay
    <3>2. th'[j] = th[j]
      BY <1>3, <3>1
    <3>3. th[j].step = "poll" => th[j].idx # None /\ th[j].idx # th[k].idx
      BY <1>0, <3>1 DEF Handled, OwnHandles
    <3>4. th[j].step = "poll" => (th[j].idx \in events' <=> th[j].idx \in events)
      BY <3>3
    <3> QED BY <2>1, <3>2, <3>4 DEF MayStay
  <2> QED BY <2>1 DEF GhostPart
<1> QED BY <1>0, <1>1, <1>3, <1>4, <1>5, <1>6, <1>7 DEF Fine, RestPart

\* Into the poller, with a handle nobody else has.
LEMMA WaitHandled ==
  ASSUME Typed(Now), Handled(th), NEW k \in Threads, Wait(k)
  PROVE  /\ Typed([slot |-> slot, th |-> th']) /\ Handled(th')
         /\ \A j \in Threads : j # k => th'[j] = th[j]
         /\ th'[k].step = "poll" /\ th'[k].kind = th[k].kind /\ th'[k].co = th[k].co
<1> DEFINE r == th[k]
           h == IF r.idx = None THEN FreeHandle ELSE r.idx
           n == [r EXCEPT !.step = "poll", !.idx = h]
<1>1. /\ th \in [Threads -> ThreadTypes] /\ slot \in [Kinds -> Threads \cup {None}]
      /\ r \in ThreadTypes
  BY DEF Typed, Now
<1>2. /\ h \in 1 .. Pool
      /\ \A j \in Threads : j # k => th[j].idx # h
  <2>1. CASE r.idx = None
    BY <1>1, <2>1, HandleIsFree
  <2>2. CASE r.idx # None
    <3>1. r.idx \in 0 .. Pool
      BY <1>1 DEF ThreadTypes
    <3> QED BY <2>2, <3>1 DEF Handled, OwnHandles, None
  <2> QED BY <2>1, <2>2
<1>3. th' = [th EXCEPT ![k] = n]
  BY <1>1 DEF Wait, ThreadTypes
<1> HIDE DEF h
<1>4. n \in ThreadTypes
  <2>1. h \in 0 .. Pool
    BY <1>2
  <2> QED BY <1>1, <2>1 DEF ThreadTypes
<1>5. n.step = "poll" /\ n.kind = r.kind
  BY <1>1 DEF ThreadTypes
<1>6. n.co = r.co
  BY <1>1 DEF ThreadTypes
<1>7. n.idx = h
  BY <1>1 DEF ThreadTypes
<1> HIDE DEF n
<1>8. \A j \in Threads : th'[j] = IF j = k THEN n ELSE th[j]
  BY <1>1, <1>3
<1>9. Typed([slot |-> slot, th |-> th'])
  BY <1>1, <1>3, <1>4 DEF Typed
<1>10. Handled(th')
  BY <1>2, <1>5, <1>7, <1>8 DEF Handled, OwnHandles, None
<1> QED BY <1>5, <1>6, <1>8, <1>9, <1>10

\* The queues of the scheduler.
LEMMA QueueStep ==
  ASSUME IInv, GhostPart, NEW k \in Threads, Queue(k)
  PROVE  IInv' /\ GhostPart'
<1>0. /\ Typed(Now) /\ Handled(th) /\ Running(th) /\ Kept(Now) /\ RestPart
      /\ Now.slot = slot /\ Now.th = th /\ Now'.slot = slot' /\ Now'.th = th'
  BY DEF IInv, Fine, Now
<1>1. /\ cur = None /\ events = {} /\ k # cur /\ Queued(k)
      /\ UNCHANGED <<asks, slot, ready, events, removed, crashed, want>>
  BY DEF Queue, FirstWait, Sleep, Fire, Bury, Resting, Idle, Threads, None, Queued
<1>2. th \in [Threads -> ThreadTypes] /\ th[k] \in ThreadTypes
  BY <1>0 DEF Typed
<1>3. timer' \in Threads \cup {None}
  BY <1>0 DEF Queue, FirstWait, Sleep, Fire, Bury, RestPart
<1>4. ASSUME Fine(Now)', cur' \in Threads \cup {None}, strays' \subseteq Threads PROVE IInv'
  BY <1>0, <1>1, <1>3, <1>4 DEF IInv, RestPart
<1>5. CASE FirstWait(k)
  <2>1. UNCHANGED <<cur, strays>> /\ th[k].co /\ Wait(k)
    BY <1>5 DEF FirstWait, Alive
  <2>2. /\ Typed([slot |-> slot, th |-> th']) /\ Handled(th')
        /\ \A j \in Threads : j # k => th'[j] = th[j]
        /\ th'[k].step = "poll" /\ th'[k].kind = th[k].kind /\ th'[k].co = th[k].co
    BY <1>0, <2>1, WaitHandled
  <2>3. Typed(Now)'
    BY <1>1, <2>2 DEF Typed, Now
  <2>4. Running(th)'
    BY <1>0, <1>1, <2>1, <2>2 DEF Running
  <2>5. \A j \in Threads : th'[j].kind = th[j].kind /\ th'[j].co = th[j].co
    BY <2>2
  <2>6. Kept(Now)'
    BY <1>0, <1>1, <2>1, <2>5 DEF Kept, Typed, RestPart
  <2>7. \A j \in Threads : MayStay(j)' => MayStay(j)
    BY <1>1, <2>1, <2>2 DEF MayStay
  <2>8. GhostPart'
    BY <2>5, <2>7 DEF GhostPart
  <2> QED BY <1>0, <1>4, <2>1, <2>2, <2>3, <2>4, <2>6, <2>8 DEF Fine, RestPart
<1>6. ASSUME NEW a \in {"sleep", "call"}, th' = [th EXCEPT ![k].step = a], UNCHANGED strays,
             th[k].idx = None, th[k].kind = "timeout",
             cur' = IF a = "call" THEN k ELSE cur
      PROVE  IInv' /\ GhostPart'
  <2> DEFINE n == [th[k] EXCEPT !.step = a]
  <2>1. n \in ThreadTypes /\ n.step = a /\ n.idx = None /\ n.kind = "timeout"
    BY <1>2, <1>6 DEF ThreadTypes
  <2>2. n.co = th[k].co
    BY <1>2 DEF ThreadTypes
  <2>3. th' = [th EXCEPT ![k] = n]
    BY <1>2, <1>6
  <2> HIDE DEF n
  <2>4. \A j \in Threads : th'[j] = IF j = k THEN n ELSE th[j]
    BY <1>2, <2>3
  <2>5. Typed(Now)'
    BY <1>0, <1>1, <1>2, <2>1, <2>3 DEF Typed
  <2>6. Handled(th)'
    BY <1>0, <1>6, <2>1, <2>4 DEF Handled, OwnHandles
  <2>7. Running(th)'
    BY <1>0, <1>1, <1>6, <2>1, <2>4 DEF Running, None, Threads
  <2>8. \A j \in Threads : th'[j].kind = th[j].kind /\ th'[j].co = th[j].co
    BY <1>6, <2>1, <2>2, <2>4
  <2>9. Kept(Now)'
    BY <1>0, <1>1, <1>6, <2>8 DEF Kept, Typed, RestPart
  <2>10. \A j \in Threads : j # k => (MayStay(j)' => MayStay(j))
    BY <1>1, <1>6, <2>4 DEF MayStay, None, Threads
  <2>11. GhostPart'
    <3>1. "timeout" \notin Flags
      BY DEF Flags
    <3> QED BY <1>6, <2>8, <2>10, <3>1 DEF GhostPart
  <2>12. cur' \in Threads \cup {None} /\ strays' \subseteq Threads
    BY <1>0, <1>6 DEF RestPart
  <2> QED BY <1>0, <1>4, <2>5, <2>6, <2>7, <2>9, <2>11, <2>12 DEF Fine
<1>7. ASSUME Gone(k), UNCHANGED cur, \A f \in Kinds : slot[f] # k
      PROVE  IInv' /\ GhostPart'
  <2>1. Fine(Now)' /\ GhostPart' /\ strays' \subseteq Threads
    BY <1>1, <1>7, GoneStep
  <2> QED BY <1>0, <1>4, <1>7, <2>1 DEF RestPart
<1>8. CASE Sleep(k)
  <2>1. th[k].idx = None /\ UNCHANGED <<cur, strays>>
    BY <1>0, <1>8 DEF Sleep, Handled
  <2> QED BY <1>6, <1>8, <2>1 DEF Sleep
<1>9. CASE Fire(k) /\ ~removed
  <2>1. th[k].idx = None /\ th[k].kind = "timeout"
    BY <1>0, <1>9 DEF Fire, Handled, Running
  <2> QED BY <1>6, <1>9, <2>1 DEF Fire
<1>10. CASE Fire(k) /\ removed
  <2>1. \A f \in Kinds : slot[f] # k
    BY <1>0, <1>10 DEF RestPart, None, Threads
  <2> QED BY <1>7, <1>10, <2>1 DEF Fire
<1>11. CASE Bury(k)
  <2>1. \A f \in Kinds : slot[f] # k
    BY <1>0, <1>11 DEF Bury, Alive, Kept, None, Threads
  <2> QED BY <1>7, <1>11, <2>1 DEF Bury
<1> QED BY <1>5, <1>8, <1>9, <1>10, <1>11 DEF Queue

\* The poller collects the events of everybody that is to be called back or is a ghost.
LEMMA PollStep ==
  ASSUME IInv, GhostPart, Poll
  PROVE  IInv' /\ GhostPart'
<1>0. /\ Typed(Now) /\ Handled(th) /\ Running(th) /\ Kept(Now) /\ RestPart
      /\ Now.slot = slot /\ Now.th = th /\ Now' = Now
  BY DEF IInv, Fine, Now, Poll
<1>1. /\ cur = None /\ events = {}
      /\ events' = {th[k].idx : k \in {j \in Threads : th[j].step = "poll" /\ th[j].kind \in ready}}
      /\ UNCHANGED <<asks, slot, th, cur, ready, removed, crashed, want, timer, strays>>
  BY DEF Poll, Resting, Idle
<1>2. events' \subseteq 1 .. Pool
  BY <1>0, <1>1 DEF Typed, ThreadTypes, Handled, None
<1>3. ASSUME NEW k \in Threads, th[k].step = "poll"
      PROVE  th[k].idx \in events' <=> th[k].kind \in ready
  <2>1. \A j \in Threads : th[j].idx = th[k].idx => j = k
    BY <1>0, <1>3 DEF Handled, OwnHandles
  <2> QED BY <1>1, <1>3, <2>1
<1>4. GhostPart'
  <2> SUFFICES ASSUME NEW f \in Flags, NEW j \in Threads, NEW k \in Threads,
                      th[j].kind = f, th[k].kind = f, MayStay(j)', MayStay(k)'
               PROVE  j = k
    BY <1>1 DEF GhostPart
  <2>1. th[j].step = "poll" /\ th[k].step = "poll" /\ j # cur /\ k # cur
    BY <1>1 DEF MayStay, None, Threads
  <2>2. (th[j].co <=> f \in ready) /\ (th[k].co <=> f \in ready)
    BY <1>1, <1>3, <2>1 DEF MayStay
  <2>3. CASE f \in ready
    <3>1. j \notin strays /\ k \notin strays
      BY <1>0 DEF Kept, Flags
    <3> QED BY <1>0, <2>2, <2>3, <3>1 DEF Kept
  <2>4. CASE f \notin ready
    <3>1. MayStay(j) /\ MayStay(k)
      BY <1>1, <2>1, <2>2, <2>4 DEF MayStay
    <3> QED BY <3>1 DEF GhostPart
  <2> QED BY <2>3, <2>4
<1>5. Fine(Now)'
  BY <1>0, <1>1 DEF Fine, Running, Kept
<1>6. RestPart'
  BY <1>0, <1>1, <1>2 DEF RestPart
<1> QED BY <1>4, <1>5, <1>6 DEF IInv

\* An event is served.
LEMMA EventStep ==
  ASSUME IInv, GhostPart, Event
  PROVE  IInv' /\ GhostPart'
<1>0. /\ Typed(Now) /\ Handled(th) /\ Running(th) /\ Kept(Now) /\ RestPart
      /\ Now.slot = slot /\ Now.th = th /\ Now'.slot = slot' /\ Now'.th = th'
  BY DEF IInv, Fine, Now
<1>1. PICK h \in events, k \in Threads :
        /\ events' = events \ {h} /\ th[k].idx = h
        /\ IF Alive(k) THEN /\ cur' = k
                            /\ th' = [th EXCEPT ![k].step = "call"]
                            /\ UNCHANGED strays
                       ELSE Served(k) /\ UNCHANGED cur
  BY DEF Event
<1>2. cur = None /\ k # cur /\ UNCHANGED <<asks, slot, ready, removed, crashed, want, timer>>
  BY DEF Event, Idle, Threads, None
<1>3. CASE ~Alive(k)
  <2>1. Gone(k) /\ cur' = cur
    BY <1>1, <1>3 DEF Served
  <2>2. \A f \in Kinds : slot[f] # k
    BY <1>0, <1>3 DEF Alive, Kept, None, Threads
  <2>3. Fine(Now)' /\ GhostPart' /\ events' \subseteq 1 .. Pool /\ strays' \subseteq Threads
    BY <1>1, <1>2, <2>1, <2>2, GoneStep
  <2> QED BY <1>0, <1>2, <2>1, <2>3 DEF IInv, RestPart
<1>4. CASE Alive(k)
  <2>1. th \in [Threads -> ThreadTypes] /\ th[k] \in ThreadTypes
    BY <1>0 DEF Typed
  <2> DEFINE n == [th[k] EXCEPT !.step = "call"]
  <2>2. n \in ThreadTypes /\ n.step = "call" /\ n.idx = h /\ n.kind = th[k].kind
    BY <1>1, <2>1 DEF ThreadTypes
  <2>3. n.co = th[k].co
    BY <2>1 DEF ThreadTypes
  <2>4. th' = [th EXCEPT ![k] = n] /\ cur' = k /\ strays' = strays
    BY <1>1, <1>4, <2>1
  <2> HIDE DEF n
  <2>5. \A j \in Threads : th'[j] = IF j = k THEN n ELSE th[j]
    BY <2>1, <2>4
  <2>6. Typed(Now)'
    BY <1>0, <1>2, <2>1, <2>2, <2>4 DEF Typed
  <2>7. Handled(th)'
    BY <1>0, <1>1, <2>2, <2>5 DEF Handled, OwnHandles
  <2>8. Running(th)'
    BY <1>0, <1>2, <2>2, <2>4, <2>5 DEF Running, None, Threads
  <2>9. \A j \in Threads : th'[j].kind = th[j].kind /\ th'[j].co = th[j].co
    BY <2>2, <2>3, <2>5
  <2>10. Kept(Now)'
    BY <1>0, <1>2, <2>4, <2>9 DEF Kept, Typed, RestPart
  <2>11. MayStay(k)
    <3>1. h # None
      BY <1>0 DEF RestPart, None
    <3>2. th[k].step = "poll"
      BY <1>0, <1>1, <1>2, <3>1 DEF Handled, Running
    <3> QED BY <1>1, <1>4, <3>2 DEF MayStay, Alive
  <2>12. ASSUME NEW j \in Threads, j # k, MayStay(j)' PROVE MayStay(j)
    <3>1. th'[j] = th[j] /\ th[j].step = "poll" /\ (th[j].co <=> th[j].idx \in events')
      BY <2>4, <2>5, <2>12 DEF MayStay
    <3>2. th[j].idx # h
      BY <1>0, <1>1, <2>12, <3>1 DEF Handled, OwnHandles
    <3> QED BY <1>1, <3>1, <3>2 DEF MayStay
  <2>13. GhostPart'
    BY <2>9, <2>11, <2>12 DEF GhostPart
  <2>14. RestPart'
    BY <1>0, <1>1, <1>2, <2>4 DEF RestPart
  <2> QED BY <1>0, <2>6, <2>7, <2>8, <2>10, <2>13, <2>14 DEF IInv, Fine
<1> QED BY <1>3, <1>4

\* The callback returns.
LEMMA ReturnStep ==
  ASSUME IInv, GhostPart, Return
  PROVE  IInv' /\ GhostPart'
<1>0. /\ Typed(Now) /\ Handled(th) /\ Running(th) /\ Kept(Now) /\ RestPart
      /\ Now.slot = slot /\ Now.th = th /\ Now'.slot = slot' /\ Now'.th = th'
  BY DEF IInv, Fine, Now
<1>1. /\ cur \in Threads /\ cur' = None /\ None \notin Threads
      /\ UNCHANGED <<asks, ready, events, removed, crashed, want, timer>>
  BY <1>0 DEF Return, RestPart, Threads, None
<1>2. /\ th \in [Threads -> ThreadTypes] /\ slot \in [Kinds -> Threads \cup {None}]
      /\ "timeout" \in Kinds /\ "timeout" \notin Flags /\ Kinds = Flags \cup {"timeout"}
  BY <1>0 DEF Typed, Kinds, Flags
<1>3. CASE th[cur].kind \in Flags
  <2>1. Wait(cur) /\ UNCHANGED <<slot, strays>>
    BY <1>2, <1>3 DEF Return
  <2>2. /\ Typed([slot |-> slot, th |-> th']) /\ Handled(th')
        /\ \A j \in Threads : j # cur => th'[j] = th[j]
        /\ th'[cur].step = "poll" /\ th'[cur].kind = th[cur].kind /\ th'[cur].co = th[cur].co
    BY <1>0, <1>1, <2>1, WaitHandled
  <2>3. Typed(Now)'
    BY <2>1, <2>2 DEF Typed, Now
  <2>4. Running(th)'
    BY <1>0, <1>1, <2>2 DEF Running
  <2>5. \A j \in Threads : th'[j].kind = th[j].kind /\ th'[j].co = th[j].co
    BY <2>2
  <2>6. Kept(Now)'
    BY <1>0, <2>1, <2>5 DEF Kept, Typed, RestPart
  <2>7. \A j \in Threads : MayStay(j)' => MayStay(j)
    BY <1>1, <2>2 DEF MayStay
  <2>8. GhostPart'
    BY <2>5, <2>7 DEF GhostPart
  <2>9. RestPart'
    BY <1>0, <1>1, <2>1 DEF RestPart
  <2> QED BY <1>0, <2>2, <2>3, <2>4, <2>6, <2>8, <2>9 DEF IInv, Fine
<1>4. CASE th[cur].kind = "timeout"
  <2>1. /\ slot' = [slot EXCEPT !["timeout"] = None]
        /\ th' = [th EXCEPT ![cur] = Dead]
        /\ strays' = (strays \cup ({slot["timeout"]} \ {None})) \ {cur}
    BY <1>2, <1>4 DEF Return
  <2>2. Dead \in ThreadTypes /\ Dead.step = "dead" /\ Dead.idx = None /\ Dead.co = FALSE
    BY DEF Dead, ThreadTypes, Kinds, Flags, None
  <2>3. /\ \A j \in Threads : th'[j] = IF j = cur THEN Dead ELSE th[j]
        /\ \A f \in Kinds : slot'[f] = IF f = "timeout" THEN None ELSE slot[f]
        /\ Typed(Now)'
    BY <1>0, <1>1, <1>2, <2>1, <2>2 DEF Typed
  <2>4. Handled(th)'
    BY <1>0, <2>2, <2>3 DEF Handled, OwnHandles
  <2>5. Running(th)'
    BY <1>0, <1>1, <2>2, <2>3 DEF Running
  <2>6. ASSUME NEW f \in Kinds, slot'[f] # None
        PROVE  th'[slot'[f]].co /\ th'[slot'[f]].kind = f /\ slot'[f] \notin strays'
    <3>1. f # "timeout" /\ slot'[f] = slot[f] /\ slot[f] \in Threads
      BY <1>2, <2>3, <2>6
    <3>2. th[slot[f]].co /\ th[slot[f]].kind = f /\ slot[f] \notin strays
      BY <1>0, <2>6, <3>1 DEF Kept
    <3>3. slot[f] # cur
      BY <1>4, <3>1, <3>2
    <3>4. slot["timeout"] # None => th[slot["timeout"]].kind = "timeout"
      BY <1>0, <1>2 DEF Kept
    <3>5. slot[f] # slot["timeout"]
      BY <2>6, <3>1, <3>2, <3>4
    <3> QED BY <2>1, <2>3, <3>1, <3>2, <3>3, <3>5
  <2>7. ASSUME NEW j \in Threads \ strays', th'[j].co PROVE slot'[th'[j].kind] = j
    <3>1. j # cur /\ th'[j] = th[j] /\ j \notin strays /\ j # None /\ th[j].kind \in Kinds
      BY <1>1, <1>2, <2>1, <2>2, <2>3, <2>7 DEF ThreadTypes
    <3>2. slot[th[j].kind] = j
      BY <1>0, <2>7, <3>1 DEF Kept
    <3>3. th[j].kind # "timeout"
      BY <2>1, <2>7, <3>1, <3>2
    <3> QED BY <2>3, <3>1, <3>2, <3>3
  <2>8. ASSUME NEW j \in strays' PROVE j \in Threads /\ th'[j].kind = "timeout"
    <3>1. j # cur /\ j \in Threads
      BY <1>0, <1>2, <2>1 DEF RestPart
    <3>2. th[j].kind = "timeout"
      BY <1>0, <1>2, <2>1 DEF Kept
    <3> QED BY <2>3, <3>1, <3>2
  <2>9. Kept(Now)'
    BY <1>0, <2>6, <2>7, <2>8 DEF Kept
  <2>10. ASSUME NEW j \in Threads, MayStay(j)' PROVE MayStay(j) /\ th'[j] = th[j]
    BY <1>1, <2>2, <2>3, <2>10 DEF MayStay
  <2>11. GhostPart'
    BY <2>10 DEF GhostPart
  <2>12. RestPart'
    <3>1. \A f \in Flags : slot'[f] = slot[f]
      BY <1>2, <2>3
    <3>2. removed => \A f \in Kinds : slot'[f] = None
      BY <1>0, <2>3 DEF RestPart
    <3> QED BY <1>0, <1>1, <2>8, <3>1, <3>2 DEF RestPart
  <2> QED BY <1>0, <2>3, <2>4, <2>5, <2>9, <2>11, <2>12 DEF IInv, Fine
<1> QED BY <1>3, <1>4 DEF Return

\* The collector takes a thread that nobody has.
LEMMA GcStep ==
  ASSUME IInv, GhostPart, NEW k \in Threads, Gc(k)
  PROVE  IInv' /\ GhostPart'
<1>0. RestPart
  BY DEF IInv
<1>1. /\ Gone(k) /\ k # cur /\ \A f \in Kinds : slot[f] # k
      /\ UNCHANGED <<asks, slot, cur, ready, events, removed, crashed, want>>
      /\ timer' \in {None, timer}
  BY DEF Gc
<1>2. Fine(Now)' /\ GhostPart' /\ events' \subseteq 1 .. Pool /\ strays' \subseteq Threads
  BY <1>1, GoneStep
<1> QED BY <1>0, <1>1, <1>2 DEF IInv, RestPart

\* Every step preserves the invariants.
LEMMA NextIInv == IInv /\ GhostPart /\ [Next]_vars => IInv' /\ GhostPart'
<1> SUFFICES ASSUME IInv, GhostPart, [Next]_vars PROVE IInv' /\ GhostPart'
  OBVIOUS
<1>0. /\ Fine(Now) /\ RestPart
  BY DEF IInv
<1>1. ASSUME UNCHANGED <<asks, slot, th, cur, events, removed, want, timer, strays>>,
             ready' \subseteq Flags, crashed' \in BOOLEAN
      PROVE  IInv' /\ GhostPart'
  <2>1. Now' = Now
    BY <1>1 DEF Now
  <2>2. Fine(Now)'
    BY <1>0, <1>1, <2>1 DEF Fine, Typed, Handled, OwnHandles, Running, Kept
  <2>3. RestPart'
    BY <1>0, <1>1 DEF RestPart
  <2>4. GhostPart'
    BY <1>1 DEF GhostPart, MayStay
  <2> QED BY <2>2, <2>3, <2>4 DEF IInv
<1>2. CASE UNCHANGED vars
  BY <1>0, <1>1, <1>2 DEF vars, RestPart
<1>3. CASE EventUnknown
  BY <1>0, <1>1, <1>3 DEF EventUnknown, RestPart
<1>4. CASE Changes
  BY <1>0, <1>1, <1>4 DEF Changes, RestPart
<1>5. CASE \E k \in Threads : Queue(k) \/ Gc(k)
  BY <1>5, QueueStep, GcStep
<1> QED BY <1>2, <1>3, <1>4, <1>5, UpdateStep, RemoveStep, PollStep, EventStep, ReturnStep DEF Next

-----------------------------------------------------------------------------
\* Types, and a handle of its own for everybody in the poller: a thread that was killed in
\* its callback and comes back (waitRead after thread:kill) finds one that is free.
THEOREM TypeCorrect == Spec => []TypeOK
<1>1. Spec => []IInv
  BY InitIInv, NextIInv, PTL DEF Spec
<1> QED BY <1>1, IInvIsEnough, PTL

\* Whatever update() is told, in callbacks, between the events of one poll or after them: a
\* flag that is set has one thread that can call back, and a flag that is not set none.
THEOREM FlagsAreFollowed == Spec => []FlagsFollowed
<1>1. Spec => []IInv
  BY InitIInv, NextIInv, PTL DEF Spec
<1> QED BY <1>1, IInvIsEnough, PTL

\* The thread that was killed in its callback and is in the poller again is alone for its
\* flag once the events are served, however many there are.
THEOREM AtMostOneGhost == Spec => []OneGhost
<1>1. Spec => [](IInv /\ GhostPart)
  BY InitIInv, NextIInv, PTL DEF Spec
<1> QED BY <1>1, GhostPartIsEnough, PTL
=============================================================================
