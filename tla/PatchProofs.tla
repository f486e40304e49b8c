----------------------------- MODULE PatchProofs -----------------------------
(***************************************************************************)
(* Proofs about module Patch, for any finite set of nodes, any choice of   *)
(* those that declare inlets and any number of links of an outlet.         *)
(*                                                                         *)
(* LinksHold and RemovedIsSilent are not inductive by themselves. An       *)
(* outlet has one entry for a node, since disconnect misses the second of  *)
(* two in a row, and lists it by the url the inlet has now, which is what  *)
(* disconnect looks for (Pair). A node that has no outlet has no links and *)
(* sends nowhere (BarePart), so that the outlet its code makes later       *)
(* starts bare. FreshIs counts the objects in use: there is always one     *)
(* that nothing else is.                                                   *)
(***************************************************************************)
EXTENDS Patch, FiniteSetTheorems, TLAPS

USE PatchAssumption

-----------------------------------------------------------------------------
(* Sequences *)

\* A set of numbers has a least element.
LEMMA Smallest ==
  ASSUME NEW S \in SUBSET Nat, S # {}
  PROVE  \E i \in S : \A j \in S : i <= j
<1> DEFINE T == {0 .. i : i \in S}
<1>1. T \subseteq FiniteSubsetsOf(Nat) /\ T # {}
  <2>1. ASSUME NEW i \in S PROVE IsFiniteSet(0 .. i) /\ 0 .. i \in SUBSET Nat
    BY FS_Interval
  <2> QED BY <2>1 DEF FiniteSubsetsOf
<1>2. PICK x \in T : \A y \in T : ~ (<<y, x>> \in StrictSubsetOrdering(Nat))
  <2> HIDE DEF T
  <2> QED BY <1>1, FS_StrictSubsetOrderingWellFounded, WFMin
<1>3. PICK i \in S : x = 0 .. i
  OBVIOUS
<1>4. ASSUME NEW j \in S PROVE i <= j
  <2>1. ~ (<<0 .. j, 0 .. i>> \in StrictSubsetOrdering(Nat))
    BY <1>2, <1>3
  <2>2. 0 .. i \in SUBSET Nat /\ 0 .. j \in SUBSET Nat
    OBVIOUS
  <2>3. ~ (0 .. j \subseteq 0 .. i /\ 0 .. j # 0 .. i)
    BY <2>1, <2>2 DEF StrictSubsetOrdering
  <2>4. CASE j < i
    <3>1. 0 .. j \subseteq 0 .. i
      BY <2>4
    <3>2. i \in 0 .. i /\ i \notin 0 .. j
      BY <2>4
    <3> QED BY <2>3, <3>1, <3>2
  <2> QED BY <2>4
<1> QED BY <1>4

\* d is s read along an enumeration of K, of c positions.
Reads(d, s, K, c) ==
  \E pos \in [1 .. c -> K] :
    /\ d = [i \in 1 .. c |-> s[pos[i]]]
    /\ \A i, j \in 1 .. c : pos[i] = pos[j] => i = j
    /\ \A k \in K : \E i \in 1 .. c : pos[i] = k

\* Kept(s, K) is: the rank of a position among those of K is one to one.
LEMMA KeptReads ==
  ASSUME NEW s, NEW n \in Nat, NEW K \in SUBSET (1 .. n)
  PROVE  Cardinality(K) \in 0 .. n /\ Reads(Kept(s, K), s, K, Cardinality(K))
<1> DEFINE c == Cardinality(K)
           rank == [k \in K |-> Cardinality({j \in K : j <= k})]
<1>1. IsFiniteSet(K) /\ c \in Nat /\ c <= n
  <2>1. IsFiniteSet(1 .. n) /\ Cardinality(1 .. n) = n
    BY FS_Interval
  <2> QED BY <2>1, FS_Subset, FS_CardinalityType
<1>2. ASSUME NEW k \in K
      PROVE  /\ IsFiniteSet({j \in K : j <= k})
             /\ Cardinality({j \in K : j <= k}) \in 1 .. c
  <2>1. {j \in K : j <= k} \in SUBSET K /\ k \in {j \in K : j <= k}
    OBVIOUS
  <2>2. /\ IsFiniteSet({j \in K : j <= k})
        /\ Cardinality({j \in K : j <= k}) <= c
    BY <1>1, <2>1, FS_Subset
  <2>3. Cardinality({j \in K : j <= k}) \in Nat
    BY <2>2, FS_CardinalityType
  <2>4. Cardinality({j \in K : j <= k}) # 0
    BY <2>1, <2>2, FS_EmptySet
  <2> HIDE DEF c
  <2> QED BY <1>1, <2>2, <2>3, <2>4
<1>3. ASSUME NEW k \in K, NEW l \in K, k < l
      PROVE  rank[k] # rank[l]
  <2>1. {j \in K : j <= k} \in SUBSET {j \in K : j <= l}
    <3>1. ASSUME NEW j \in K, j <= k PROVE j <= l
      <4>1. j \in Nat /\ k \in Nat /\ l \in Nat
        OBVIOUS
      <4> QED BY <1>3, <3>1, <4>1
    <3> QED BY <3>1
  <2>2. l \in {j \in K : j <= l} /\ l \notin {j \in K : j <= k}
    <3>1. k \in Nat /\ l \in Nat
      OBVIOUS
    <3>2. l <= l /\ ~ (l <= k)
      BY <1>3, <3>1
    <3> QED BY <3>2
  <2>3. Cardinality({j \in K : j <= k}) # Cardinality({j \in K : j <= l})
    BY <1>2, <2>1, <2>2, FS_Subset
  <2> QED BY <2>3
<1>4. rank \in [K -> 1 .. c]
  BY <1>2
<1> HIDE DEF rank, c
<1>5. \A k, l \in K : rank[k] = rank[l] => k = l
  <2> TAKE k, l \in K
  <2>1. k < l \/ l < k \/ k = l
    OBVIOUS
  <2> QED BY <1>3, <2>1
<1>6. rank \in Injection(K, 1 .. c)
  BY <1>4, <1>5 DEF Injection, IsInjective
<1>7. \A i \in 1 .. c : \E k \in K : rank[k] = i
  <2>1. IsFiniteSet(1 .. c) /\ Cardinality(1 .. c) = c
    BY <1>1, FS_Interval
  <2>2. rank \in Surjection(K, 1 .. c)
    BY <1>6, <2>1, FS_Injection DEF c
  <2> QED BY <2>2 DEF Surjection
<1> DEFINE pos == [i \in 1 .. c |-> CHOOSE k \in K : rank[k] = i]
<1>8. \A i \in 1 .. c : pos[i] \in K /\ rank[pos[i]] = i
  BY <1>7
<1>9. \A k \in K : pos[rank[k]] = k
  <2> TAKE k \in K
  <2>1. rank[k] \in 1 .. c
    BY <1>4
  <2>2. pos[rank[k]] \in K /\ rank[pos[rank[k]]] = rank[k]
    BY <1>8, <2>1
  <2> HIDE DEF pos
  <2> QED BY <1>5, <2>2
<1>10. Kept(s, K) = [i \in 1 .. c |-> s[pos[i]]]
  <2>1. \A k \in K : rank[k] = Cardinality({j \in K : j <= k})
    BY DEF rank
  <2>2. ASSUME NEW i \in 1 .. c
        PROVE  (CHOOSE k \in K : rank[k] = i)
                 = CHOOSE k \in K : Cardinality({j \in K : j <= k}) = i
    BY <2>1
  <2>3. Kept(s, K) = [i \in 1 .. c |->
                        s[CHOOSE k \in K : Cardinality({j \in K : j <= k}) = i]]
    BY DEF Kept, c
  <2> QED BY <2>2, <2>3
<1>11. pos \in [1 .. c -> K]
  BY <1>8
<1> HIDE DEF pos
<1>12. \A i, j \in 1 .. c : pos[i] = pos[j] => i = j
  BY <1>8
<1>13. \A k \in K : \E i \in 1 .. c : pos[i] = k
  BY <1>4, <1>9
<1>14. Reads(Kept(s, K), s, K, c)
  BY <1>10, <1>11, <1>12, <1>13 DEF Reads
<1> QED BY <1>1, <1>14 DEF c

\* The entries that disconnect removes are as the definition says: by induction
\* on how many entries have been looked at.
LEMMA DroppedIs ==
  ASSUME NEW s, Len(s) \in Nat, DOMAIN s = 1 .. Len(s), NEW u
  PROVE  /\ Dropped(s, u) \in SUBSET DOMAIN s
         /\ \A k \in DOMAIN s :
              k \in Dropped(s, u) <=> (Url(s[k]) = u /\ k - 1 \notin Dropped(s, u))
<1> DEFINE Good(n, D) == /\ D \in SUBSET (1 .. n)
                         /\ \A k \in 1 .. n : k \in D <=> (Url(s[k]) = u /\ k - 1 \notin D)
           Bad == {n \in 0 .. Len(s) : ~ \E D : Good(n, D)}
<1>1. ASSUME Bad # {} PROVE FALSE
  <2>1. PICK m \in Bad : \A j \in Bad : m <= j
    <3>1. Bad \in SUBSET Nat
      OBVIOUS
    <3> HIDE DEF Bad
    <3> QED BY <1>1, <3>1, Smallest
  <2>2. m # 0
    <3>1. Good(0, {})
      OBVIOUS
    <3> HIDE DEF Good
    <3> QED BY <3>1
  <2>3. m \in 1 .. Len(s) /\ m - 1 \in 0 .. Len(s) /\ m - 1 \notin Bad
    <3>1. m \in 0 .. Len(s)
      OBVIOUS
    <3> HIDE DEF Bad
    <3> QED BY <2>1, <2>2, <3>1
  <2>4. PICK D : Good(m - 1, D)
    BY <2>3
  <2> DEFINE E == IF Url(s[m]) = u /\ m - 1 \notin D THEN D \cup {m} ELSE D
  <2>5. Good(m, E)
    <3>1. E \in SUBSET (1 .. m)
      <4>1. m \in 1 .. m /\ 1 .. m - 1 \subseteq 1 .. m
        BY <2>3
      <4>2. D \in SUBSET (1 .. m - 1)
        BY <2>4
      <4> QED BY <4>1, <4>2
    <3>2. ASSUME NEW k \in 1 .. m
          PROVE  k \in E <=> (Url(s[k]) = u /\ k - 1 \notin E)
      <4>1. CASE k = m
        <5>1. m \notin D /\ m - 1 # m
          <6>1. m \in Nat
            BY <2>3
          <6>2. D \in SUBSET (1 .. m - 1)
            BY <2>4
          <6> QED BY <6>1, <6>2
        <5> QED BY <4>1, <5>1
      <4>2. CASE k # m
        <5>1. k \in 1 .. m - 1 /\ k - 1 # m
          BY <2>3, <4>2
        <5>2. k \in D <=> (Url(s[k]) = u /\ k - 1 \notin D)
          BY <2>4, <5>1
        <5> QED BY <4>2, <5>1, <5>2
      <4> QED BY <4>1, <4>2
    <3> QED BY <3>1, <3>2
  <2> HIDE DEF Good
  <2> QED BY <2>5
<1>2. PICK D : Good(Len(s), D)
  <2>1. Len(s) \in 0 .. Len(s)
    OBVIOUS
  <2> QED BY <1>1, <2>1
<1> QED BY <1>2 DEF Dropped

\* At most one entry of s is for node t, and the objects that are.
Single(s, t) == \A j, k \in DOMAIN s : s[j][1] = t /\ s[k][1] = t => j = k
Of(s, t) == {i \in Range(s) : i[1] = t}

\* disconnect leaves the other nodes alone, adds nothing, and removes what has
\* the url if the node has one entry.
LEMMA DisconnectedIs ==
  ASSUME NEW X, NEW s \in Seq(X), NEW u
  PROVE  /\ Disconnected(s, u) \in Seq(X)
         /\ Len(Disconnected(s, u)) <= Len(s)
         /\ Range(Disconnected(s, u)) \subseteq Range(s)
         /\ \A t : t # u[1] => Of(Disconnected(s, u), t) = Of(s, t)
         /\ \A t : Single(s, t) => Single(Disconnected(s, u), t)
         /\ Single(s, u[1])
              => \A i \in Of(s, u[1]) : i \in Of(Disconnected(s, u), u[1]) <=> Url(i) # u
<1> DEFINE K == DOMAIN s \ Dropped(s, u)
           d == Disconnected(s, u)
           c == Cardinality(K)
<1>1. Len(s) \in Nat /\ DOMAIN s = 1 .. Len(s) /\ s \in [1 .. Len(s) -> X]
  OBVIOUS
<1>2. /\ \A k \in DOMAIN s :
           k \in Dropped(s, u) <=> (Url(s[k]) = u /\ k - 1 \notin Dropped(s, u))
      /\ Dropped(s, u) \in SUBSET DOMAIN s
  BY <1>1, DroppedIs
<1>3. K \in SUBSET (1 .. Len(s)) /\ d = Kept(s, K)
  BY <1>1 DEF Disconnected
<1>0. \A i : Url(i) = u => i[1] = u[1]
  BY DEF Url
<1>4. \A k \in DOMAIN s : Url(s[k]) # u => k \in K
  BY <1>2
<1>5. Single(s, u[1]) => \A k \in K : Url(s[k]) # u
  <2> SUFFICES ASSUME Single(s, u[1]), NEW k \in K, Url(s[k]) = u PROVE FALSE
    OBVIOUS
  <2>1. k \in DOMAIN s /\ k - 1 \in Dropped(s, u)
    BY <1>2
  <2>2. k - 1 \in DOMAIN s /\ Url(s[k - 1]) = u
    BY <1>2, <2>1
  <2>3. k - 1 = k
    BY <1>0, <2>1, <2>2 DEF Single
  <2> QED BY <1>1, <2>1, <2>3
<1> HIDE DEF K, d
<1>6. c \in 0 .. Len(s) /\ Reads(d, s, K, c)
  BY <1>1, <1>3, KeptReads
<1> HIDE DEF c
<1>7. PICK pos \in [1 .. c -> K] :
        /\ d = [i \in 1 .. c |-> s[pos[i]]]
        /\ \A i, j \in 1 .. c : pos[i] = pos[j] => i = j
        /\ \A k \in K : \E i \in 1 .. c : pos[i] = k
  BY <1>6 DEF Reads
<1>8. DOMAIN d = 1 .. c /\ \A i \in 1 .. c : pos[i] \in K /\ d[i] = s[pos[i]]
  BY <1>7
<1>9. K \subseteq DOMAIN s
  BY DEF K
<1>10. d \in Seq(X) /\ Len(d) <= Len(s)
  <2>1. d \in [1 .. c -> X]
    BY <1>1, <1>7, <1>9
  <2>2. c \in Nat /\ c <= Len(s)
    BY <1>1, <1>6
  <2>3. d \in Seq(X)
    BY <2>1, <2>2
  <2>4. Len(d) = c
    BY <1>8, <2>2, <2>3
  <2> QED BY <2>2, <2>3, <2>4
<1>11. Range(d) = {s[k] : k \in K}
  BY <1>7, <1>8 DEF Range
<1>12. Range(d) \subseteq Range(s)
  BY <1>9, <1>11 DEF Range
<1>13. ASSUME NEW t, t # u[1] PROVE Of(d, t) = Of(s, t)
  <2>1. ASSUME NEW i \in Of(s, t) PROVE i \in Range(d)
    <3>1. PICK k \in DOMAIN s : s[k] = i /\ i[1] = t
      BY DEF Of, Range
    <3> QED BY <1>0, <1>4, <1>11, <1>13, <3>1
  <2> QED BY <1>12, <2>1 DEF Of
<1>14. ASSUME NEW t, Single(s, t) PROVE Single(d, t)
  BY <1>7, <1>8, <1>9, <1>14 DEF Single
<1>15. ASSUME Single(s, u[1])
       PROVE  \A i \in Of(s, u[1]) : i \in Of(d, u[1]) <=> Url(i) # u
  <2>1. ASSUME NEW i \in Of(s, u[1]), Url(i) # u PROVE i \in Range(d)
    <3>1. PICK k \in DOMAIN s : s[k] = i
      BY DEF Of, Range
    <3> QED BY <1>4, <1>11, <2>1, <3>1
  <2>2. \A i \in Range(d) : Url(i) # u
    BY <1>5, <1>11, <1>15
  <2> QED BY <1>12, <2>1, <2>2 DEF Of
<1> QED BY <1>10, <1>12, <1>13, <1>14, <1>15 DEF d

\* A sequence of disconnects, one after the other.
LEMMA CutsIs ==
  ASSUME NEW X, NEW s \in Seq(X), NEW order, Len(order) \in Nat
  PROVE  Cuts(s, order) = [k \in 0 .. Len(order) |->
           IF k = 0 THEN s ELSE Disconnected(Cuts(s, order)[k - 1], order[k])]
<1> DEFINE n == Len(order)
           Cut1(f, m) == f = [k \in 0 .. m |->
                           IF k = 0 THEN s ELSE Disconnected(f[k - 1], order[k])]
           Bad == {m \in 0 .. n : ~ \E f : Cut1(f, m)}
<1>1. ASSUME Bad # {} PROVE FALSE
  <2>1. PICK m \in Bad : \A j \in Bad : m <= j
    <3>1. Bad \in SUBSET Nat
      OBVIOUS
    <3> HIDE DEF Bad
    <3> QED BY <1>1, <3>1, Smallest
  <2>2. m # 0
    <3>1. Cut1([k \in 0 .. 0 |-> s], 0)
      OBVIOUS
    <3> HIDE DEF Cut1
    <3> QED BY <3>1
  <2>3. m \in 1 .. n /\ m - 1 \in 0 .. n /\ m - 1 \notin Bad
    <3>1. m \in 0 .. n
      OBVIOUS
    <3> HIDE DEF Bad
    <3> QED BY <2>1, <2>2, <3>1
  <2>4. PICK f : Cut1(f, m - 1)
    BY <2>3
  <2> DEFINE g == [k \in 0 .. m |->
                     IF k = m THEN Disconnected(f[m - 1], order[m]) ELSE f[k]]
  <2>5. Cut1(g, m)
    <3>1. \A k \in 0 .. m - 1 : g[k] = f[k]
      BY <2>3
    <3>2. g[m] = Disconnected(f[m - 1], order[m])
      BY <2>3
    <3>3. ASSUME NEW k \in 0 .. m
          PROVE  g[k] = IF k = 0 THEN s ELSE Disconnected(g[k - 1], order[k])
      <4>1. CASE k = m
        <5>1. m - 1 \in 0 .. m - 1 /\ m # 0
          BY <2>3
        <5>2. g[m - 1] = f[m - 1]
          BY <3>1, <5>1
        <5> QED BY <3>2, <4>1, <5>1, <5>2
      <4>2. CASE k # m
        <5>1. k \in 0 .. m - 1 /\ (k # 0 => k - 1 \in 0 .. m - 1)
          BY <2>3, <4>2
        <5>2. f[k] = IF k = 0 THEN s ELSE Disconnected(f[k - 1], order[k])
          BY <2>4, <5>1
        <5> QED BY <3>1, <5>1, <5>2
      <4> QED BY <4>1, <4>2
    <3>4. g = [k \in 0 .. m |-> g[k]]
      OBVIOUS
    <3> HIDE DEF g
    <3> QED BY <3>3, <3>4
  <2> HIDE DEF Cut1
  <2> QED BY <2>5
<1>2. PICK f : Cut1(f, n)
  <2>1. n \in 0 .. n
    OBVIOUS
  <2> QED BY <1>1, <2>1
<1> QED BY <1>2 DEF Cuts

\* What the first k disconnects of a sequence leave of s.
CutOK(X, s, order, k) ==
  LET c == Cuts(s, order)[k] IN
  /\ c \in Seq(X) /\ Len(c) <= Len(s) /\ Range(c) \subseteq Range(s)
  /\ \A t : Single(s, t) => Single(c, t)
  /\ \A i \in Range(c) : Single(s, i[1]) => \A j \in 1 .. k : Url(i) # order[j]

LEMMA CutsKeep ==
  ASSUME NEW X, NEW s \in Seq(X), NEW order, Len(order) \in Nat
  PROVE  \A k \in 0 .. Len(order) : CutOK(X, s, order, k)
<1> DEFINE n == Len(order)
           Bad == {k \in 0 .. n : ~ CutOK(X, s, order, k)}
<1>1. SUFFICES ASSUME Bad # {} PROVE FALSE
  OBVIOUS
<1>2. PICK m \in Bad : \A j \in Bad : m <= j
  <2>1. Bad \in SUBSET Nat
    OBVIOUS
  <2> HIDE DEF Bad
  <2> QED BY <1>1, <2>1, Smallest
<1>3. m \in 0 .. n /\ ~ CutOK(X, s, order, m)
  OBVIOUS
<1>4. \A k \in 0 .. n : Cuts(s, order)[k]
        = IF k = 0 THEN s ELSE Disconnected(Cuts(s, order)[k - 1], order[k])
  <2> DEFINE f == Cuts(s, order)
  <2>1. f = [k \in 0 .. n |-> IF k = 0 THEN s ELSE Disconnected(f[k - 1], order[k])]
    BY CutsIs
  <2> HIDE DEF f
  <2>2. \A k \in 0 .. n : f[k] = IF k = 0 THEN s ELSE Disconnected(f[k - 1], order[k])
    BY <2>1
  <2> QED BY <2>2 DEF f
<1>5. CASE m = 0
  <2>1. Cuts(s, order)[m] = s
    BY <1>3, <1>4, <1>5
  <2> QED BY <1>3, <1>5, <2>1 DEF CutOK
<1>6. CASE m # 0
  <2>1. m - 1 \in 0 .. n /\ m - 1 \notin Bad
    <3> HIDE DEF Bad
    <3> QED BY <1>2, <1>3, <1>6
  <2>2. CutOK(X, s, order, m - 1)
    BY <2>1
  <2> DEFINE c == Cuts(s, order)[m - 1]
             d == Cuts(s, order)[m]
  <2>3. d = Disconnected(c, order[m])
    BY <1>3, <1>4, <1>6
  <2>4. /\ c \in Seq(X) /\ Len(c) <= Len(s) /\ Range(c) \subseteq Range(s)
        /\ \A t : Single(s, t) => Single(c, t)
        /\ \A i \in Range(c) : Single(s, i[1]) => \A j \in 1 .. m - 1 : Url(i) # order[j]
    BY <2>2 DEF CutOK
  <2> HIDE DEF c, d
  <2>5. /\ d \in Seq(X)
        /\ Len(d) <= Len(c)
        /\ Range(d) \subseteq Range(c)
        /\ \A t : Single(c, t) => Single(d, t)
        /\ Single(c, order[m][1])
             => \A i \in Of(c, order[m][1]) : i \in Of(d, order[m][1]) <=> Url(i) # order[m]
    BY <2>3, <2>4, DisconnectedIs
  <2>6. Len(d) <= Len(s)
    <3>1. Len(d) \in Nat /\ Len(c) \in Nat /\ Len(s) \in Nat
      BY <2>4, <2>5
    <3> QED BY <2>4, <2>5, <3>1
  <2>7. ASSUME NEW i \in Range(d), Single(s, i[1]), NEW j \in 1 .. m
        PROVE  Url(i) # order[j]
    <3>1. CASE j = m
      <4> SUFFICES ASSUME Url(i) = order[m] PROVE FALSE
        BY <3>1
      <4>1. i[1] = order[m][1]
        BY DEF Url
      <4>2. i \in Of(d, order[m][1]) /\ i \in Of(c, order[m][1])
        BY <2>5, <4>1 DEF Of
      <4> QED BY <2>4, <2>5, <2>7, <4>1, <4>2
    <3>2. CASE j # m
      <4>1. j \in 1 .. m - 1
        BY <1>3, <3>2
      <4> QED BY <2>4, <2>5, <2>7, <4>1
    <3> QED BY <3>1, <3>2
  <2>8. CutOK(X, s, order, m)
    BY <2>4, <2>5, <2>6, <2>7 DEF CutOK, d
  <2> QED BY <1>3, <2>8
<1> QED BY <1>5, <1>6

\* d has the objects of s for node t, and i.
Adds(d, s, i, t) ==
  /\ Of(d, t) = Of(s, t) \cup {i}
  /\ Single(s, t) /\ Of(s, t) \subseteq {i} => Single(d, t)

\* Outlet.connect adds one object, unless it is there.
LEMMA ConnectedIs ==
  ASSUME NEW X, NEW s \in Seq(X), NEW i \in X
  PROVE  /\ Connected(s, i) \in Seq(X)
         /\ Len(Connected(s, i)) <= Len(s) + 1
         /\ \A u : u # i[1] => /\ Of(Connected(s, i), u) = Of(s, u)
                               /\ Single(s, u) => Single(Connected(s, i), u)
         /\ Adds(Connected(s, i), s, i, i[1])
<1> DEFINE d == Connected(s, i)
<1>0. Len(s) \in Nat /\ DOMAIN s = 1 .. Len(s) /\ s \in [1 .. Len(s) -> X]
  OBVIOUS
<1>1. CASE i \in Range(s)
  <2>1. d = s
    BY <1>1 DEF Connected
  <2>2. Adds(s, s, i, i[1])
    BY <1>0, <1>1 DEF Adds, Of
  <2> QED BY <1>0, <2>1, <2>2
<1>2. CASE i \notin Range(s)
  <2>1. d = Append(s, i)
    BY <1>2 DEF Connected
  <2>2. /\ d \in Seq(X)
        /\ Len(d) = Len(s) + 1
        /\ DOMAIN d = 1 .. Len(s) + 1
        /\ \A k \in 1 .. Len(s) : d[k] = s[k]
        /\ d[Len(s) + 1] = i
    BY <1>0, <2>1
  <2> HIDE DEF d
  <2>3. DOMAIN d = DOMAIN s \cup {Len(s) + 1}
    BY <1>0, <2>2
  <2>4. Range(d) = Range(s) \cup {i}
    BY <1>0, <2>2, <2>3 DEF Range
  <2>5. ASSUME NEW u, u # i[1]
        PROVE  Of(d, u) = Of(s, u) /\ (Single(s, u) => Single(d, u))
    BY <1>0, <2>2, <2>3, <2>4, <2>5 DEF Of, Single
  <2>6. Of(d, i[1]) = Of(s, i[1]) \cup {i}
    BY <2>4 DEF Of
  <2>7. ASSUME Single(s, i[1]), Of(s, i[1]) \subseteq {i}
        PROVE  Single(d, i[1])
    <3>1. \A k \in DOMAIN s : s[k][1] # i[1]
      BY <1>2, <2>7 DEF Of, Range
    <3> QED BY <1>0, <2>2, <2>3, <3>1 DEF Single
  <2>8. Len(d) <= Len(s) + 1
    BY <1>0, <2>2
  <2>9. Adds(d, s, i, i[1])
    BY <2>6, <2>7 DEF Adds
  <2> QED BY <2>2, <2>5, <2>8, <2>9 DEF d
<1> QED BY <1>1, <1>2

-----------------------------------------------------------------------------
(* The invariant *)

All == UNION {Objects(t) : t \in Nodes}

Types ==
  /\ cleanup \in BOOLEAN
  /\ present \subseteq Nodes /\ callable \subseteq present /\ outlets \subseteq present
  /\ lost \subseteq Nodes \X Nodes
  /\ inlet \in [Nodes -> All \cup {None}]
  /\ pending \in [Nodes -> All \cup {None}]
  /\ pendingOf \in [Nodes -> All \cup {None}]
  /\ declared \in [Nodes -> SUBSET Slots]
  /\ links \in [Nodes -> SUBSET (Nodes \X Styles)]
  /\ sends \in [Nodes -> Seq(All)]
  /\ relative \subseteq All /\ \A i \in relative : i \in InUse(i[1])
  /\ \A n \in Nodes :
       /\ inlet[n] \in Maybe(n) /\ pending[n] \in Maybe(n) /\ pendingOf[n] \in Maybe(n)
       /\ Len(sends[n]) <= MaxEntries
       /\ inlet[n] \notin relative
       /\ "in" \in declared[n] => inlet[n] # None
       /\ "out" \in declared[n] => n \in outlets

LEMMA ObjectsAre ==
  ASSUME NEW t \in Nodes, NEW i \in Objects(t)
  PROVE  i \in All /\ i[1] = t /\ i # None
<1>1. i \in All /\ i[1] = t
  BY DEF All, Objects
<1>2. i # <<>>
  BY DEF Objects
<1> QED BY <1>1, <1>2 DEF None

\* There are more objects for a url than can be in use: the outlets hold at
\* most MaxEntries each.
LEMMA FreshIs ==
  ASSUME Types, NEW t \in Nodes
  PROVE  Fresh(t) \in Objects(t) /\ Fresh(t) \notin InUse(t)
<1> DEFINE U == UNION {Heard(a, t) : a \in Nodes}
           N == Cardinality(Nodes)
           P == N * MaxEntries
           Places == Nodes \X (1 .. MaxEntries)
           g == [i \in U |-> CHOOSE p \in Places : sends[p[1]][p[2]] = i]
<1>1. N \in Nat /\ MaxEntries \in Nat /\ P \in Nat
  <2>1. N \in Nat
    BY FS_CardinalityType
  <2> QED BY <2>1
<1>2. IsFiniteSet(Places) /\ Cardinality(Places) = P
  <2>1. IsFiniteSet(1 .. MaxEntries) /\ Cardinality(1 .. MaxEntries) = MaxEntries
    BY FS_Interval
  <2> QED BY <2>1, FS_Product
<1>3. \A i \in U : g[i] \in Places /\ sends[g[i][1]][g[i][2]] = i
  <2> TAKE i \in U
  <2>1. PICK a \in Nodes : i \in Range(sends[a])
    BY DEF Heard
  <2>2. sends[a] \in Seq(All) /\ Len(sends[a]) <= MaxEntries
    BY DEF Types
  <2>3. PICK k \in 1 .. Len(sends[a]) : sends[a][k] = i
    BY <2>1, <2>2 DEF Range
  <2>4. k \in 1 .. MaxEntries
    BY <2>2, <2>3
  <2>5. <<a, k>> \in Places /\ sends[<<a, k>>[1]][<<a, k>>[2]] = i
    BY <2>3, <2>4
  <2> HIDE DEF Places, U
  <2> QED BY <2>5
<1> HIDE DEF g, Places, P, N
<1>4. g \in Injection(U, Places)
  <2>1. g \in [U -> Places]
    BY <1>3 DEF g
  <2>2. \A i, j \in U : g[i] = g[j] => i = j
    BY <1>3
  <2> QED BY <2>1, <2>2 DEF Injection, IsInjective
<1> HIDE DEF U
<1>5. IsFiniteSet(U) /\ Cardinality(U) <= P /\ Cardinality(U) \in Nat
  BY <1>2, <1>4, FS_Injection, FS_CardinalityType
<1>6. IsFiniteSet(InUse(t)) /\ Cardinality(InUse(t)) <= P + 3
  <2> DEFINE A == U \cup {inlet[t]}
             B == A \cup {pending[t]}
             C == B \cup {pendingOf[t]}
  <2>1. IsFiniteSet(A) /\ Cardinality(A) <= P + 1 /\ Cardinality(A) \in Nat
    <3>1. /\ IsFiniteSet(U \cup {inlet[t]})
          /\ Cardinality(U \cup {inlet[t]}) =
               IF inlet[t] \in U THEN Cardinality(U) ELSE Cardinality(U) + 1
      BY <1>5, FS_AddElement
    <3> QED BY <1>1, <1>5, <3>1
  <2> HIDE DEF A
  <2>2. IsFiniteSet(B) /\ Cardinality(B) <= P + 2 /\ Cardinality(B) \in Nat
    <3>1. /\ IsFiniteSet(A \cup {pending[t]})
          /\ Cardinality(A \cup {pending[t]}) =
               IF pending[t] \in A THEN Cardinality(A) ELSE Cardinality(A) + 1
      BY <2>1, FS_AddElement
    <3> QED BY <1>1, <2>1, <3>1
  <2> HIDE DEF B
  <2>3. IsFiniteSet(C) /\ Cardinality(C) <= P + 3
    <3>1. /\ IsFiniteSet(B \cup {pendingOf[t]})
          /\ Cardinality(B \cup {pendingOf[t]}) =
               IF pendingOf[t] \in B THEN Cardinality(B) ELSE Cardinality(B) + 1
      BY <2>2, FS_AddElement
    <3> QED BY <1>1, <2>2, <3>1
  <2>4. InUse(t) = C
    BY DEF InUse, A, B, C, U
  <2> QED BY <2>3, <2>4
<1>7. Cardinality(Objects(t)) = P + 4
  <2>1. /\ IsFiniteSet(1 .. P + 4) /\ Cardinality(1 .. P + 4) = P + 4
        /\ IsFiniteSet({t}) /\ Cardinality({t}) = 1
    <3>1. 1 \in Int /\ P + 4 \in Int /\ ~ (1 > P + 4) /\ P + 4 - 1 + 1 = P + 4
      BY <1>1
    <3>2. /\ IsFiniteSet(1 .. P + 4)
          /\ Cardinality(1 .. P + 4) = IF 1 > P + 4 THEN 0 ELSE P + 4 - 1 + 1
      BY <3>1, FS_Interval
    <3> QED BY <3>1, <3>2, FS_Singleton
  <2>2. Cardinality({t} \X (1 .. P + 4)) = 1 * (P + 4)
    BY <2>1, FS_Product
  <2> QED BY <1>1, <2>2 DEF Objects, P, N
<1>8. ~ (Objects(t) \subseteq InUse(t))
  <2> SUFFICES ASSUME Objects(t) \in SUBSET InUse(t) PROVE FALSE
    OBVIOUS
  <2>1. Cardinality(Objects(t)) <= Cardinality(InUse(t))
    BY <1>6, FS_Subset
  <2>2. Cardinality(InUse(t)) \in Nat
    BY <1>6, FS_CardinalityType
  <2> QED BY <1>1, <1>6, <1>7, <2>1, <2>2
<1> QED BY <1>8 DEF Fresh

\* OneInlet, for reasoning about elements.
OnePart ==
  \A t \in Nodes :
    /\ \A i, j \in Current(t) : i = j
    /\ t \in present => pending[t] = None
    /\ t \notin present => inlet[t] = None /\ pendingOf[t] = None

\* LinksHold and RemovedIsSilent.
Pair(a, t) ==
  /\ a \in outlets /\ <<a, t>> \notin lost =>
       /\ Heard(a, t) \subseteq Current(t)
       /\ Listed(a, t) = {Url(i) : i \in Heard(a, t)}
       /\ Single(sends[a], t)
  /\ a \notin present /\ <<a, t>> \notin lost => Heard(a, t) = {}

LinkPart == \A a, t \in Nodes : Pair(a, t)

\* A node without outlet has no links and, while it exists, sends nowhere.
BarePart ==
  /\ \A a \in Nodes \ outlets : links[a] = {}
  /\ \A a \in present \ outlets : sends[a] = <<>>

IInv == Types /\ OnePart /\ LinkPart /\ BarePart

LEMMA HeardIs ==
  ASSUME NEW a, NEW t
  PROVE  Heard(a, t) = Of(sends[a], t) /\ Heard(a, t)' = Of(sends'[a], t)
BY DEF Heard, Of

\* The relative inlets are those of R that some outlet sends to, and others of R.
Trimmed(R) ==
  /\ relative' \subseteq R
  /\ \A i \in relative' : i \in InUse(i[1])'
  /\ \A a \in Nodes : \A i \in R \cap Range(sends'[a]) : i \in relative'

LEMMA RelativeIs ==
  ASSUME NEW STATE R, Relative(R)
  PROVE  Trimmed(R)
<1>1. relative' = {i \in R : i \in InUse(i[1])'}
  BY DEF Relative
<1>2. ASSUME NEW a \in Nodes, NEW i \in Range(sends'[a]) PROVE i \in InUse(i[1])'
  BY DEF InUse, Heard
<1> QED BY <1>1, <1>2 DEF Trimmed

\* The url that object i has after the step.
UrlAfter(i) == <<i[1], IF i \in relative' THEN "rel" ELSE "abs">>

\* The urls of inlets that outlets send to.
LEMMA UrlIs ==
  ASSUME NEW STATE R, Trimmed(R)
  PROVE  \A a \in Nodes : \A i \in Range(sends'[a]) :
           /\ UrlAfter(i) = <<i[1], IF i \in R THEN "rel" ELSE "abs">>
           /\ (i \in R <=> i \in relative) => Url(i)' = Url(i)
<1> SUFFICES ASSUME NEW a \in Nodes, NEW i \in Range(sends'[a])
             PROVE  /\ UrlAfter(i) = <<i[1], IF i \in R THEN "rel" ELSE "abs">>
                    /\ (i \in R <=> i \in relative) => Url(i)' = Url(i)
  OBVIOUS
<1>1. i \in relative' <=> i \in R
  BY DEF Trimmed
<1> QED BY <1>1 DEF Url, UrlAfter

\* A pair whose outlet is not touched, when the target keeps its inlet.
LEMMA Quiet ==
  ASSUME NEW a, NEW t, Pair(a, t), sends'[a] = sends[a], links'[a] = links[a],
         a \in outlets' => a \in outlets,
         a \notin present' => a \notin present,
         <<a, t>> \notin lost' => <<a, t>> \notin lost,
         a \in outlets /\ <<a, t>> \notin lost' =>
           \A i \in Heard(a, t) \cap Current(t) : i \in Current(t)' /\ Url(i)' = Url(i)
  PROVE  Pair(a, t)'
<1>1. Heard(a, t)' = Heard(a, t) /\ Listed(a, t)' = Listed(a, t)
  BY DEF Heard, Listed
<1>2. Single(sends[a], t)' <=> Single(sends[a], t)
  BY DEF Single
<1>3. ASSUME a \in outlets', <<a, t>> \notin lost'
      PROVE  /\ Heard(a, t)' \subseteq Current(t)'
             /\ Listed(a, t)' = {Url(i) : i \in Heard(a, t)}'
  <2>1. Heard(a, t) \subseteq Current(t) /\ Listed(a, t) = {Url(i) : i \in Heard(a, t)}
    BY <1>3 DEF Pair
  <2>2. \A i \in Heard(a, t) : i \in Current(t)' /\ Url(i)' = Url(i)
    BY <1>3, <2>1
  <2> QED BY <1>1, <2>1, <2>2
<1> QED BY <1>1, <1>2, <1>3 DEF Pair

\* A pair of an outlet that sends nowhere.
LEMMA Bare ==
  ASSUME NEW a, NEW t, sends'[a] = <<>>, links'[a] = {}
  PROVE  Pair(a, t)'
<1>1. Heard(a, t)' = {} /\ Listed(a, t)' = {}
  BY DEF Heard, Listed, Range
<1>2. Single(sends[a], t)'
  BY DEF Single
<1> QED BY <1>1, <1>2 DEF Pair

-----------------------------------------------------------------------------
\* lk.Node.new and the inlets the code declares: a name whose inlet is waited
\* for keeps it, and one that nobody links to gets a new one.
LEMMA SameInlet ==
  ASSUME IInv, NEW n \in Nodes, NEW STATE M, NewNode(n, M), NEW STATE x, NEW STATE y,
         inlet' = [inlet EXCEPT ![n] = x],
         pendingOf' = [pendingOf EXCEPT ![n] = y],
         \/ x = inlet[n] /\ y = Waiting(n)
         \/ /\ x = Declared(n)
            /\ y = IF pendingOf[n] = Declared(n) \/ n \notin present THEN None
                   ELSE pendingOf[n]
  PROVE  /\ x \in Maybe(n) /\ y \in Maybe(n)
         /\ inlet[n] # None => x # None
         /\ x = Declared(n) => x # None
         /\ \A t \in Nodes \ {n} : Current(t)' = Current(t)
         /\ Current(n)' = Current(n) \/ Current(n) = {}
         /\ \A i, j \in Current(n)' : i = j
<1>0. Types /\ OnePart
  BY DEF IInv
<1>1. /\ inlet[n] \in Maybe(n) /\ pending[n] \in Maybe(n) /\ pendingOf[n] \in Maybe(n)
      /\ \A i, j \in Current(n) : i = j
      /\ n \in present => pending[n] = None
      /\ n \notin present => inlet[n] = None /\ pendingOf[n] = None
      /\ Current(n) = {inlet[n], pendingOf[n], pending[n]} \ {None}
  BY <1>0 DEF Types, OnePart, Current
<1>2. Fresh(n) \in Maybe(n) /\ Fresh(n) # None
  BY <1>0, FreshIs, ObjectsAre DEF Maybe
<1>3. Waiting(n) = IF n \in present THEN pendingOf[n] ELSE pending[n]
  BY DEF Waiting
<1>4. Declared(n) = IF inlet[n] # None THEN inlet[n]
                    ELSE IF Waiting(n) # None THEN Waiting(n) ELSE Fresh(n)
  BY <1>1 DEF Declared
<1>5. inlet'[n] = x /\ pendingOf'[n] = y /\ pending'[n] = None
  BY <1>0 DEF NewNode, Types
<1>6. Current(n)' = {x, y} \ {None}
  BY <1>5 DEF Current
<1>7. \A t \in Nodes \ {n} : Current(t)' = Current(t)
  BY <1>0 DEF NewNode, Types, Current
<1> HIDE DEF Waiting, Declared
<1>8. /\ x \in Maybe(n) /\ y \in Maybe(n)
      /\ inlet[n] # None => x # None
      /\ x = Declared(n) => x # None
  BY <1>1, <1>2, <1>3, <1>4 DEF Maybe
<1>9. inlet[n] # None /\ pendingOf[n] # None => inlet[n] = pendingOf[n]
  BY <1>1
<1>10. Current(n) = {inlet[n], Waiting(n)} \ {None}
  BY <1>1, <1>3
<1>11. CASE x = inlet[n] /\ y = Waiting(n)
  BY <1>1, <1>6, <1>7, <1>8, <1>10, <1>11
<1>12. CASE /\ x = Declared(n)
            /\ y = IF pendingOf[n] = Declared(n) \/ n \notin present THEN None
                   ELSE pendingOf[n]
  <2>1. CASE inlet[n] # None
    <3>1. x = inlet[n] /\ (y = None \/ y = x) /\ n \in present
      BY <1>1, <1>4, <1>9, <1>12, <2>1
    <3>2. Current(n) = {x} /\ Current(n)' = {x}
      BY <1>1, <1>3, <1>6, <1>9, <1>10, <2>1, <3>1
    <3> QED BY <1>7, <1>8, <3>2
  <2>2. CASE inlet[n] = None /\ Waiting(n) # None
    <3>1. x = Waiting(n) /\ y = None
      BY <1>3, <1>4, <1>12, <2>2
    <3>2. Current(n) = {x} /\ Current(n)' = {x}
      BY <1>6, <1>10, <2>2, <3>1
    <3> QED BY <1>7, <1>8, <3>2
  <2>3. CASE inlet[n] = None /\ Waiting(n) = None
    <3>1. x = Fresh(n) /\ y = None
      BY <1>3, <1>4, <1>12, <2>3
    <3>2. Current(n) = {} /\ Current(n)' = {x}
      BY <1>2, <1>6, <1>10, <2>3, <3>1
    <3> QED BY <1>7, <1>8, <3>2
  <2> QED BY <2>1, <2>2, <2>3
<1> QED BY <1>11, <1>12

\* The steps that evaluate code.
LEMMA CodeIInv ==
  ASSUME IInv, NEW n \in Nodes, NEW STATE M, NewNode(n, M), NEW STATE x, NEW STATE y,
         inlet' = [inlet EXCEPT ![n] = x],
         pendingOf' = [pendingOf EXCEPT ![n] = y],
         \/ x = inlet[n] /\ y = Waiting(n) /\ M = {}
         \/ /\ x = Declared(n) /\ M = {Declared(n)}
            /\ y = IF pendingOf[n] = Declared(n) \/ n \notin present THEN None
                   ELSE pendingOf[n],
         Trimmed(relative \ M),
         cleanup' \in BOOLEAN,
         outlets' = outlets \/ outlets' = outlets \cup {n},
         callable' \subseteq callable \cup {n},
         links' = links,
         NEW STATE D, D \in SUBSET Slots, declared' = [declared EXCEPT ![n] = D],
         D = declared[n] \/ (/\ "in" \in D => x = Declared(n)
                             /\ "out" \in D => n \in outlets')
  PROVE  IInv'
<1>0. Types /\ OnePart /\ LinkPart /\ BarePart
  BY DEF IInv
<1>1. /\ x \in Maybe(n) /\ y \in Maybe(n)
      /\ inlet[n] # None => x # None
      /\ x = Declared(n) => x # None
      /\ \A t \in Nodes \ {n} : Current(t)' = Current(t)
      /\ Current(n)' = Current(n) \/ Current(n) = {}
      /\ \A i, j \in Current(n)' : i = j
  BY SameInlet
<1>2. /\ present' = present \cup {n}
      /\ pending' = [pending EXCEPT ![n] = None]
      /\ sends' = IF n \in present THEN sends ELSE [sends EXCEPT ![n] = <<>>]
      /\ lost' = (IF n \in present THEN lost ELSE lost \ ({n} \X Nodes))
           \cup {<<a, n>> : a \in {a \in Nodes : Range(sends'[a]) \cap M \cap relative # {}}}
  BY DEF NewNode
<1>M. \A i \in M : i[1] = n /\ i = x
  <2>1. x \in Maybe(n) /\ (x = Declared(n) => x # None)
    BY <1>1
  <2>2. \A i \in M : i = x /\ i # None
    BY <2>1
  <2> QED BY <2>1, <2>2, ObjectsAre DEF Maybe
<1> HIDE DEF Waiting, Declared
<1>3. Types'
  <2>1. /\ Maybe(n) \subseteq All \cup {None}
        /\ None \in Maybe(n)
    BY ObjectsAre DEF Maybe
  <2>2. /\ inlet' \in [Nodes -> All \cup {None}]
        /\ pending' \in [Nodes -> All \cup {None}]
        /\ pendingOf' \in [Nodes -> All \cup {None}]
        /\ declared' \in [Nodes -> SUBSET Slots]
        /\ links' \in [Nodes -> SUBSET (Nodes \X Styles)]
        /\ relative' \subseteq All /\ \A i \in relative' : i \in InUse(i[1])'
    BY <1>0, <1>1, <1>2, <2>1 DEF Types, Trimmed
  <2>3. /\ sends' \in [Nodes -> Seq(All)]
        /\ \A m \in Nodes : Len(sends'[m]) <= MaxEntries
    BY <1>0, <1>2 DEF Types
  <2>4. /\ present' \subseteq Nodes /\ callable' \subseteq present'
        /\ outlets' \subseteq present' /\ lost' \subseteq Nodes \X Nodes
    BY <1>0, <1>2 DEF Types
  <2>5. ASSUME NEW m \in Nodes
        PROVE  /\ inlet'[m] \in Maybe(m) /\ pending'[m] \in Maybe(m)
               /\ pendingOf'[m] \in Maybe(m)
               /\ inlet'[m] \notin relative'
               /\ "in" \in declared'[m] => inlet'[m] # None
               /\ "out" \in declared'[m] => m \in outlets'
    <3>1. relative' \subseteq relative \ M
      BY DEF Trimmed
    <3>2. inlet'[m] = IF m = n THEN x ELSE inlet[m]
      BY <1>0 DEF Types
    <3>3. x \notin relative \ M
      BY <1>0 DEF Types
    <3>4. inlet'[m] \notin relative'
      BY <1>0, <3>1, <3>2, <3>3 DEF Types
    <3> QED BY <1>0, <1>1, <1>2, <2>1, <3>4 DEF Types
  <2> QED BY <2>2, <2>3, <2>4, <2>5 DEF Types, Maybe, Objects
<1>4. OnePart'
  <2> SUFFICES ASSUME NEW t \in Nodes
               PROVE  /\ \A i, j \in Current(t)' : i = j
                      /\ t \in present' => pending'[t] = None
                      /\ t \notin present' => inlet'[t] = None /\ pendingOf'[t] = None
    BY DEF OnePart
  <2>1. CASE t = n
    BY <1>0, <1>1, <1>2, <2>1 DEF Types
  <2>2. CASE t # n
    BY <1>0, <1>1, <1>2, <2>2 DEF Types, OnePart
  <2> QED BY <2>1, <2>2
<1>5. BarePart'
  <2>1. ASSUME NEW a \in Nodes \ outlets' PROVE links'[a] = {}
    BY <1>0, <2>1 DEF BarePart
  <2>2. ASSUME NEW a \in present' \ outlets' PROVE sends'[a] = <<>>
    BY <1>0, <1>2, <2>2 DEF BarePart, Types
  <2> QED BY <2>1, <2>2 DEF BarePart
<1>6. LinkPart'
  <2> SUFFICES ASSUME NEW a \in Nodes, NEW t \in Nodes PROVE Pair(a, t)'
    BY DEF LinkPart
  <2>0. Pair(a, t)
    BY <1>0 DEF LinkPart
  <2>1. CASE a = n /\ n \notin outlets
    <3>1. sends'[a] = <<>> /\ links'[a] = {}
      BY <1>0, <1>2, <2>1 DEF BarePart, Types
    <3> QED BY <3>1, Bare
  <2>2. CASE a # n \/ n \in outlets
    <3>1. sends'[a] = sends[a] /\ links'[a] = links[a]
      BY <1>0, <1>2, <2>2 DEF Types
    <3>2. /\ a \in outlets' => a \in outlets
          /\ a \notin present' => a \notin present
          /\ <<a, t>> \notin lost' => <<a, t>> \notin lost
      BY <1>0, <1>2, <2>2 DEF Types
    <3>3. ASSUME <<a, t>> \notin lost', NEW i \in Heard(a, t), i \in Current(t)
          PROVE  i \in Current(t)' /\ Url(i)' = Url(i)
      <4>1. Current(t)' = Current(t)
        BY <1>1, <3>3
      <4>2. i \in Range(sends'[a]) /\ i[1] = t
        BY <3>1 DEF Heard
      <4>3. i \in M => i \notin relative
        BY <1>2, <1>M, <3>3, <4>2
      <4>4. Url(i)' = Url(i)
        BY <4>2, <4>3, UrlIs
      <4> QED BY <3>3, <4>1, <4>4
    <3> QED BY <2>0, <3>1, <3>2, <3>3, Quiet
  <2> QED BY <2>1, <2>2
<1> QED BY <1>3, <1>4, <1>5, <1>6 DEF IInv

LEMMA BadCodeIInv ==
  ASSUME IInv, NEW n \in Nodes, BadCode(n)
  PROVE  IInv'
<1>0. Types
  BY DEF IInv
<1>1. /\ inlet' = [inlet EXCEPT ![n] = inlet[n]]
      /\ declared' = [declared EXCEPT ![n] = declared[n]]
      /\ declared[n] \in SUBSET Slots
      /\ cleanup' \in BOOLEAN
  BY <1>0 DEF BadCode, Types
<1>2. /\ NewNode(n, {})
      /\ pendingOf' = [pendingOf EXCEPT ![n] = Waiting(n)]
      /\ outlets' = outlets /\ links' = links
      /\ callable' \subseteq callable \cup {n}
  BY DEF BadCode
<1>3. Trimmed(relative \ {})
  <2>1. relative \ {} = relative
    OBVIOUS
  <2> QED BY <2>1, RelativeIs DEF BadCode
<1> HIDE DEF Waiting
<1> QED BY <1>1, <1>2, <1>3, CodeIInv

LEMMA EvalIInv ==
  ASSUME IInv, NEW n \in Nodes, NEW slots \in SUBSET SlotsOf(n), NEW ok \in BOOLEAN,
         Eval(n, slots, ok)
  PROVE  IInv'
<1>0. Types
  BY DEF IInv
<1>1. slots \in SUBSET Slots
  BY DEF SlotsOf, Slots
<1> DEFINE M == IF "in" \in slots THEN {Declared(n)} ELSE {}
<1>T. Trimmed(relative \ M)
  <2>1. relative \ M = IF "in" \in slots THEN relative \ {Declared(n)} ELSE relative
    OBVIOUS
  <2>2. Relative(relative \ M)
    BY <2>1 DEF Eval
  <2> HIDE DEF M
  <2> QED BY <2>2, RelativeIs
<1>2. /\ NewNode(n, M)
      /\ cleanup' \in BOOLEAN
      /\ outlets' = outlets \/ outlets' = outlets \cup {n}
      /\ "out" \in slots => n \in outlets'
      /\ callable' \subseteq callable \cup {n}
      /\ links' = links
  BY DEF Eval
<1> DEFINE D == IF ok THEN slots ELSE declared[n]
<1>3. /\ D \in SUBSET Slots
      /\ declared' = [declared EXCEPT ![n] = D]
  BY <1>0, <1>1 DEF Eval, Types
<1>4. CASE "in" \in slots
  <2> DEFINE y == IF pendingOf[n] = Declared(n) \/ n \notin present THEN None
                  ELSE pendingOf[n]
  <2>1. /\ inlet' = [inlet EXCEPT ![n] = Declared(n)]
        /\ pendingOf' = [pendingOf EXCEPT ![n] = y]
    BY <1>0, <1>4 DEF Eval, Types
  <2>2. D = declared[n] \/ (/\ "in" \in D => Declared(n) = Declared(n)
                            /\ "out" \in D => n \in outlets')
    BY <1>2
  <2>3. M = {Declared(n)}
    BY <1>4
  <2> HIDE DEF D, M
  <2> QED BY <1>T, <1>2, <1>3, <2>1, <2>2, <2>3, CodeIInv
<1>5. CASE "in" \notin slots
  <2>1. /\ inlet' = [inlet EXCEPT ![n] = inlet[n]]
        /\ pendingOf' = [pendingOf EXCEPT ![n] = Waiting(n)]
    BY <1>0, <1>5 DEF Eval, Types
  <2>2. D = declared[n] \/ (/\ "in" \in D => inlet[n] = Declared(n)
                            /\ "out" \in D => n \in outlets')
    BY <1>2, <1>5
  <2>3. M = {}
    BY <1>5
  <2> HIDE DEF D, M
  <2> QED BY <1>T, <1>2, <1>3, <2>1, <2>2, <2>3, CodeIInv
<1> QED BY <1>4, <1>5

-----------------------------------------------------------------------------
\* What the three forms of setLink have in common: outlet a is connected to
\* the one object i that t now stands for, by the url that i has, and whoever is
\* linked to t and not lost sends to i already.
LEMMA ConnectPairs ==
  ASSUME IInv, NEW a \in Nodes, NEW t \in Nodes, NEW STATE i, i \in Objects(t),
         NEW STATE u, Connect(a, i, u), UrlAfter(i) = u,
         \A b \in Nodes : \A j \in Range(sends[b]) : Url(j)' = Url(j),
         UNCHANGED <<present, outlets>>,
         lost \subseteq lost',
         Current(t)' = {i},
         \A v \in Nodes \ {t} : Current(v)' = Current(v),
         \A b \in outlets : <<b, t>> \notin lost' => Heard(b, t) \subseteq {i}
  PROVE  LinkPart' /\ BarePart'
<1>0. Types /\ LinkPart /\ BarePart
  BY DEF IInv
<1>1. a \in present /\ a \in outlets /\ outlets \subseteq Nodes
  BY <1>0 DEF Connect, CanLink, Types
<1>2. i \in All /\ i[1] = t /\ u[1] = t
  <2>1. i \in All /\ i[1] = t
    BY ObjectsAre
  <2>2. UrlAfter(i)[1] = i[1]
    BY DEF UrlAfter
  <2> QED BY <2>1, <2>2
<1>3. /\ sends[a] \in Seq(All)
      /\ sends'[a] = Connected(sends[a], i)
      /\ links'[a] = IF i \in Range(sends[a]) THEN links[a] ELSE links[a] \cup {u}
  BY <1>0 DEF Types, Connect
<1>4. \A b \in Nodes \ {a} : sends'[b] = sends[b] /\ links'[b] = links[b]
  BY <1>0 DEF Types, Connect
<1>5. BarePart'
  <2>1. present' = present /\ outlets' = outlets /\ present \subseteq Nodes
    BY <1>0 DEF Types
  <2>2. \A b \in Nodes \ outlets : sends'[b] = sends[b] /\ links'[b] = links[b]
    BY <1>1, <1>4
  <2> QED BY <1>0, <2>1, <2>2 DEF BarePart
<1>6. ASSUME NEW b \in Nodes, NEW v \in Nodes
      PROVE  Pair(b, v)'
  <2>0. Pair(b, v)
    BY <1>0 DEF LinkPart
  <2>1. CASE b = a /\ v = t
    <3>0. /\ Of(sends'[a], t) = Of(sends[a], t) \cup {i}
          /\ Single(sends[a], t) /\ Of(sends[a], t) \subseteq {i} => Single(sends'[a], t)
      <4>1. Adds(Connected(sends[a], i), sends[a], i, i[1])
        BY <1>2, <1>3, ConnectedIs
      <4> QED BY <1>2, <1>3, <4>1 DEF Adds
    <3>1. Heard(a, t)' = Heard(a, t) \cup {i}
      BY <3>0, HeardIs
    <3>2. Single(sends[a], t) /\ Heard(a, t) \subseteq {i} => Single(sends[a], t)'
      <4>1. Single(sends[a], t)' <=> Single(sends'[a], t)
        BY DEF Single
      <4> QED BY <3>0, <4>1, HeardIs
    <3>3. ASSUME <<a, t>> \notin lost'
          PROVE  /\ Heard(a, t) \subseteq {i} /\ Single(sends[a], t)
                 /\ Listed(a, t)' = {u}
      <4>1. /\ Heard(a, t) \subseteq {i} /\ Single(sends[a], t)
            /\ Listed(a, t) = {Url(j) : j \in Heard(a, t)}
        BY <1>1, <2>0, <2>1, <3>3 DEF Pair
      <4>2. CASE i \in Range(sends[a])
        <5>1. Heard(a, t) = {i} /\ Url(i) = u
          <6>1. \A j \in Range(sends[a]) : Url(j) = UrlAfter(j)
            BY DEF Url, UrlAfter
          <6> QED BY <1>2, <4>1, <4>2, <6>1 DEF Heard
        <5>2. Listed(a, t)' = Listed(a, t)
          BY <1>3, <4>2 DEF Listed
        <5> QED BY <4>1, <5>1, <5>2
      <4>3. CASE i \notin Range(sends[a])
        <5>1. Heard(a, t) = {}
          BY <4>1, <4>3 DEF Heard
        <5>2. Listed(a, t)' = Listed(a, t) \cup {u}
          BY <1>2, <1>3, <4>3 DEF Listed
        <5> QED BY <4>1, <5>1, <5>2
      <4> QED BY <4>2, <4>3
    <3>4. a \in present'
      BY <1>1
    <3>5. ASSUME <<a, t>> \notin lost'
          PROVE  Heard(a, t)' = {i} /\ {Url(j) : j \in Heard(a, t)}' = {u}
      <4>1. Heard(a, t)' = {i}
        BY <3>1, <3>3, <3>5
      <4>2. \A j : j = i => Url(j)' = u
        BY DEF Url, UrlAfter
      <4> QED BY <4>1, <4>2
    <3> QED BY <2>1, <3>2, <3>3, <3>4, <3>5 DEF Pair
  <2>2. CASE b = a /\ v # t
    <3>1. Heard(a, v)' = Heard(a, v)
      BY <1>2, <1>3, <2>2, ConnectedIs, HeardIs
    <3>2. Single(sends[a], v) => Single(sends[a], v)'
      <4>1. Single(sends[a], v)' <=> Single(sends'[a], v)
        BY DEF Single
      <4>2. Single(sends[a], v) => Single(sends'[a], v)
        BY <1>2, <1>3, <2>2, ConnectedIs
      <4> QED BY <4>1, <4>2
    <3>3. Listed(a, v)' = Listed(a, v)
      BY <1>2, <1>3, <2>2 DEF Listed
    <3>4. Current(v)' = Current(v)
      BY <2>2
    <3>5. <<a, v>> \notin lost' => <<a, v>> \notin lost
      OBVIOUS
    <3>6. {Url(j) : j \in Heard(a, v)}' = {Url(j) : j \in Heard(a, v)}
      <4>1. \A j \in Heard(a, v) : Url(j)' = Url(j)
        BY DEF Heard
      <4> QED BY <3>1, <4>1
    <3> QED BY <2>0, <2>2, <3>1, <3>2, <3>3, <3>4, <3>5, <3>6 DEF Pair
  <2>3. CASE b # a
    <3>1. sends'[b] = sends[b] /\ links'[b] = links[b]
      BY <1>4, <2>3
    <3>2. ASSUME b \in outlets, <<b, v>> \notin lost', NEW j \in Heard(b, v), j \in Current(v)
          PROVE  j \in Current(v)' /\ Url(j)' = Url(j)
      <4>1. CASE v # t
        BY <3>2, <4>1 DEF Heard
      <4>2. CASE v = t
        BY <3>2, <4>2 DEF Heard
      <4> QED BY <4>1, <4>2
    <3>3. <<b, v>> \notin lost' => <<b, v>> \notin lost
      OBVIOUS
    <3> QED BY <2>0, <3>1, <3>2, <3>3, Quiet
  <2> QED BY <2>1, <2>2, <2>3
<1> QED BY <1>5, <1>6 DEF LinkPart

\* The types of what they change.
LEMMA ConnectTypes ==
  ASSUME IInv, NEW a \in Nodes, NEW t \in Nodes, NEW STATE i, i \in Objects(t),
         NEW STATE u, u \in Nodes \X Styles, Connect(a, i, u)
  PROVE  /\ sends' \in [Nodes -> Seq(All)]
         /\ \A n \in Nodes : Len(sends'[n]) <= MaxEntries
         /\ links' \in [Nodes -> SUBSET (Nodes \X Styles)]
<1>0. Types
  BY DEF IInv
<1>1. sends[a] \in Seq(All) /\ i \in All
  BY <1>0, ObjectsAre DEF Types
<1>2. Connected(sends[a], i) \in Seq(All) /\ Len(Connected(sends[a], i)) <= Len(sends[a]) + 1
  BY <1>1, ConnectedIs
<1>3. Len(Connected(sends[a], i)) <= MaxEntries
  <2>1. /\ Len(sends[a]) \in Nat /\ Len(Connected(sends[a], i)) \in Nat
        /\ MaxEntries \in Nat /\ Room[a] \in 0 .. MaxEntries
    BY <1>1, <1>2, RoomAssumption
  <2>2. Len(sends[a]) < Room[a]
    BY DEF Connect
  <2> QED BY <1>2, <2>1, <2>2
<1> QED BY <1>0, <1>2, <1>3 DEF Types, Connect

\* The url of an inlet names its node, and one of both styles.
LEMMA UrlTyped ==
  ASSUME NEW t \in Nodes, NEW i \in Objects(t)
  PROVE  Url(i) \in Nodes \X Styles
BY ObjectsAre DEF Url, Styles

\* The inlets that outlets send to keep their urls when at most a new one gets a
\* relative one.
LEMMA UrlsKept ==
  ASSUME NEW a \in Nodes, NEW STATE i, NEW STATE R, Trimmed(R), NEW STATE u,
         sends \in [Nodes -> Seq(All)], i \in All, Connect(a, i, u),
         \/ R = relative
         \/ /\ R = relative \cup {i}
            /\ \A b \in Nodes : i \notin Range(sends[b])
  PROVE  /\ \A b \in Nodes : \A j \in Range(sends[b]) : Url(j)' = Url(j)
         /\ UrlAfter(i) = <<i[1], IF i \in R THEN "rel" ELSE "abs">>
<1>1. sends' = [sends EXCEPT ![a] = Connected(@, i)]
  BY DEF Connect
<1>2. ASSUME NEW b \in Nodes, NEW j \in Range(sends[b])
      PROVE  j \in Range(sends'[b]) /\ (j \in R <=> j \in relative)
  <2>1. sends[a] \in Seq(All)
    OBVIOUS
  <2>2. Range(sends[a]) \subseteq Range(Connected(sends[a], i))
    <3>1. Len(sends[a]) \in Nat /\ DOMAIN sends[a] = 1 .. Len(sends[a])
      BY <2>1
    <3>2. /\ DOMAIN Append(sends[a], i) = 1 .. Len(sends[a]) + 1
          /\ \A k \in 1 .. Len(sends[a]) : Append(sends[a], i)[k] = sends[a][k]
      BY <2>1, <3>1
    <3> QED BY <3>1, <3>2 DEF Connected, Range
  <2>3. j \in Range(sends'[b])
    BY <1>1, <2>2
  <2> QED BY <1>2, <2>3
<1>3. i \in Range(sends'[a])
  <2>1. sends[a] \in Seq(All) /\ sends'[a] = Connected(sends[a], i)
    BY <1>1
  <2>2. Of(sends'[a], i[1]) = Of(sends[a], i[1]) \cup {i}
    <3>1. Adds(Connected(sends[a], i), sends[a], i, i[1])
      BY <2>1, ConnectedIs
    <3> QED BY <2>1, <3>1 DEF Adds
  <2> QED BY <2>2 DEF Of
<1>4. \A b \in Nodes : \A j \in Range(sends[b]) : Url(j)' = Url(j)
  BY <1>2, UrlIs
<1>5. UrlAfter(i) = <<i[1], IF i \in R THEN "rel" ELSE "abs">>
  BY <1>3, UrlIs
<1> QED BY <1>4, <1>5

LEMMA LinkIInv ==
  ASSUME IInv, NEW a \in Nodes, NEW t \in Nodes, Link(a, t)
  PROVE  IInv'
<1>0. Types /\ OnePart /\ LinkPart
  BY DEF IInv
<1>1. /\ Connect(a, inlet[t], Url(inlet[t]))
      /\ inlet[t] # None
      /\ UNCHANGED <<cleanup, nodeVars, outlets, lost>>
      /\ Trimmed(relative)
  BY RelativeIs DEF Link
<1>2. inlet[t] \in Objects(t)
  BY <1>0, <1>1 DEF Types, Maybe
<1>3. \A u \in Nodes : Current(u)' = Current(u)
  BY <1>1 DEF Current, nodeVars
<1>4. Current(t) = {inlet[t]}
  <2>1. inlet[t] \in Current(t)
    BY <1>1 DEF Current
  <2>2. \A i, j \in Current(t) : i = j
    BY <1>0 DEF OnePart
  <2> QED BY <2>1, <2>2
<1>5. \A b \in outlets : <<b, t>> \notin lost' => Heard(b, t) \subseteq {inlet[t]}
  BY <1>0, <1>1, <1>4 DEF LinkPart, Pair, Types
<1>6. /\ \A b \in Nodes : \A j \in Range(sends[b]) : Url(j)' = Url(j)
      /\ UrlAfter(inlet[t]) = <<inlet[t][1], IF inlet[t] \in relative THEN "rel" ELSE "abs">>
  <2> DEFINE i == inlet[t]
  <2>1. i \in All /\ sends \in [Nodes -> Seq(All)]
    BY <1>0, <1>2, ObjectsAre DEF Types
  <2> HIDE DEF i
  <2>2. /\ \A b \in Nodes : \A j \in Range(sends[b]) : Url(j)' = Url(j)
        /\ UrlAfter(i) = <<i[1], IF i \in relative THEN "rel" ELSE "abs">>
    <3>1. Connect(a, i, Url(inlet[t]))
      BY <1>1 DEF i
    <3> QED BY <1>1, <2>1, <3>1, UrlsKept
  <2> QED BY <2>2 DEF i
<1>7. LinkPart' /\ BarePart'
  <2> DEFINE i == inlet[t]
             u == Url(inlet[t])
  <2>1. i \in Objects(t) /\ Connect(a, i, u) /\ UrlAfter(i) = u
    BY <1>1, <1>2, <1>6 DEF Url
  <2>2. Current(t)' = {i} /\ UNCHANGED <<present, outlets>> /\ lost \subseteq lost'
    BY <1>1, <1>3, <1>4 DEF nodeVars
  <2>3. \A b \in outlets : <<b, t>> \notin lost' => Heard(b, t) \subseteq {i}
    BY <1>5
  <2> HIDE DEF i, u
  <2> QED BY <1>3, <1>6, <2>1, <2>2, <2>3, ConnectPairs
<1>8. Types'
  <2>1. Url(inlet[t]) \in Nodes \X Styles
    BY <1>2, UrlTyped
  <2>2. /\ sends' \in [Nodes -> Seq(All)]
        /\ \A n \in Nodes : Len(sends'[n]) <= MaxEntries
        /\ links' \in [Nodes -> SUBSET (Nodes \X Styles)]
    BY <1>1, <1>2, <2>1, ConnectTypes
  <2> QED BY <1>0, <1>1, <2>2 DEF Types, nodeVars, Maybe, Objects, Trimmed
<1>9. OnePart'
  BY <1>0, <1>1, <1>3 DEF OnePart, nodeVars
<1> QED BY <1>7, <1>8, <1>9 DEF IInv

\* Append is connect, for an object that nothing refers to.
LEMMA LinkPendingIInv ==
  ASSUME IInv, NEW a \in Nodes, NEW t \in Nodes, NEW s \in Styles,
         LinkPending(a, t, s)
  PROVE  IInv'
<1>0. Types /\ OnePart /\ LinkPart
  BY DEF IInv
<1> DEFINE i == Fresh(t)
<1>1. i \in Objects(t) /\ i \notin InUse(t)
  BY <1>0, FreshIs
<1>2. i # None
  BY <1>1, ObjectsAre
<1> HIDE DEF i
<1> DEFINE R == IF s = "rel" THEN relative \cup {i} ELSE relative
<1>3. /\ t \in present
      /\ inlet[t] = None
      /\ pendingOf' = [pendingOf EXCEPT ![t] = i]
      /\ Connect(a, i, <<t, s>>)
      /\ lost' = lost \cup {<<b, t>> : b \in {b \in Nodes : Heard(b, t) # {}}}
      /\ UNCHANGED <<cleanup, present, pending, inlet, declared, callable, outlets>>
      /\ Trimmed(R)
  BY RelativeIs DEF LinkPending, i
<1>4. i[1] = t /\ i \in All /\ i \notin relative
  <2>1. i[1] = t /\ i \in All
    BY <1>1, ObjectsAre
  <2> QED BY <1>0, <1>1, <2>1 DEF Types
<1>5. \A b \in Nodes : i \notin Range(sends[b])
  <2>1. \A b \in Nodes : i \notin Heard(b, t)
    BY <1>1 DEF InUse
  <2> QED BY <1>4, <2>1 DEF Heard
<1>U. /\ \A b \in Nodes : \A j \in Range(sends[b]) : Url(j)' = Url(j)
      /\ UrlAfter(i) = <<t, s>>
  <2>1. sends \in [Nodes -> Seq(All)] /\ (R = relative \/ R = relative \cup {i})
    BY <1>0 DEF Types
  <2>2. IF i \in R THEN s = "rel" ELSE s = "abs"
    BY <1>4 DEF Styles
  <2> HIDE DEF R
  <2>3. /\ \A b \in Nodes : \A j \in Range(sends[b]) : Url(j)' = Url(j)
        /\ UrlAfter(i) = <<i[1], IF i \in R THEN "rel" ELSE "abs">>
    BY <1>3, <1>4, <1>5, <2>1, UrlsKept
  <2> QED BY <1>4, <2>2, <2>3
<1>R. relative' \subseteq relative \cup {i}
  BY <1>3 DEF Trimmed
<1> DEFINE u == <<t, s>>
<1>V. u \in Nodes \X Styles /\ Connect(a, i, u) /\ UrlAfter(i) = u
  BY <1>3, <1>U
<1> HIDE DEF R, u
<1>6. Current(t)' = {i}
  BY <1>0, <1>2, <1>3 DEF Current, OnePart, Types
<1>7. \A v \in Nodes \ {t} : Current(v)' = Current(v)
  BY <1>0, <1>3 DEF Current, Types
<1>8. \A b \in outlets : <<b, t>> \notin lost' => Heard(b, t) \subseteq {i}
  BY <1>0, <1>3 DEF Types
<1>9. LinkPart' /\ BarePart'
  BY <1>1, <1>3, <1>U, <1>V, <1>6, <1>7, <1>8, ConnectPairs
<1>10. Types'
  <2>1. /\ sends' \in [Nodes -> Seq(All)]
        /\ \A n \in Nodes : Len(sends'[n]) <= MaxEntries
        /\ links' \in [Nodes -> SUBSET (Nodes \X Styles)]
    BY <1>1, <1>V, ConnectTypes
  <2>2. i \in All /\ i \in Maybe(t)
    BY <1>1, ObjectsAre DEF Maybe
  <2>3. lost' \subseteq Nodes \X Nodes
    BY <1>0, <1>3 DEF Types
  <2>4. /\ pendingOf' \in [Nodes -> All \cup {None}]
        /\ \A n \in Nodes : pendingOf'[n] \in Maybe(n)
    BY <1>0, <1>3, <2>2 DEF Types
  <2>5. relative' \subseteq All /\ \A j \in relative' : j \in InUse(j[1])'
    BY <1>0, <1>3, <1>4, <1>R DEF Types, Trimmed
  <2>6. \A n \in Nodes : inlet'[n] \notin relative'
    <3>1. \A n \in Nodes : inlet[n] # i
      BY <1>0, <1>1, <1>2, <1>3, <1>4, ObjectsAre DEF Types, Maybe
    <3> QED BY <1>0, <1>3, <1>R, <3>1 DEF Types
  <2> QED BY <1>0, <1>3, <2>1, <2>3, <2>4, <2>5, <2>6 DEF Types, Maybe, Objects
<1>11. OnePart'
  BY <1>0, <1>3, <1>6, <1>7 DEF OnePart, Types
<1> QED BY <1>9, <1>10, <1>11 DEF IInv

LEMMA LinkAbsentIInv ==
  ASSUME IInv, NEW a \in Nodes, NEW t \in Nodes, NEW s \in Styles,
         LinkAbsent(a, t, s)
  PROVE  IInv'
<1>0. Types /\ OnePart /\ LinkPart
  BY DEF IInv
<1> DEFINE new == pending[t] = None
           i == IF new THEN Fresh(t) ELSE pending[t]
           u == IF new THEN <<t, s>> ELSE Url(i)
           R == IF new /\ s = "rel" THEN relative \cup {i} ELSE relative
<1>1. /\ i \in Objects(t) /\ (~ new => i = pending[t])
      /\ new => i \notin InUse(t)
  BY <1>0, FreshIs DEF Types, Maybe
<1>2. i # None /\ i[1] = t /\ i \in All
  BY <1>1, ObjectsAre
<1>3. /\ t \notin present
      /\ pending' = [pending EXCEPT ![t] = i]
      /\ Connect(a, i, u)
      /\ UNCHANGED <<cleanup, present, inlet, pendingOf, declared, callable, outlets, lost>>
      /\ Trimmed(R)
  BY RelativeIs DEF LinkAbsent
<1>n. new <=> pending[t] = None
  OBVIOUS
<1>r. R = IF new /\ s = "rel" THEN relative \cup {i} ELSE relative
  OBVIOUS
<1>u. u = IF new THEN <<t, s>> ELSE Url(i)
  OBVIOUS
<1> HIDE DEF new, i, R, u
<1>4. Current(t) = {pending[t]} \ {None} /\ Current(t)' = {i}
  BY <1>0, <1>2, <1>3 DEF Current, OnePart, Types
<1>5. \A v \in Nodes \ {t} : Current(v)' = Current(v)
  BY <1>0, <1>3 DEF Current, Types
<1>6. \A b \in outlets : <<b, t>> \notin lost' => Heard(b, t) \subseteq {i}
  BY <1>0, <1>1, <1>n, <1>3, <1>4 DEF LinkPart, Pair, Types
<1>7. new => i \notin relative /\ \A b \in Nodes : i \notin Range(sends[b])
  BY <1>0, <1>1, <1>2 DEF Types, InUse, Heard
<1>8. /\ \A b \in Nodes : \A j \in Range(sends[b]) : Url(j)' = Url(j)
      /\ UrlAfter(i) = u
  <2>1. sends \in [Nodes -> Seq(All)]
    BY <1>0 DEF Types
  <2>2. /\ \A b \in Nodes : \A j \in Range(sends[b]) : Url(j)' = Url(j)
        /\ UrlAfter(i) = <<i[1], IF i \in R THEN "rel" ELSE "abs">>
    BY <1>2, <1>3, <1>7, <1>r, <2>1, UrlsKept
  <2>3. u = <<i[1], IF i \in R THEN "rel" ELSE "abs">>
    <3>1. CASE new
      BY <1>2, <1>7, <1>r, <1>u, <3>1 DEF Styles
    <3>2. CASE ~ new
      BY <1>r, <1>u, <3>2 DEF Url
    <3> QED BY <3>1, <3>2
  <2> QED BY <2>2, <2>3
<1>9. LinkPart' /\ BarePart'
  BY <1>1, <1>3, <1>4, <1>5, <1>6, <1>8, ConnectPairs
<1>10. Types'
  <2>1. u \in Nodes \X Styles
    BY <1>1, <1>u, UrlTyped
  <2>2. /\ sends' \in [Nodes -> Seq(All)]
        /\ \A n \in Nodes : Len(sends'[n]) <= MaxEntries
        /\ links' \in [Nodes -> SUBSET (Nodes \X Styles)]
    BY <1>1, <1>3, <2>1, ConnectTypes
  <2>3. /\ pending' \in [Nodes -> All \cup {None}]
        /\ \A n \in Nodes : pending'[n] \in Maybe(n)
    BY <1>0, <1>1, <1>2, <1>3 DEF Types, Maybe
  <2>4. relative' \subseteq relative \cup (IF new THEN {i} ELSE {})
    BY <1>3, <1>r DEF Trimmed
  <2>5. relative' \subseteq All /\ \A j \in relative' : j \in InUse(j[1])'
    BY <1>0, <1>2, <1>3, <2>4 DEF Types, Trimmed
  <2>6. \A n \in Nodes : inlet'[n] \notin relative'
    <3>1. new => \A n \in Nodes : inlet[n] # i
      BY <1>0, <1>1, <1>2, ObjectsAre DEF Types, Maybe, InUse
    <3> QED BY <1>0, <1>3, <2>4, <3>1 DEF Types
  <2> QED BY <1>0, <1>3, <2>2, <2>3, <2>5, <2>6 DEF Types, Maybe, Objects
<1>11. OnePart'
  BY <1>0, <1>3, <1>4, <1>5 DEF OnePart, Types
<1> QED BY <1>9, <1>10, <1>11 DEF IInv

-----------------------------------------------------------------------------
\* removeLink: one outlet loses entries of one url.
LEMMA UnlinkIInv ==
  ASSUME IInv, NEW a \in Nodes, NEW t \in Nodes, NEW w \in Styles,
         Unlink(a, <<t, w>>)
  PROVE  IInv'
<1>0. Types /\ OnePart /\ LinkPart /\ BarePart
  BY DEF IInv
<1> DEFINE u == <<t, w>>
           d == Disconnected(sends[a], u)
<1>1. /\ a \in present /\ a \in outlets
      /\ sends' = [sends EXCEPT ![a] = d]
      /\ links' = [links EXCEPT ![a] = IF \E i \in Range(sends[a]) : Url(i) = u THEN @ \ {u}
                                       ELSE @]
      /\ lost' = IF Heard(a, t)' = {} /\ Listed(a, t)' = {} THEN lost \ {<<a, t>>} ELSE lost
      /\ UNCHANGED <<cleanup, nodeVars, outlets>>
      /\ Trimmed(relative)
  BY RelativeIs DEF Unlink, CanLink
<1>t. u[1] = t
  OBVIOUS
<1> HIDE DEF u
<1>2. sends[a] \in Seq(All) /\ Len(sends[a]) <= MaxEntries
  BY <1>0 DEF Types
<1>3. /\ d \in Seq(All)
      /\ Len(d) <= Len(sends[a])
      /\ Range(d) \subseteq Range(sends[a])
      /\ \A v : v # t => Of(d, v) = Of(sends[a], v)
      /\ \A v : Single(sends[a], v) => Single(d, v)
      /\ Single(sends[a], t) => \A i \in Of(sends[a], t) : i \in Of(d, t) <=> Url(i) # u
  <2>1. /\ d \in Seq(All)
        /\ Len(d) <= Len(sends[a])
        /\ Range(d) \subseteq Range(sends[a])
        /\ \A v : v # u[1] => Of(d, v) = Of(sends[a], v)
        /\ \A v : Single(sends[a], v) => Single(d, v)
        /\ Single(sends[a], u[1]) => \A i \in Of(sends[a], u[1]) : i \in Of(d, u[1]) <=> Url(i) # u
    BY <1>2, DisconnectedIs
  <2> QED BY <1>t, <2>1
<1> HIDE DEF d
<1>4. sends'[a] = d /\ \A b \in Nodes \ {a} : sends'[b] = sends[b] /\ links'[b] = links[b]
  BY <1>0, <1>1 DEF Types
<1>5. links'[a] = IF \E i \in Range(sends[a]) : Url(i) = u THEN links[a] \ {u} ELSE links[a]
  BY <1>0, <1>1 DEF Types
<1>U. \A b \in Nodes : \A j \in Range(sends'[b]) : Url(j)' = Url(j)
  BY <1>1, UrlIs
<1>6. \A v \in Nodes : Current(v)' = Current(v)
  BY <1>1 DEF Current, nodeVars
<1>7. Len(d) <= MaxEntries
  <2>1. Len(d) \in Nat /\ Len(sends[a]) \in Nat /\ MaxEntries \in Nat
    BY <1>2, <1>3
  <2> QED BY <1>2, <1>3, <2>1
<1>8. Types'
  <2>1. sends' \in [Nodes -> Seq(All)] /\ \A n \in Nodes : Len(sends'[n]) <= MaxEntries
    BY <1>0, <1>1, <1>3, <1>7 DEF Types
  <2>2. links' \in [Nodes -> SUBSET (Nodes \X Styles)] /\ lost' \subseteq Nodes \X Nodes
    BY <1>0, <1>1 DEF Types
  <2>3. /\ relative' \subseteq All /\ \A j \in relative' : j \in InUse(j[1])'
        /\ \A n \in Nodes : inlet'[n] \notin relative'
    BY <1>0, <1>1 DEF Types, Trimmed, nodeVars
  <2> QED BY <1>0, <1>1, <2>1, <2>2, <2>3 DEF Types, nodeVars, Maybe, Objects
<1>9. OnePart'
  BY <1>0, <1>1, <1>6 DEF OnePart, nodeVars
<1>10. BarePart'
  BY <1>0, <1>1, <1>4 DEF BarePart, nodeVars
<1>11. ASSUME NEW b \in Nodes, NEW v \in Nodes
       PROVE  Pair(b, v)'
  <2>0. Pair(b, v)
    BY <1>0 DEF LinkPart
  <2>1. CASE b = a /\ v = t
    <3>1. Heard(a, t)' = Of(d, t) /\ Heard(a, t) = Of(sends[a], t)
      BY <1>4, HeardIs
    <3>2. CASE <<a, t>> \in lost
      <4>1. <<a, t>> \notin lost' => Heard(a, t)' = {} /\ Listed(a, t)' = {}
        BY <1>1, <3>2
      <4>2. Heard(a, t)' = {} => Single(sends[a], t)'
        BY DEF Heard, Single, Range
      <4> QED BY <2>1, <4>1, <4>2 DEF Pair
    <3>3. CASE <<a, t>> \notin lost
      <4>1. /\ Heard(a, t) \subseteq Current(t)
            /\ Listed(a, t) = {Url(i) : i \in Heard(a, t)}
            /\ Single(sends[a], t)
        BY <1>1, <2>0, <2>1, <3>3 DEF Pair
      <4>2. Heard(a, t)' = {i \in Heard(a, t) : Url(i) # u}
        <5>1. Of(d, t) \subseteq Of(sends[a], t)
          BY <1>3 DEF Of
        <5> QED BY <1>3, <3>1, <4>1, <5>1
      <4>3. Listed(a, t)' = Listed(a, t) \ {u}
        <5>1. ASSUME \A i \in Range(sends[a]) : Url(i) # u PROVE u \notin Listed(a, t)
          BY <4>1, <5>1 DEF Heard
        <5> QED BY <1>5, <5>1 DEF Listed
      <4>4. {Url(i) : i \in Heard(a, t)}' = {Url(i) : i \in {j \in Heard(a, t) : Url(j) # u}}
        <5>1. \A i \in Heard(a, t)' : Url(i)' = Url(i)
          BY <1>U DEF Heard
        <5> QED BY <4>2, <5>1
      <4>5. Listed(a, t)' = {Url(i) : i \in Heard(a, t)}'
        BY <4>1, <4>3, <4>4
      <4>6. Heard(a, t)' \subseteq Current(t)'
        BY <1>6, <4>1, <4>2
      <4>7. Single(sends[a], t)'
        <5>1. Single(d, t)
          BY <1>3, <4>1
        <5> QED BY <1>4, <5>1 DEF Single
      <4>8. a \in present'
        BY <1>1 DEF nodeVars
      <4> QED BY <2>1, <4>5, <4>6, <4>7, <4>8 DEF Pair
    <3> QED BY <3>2, <3>3
  <2>2. CASE b = a /\ v # t
    <3>1. Heard(a, v)' = Heard(a, v)
      BY <1>3, <1>4, <2>2, HeardIs
    <3>2. Single(sends[a], v) => Single(sends[a], v)'
      <4>1. Single(sends[a], v) => Single(d, v)
        BY <1>3
      <4> QED BY <1>4, <4>1 DEF Single
    <3>3. Listed(a, v)' = Listed(a, v)
      BY <1>5, <1>t, <2>2 DEF Listed
    <3>4. <<a, v>> \notin lost' => <<a, v>> \notin lost
      BY <1>1, <2>2
    <3>5. {Url(j) : j \in Heard(a, v)}' = {Url(j) : j \in Heard(a, v)}
      <4>1. \A j \in Heard(a, v)' : Url(j)' = Url(j)
        BY <1>U DEF Heard
      <4> QED BY <3>1, <4>1
    <3>6. Current(v)' = Current(v) /\ present' = present /\ outlets' = outlets
      BY <1>1, <1>6 DEF nodeVars
    <3> QED BY <2>0, <2>2, <3>1, <3>2, <3>3, <3>4, <3>5, <3>6 DEF Pair
  <2>3. CASE b # a
    <3>1. <<b, v>> \notin lost' => <<b, v>> \notin lost
      BY <1>1, <2>3
    <3>2. sends'[b] = sends[b] /\ links'[b] = links[b]
      BY <1>4, <2>3
    <3>3. outlets' = outlets /\ present' = present /\ Current(v)' = Current(v)
      BY <1>1, <1>6 DEF nodeVars
    <3>4. \A i \in Heard(b, v) : Url(i)' = Url(i)
      BY <1>U, <3>2 DEF Heard
    <3> QED BY <2>0, <3>1, <3>2, <3>3, <3>4, Quiet
  <2> QED BY <2>1, <2>2, <2>3
<1> QED BY <1>8, <1>9, <1>10, <1>11 DEF IInv, LinkPart

\* disconnectAll: what it leaves of the outlet of n.
LEMMA CutIs ==
  ASSUME IInv, NEW n \in Nodes, NEW order \in SetToSeqs(links[n])
  PROVE  /\ Cut(n, order) \in Seq(All)
         /\ Len(Cut(n, order)) <= Len(sends[n])
         /\ Range(Cut(n, order)) \subseteq Range(sends[n])
         /\ "out" \in declared[n]
              => \A i \in Range(Cut(n, order)) : Single(sends[n], i[1]) => Url(i) \notin links[n]
<1>0. Types
  BY DEF IInv
<1>1. sends[n] \in Seq(All) /\ links[n] \in SUBSET (Nodes \X Styles)
  BY <1>0 DEF Types
<1> DEFINE S == links[n]
           c == Cardinality(S)
<1>2. IsFiniteSet(S) /\ c \in Nat
  <2>1. IsFiniteSet(Styles)
    <3>1. IsFiniteSet({"abs"}) /\ IsFiniteSet({"rel"}) /\ Styles = {"abs"} \cup {"rel"}
      BY FS_Singleton DEF Styles
    <3> QED BY <3>1, FS_Union
  <2>2. IsFiniteSet(Nodes \X Styles)
    BY <2>1, FS_Product
  <2> QED BY <1>1, <2>2, FS_Subset, FS_CardinalityType
<1>3. order \in [1 .. c -> S] /\ \A i, j \in 1 .. c : i # j => order[i] # order[j]
  BY DEF SetToSeqs
<1> HIDE DEF c
<1>4. order \in Seq(S) /\ Len(order) = c
  BY <1>2, <1>3
<1>5. \A u \in S : \E i \in 1 .. c : order[i] = u
  <2>1. order \in Injection(1 .. c, S)
    BY <1>3 DEF Injection, IsInjective
  <2>2. IsFiniteSet(1 .. c) /\ Cardinality(1 .. c) = c
    BY <1>2, FS_Interval
  <2>3. order \in Surjection(1 .. c, S)
    BY <1>2, <2>1, <2>2, FS_Injection DEF c
  <2> QED BY <2>3 DEF Surjection
<1>6. CASE "out" \in declared[n]
  <2>1. Cut(n, order) = Cuts(sends[n], order)[c]
    BY <1>4, <1>6 DEF Cut
  <2>2. CutOK(All, sends[n], order, c)
    BY <1>1, <1>2, <1>4, CutsKeep
  <2>3. ASSUME NEW i \in Range(Cut(n, order)), Single(sends[n], i[1]), Url(i) \in S
        PROVE  FALSE
    <3>1. PICK k \in 1 .. c : order[k] = Url(i)
      BY <1>5, <2>3
    <3> QED BY <2>1, <2>2, <2>3, <3>1 DEF CutOK
  <2> QED BY <2>1, <2>2, <2>3 DEF CutOK, S
<1>7. CASE "out" \notin declared[n]
  <2>1. Cut(n, order) = sends[n]
    BY <1>7 DEF Cut
  <2> QED BY <1>1, <1>7, <2>1
<1> QED BY <1>6, <1>7

\* A node is removed: its outlet is silent, and nobody who is not counted as
\* lost sends to it.
LEMMA RemoveIInv ==
  ASSUME IInv, NEW n \in Nodes, RemoveNode(n)
  PROVE  IInv'
<1>0. Types /\ OnePart /\ LinkPart /\ BarePart
  BY DEF IInv
<1>1. PICK order \in SetToSeqs(links[n]) : sends' = [sends EXCEPT ![n] = Cut(n, order)]
  BY DEF RemoveNode
<1> DEFINE d == Cut(n, order)
<1>2. /\ d \in Seq(All)
      /\ Len(d) <= Len(sends[n])
      /\ Range(d) \subseteq Range(sends[n])
      /\ "out" \in declared[n]
           => \A i \in Range(d) : Single(sends[n], i[1]) => Url(i) \notin links[n]
  BY CutIs
<1> HIDE DEF d
<1>3. /\ n \in present
      /\ cleanup' = TRUE
      /\ present' = present \ {n}
      /\ inlet' = [inlet EXCEPT ![n] = None]
      /\ pendingOf' = [pendingOf EXCEPT ![n] = None]
      /\ declared' = [declared EXCEPT ![n] = {}]
      /\ callable' = callable \ {n}
      /\ outlets' = outlets \ {n}
      /\ links' = [links EXCEPT ![n] = {}]
      /\ lost' = lost \cup {<<a, n>> : a \in {a \in Nodes : Heard(a, n) # {}}}
                      \cup (IF "out" \in declared[n] THEN {} ELSE {<<n, u[1]>> : u \in links[n]})
      /\ UNCHANGED pending
      /\ Trimmed(relative)
  BY RelativeIs DEF RemoveNode
<1>4. sends' = [sends EXCEPT ![n] = d]
  BY <1>1 DEF d
<1>5. sends'[n] = d /\ \A b \in Nodes \ {n} : sends'[b] = sends[b] /\ links'[b] = links[b]
  BY <1>0, <1>3, <1>4 DEF Types
<1>6. links'[n] = {}
  BY <1>0, <1>3 DEF Types
<1>7. Types'
  <2>1. Len(d) <= MaxEntries
    <3>1. Len(d) \in Nat /\ Len(sends[n]) \in Nat /\ MaxEntries \in Nat
      BY <1>0, <1>2 DEF Types
    <3> QED BY <1>0, <1>2, <3>1 DEF Types
  <2>2. sends' \in [Nodes -> Seq(All)] /\ \A m \in Nodes : Len(sends'[m]) <= MaxEntries
    BY <1>0, <1>2, <1>4, <2>1 DEF Types
  <2>3. lost' \subseteq Nodes \X Nodes
    <3>1. \A u \in links[n] : <<n, u[1]>> \in Nodes \X Nodes
      BY <1>0 DEF Types
    <3> QED BY <1>0, <1>3, <3>1 DEF Types
  <2>6. relative' \subseteq All /\ \A j \in relative' : j \in InUse(j[1])'
    BY <1>0, <1>3 DEF Types, Trimmed
  <2>7. \A m \in Nodes : inlet'[m] \notin relative'
    <3>1. None \notin relative'
      BY <2>6, ObjectsAre DEF All
    <3>2. relative' \subseteq relative
      BY <1>3 DEF Trimmed
    <3> QED BY <1>0, <1>3, <3>1, <3>2 DEF Types
  <2>4. /\ links' \in [Nodes -> SUBSET (Nodes \X Styles)]
        /\ declared' \in [Nodes -> SUBSET Slots]
        /\ inlet' \in [Nodes -> All \cup {None}]
        /\ pendingOf' \in [Nodes -> All \cup {None}]
    BY <1>0, <1>3 DEF Types
  <2>5. ASSUME NEW m \in Nodes
        PROVE  /\ inlet'[m] \in Maybe(m) /\ pendingOf'[m] \in Maybe(m)
               /\ "in" \in declared'[m] => inlet'[m] # None
               /\ "out" \in declared'[m] => m \in outlets'
    BY <1>0, <1>3 DEF Types, Maybe
  <2> QED BY <1>0, <1>3, <2>2, <2>3, <2>4, <2>5, <2>6, <2>7 DEF Types, Maybe, Objects
<1>8. \A u \in Nodes : u # n => Current(u)' = Current(u)
  BY <1>0, <1>3 DEF Types, Current
<1>9. Current(n)' = {}
  BY <1>0, <1>3 DEF Types, Current, OnePart
<1>10. OnePart'
  <2> SUFFICES ASSUME NEW t \in Nodes
               PROVE  /\ \A i, j \in Current(t)' : i = j
                      /\ t \in present' => pending'[t] = None
                      /\ t \notin present' => inlet'[t] = None /\ pendingOf'[t] = None
    BY DEF OnePart
  <2> QED BY <1>0, <1>3, <1>8, <1>9 DEF OnePart, Types
<1>11. BarePart'
  <2>1. ASSUME NEW a \in Nodes \ outlets' PROVE links'[a] = {}
    <3>1. a = n \/ a \in (Nodes \ outlets) \ {n}
      BY <1>3, <2>1
    <3> QED BY <1>0, <1>5, <1>6, <3>1 DEF BarePart
  <2>2. ASSUME NEW a \in present' \ outlets' PROVE sends'[a] = <<>>
    <3>1. a \in (present \ outlets) \ {n} /\ a \in Nodes
      BY <1>0, <1>3, <2>2 DEF Types
    <3> QED BY <1>0, <1>5, <3>1 DEF BarePart
  <2> QED BY <2>1, <2>2 DEF BarePart
<1>12. ASSUME NEW a \in Nodes, NEW t \in Nodes
       PROVE  Pair(a, t)'
  <2>0. Pair(a, t)
    BY <1>0 DEF LinkPart
  <2>1. CASE a = n
    <3>1. ASSUME <<n, t>> \notin lost' PROVE Of(d, t) = {}
      <4> SUFFICES ASSUME NEW i \in Of(d, t) PROVE FALSE
        OBVIOUS
      <4>1. <<n, t>> \notin lost
        BY <1>3, <3>1
      <4>2. i \in Heard(n, t) /\ i[1] = t
        BY <1>2 DEF Of, Heard
      <4>3. n \in outlets
        <5>1. sends[n] # <<>>
          BY <4>2 DEF Heard, Range
        <5> QED BY <1>0, <1>3, <5>1 DEF BarePart
      <4>4. Url(i) \in links[n] /\ Single(sends[n], t)
        BY <2>0, <2>1, <4>1, <4>2, <4>3 DEF Pair, Listed
      <4>5. "out" \in declared[n]
        <5>1. Url(i)[1] = t
          BY <4>2 DEF Url
        <5> QED BY <1>3, <3>1, <4>4, <5>1
      <4> QED BY <1>2, <4>2, <4>4, <4>5 DEF Of
    <3>2. Heard(n, t)' = Of(d, t)
      BY <1>5, HeardIs
    <3>3. n \notin outlets'
      BY <1>3
    <3> QED BY <2>1, <3>1, <3>2, <3>3 DEF Pair
  <2>2. CASE a # n
    <3>1. sends'[a] = sends[a] /\ links'[a] = links[a]
      BY <1>5, <2>2
    <3>2. <<a, t>> \notin lost' => <<a, t>> \notin lost
      BY <1>3
    <3>3. ASSUME <<a, t>> \notin lost', NEW i \in Heard(a, t), i \in Current(t)
          PROVE  i \in Current(t)' /\ Url(i)' = Url(i)
      <4>1. t # n
        BY <1>3, <3>3
      <4>2. i \in Range(sends'[a])
        BY <3>1 DEF Heard
      <4> QED BY <1>3, <1>8, <3>3, <4>1, <4>2, UrlIs
    <3>4. /\ a \in outlets' => a \in outlets
          /\ a \notin present' => a \notin present
      BY <1>3, <2>2
    <3> QED BY <2>0, <3>1, <3>2, <3>3, <3>4, Quiet
  <2> QED BY <2>1, <2>2
<1> QED BY <1>7, <1>10, <1>11, <1>12 DEF IInv, LinkPart

\* A reload forgets all nodes, and counts what their outlets still send to as lost.
LEMMA ReloadIInv ==
  ASSUME IInv, Reload
  PROVE  IInv'
<1>0. Types
  BY DEF IInv
<1>1. /\ present' = {} /\ callable' = {} /\ outlets' = {}
      /\ inlet' = [n \in Nodes |-> None]
      /\ pendingOf' = [n \in Nodes |-> None]
      /\ declared' = [n \in Nodes |-> {}]
      /\ links' = [n \in Nodes |-> {}]
      /\ lost' = lost \cup {l \in Nodes \X Nodes : Heard(l[1], l[2]) # {}}
      /\ UNCHANGED <<cleanup, pending, sends>>
      /\ Trimmed(relative)
  BY RelativeIs DEF Reload
<1>2. Types'
  <2>1. /\ relative' \subseteq All /\ \A j \in relative' : j \in InUse(j[1])'
        /\ None \notin relative'
    BY <1>0, <1>1, ObjectsAre DEF Types, Trimmed, All
  <2> QED BY <1>0, <1>1, <2>1 DEF Types, Maybe, Objects
<1>3. OnePart'
  BY <1>1 DEF OnePart, Current
<1>4. BarePart'
  BY <1>1 DEF BarePart
<1>5. ASSUME NEW a \in Nodes, NEW t \in Nodes
      PROVE  Pair(a, t)'
  <2>1. Heard(a, t)' = Heard(a, t)
    BY <1>1 DEF Heard
  <2>2. Heard(a, t) # {} => <<a, t>> \in lost'
    <3>1. <<a, t>>[1] = a /\ <<a, t>>[2] = t /\ <<a, t>> \in Nodes \X Nodes
      OBVIOUS
    <3> QED BY <1>1, <3>1
  <2> QED BY <1>1, <2>1, <2>2 DEF Pair
<1> QED BY <1>2, <1>3, <1>4, <1>5 DEF IInv, LinkPart

\* The collector takes outlets that nothing refers to, and inlets that no
\* remaining outlet sends to: a linked one is none of them.
LEMMA CollectIInv ==
  ASSUME IInv, Collect, cleanup' \in BOOLEAN
  PROVE  IInv'
<1>0. Types /\ OnePart /\ LinkPart /\ BarePart
  BY DEF IInv
<1>1. /\ outlets' = outlets \ Unused
      /\ sends' = [n \in Nodes |-> IF n \in Unused THEN <<>> ELSE sends[n]]
      /\ links' = [n \in Nodes |-> IF n \in Unused THEN {} ELSE links[n]]
      /\ inlet' = [n \in Nodes |-> IF n \in Orphans THEN None ELSE inlet[n]]
      /\ lost' = lost \ (Unused \X Nodes)
      /\ UNCHANGED <<present, pending, pendingOf, declared, callable>>
      /\ Trimmed(relative)
  BY RelativeIs DEF Collect
<1>2. Unused \subseteq outlets /\ \A n \in Unused : "out" \notin declared[n]
  BY DEF Unused
<1>3. \A t \in Orphans : /\ t \in present
                         /\ "in" \notin declared[t]
                         /\ \A a \in Nodes \ Unused : inlet[t] \notin Range(sends[a])
  BY DEF Orphans
<1>4. Types'
  <2>1. sends' \in [Nodes -> Seq(All)] /\ \A m \in Nodes : Len(sends'[m]) <= MaxEntries
    <3>1. <<>> \in Seq(All) /\ Len(<<>>) <= MaxEntries
      OBVIOUS
    <3> QED BY <1>0, <1>1, <3>1 DEF Types
  <2>2. ASSUME NEW m \in Nodes
        PROVE  /\ inlet'[m] \in Maybe(m)
               /\ "in" \in declared'[m] => inlet'[m] # None
               /\ "out" \in declared'[m] => m \in outlets'
    BY <1>0, <1>1, <1>2, <1>3 DEF Types, Maybe
  <2>4. relative' \subseteq All /\ \A k \in relative' : k \in InUse(k[1])'
    BY <1>0, <1>1 DEF Types, Trimmed
  <2>5. \A m \in Nodes : inlet'[m] \notin relative'
    <3>1. None \notin relative'
      BY <2>4, ObjectsAre DEF All
    <3>2. relative' \subseteq relative
      BY <1>1 DEF Trimmed
    <3> QED BY <1>0, <1>1, <3>1, <3>2 DEF Types
  <2>3. /\ links' \in [Nodes -> SUBSET (Nodes \X Styles)]
        /\ inlet' \in [Nodes -> All \cup {None}]
        /\ lost' \subseteq Nodes \X Nodes
        /\ outlets' \subseteq present'
    BY <1>0, <1>1 DEF Types
  <2> QED BY <1>0, <1>1, <2>1, <2>2, <2>3, <2>4, <2>5 DEF Types, Maybe, Objects
<1>5. OnePart'
  <2> SUFFICES ASSUME NEW t \in Nodes
               PROVE  /\ \A i, j \in Current(t)' : i = j
                      /\ t \in present' => pending'[t] = None
                      /\ t \notin present' => inlet'[t] = None /\ pendingOf'[t] = None
    BY DEF OnePart
  <2>1. Current(t)' \subseteq Current(t)
    BY <1>1 DEF Current
  <2> QED BY <1>0, <1>1, <1>3, <2>1 DEF OnePart
<1>6. BarePart'
  <2>1. Unused \subseteq Nodes
    BY <1>0, <1>2 DEF Types
  <2> QED BY <1>0, <1>1, <2>1 DEF BarePart, Types
<1>7. ASSUME NEW a \in Nodes, NEW t \in Nodes
      PROVE  Pair(a, t)'
  <2>0. Pair(a, t)
    BY <1>0 DEF LinkPart
  <2>1. CASE a \in Unused
    <3>1. sends'[a] = <<>> /\ links'[a] = {}
      BY <1>1, <2>1
    <3> QED BY <3>1, Bare
  <2>2. CASE a \notin Unused
    <3>1. sends'[a] = sends[a] /\ links'[a] = links[a]
      BY <1>1, <2>2
    <3>2. <<a, t>> \notin lost' => <<a, t>> \notin lost
      BY <1>1, <2>2
    <3>3. ASSUME NEW i \in Heard(a, t), i \in Current(t)
          PROVE  i \in Current(t)' /\ Url(i)' = Url(i)
      <4>1. i \in Range(sends[a]) /\ i \in Range(sends'[a])
        BY <3>1 DEF Heard
      <4>2. t \in Orphans => i # inlet[t]
        BY <1>3, <2>2, <4>1
      <4>3. i \in Current(t)'
        BY <1>1, <3>3, <4>2 DEF Current
      <4> QED BY <1>1, <4>1, <4>3, UrlIs
    <3>4. a \in outlets' => a \in outlets
      BY <1>1
    <3>5. a \notin present' => a \notin present
      BY <1>1
    <3> QED BY <2>0, <3>1, <3>2, <3>3, <3>4, <3>5, Quiet
  <2> QED BY <2>1, <2>2
<1> QED BY <1>4, <1>5, <1>6, <1>7 DEF IInv, LinkPart

LEMMA InitIInv == Init => IInv
<1> SUFFICES ASSUME Init PROVE IInv
  OBVIOUS
<1>1. Types
  <2>1. <<>> \in Seq(All) /\ Len(<<>>) <= MaxEntries
    OBVIOUS
  <2> QED BY <2>1 DEF Init, Types, Maybe
<1>2. OnePart
  BY DEF Init, OnePart, Current
<1>3. LinkPart
  <2>1. ASSUME NEW a \in Nodes, NEW t \in Nodes PROVE Pair(a, t)
    <3>1. a \notin outlets /\ sends[a] = <<>>
      BY DEF Init
    <3>2. Heard(a, t) = {}
      BY <3>1 DEF Heard, Range
    <3> QED BY <3>1, <3>2 DEF Pair
  <2> QED BY <2>1 DEF LinkPart
<1>4. BarePart
  BY DEF Init, BarePart
<1> QED BY <1>1, <1>2, <1>3, <1>4 DEF IInv

LEMMA NextIInv == IInv /\ [Next]_vars => IInv'
<1> SUFFICES ASSUME IInv, [Next]_vars PROVE IInv'
  OBVIOUS
<1>1. ASSUME NEW n \in Nodes, BadCode(n) PROVE IInv'
  BY <1>1, BadCodeIInv
<1>2. ASSUME NEW n \in Nodes, NEW slots \in SUBSET SlotsOf(n), NEW ok \in BOOLEAN,
             Eval(n, slots, ok)
      PROVE  IInv'
  BY <1>2, EvalIInv
<1>3. ASSUME NEW n \in Nodes, RemoveNode(n) PROVE IInv'
  BY <1>3, RemoveIInv
<1>4. ASSUME NEW a \in Nodes, NEW t \in Targets,
             \/ Link(a, t)
             \/ \E s \in Styles : LinkPending(a, t, s) \/ LinkAbsent(a, t, s) \/ Unlink(a, <<t, s>>)
      PROVE  IInv'
  <2>1. t \in Nodes
    OBVIOUS
  <2> QED BY <1>4, <2>1, LinkIInv, LinkPendingIInv, LinkAbsentIInv, UnlinkIInv
<1>5. CASE Gc
  <2>1. Collect /\ cleanup' \in BOOLEAN
    BY <1>5 DEF Gc, IInv, Types
  <2> QED BY <2>1, CollectIInv
<1>6. CASE SetEnds
  <2>1. Collect /\ cleanup' \in BOOLEAN
    BY <1>6 DEF SetEnds
  <2> QED BY <2>1, CollectIInv
<1>7. CASE UNCHANGED vars
  <2>1. IInv /\ UNCHANGED vars
    BY <1>7
  <2> QED BY <2>1 DEF vars, nodeVars, outletVars, IInv, Types, OnePart, Current, LinkPart,
             Pair, Heard, Listed, Url, BarePart, Single, Maybe, Objects, InUse
<1>8. CASE Reload
  BY <1>8, ReloadIInv
<1> QED BY <1>1, <1>2, <1>3, <1>4, <1>5, <1>6, <1>7, <1>8 DEF Next

-----------------------------------------------------------------------------
(* What it means *)

\* A set without two different elements.
LEMMA AtMostOne ==
  ASSUME NEW S, \A x, y \in S : x = y
  PROVE  Cardinality(S) <= 1
<1>1. CASE S = {}
  BY <1>1, FS_EmptySet
<1>2. CASE S # {}
  <2>1. PICK x \in S : TRUE
    BY <1>2
  <2>2. S = {x}
    BY <2>1
  <2> QED BY <2>2, FS_Singleton
<1> QED BY <1>1, <1>2

LEMMA IInvIsEnough == IInv => TypeOK /\ OneInlet /\ LinksHold /\ RemovedIsSilent
<1> SUFFICES ASSUME IInv PROVE TypeOK /\ OneInlet /\ LinksHold /\ RemovedIsSilent
  OBVIOUS
<1>0. Types /\ OnePart /\ LinkPart
  BY DEF IInv
<1>1. TypeOK
  BY <1>0 DEF Types, TypeOK, All
<1>2. OneInlet
  <2> SUFFICES ASSUME NEW t \in Nodes
               PROVE  Cardinality({inlet[t], pendingOf[t], pending[t]} \ {None}) <= 1
    BY <1>0 DEF OneInlet, OnePart
  <2>1. \A i, j \in Current(t) : i = j
    BY <1>0 DEF OnePart
  <2>2. Cardinality(Current(t)) <= 1
    BY <2>1, AtMostOne
  <2> QED BY <2>2 DEF Current
<1>3. LinksHold
  <2> SUFFICES ASSUME NEW a \in outlets, NEW t \in Nodes, <<a, t>> \notin lost
               PROVE  /\ Heard(a, t) \subseteq Current(t)
                      /\ Listed(a, t) = {Url(i) : i \in Heard(a, t)}
                      /\ Cardinality({k \in DOMAIN sends[a] : sends[a][k][1] = t}) <= 1
    BY DEF LinksHold
  <2>1. a \in Nodes
    BY <1>0 DEF Types
  <2>2. /\ Heard(a, t) \subseteq Current(t)
        /\ Listed(a, t) = {Url(i) : i \in Heard(a, t)}
        /\ Single(sends[a], t)
    BY <1>0, <2>1 DEF LinkPart, Pair
  <2> DEFINE S == {k \in DOMAIN sends[a] : sends[a][k][1] = t}
  <2>3. \A j, k \in S : j = k
    BY <2>2 DEF Single
  <2> HIDE DEF S
  <2>4. Cardinality(S) <= 1
    BY <2>3, AtMostOne
  <2> QED BY <2>2, <2>4 DEF S
<1>4. RemovedIsSilent
  BY <1>0 DEF RemovedIsSilent, LinkPart, Pair
<1> QED BY <1>1, <1>2, <1>3, <1>4

LEMMA IInvHolds == Spec => []IInv
BY InitIInv, NextIInv, PTL DEF Spec

-----------------------------------------------------------------------------
(* Theorems *)

\* Patch and nodes refer to inlets by the names these were made for, what the
\* code of a node declares exists, and outlets hold inlets of known nodes
\* (Patch.nodes, Node.inlets, Outlet.inlets).
THEOREM TypeCorrect == Spec => []TypeOK
BY IInvHolds, IInvIsEnough, PTL

\* A name stands for one inlet object: the one the patch keeps for a node that
\* does not exist, the one the node keeps for code that has not declared it, or
\* the real one (Patch.pendingInlet, Node.new, lk.Inlet).
THEOREM OneInletOnly == Spec => []OneInlet
BY IInvHolds, IInvIsEnough, PTL

\* The links an outlet lists are those its messages take, once each and under the
\* url that removes them (Outlet.connect, Outlet.disconnect, Node.remove). Left out
\* are the links that are lost: their target was removed or forgotten by a reload,
\* another pending inlet took the place of theirs, a relative url listed an inlet
\* that became real, or their node was removed after its outlet had been declared
\* by code that failed.
THEOREM LinksAreHeld == Spec => []LinksHold
BY IInvHolds, IInvIsEnough, PTL

\* The outlet of a removed node sends to nobody, but for links that are lost in one
\* of these ways (Outlet.disconnectAll). An outlet with two entries for one node, of
\* which disconnect skips one, is such a case.
THEOREM RemovedAreSilent == Spec => []RemovedIsSilent
BY IInvHolds, IInvIsEnough, PTL
=============================================================================
