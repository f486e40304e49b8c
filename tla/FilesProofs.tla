----------------------------- MODULE FilesProofs -----------------------------
(***************************************************************************)
(* Proofs about module Files, for any finite tree of paths, any common     *)
(* beginnings of their names, any second urls and any contents.            *)
(*                                                                         *)
(* The invariant is stated of a memory (the cache and the resources) in    *)
(* the middle of a request, so that each operation of FileResource has a   *)
(* lemma of its own, and an action is the sequence of those it calls. It   *)
(* adds to the properties that what is watched has a path with one url,    *)
(* and that it is in DavServer.deleted while there is no file: without it  *)
(* the resource that is restored could be another. Nothing else is kept    *)
(* than what is cached, deleted or the directory of a process, so that     *)
(* there is always an identity for a new resource.                         *)
(***************************************************************************)
EXTENDS Files, FiniteSetTheorems, TLAPS

USE FilesAssumption DEF Files, None

-----------------------------------------------------------------------------
(* Urls *)

\* A url is its path, or the second one of the root or of what is in the root.
LEMMA FileIs ==
  /\ File \in [Urls -> Paths]
  /\ \A p \in Paths : p \in Urls /\ File[p] = p
  /\ \A p \in {Top} \cup Firsts :
       Twice[p] \in Urls /\ Twice[p] \notin Paths /\ File[Twice[p]] = p
  /\ \A u \in Urls : File[u] # u => File[u] \in {Top} \cup Firsts /\ u = Twice[File[u]]
<1> DEFINE D == {Top} \cup Firsts
<1>1. /\ Twice = [p \in D |-> Twice[p]]
      /\ \A p, q \in D : Twice[p] \notin Paths /\ (p # q => Twice[p] # Twice[q])
  BY TwiceAssumption
<1>2. D \subseteq Paths
  BY DEF Firsts
<1> HIDE DEF D
<1>3. DOMAIN Twice = D
  BY <1>1
<1>4. Urls = Paths \cup {Twice[p] : p \in D}
  BY <1>3 DEF Urls, Range
<1>5. \A p \in Paths : p \in Urls /\ File[p] = p
  BY <1>4 DEF File
<1>6. ASSUME NEW p \in D PROVE Twice[p] \in Urls /\ Twice[p] \notin Paths /\ File[Twice[p]] = p
  <2>1. Twice[p] \in Urls /\ Twice[p] \notin Paths
    BY <1>1, <1>4
  <2>2. File[Twice[p]] = CHOOSE q \in D : Twice[q] = Twice[p]
    BY <1>3, <2>1 DEF File
  <2> QED BY <1>1, <2>1, <2>2
<1>7. ASSUME NEW u \in Urls \ Paths PROVE File[u] \in D /\ u = Twice[File[u]]
  BY <1>4, <1>6
<1>8. File = [u \in Urls |-> File[u]] /\ \A u \in Urls : File[u] \in Paths
  BY <1>2, <1>5, <1>7 DEF File
<1>9. File \in [Urls -> Paths]
  BY <1>8
<1> QED BY <1>5, <1>6, <1>7, <1>9 DEF D

LEMMA NamesAre ==
  ASSUME NEW p \in Paths \ {Top}
  PROVE  /\ Base(p) \in Urls /\ File[Base(p)] = Parent[p] /\ Parent[p] \in Dirs
         /\ Made(p) \in Urls /\ File[Made(p)] = p
         /\ p \notin Firsts => Made(p) = p
<1>1. Parent[p] \in Dirs /\ Parent[p] \in Paths
  OBVIOUS
<1> QED BY <1>1, FileIs DEF Base, Made

\* Files that have one url.
Lone == Files \ Firsts

LEMMA LoneIs ==
  ASSUME NEW p \in Lone
  PROVE  /\ p \in Paths /\ p \in Urls /\ p \in Files /\ File[p] = p
         /\ \A u \in Urls : File[u] = p => u = p
BY FileIs DEF Lone

\* So have the files of nodes.
LEMMA NodesAre ==
  ASSUME NEW d \in Folders, NEW p \in Files, Parent[p] = d
  PROVE  p \in Lone /\ d \in Dirs /\ d \in Paths /\ d # Top /\ p # Top
BY DEF Folders, Firsts, Lone

LEMMA FiniteUrls == IsFiniteSet(Urls) /\ IsFiniteSet(Folders) /\ Cardinality(Folders) <= Cardinality(Urls)
<1> DEFINE D == {Top} \cup Firsts
<1>1. D \in SUBSET Paths
  BY DEF Firsts
<1>2. Twice = [p \in D |-> Twice[p]]
  BY TwiceAssumption
<1> HIDE DEF D
<1>3. IsFiniteSet(D)
  BY <1>1, FS_Subset
<1>4. Twice \in Surjection(D, Range(Twice))
  <2>1. DOMAIN Twice = D
    BY <1>2
  <2> QED BY <1>2, <2>1 DEF Surjection, Range
<1>5. IsFiniteSet(Range(Twice))
  BY <1>3, <1>4, FS_Surjection
<1>6. IsFiniteSet(Urls)
  BY <1>5, FS_Union DEF Urls
<1>7. Folders \in SUBSET Urls
  BY DEF Folders, Urls
<1> QED BY <1>6, <1>7, FS_Subset

-----------------------------------------------------------------------------
(* The invariant, of a memory m, files g, deleted resources del, directories of *)
(* processes dr, watchers W and a set U of urls that need a sync                *)

\* Children, of files g.
ChildrenOf(g, d) == {p \in Paths \ {Top} : Parent[p] = d /\ g[p] # None}

\* What a resource is: files have a body, directories have a list.
Resource ==
  {r \in [url : Urls, body : Contents \cup {None}, list : SUBSET Paths] :
     /\ File[r.url] \in Dirs => r.body = None
     /\ File[r.url] \in Files => r.list = Unlisted}

Typed(m) ==
  /\ m = [cache |-> m.cache, res |-> m.res]
  /\ m.cache \in [Urls -> Ids \cup {None}]
  /\ DOMAIN m.res \subseteq Ids
  /\ m.res \in [DOMAIN m.res -> Resource]

\* What is in the cache is a resource of that url.
Keyed(m) ==
  \A u \in Urls : m.cache[u] # None =>
    m.cache[u] \in DOMAIN m.res /\ m.res[m.cache[u]].url = u

\* What is in the cache is on disk, or was removed by its other url.
Real(m, g) ==
  \A u \in Urls : m.cache[u] # None =>
    \/ g[File[u]] # None
    \/ \E v \in Urls \ {u} : File[v] = File[u] /\ m.cache[v] = None

\* What is cached of u is what is on disk.
FreshAt(m, g, u) ==
  /\ File[u] \in Files => m.res[m.cache[u]].body \in {None, g[File[u]]}
  /\ File[u] \in Dirs => m.res[m.cache[u]].list \in {Unlisted, ChildrenOf(g, File[u])}

Fresh(m, g, U) == \A u \in Urls \ U : m.cache[u] # None => FreshAt(m, g, u)

\* Deleted resources keep the url of a file and are not in the cache; those of
\* processes keep the url of the directory.
Apart(m, del, dr) ==
  /\ del \in [Urls -> Ids \cup {None}]
  /\ dr \in [Folders -> Ids \cup {None}]
  /\ \A u \in Urls : del[u] # None =>
       /\ File[u] \in Files
       /\ del[u] \in DOMAIN m.res /\ m.res[del[u]].url = u
       /\ m.cache[u] # del[u]
  /\ \A d \in Folders : dr[d] # None => dr[d] \in DOMAIN m.res /\ m.res[dr[d]].url = d

\* Who is watched is in the cache as long as there is a file, and is the deleted
\* resource of that url when there is none.
ToldAt(m, g, del, i) ==
  LET u == m.res[i].url IN
  /\ i \in DOMAIN m.res /\ u \in Lone
  /\ g[u] # None => m.cache[u] = i
  /\ g[u] = None => del[u] = i

Told(m, g, del, W) == \A i \in W : ToldAt(m, g, del, i)

\* Nothing is kept but what is cached, deleted or the directory of a process.
Needed(m, del, dr) == DOMAIN m.res \subseteq Range(m.cache) \cup Range(del) \cup Range(dr)

Sound(m, g, del, dr, W, U) ==
  /\ Typed(m) /\ Keyed(m) /\ Real(m, g) /\ Fresh(m, g, U)
  /\ Apart(m, del, dr) /\ Told(m, g, del, W)

DiskPart ==
  /\ fs \in [Paths -> Contents \cup {None}] /\ fs[Top] # None
  /\ nodes \subseteq Files /\ unsynced \subseteq Urls

IInv ==
  /\ DiskPart
  /\ Sound(Memory, fs, deleted, dir, watched, unsynced)
  /\ Needed(Memory, deleted, dir)

\* The inductive invariant implies the ones that TLC checks.
LEMMA IInvIsEnough == IInv => TypeOK /\ CacheIsReal /\ CacheIsFresh /\ WatchersReached
<1> SUFFICES ASSUME IInv PROVE TypeOK /\ CacheIsReal /\ CacheIsFresh /\ WatchersReached
  OBVIOUS
<1>1. /\ DiskPart
      /\ Typed(Memory) /\ Keyed(Memory) /\ Real(Memory, fs) /\ Fresh(Memory, fs, unsynced)
      /\ Apart(Memory, deleted, dir) /\ Told(Memory, fs, deleted, watched)
      /\ Needed(Memory, deleted, dir)
  BY DEF IInv, Sound
<1>2. Memory.cache = cache /\ Memory.res = res
  BY DEF Memory
<1>3. 0 \notin Ids
  BY DEF Ids
<1>4. DOMAIN res = Held
  <2>1. DOMAIN res \subseteq Held
    BY <1>1, <1>2, <1>3 DEF Needed, Held, Typed
  <2>2. ASSUME NEW i \in Held PROVE i \in DOMAIN res
    <3>1. CASE i \in watched
      BY <1>1, <1>2, <3>1 DEF Told, ToldAt
    <3>2. CASE i \in Range(cache)
      BY <1>1, <1>2, <3>2 DEF Keyed, Range, Typed, Held
    <3>3. CASE i \in Range(deleted)
      BY <1>1, <1>2, <3>3 DEF Apart, Range, Held
    <3>4. CASE i \in Range(dir)
      BY <1>1, <1>2, <3>4 DEF Apart, Range, Held
    <3> QED BY <3>1, <3>2, <3>3, <3>4 DEF Held
  <2> QED BY <2>1, <2>2
<1>5. TypeOK
  <2>1. ASSUME NEW i \in Range(deleted), i \in Range(cache) \cup Range(dir) PROVE i = None
    <3> SUFFICES ASSUME i # None PROVE FALSE
      OBVIOUS
    <3>1. PICK u \in Urls : deleted[u] = i
      BY <1>1 DEF Apart, Range
    <3>2. File[u] \in Files /\ res[i].url = u /\ cache[u] # i
      BY <1>1, <1>2, <3>1 DEF Apart
    <3>3. CASE i \in Range(cache)
      <4>1. PICK v \in Urls : cache[v] = i
        BY <1>1, <1>2, <3>3 DEF Typed, Range
      <4> QED BY <1>1, <1>2, <3>2, <4>1 DEF Keyed
    <3>4. CASE i \in Range(dir)
      <4>1. PICK d \in Folders : dir[d] = i
        BY <1>1, <3>4 DEF Apart, Range
      <4>2. res[i].url = d
        BY <1>1, <1>2, <4>1 DEF Apart
      <4>3. File[d] = d /\ d \in Dirs
        BY FileIs DEF Folders
      <4> QED BY <3>2, <4>2, <4>3
    <3> QED BY <2>1, <3>3, <3>4
  <2>2. ASSUME NEW i \in Held
        PROVE  /\ res[i].url \in Urls
               /\ LET p == File[res[i].url] IN
                  /\ res[i].body \in IF p \in Files THEN Contents \cup {None} ELSE {None}
                  /\ res[i].list = Unlisted \/ (p \in Dirs /\ res[i].list \subseteq Paths)
    <3>1. res[i] \in Resource
      BY <1>1, <1>2, <1>4 DEF Typed
    <3>2. File[res[i].url] \in Paths
      BY <3>1, FileIs DEF Resource
    <3> QED BY <3>1, <3>2 DEF Resource
  <2>3. watched \subseteq Ids
    BY <1>1, <1>2 DEF Told, ToldAt, Typed
  <2> QED BY <1>1, <1>2, <1>4, <2>1, <2>2, <2>3 DEF TypeOK, DiskPart, Typed, Apart
<1>6. CacheIsReal
  BY <1>1, <1>2 DEF CacheIsReal, Keyed, Real
<1>7. CacheIsFresh
  <2>1. \A d : ChildrenOf(fs, d) = Children(d)
    BY DEF ChildrenOf, Children
  <2>2. \A u \in Urls : File[u] \in Paths
    BY FileIs
  <2> QED BY <1>1, <1>2, <2>1, <2>2 DEF CacheIsFresh, Fresh, FreshAt
<1>8. WatchersReached
  BY <1>1, <1>2, LoneIs DEF WatchersReached, Told, ToldAt
<1> QED BY <1>5, <1>6, <1>7, <1>8

-----------------------------------------------------------------------------
(* The operations on a memory *)

\* Resources that keep their urls: what is left is to see whether they are fresh.
LEMMA SameUrls ==
  ASSUME NEW m, NEW g, NEW del, NEW dr, NEW W, NEW U, Sound(m, g, del, dr, W, U),
         NEW n, n = [cache |-> n.cache, res |-> n.res],
         n.cache = m.cache, DOMAIN n.res = DOMAIN m.res,
         n.res \in [DOMAIN m.res -> Resource],
         \A i \in DOMAIN m.res : n.res[i].url = m.res[i].url,
         NEW T, Fresh(n, g, T)
  PROVE  Sound(n, g, del, dr, W, T)
<1>1. Typed(n) /\ Keyed(n) /\ Real(n, g) /\ Apart(n, del, dr)
  BY DEF Sound, Typed, Keyed, Real, Apart
<1>2. Told(n, g, del, W)
  BY DEF Sound, Told, ToldAt
<1> QED BY <1>1, <1>2 DEF Sound

\* sync of a resource, which does nothing if there is none of that identity: what
\* the cache has at the urls of B is fresh again.
LEMMA SyncedIs ==
  ASSUME NEW m, NEW g, NEW del, NEW dr, NEW W, NEW U, Sound(m, g, del, dr, W, U),
         NEW k, NEW B, \A u \in B : m.cache[u] \in {k, None}
  PROVE  LET n == Synced(m, k) IN
         /\ Sound(n, g, del, dr, W, U \ B)
         /\ n.cache = m.cache
         /\ DOMAIN n.res = DOMAIN m.res
         /\ \A i \in DOMAIN m.res : n.res[i].url = m.res[i].url
<1> DEFINE n == Synced(m, k)
           R == [m.res EXCEPT ![k].body = None, ![k].list = Unlisted]
<1>1. Typed(m) /\ Keyed(m) /\ Fresh(m, g, U)
  BY DEF Sound
<1>2. n = [cache |-> m.cache, res |-> R]
  BY DEF Synced
<1>3. n.cache = m.cache /\ n.res = R /\ n = [cache |-> n.cache, res |-> n.res]
  BY <1>2
<1> HIDE DEF n
<1>4. Top \in Paths /\ Unlisted \in SUBSET Paths
  BY DEF Unlisted
<1>5. DOMAIN R = DOMAIN m.res /\ \A i \in DOMAIN m.res \ {k} : R[i] = m.res[i]
  OBVIOUS
<1>6. k \in DOMAIN m.res => R[k] = [m.res[k] EXCEPT !.body = None, !.list = Unlisted]
  OBVIOUS
<1>7. ASSUME k \in DOMAIN m.res
      PROVE  /\ R[k] \in Resource /\ R[k].url = m.res[k].url
             /\ R[k].body = None /\ R[k].list = Unlisted
  <2>1. m.res[k] \in Resource
    BY <1>1, <1>7 DEF Typed
  <2> HIDE DEF R
  <2> QED BY <1>4, <1>6, <1>7, <2>1 DEF Resource
<1>8. R = [i \in DOMAIN m.res |-> R[i]]
  BY <1>1 DEF Typed
<1> HIDE DEF R
<1>9. R \in [DOMAIN m.res -> Resource]
  BY <1>1, <1>5, <1>7, <1>8 DEF Typed
<1>10. \A i \in DOMAIN m.res : R[i].url = m.res[i].url
  BY <1>5, <1>7
<1>11. Fresh(n, g, U \ B)
  <2> SUFFICES ASSUME NEW u \in Urls, u \notin U \/ u \in B, m.cache[u] # None
               PROVE  FreshAt(n, g, u)
    BY <1>3 DEF Fresh
  <2>1. CASE m.cache[u] = k
    BY <1>1, <1>3, <1>7, <2>1 DEF FreshAt, Keyed
  <2>2. CASE m.cache[u] # k
    BY <1>1, <1>3, <1>5, <2>2 DEF FreshAt, Keyed, Fresh
  <2> QED BY <2>1, <2>2
<1>12. Sound(n, g, del, dr, W, U \ B)
  BY <1>3, <1>5, <1>9, <1>10, <1>11, SameUrls
<1> QED BY <1>3, <1>5, <1>10, <1>12 DEF n

LEMMA SyncedAt ==
  ASSUME NEW m, NEW g, NEW del, NEW dr, NEW W, NEW U, Sound(m, g, del, dr, W, U),
         NEW k, NEW b, m.cache[b] \in {k, None}
  PROVE  /\ Sound(Synced(m, k), g, del, dr, W, U \ {b})
         /\ Synced(m, k).cache = m.cache
         /\ DOMAIN Synced(m, k).res = DOMAIN m.res
<1> DEFINE B == {b}
<1>1. \A u \in B : m.cache[u] \in {k, None}
  OBVIOUS
<1> HIDE DEF B
<1>2. /\ Sound(Synced(m, k), g, del, dr, W, U \ B)
      /\ Synced(m, k).cache = m.cache
      /\ DOMAIN Synced(m, k).res = DOMAIN m.res
  BY <1>1, SyncedIs
<1> QED BY <1>2 DEF B

\* A function has no more values than places.
LEMMA RangeCount ==
  ASSUME NEW f, NEW S, NEW T, f \in [S -> T], IsFiniteSet(S)
  PROVE  IsFiniteSet(Range(f)) /\ Cardinality(Range(f)) <= Cardinality(S)
<1>1. f \in Surjection(S, Range(f))
  BY DEF Surjection, Range
<1> QED BY <1>1, FS_Surjection

\* Two sets have no more elements than the one and the other together.
LEMMA UnionCount ==
  ASSUME NEW A, NEW B, IsFiniteSet(A), IsFiniteSet(B)
  PROVE  /\ IsFiniteSet(A \cup B) /\ Cardinality(A \cup B) \in Nat
         /\ Cardinality(A \cup B) <= Cardinality(A) + Cardinality(B)
<1>1. /\ IsFiniteSet(A \cup B)
      /\ Cardinality(A \cup B) = Cardinality(A) + Cardinality(B) - Cardinality(A \cap B)
  BY FS_Union
<1>2. IsFiniteSet(A \cap B)
  BY FS_Intersection
<1>3. /\ Cardinality(A) \in Nat /\ Cardinality(B) \in Nat
      /\ Cardinality(A \cap B) \in Nat /\ Cardinality(A \cup B) \in Nat
  BY <1>1, <1>2, FS_CardinalityType
<1> QED BY <1>1, <1>3

\* There are more resources than can be cached, deleted and held at a time.
LEMMA FreeId ==
  ASSUME NEW m, NEW del, NEW dr, Typed(m), Apart(m, del, dr), Needed(m, del, dr)
  PROVE  \E i \in Ids : i \notin DOMAIN m.res
<1> DEFINE N == Cardinality(Urls)
           A == Range(m.cache)
           B == Range(del)
           C == Range(dr)
<1>1. N \in Nat /\ Cardinality(Folders) \in Nat /\ Cardinality(Folders) <= N
  BY FiniteUrls, FS_CardinalityType
<1>2. /\ IsFiniteSet(A) /\ Cardinality(A) <= N
      /\ IsFiniteSet(B) /\ Cardinality(B) <= N
  BY FiniteUrls, RangeCount DEF Typed, Apart
<1>3. IsFiniteSet(C) /\ Cardinality(C) <= Cardinality(Folders)
  BY FiniteUrls, RangeCount DEF Apart
<1> HIDE DEF A, B, C, N
<1>4. IsFiniteSet((A \cup B) \cup C) /\ Cardinality((A \cup B) \cup C) <= 3 * N
  <2>1. /\ IsFiniteSet(A \cup B) /\ Cardinality(A \cup B) \in Nat
        /\ Cardinality(A \cup B) <= Cardinality(A) + Cardinality(B)
    BY <1>2, UnionCount
  <2>2. /\ IsFiniteSet((A \cup B) \cup C) /\ Cardinality((A \cup B) \cup C) \in Nat
        /\ Cardinality((A \cup B) \cup C) <= Cardinality(A \cup B) + Cardinality(C)
    BY <1>3, <2>1, UnionCount
  <2>3. Cardinality(A) \in Nat /\ Cardinality(B) \in Nat /\ Cardinality(C) \in Nat
    BY <1>2, <1>3, FS_CardinalityType
  <2> QED BY <1>1, <1>2, <1>3, <2>1, <2>2, <2>3
<1>5. IsFiniteSet(Ids) /\ Cardinality(Ids) = 3 * N + 1
  <2>1. 1 \in Int /\ 3 * N + 1 \in Int /\ ~ (1 > 3 * N + 1) /\ 3 * N + 1 - 1 + 1 = 3 * N + 1
    BY <1>1
  <2>2. /\ IsFiniteSet(1 .. 3 * N + 1)
        /\ Cardinality(1 .. 3 * N + 1) = IF 1 > 3 * N + 1 THEN 0 ELSE 3 * N + 1 - 1 + 1
    BY <2>1, FS_Interval
  <2> QED BY <2>1, <2>2 DEF Ids, N
<1>6. ~ (Ids \subseteq (A \cup B) \cup C)
  <2> SUFFICES ASSUME Ids \in SUBSET ((A \cup B) \cup C) PROVE FALSE
    OBVIOUS
  <2>1. Cardinality(Ids) <= Cardinality((A \cup B) \cup C)
    BY <1>4, FS_Subset
  <2>2. Cardinality((A \cup B) \cup C) \in Nat
    BY <1>4, FS_CardinalityType
  <2> QED BY <1>1, <1>4, <1>5, <2>1, <2>2
<1> QED BY <1>6 DEF Needed, A, B, C

\* A memory that has what another one has, and new resources besides.
Extends(l, m) ==
  /\ \A i \in DOMAIN l.res : i \in DOMAIN m.res /\ m.res[i] = l.res[i]
  /\ \A u \in Urls :
       /\ l.cache[u] # None => m.cache[u] = l.cache[u]
       /\ l.cache[u] = None /\ m.cache[u] # None => m.res[m.cache[u]] = Blank(u)

LEMMA ExtendsSelf == \A m : Extends(m, m)
  BY DEF Extends

LEMMA ExtendsMore ==
  ASSUME NEW l, NEW m, NEW n, Keyed(m), Extends(l, m), Extends(m, n)
  PROVE  Extends(l, n)
<1>1. \A i \in DOMAIN l.res : i \in DOMAIN n.res /\ n.res[i] = l.res[i]
  BY DEF Extends
<1>2. ASSUME NEW u \in Urls
      PROVE  /\ l.cache[u] # None => n.cache[u] = l.cache[u]
             /\ l.cache[u] = None /\ n.cache[u] # None => n.res[n.cache[u]] = Blank(u)
  <2>1. CASE m.cache[u] # None
    <3>1. m.cache[u] \in DOMAIN m.res /\ n.cache[u] = m.cache[u]
      BY <2>1 DEF Keyed, Extends
    <3>2. n.res[n.cache[u]] = m.res[m.cache[u]]
      BY <3>1 DEF Extends
    <3> QED BY <2>1, <3>1, <3>2 DEF Extends
  <2>2. CASE m.cache[u] = None
    BY <2>2 DEF Extends
  <2> QED BY <2>1, <2>2
<1> QED BY <1>1, <1>2 DEF Extends

\* The constructor: a resource for u if there is a file.
LEMMA FoundIs ==
  ASSUME NEW m, NEW h, NEW del, NEW dr, NEW W, NEW U, Sound(m, h, del, dr, W, U),
         Needed(m, del, dr), NEW u \in Urls
  PROVE  LET n == Found(m, h, u) IN
         /\ Sound(n, h, del, dr, W, U) /\ Needed(n, del, dr)
         /\ Extends(m, n)
         /\ h[File[u]] # None => n.cache[u] # None
<1> DEFINE n == Found(m, h, u)
           i == CHOOSE i \in Ids : i \notin DOMAIN m.res
           r == Blank(u)
<1>0. /\ Typed(m) /\ Keyed(m) /\ Real(m, h) /\ Fresh(m, h, U)
      /\ Apart(m, del, dr) /\ Told(m, h, del, W)
  BY DEF Sound
<1>1. CASE m.cache[u] # None \/ h[File[u]] = None
  <2>1. n = m
    BY <1>1 DEF Found
  <2> HIDE DEF n
  <2>2. h[File[u]] # None => n.cache[u] # None
    BY <1>1, <2>1
  <2> QED BY <2>1, <2>2, ExtendsSelf DEF n
<1>2. CASE m.cache[u] = None /\ h[File[u]] # None
  <2> DEFINE R == [j \in DOMAIN m.res \cup {i} |-> IF j = i THEN r ELSE m.res[j]]
  <2>1. i \in Ids /\ i \notin DOMAIN m.res
    BY <1>0, FreeId
  <2>2. n = [cache |-> [m.cache EXCEPT ![u] = i], res |-> R]
    BY <1>2 DEF Found
  <2>3. n.cache = [m.cache EXCEPT ![u] = i] /\ n.res = R
        /\ n = [cache |-> n.cache, res |-> n.res]
    BY <2>2
  <2> HIDE DEF n, i
  <2>4. DOMAIN R = DOMAIN m.res \cup {i}
    OBVIOUS
  <2>5. R[i] = r /\ \A j \in DOMAIN m.res : R[j] = m.res[j]
    BY <2>1
  <2>6. R = [j \in DOMAIN m.res \cup {i} |-> R[j]]
    OBVIOUS
  <2> HIDE DEF R
  <2>7. r \in Resource /\ r.url = u /\ r.body = None /\ r.list = Unlisted
    <3>1. Top \in Paths
      OBVIOUS
    <3> QED BY <3>1 DEF Resource, Unlisted, Blank
  <2> HIDE DEF r
  <2>8. Typed(n)
    <3>1. n.cache \in [Urls -> Ids \cup {None}]
      BY <1>0, <2>1, <2>3 DEF Typed
    <3>2. R \in [DOMAIN m.res \cup {i} -> Resource]
      <4>1. \A j \in DOMAIN m.res : m.res[j] \in Resource
        BY <1>0 DEF Typed
      <4> QED BY <2>5, <2>6, <2>7, <4>1
    <3> QED BY <1>0, <2>1, <2>3, <2>4, <3>1, <3>2 DEF Typed
  <2>9. n.cache[u] = i /\ i # None /\ \A v \in Urls \ {u} : n.cache[v] = m.cache[v]
    BY <1>0, <2>1, <2>3 DEF Typed, Ids
  <2>10. Keyed(n)
    BY <1>0, <2>3, <2>4, <2>5, <2>7, <2>9 DEF Keyed
  <2>11. Real(n, h)
    <3> SUFFICES ASSUME NEW v \in Urls, n.cache[v] # None, h[File[v]] = None
                 PROVE  \E w \in Urls \ {v} : File[w] = File[v] /\ n.cache[w] = None
      BY DEF Real
    <3>1. v # u /\ m.cache[v] # None
      BY <1>2, <2>9
    <3>2. PICK w \in Urls \ {v} : File[w] = File[v] /\ m.cache[w] = None
      BY <1>0, <3>1 DEF Real
    <3>3. w # u
      BY <1>2, <3>2
    <3> QED BY <2>9, <3>2, <3>3
  <2>12. Fresh(n, h, U)
    <3> SUFFICES ASSUME NEW v \in Urls \ U, n.cache[v] # None PROVE FreshAt(n, h, v)
      BY DEF Fresh
    <3>1. CASE v = u
      BY <2>3, <2>5, <2>7, <2>9, <3>1 DEF FreshAt
    <3>2. CASE v # u
      BY <1>0, <2>3, <2>5, <2>9, <3>2 DEF FreshAt, Fresh, Keyed
    <3> QED BY <3>1, <3>2
  <2>13. Apart(n, del, dr)
    BY <1>0, <2>1, <2>3, <2>4, <2>5, <2>9 DEF Apart
  <2>14. Told(n, h, del, W)
    <3> SUFFICES ASSUME NEW j \in W PROVE ToldAt(n, h, del, j)
      BY DEF Told
    <3>1. ToldAt(m, h, del, j)
      BY <1>0 DEF Told
    <3>2. n.res[j] = m.res[j] /\ j \in DOMAIN n.res /\ j # None
      BY <1>0, <2>3, <2>4, <2>5, <3>1 DEF ToldAt, Typed, Ids
    <3>3. m.res[j].url \in Urls /\ m.res[j].url # u
      BY <1>2, <3>1, <3>2, LoneIs DEF ToldAt
    <3> QED BY <2>9, <3>1, <3>2, <3>3 DEF ToldAt
  <2>15. Needed(n, del, dr)
    <3>1. DOMAIN m.cache = Urls /\ DOMAIN n.cache = Urls
      BY <1>0, <2>8 DEF Typed
    <3>2. ASSUME NEW j \in Range(m.cache) \cap DOMAIN m.res PROVE j \in Range(n.cache)
      <4>1. PICK v \in Urls : m.cache[v] = j
        BY <3>1 DEF Range
      <4>2. j # None
        BY <1>0 DEF Typed, Ids
      <4>3. v # u
        BY <1>2, <4>1, <4>2
      <4> QED BY <2>9, <3>1, <4>1, <4>3 DEF Range
    <3>3. i \in Range(n.cache)
      BY <2>9, <3>1 DEF Range
    <3> QED BY <1>0, <2>3, <2>4, <3>2, <3>3 DEF Needed
  <2>16. Sound(n, h, del, dr, W, U)
    BY <2>8, <2>10, <2>11, <2>12, <2>13, <2>14 DEF Sound
  <2>17. Extends(m, n)
    BY <1>2, <2>3, <2>4, <2>5, <2>9 DEF Extends, r
  <2> QED BY <2>9, <2>15, <2>16, <2>17 DEF n
<1> QED BY <1>1, <1>2

\* Files appear, or change, and the memory does not: what it has of the urls in T is
\* out of date.
LEMMA FilesChange ==
  ASSUME NEW m, NEW g, NEW del, NEW dr, NEW W, NEW U, Sound(m, g, del, dr, W, U), NEW h,
         \A p \in Paths : g[p] # None => h[p] # None,
         NEW V, \A i \in V : i \in W /\ (g[m.res[i].url] = None <=> h[m.res[i].url] = None),
         NEW T, Fresh(m, h, T)
  PROVE  Sound(m, h, del, dr, V, T)
<1>1. Real(m, h)
  BY FileIs DEF Sound, Real
<1>2. Told(m, h, del, V)
  BY DEF Sound, Told, ToldAt
<1> QED BY <1>1, <1>2 DEF Sound

\* delete, with the files h that are left, the deleted resources that are kept and
\* the processes that still have a directory: what is removed and stays in the cache
\* loses its other url.
LEMMA UncachedIs ==
  ASSUME NEW m, NEW g, NEW del, NEW dr, NEW W, NEW U, Sound(m, g, del, dr, W, U),
         NEW D \in SUBSET Urls, NEW h, \A p \in Paths : h[p] \in {None, g[p]},
         \A u \in Urls \ D : h[File[u]] # g[File[u]] =>
           \E v \in D : v # u /\ File[v] = File[u],
         NEW k, k \in [Urls -> Ids \cup {None}],
         \A u \in Urls : \/ k[u] = del[u]
                         \/ u \in D /\ File[u] \in Files /\ k[u] = m.cache[u],
         NEW e, e \in [Folders -> Ids \cup {None}], \A d \in Folders : e[d] \in {None, dr[d]},
         NEW V, \A i \in V : /\ i \in W
                             /\ LET u == m.res[i].url IN u \in D => h[u] = None /\ k[u] = i,
         NEW T, Fresh(m, h, T)
  PROVE  Sound(Uncached(m, D), h, k, e, V, T)
<1> DEFINE n == Uncached(m, D)
<1>0. /\ Typed(m) /\ Keyed(m) /\ Real(m, g) /\ Apart(m, del, dr) /\ Told(m, g, del, W)
  BY DEF Sound
<1>1. /\ n.res = m.res
      /\ n.cache = [u \in Urls |-> IF u \in D THEN None ELSE m.cache[u]]
      /\ n = [cache |-> n.cache, res |-> n.res]
  BY DEF Uncached
<1> HIDE DEF n
<1>2. /\ \A u \in D : n.cache[u] = None
      /\ \A u \in Urls \ D : n.cache[u] = m.cache[u]
  BY <1>1
<1>3. Typed(n) /\ Keyed(n)
  BY <1>0, <1>1, <1>2 DEF Typed, Keyed
<1>4. Real(n, h)
  <2> SUFFICES ASSUME NEW u \in Urls, n.cache[u] # None, h[File[u]] = None
               PROVE  \E v \in Urls \ {u} : File[v] = File[u] /\ n.cache[v] = None
    BY DEF Real
  <2>1. u \notin D /\ m.cache[u] # None
    BY <1>2
  <2>2. CASE g[File[u]] = None
    <3>1. PICK v \in Urls \ {u} : File[v] = File[u] /\ m.cache[v] = None
      BY <1>0, <2>1, <2>2 DEF Real
    <3> QED BY <1>2, <3>1
  <2>3. CASE g[File[u]] # None
    <3>1. PICK v \in D : v # u /\ File[v] = File[u]
      BY <2>1, <2>3
    <3> QED BY <1>2, <3>1
  <2> QED BY <2>2, <2>3
<1>5. Fresh(n, h, T)
  BY <1>1, <1>2 DEF Fresh, FreshAt
<1>6. Apart(n, k, e)
  <2>1. ASSUME NEW u \in Urls, k[u] # None
        PROVE  /\ File[u] \in Files
               /\ k[u] \in DOMAIN n.res /\ n.res[k[u]].url = u
               /\ n.cache[u] # k[u]
    <3>1. CASE k[u] = del[u]
      BY <1>0, <1>1, <1>2, <2>1, <3>1 DEF Apart
    <3>2. CASE u \in D /\ File[u] \in Files /\ k[u] = m.cache[u]
      BY <1>0, <1>1, <1>2, <2>1, <3>2 DEF Keyed
    <3> QED BY <3>1, <3>2
  <2>2. \A d \in Folders : e[d] # None => e[d] \in DOMAIN n.res /\ n.res[e[d]].url = d
    BY <1>0, <1>1 DEF Apart
  <2> QED BY <2>1, <2>2 DEF Apart
<1>7. Told(n, h, k, V)
  <2> SUFFICES ASSUME NEW i \in V PROVE ToldAt(n, h, k, i)
    BY DEF Told
  <2> DEFINE u == m.res[i].url
  <2>1. ToldAt(m, g, del, i) /\ n.res[i].url = u /\ n.res = m.res
    BY <1>0, <1>1 DEF Told
  <2>2. u \in Lone /\ u \in Urls /\ File[u] = u /\ u \in Paths
    BY <2>1, LoneIs DEF ToldAt
  <2>3. u \in D => h[u] = None /\ k[u] = i
    OBVIOUS
  <2> HIDE DEF u
  <2>4. CASE u \in D
    BY <2>1, <2>2, <2>3, <2>4 DEF ToldAt, u
  <2>5. CASE u \notin D
    <3>1. h[u] = g[u]
      BY <2>2, <2>5, LoneIs
    <3>2. k[u] = del[u] /\ n.cache[u] = m.cache[u]
      BY <1>2, <2>2, <2>5
    <3> QED BY <2>1, <2>2, <3>1, <3>2 DEF ToldAt, u
  <2> QED BY <2>4, <2>5
<1> QED BY <1>3, <1>4, <1>5, <1>6, <1>7 DEF Sound, n

\* body, of a file.
LEMMA ReadIs ==
  ASSUME DiskPart, NEW m, NEW del, NEW dr, NEW W, NEW U, Sound(m, fs, del, dr, W, U),
         NEW u \in Urls, File[u] \in Files, m.cache[u] # None
  PROVE  Sound(Read(m, u), fs, del, dr, W, U)
<1> DEFINE k == m.cache[u]
           c == fs[File[u]]
           R == [m.res EXCEPT ![k].body = c]
           n == [cache |-> m.cache, res |-> R]
<1>0. Typed(m) /\ Keyed(m) /\ Fresh(m, fs, U) /\ c \in Contents \cup {None}
  BY DEF Sound, DiskPart
<1>1. k \in DOMAIN m.res /\ m.res[k].url = u
  BY <1>0 DEF Keyed
<1>2. DOMAIN R = DOMAIN m.res /\ \A i \in DOMAIN m.res \ {k} : R[i] = m.res[i]
  OBVIOUS
<1>3. R[k] = [m.res[k] EXCEPT !.body = c]
  BY <1>1
<1>4. /\ R[k] \in Resource /\ R[k].url = m.res[k].url
      /\ R[k].body = c /\ R[k].list = m.res[k].list
  <2>1. m.res[k] \in Resource
    BY <1>0, <1>1 DEF Typed
  <2> HIDE DEF k, R, c
  <2> QED BY <1>0, <1>1, <1>3, <2>1 DEF Resource
<1>5. R = [i \in DOMAIN m.res |-> R[i]]
  BY <1>0 DEF Typed
<1> HIDE DEF R
<1>6. R \in [DOMAIN m.res -> Resource]
  BY <1>0, <1>2, <1>4, <1>5 DEF Typed
<1>7. \A i \in DOMAIN m.res : R[i].url = m.res[i].url
  BY <1>2, <1>4
<1>8. n.cache = m.cache /\ n.res = R /\ n = [cache |-> n.cache, res |-> n.res]
  OBVIOUS
<1> HIDE DEF n
<1>9. Fresh(n, fs, U)
  <2> SUFFICES ASSUME NEW v \in Urls \ U, m.cache[v] # None PROVE FreshAt(n, fs, v)
    BY <1>8 DEF Fresh
  <2>1. CASE m.cache[v] = k
    BY <1>0, <1>1, <1>4, <1>8, <2>1 DEF FreshAt, Keyed
  <2>2. CASE m.cache[v] # k
    BY <1>0, <1>2, <1>8, <2>2 DEF FreshAt, Keyed, Fresh
  <2> QED BY <2>1, <2>2
<1>10. Sound(n, fs, del, dr, W, U)
  BY <1>2, <1>6, <1>7, <1>8, <1>9, SameUrls
<1>11. Read(m, u) = m \/ Read(m, u) = n
  BY DEF Read, n, R
<1> QED BY <1>10, <1>11

\* A request ends: what it leaves is the memory, without what nobody refers to.
LEMMA EndIInv ==
  ASSUME NEW n, DiskPart', Sound(n, fs', deleted', dir', watched', unsynced'), Memorized(n)
  PROVE  IInv'
<1>1. /\ Typed(n) /\ Keyed(n) /\ Real(n, fs') /\ Fresh(n, fs', unsynced')
      /\ Apart(n, deleted', dir') /\ Told(n, fs', deleted', watched')
  BY DEF Sound
<1>2. cache' = n.cache /\ res' = [i \in Held' |-> n.res[i]]
  BY DEF Memorized
<1> DEFINE m == Memory'
<1>3. m = [cache |-> cache', res |-> res']
  BY DEF Memory
<1>4. m.cache = n.cache /\ m.res = res' /\ m = [cache |-> m.cache, res |-> m.res]
  BY <1>2, <1>3
<1> HIDE DEF m
<1>5. Held' = (Range(n.cache) \cup Range(deleted') \cup Range(dir') \cup watched') \ {None}
  BY <1>2 DEF Held
<1>6. Held' \subseteq DOMAIN n.res
  <2> SUFFICES ASSUME NEW i \in Held' PROVE i \in DOMAIN n.res
    OBVIOUS
  <2>1. CASE i \in watched'
    BY <1>1, <2>1 DEF Told, ToldAt
  <2>2. CASE i \in Range(n.cache)
    BY <1>1, <1>5, <2>2 DEF Keyed, Range, Typed
  <2>3. CASE i \in Range(deleted')
    BY <1>1, <1>5, <2>3 DEF Apart, Range
  <2>4. CASE i \in Range(dir')
    BY <1>1, <1>5, <2>4 DEF Apart, Range
  <2> QED BY <1>5, <2>1, <2>2, <2>3, <2>4
<1>7. DOMAIN m.res = Held' /\ \A i \in Held' : m.res[i] = n.res[i]
  BY <1>2, <1>4
<1>8. Typed(m)
  <2>1. m.res \in [Held' -> Resource]
    BY <1>1, <1>2, <1>4, <1>6 DEF Typed
  <2> QED BY <1>1, <1>4, <1>6, <1>7, <2>1 DEF Typed
<1>9. \A u \in Urls : m.cache[u] # None => m.cache[u] \in Held'
  BY <1>1, <1>4, <1>5 DEF Range, Typed
<1>10. Keyed(m) /\ Real(m, fs')
  BY <1>1, <1>4, <1>7, <1>9 DEF Keyed, Real
<1>11. Fresh(m, fs', unsynced')
  BY <1>1, <1>4, <1>7, <1>9 DEF Fresh, FreshAt
<1>12. Apart(m, deleted', dir')
  <2>1. \A u \in Urls : deleted'[u] # None => deleted'[u] \in Held'
    BY <1>1, <1>5 DEF Range, Apart
  <2>2. \A d \in Folders : dir'[d] # None => dir'[d] \in Held'
    BY <1>1, <1>5 DEF Range, Apart
  <2> QED BY <1>1, <1>4, <1>7, <2>1, <2>2 DEF Apart
<1>13. Told(m, fs', deleted', watched')
  <2>1. \A i \in watched' : i \in Held'
    BY <1>1, <1>5 DEF Told, ToldAt, Typed, Ids
  <2> QED BY <1>1, <1>4, <1>7, <2>1 DEF Told, ToldAt
<1>14. Needed(m, deleted', dir')
  <2> SUFFICES ASSUME NEW i \in watched', i # None
               PROVE  i \in Range(m.cache) \cup Range(deleted')
    BY <1>4, <1>5, <1>7 DEF Needed
  <2>1. ToldAt(n, fs', deleted', i) /\ n.res[i].url \in Urls
    BY <1>1, LoneIs DEF Told, ToldAt
  <2> QED BY <1>1, <1>4, <2>1 DEF ToldAt, Range, Typed, Apart
<1> QED BY <1>8, <1>10, <1>11, <1>12, <1>13, <1>14 DEF IInv, Sound, m

-----------------------------------------------------------------------------
(* Resources of a sequence of urls: the list of a directory, or what a process has *)

\* A set of numbers has a least element.
LEMMA Smallest ==
  ASSUME NEW S \in SUBSET Nat, S # {}
  PROVE  \E i \in S : \A j \in S : i <= j
<1> DEFINE T == {0 .. i : i \in S}
<1>1. T \subseteq FiniteSubsetsOf(Nat) /\ T # {}
  <2>1. ASSUME NEW i \in S PROVE IsFiniteSet(0 .. i) /\ 0 .. i \in SUBSET Nat
    BY FS_Interval
  <2>2. ASSUME NEW x \in T PROVE x \in FiniteSubsetsOf(Nat)
    <3>1. PICK i \in S : x = 0 .. i
      OBVIOUS
    <3> QED BY <2>1, <3>1 DEF FiniteSubsetsOf
  <2>3. T # {}
    <3>1. PICK i : i \in S
      OBVIOUS
    <3>2. 0 .. i \in T
      BY <3>1
    <3> QED BY <3>2
  <2> HIDE DEF T
  <2> QED BY <2>2, <2>3
<1>2. PICK x \in T : \A y \in T : ~ (<<y, x>> \in StrictSubsetOrdering(Nat))
  <2> HIDE DEF T
  <2> QED BY <1>1, FS_StrictSubsetOrderingWellFounded, WFMin
<1>3. PICK i \in S : x = 0 .. i
  OBVIOUS
<1>4. ASSUME NEW j \in S PROVE i <= j
  <2>1. ~ (<<0 .. j, 0 .. i>> \in StrictSubsetOrdering(Nat))
    BY <1>2, <1>3
  <2>2. 0 .. i \in SUBSET Nat /\ 0 .. j \in SUBSET Nat
    OBVIOUS
  <2>3. ~ (0 .. j \subseteq 0 .. i /\ 0 .. j # 0 .. i)
    BY <2>1, <2>2 DEF StrictSubsetOrdering
  <2>4. CASE j < i
    <3>1. 0 .. j \subseteq 0 .. i
      BY <2>4
    <3>2. i \in 0 .. i /\ i \notin 0 .. j
      BY <2>4
    <3> QED BY <2>3, <3>1, <3>2
  <2> QED BY <2>4
<1> QED BY <1>4

\* One call of the constructor after the other.
LEMMA LoadsIs ==
  ASSUME NEW m, NEW h, NEW s, Len(s) \in Nat
  PROVE  Loads(m, h, s) = [k \in 0 .. Len(s) |->
           IF k = 0 THEN m ELSE Found(Loads(m, h, s)[k - 1], h, s[k])]
<1> DEFINE n == Len(s)
           Load(f, j) == f = [k \in 0 .. j |-> IF k = 0 THEN m ELSE Found(f[k - 1], h, s[k])]
           Bad == {j \in 0 .. n : ~ \E f : Load(f, j)}
<1>1. ASSUME Bad # {} PROVE FALSE
  <2>1. PICK b \in Bad : \A j \in Bad : b <= j
    <3>1. Bad \in SUBSET Nat
      OBVIOUS
    <3> HIDE DEF Bad
    <3> QED BY <1>1, <3>1, Smallest
  <2>2. b # 0
    <3>1. Load([k \in 0 .. 0 |-> m], 0)
      OBVIOUS
    <3> HIDE DEF Load
    <3> QED BY <3>1
  <2>3. b \in 1 .. n /\ b - 1 \in 0 .. n /\ b - 1 \notin Bad
    <3>1. b \in 0 .. n
      OBVIOUS
    <3> HIDE DEF Bad
    <3> QED BY <2>1, <2>2, <3>1
  <2>4. PICK f : Load(f, b - 1)
    BY <2>3
  <2> DEFINE g == [k \in 0 .. b |-> IF k = b THEN Found(f[b - 1], h, s[b]) ELSE f[k]]
  <2>5. Load(g, b)
    <3>1. \A k \in 0 .. b - 1 : g[k] = f[k]
      BY <2>3
    <3>2. g[b] = Found(f[b - 1], h, s[b])
      BY <2>3
    <3>3. ASSUME NEW k \in 0 .. b
          PROVE  g[k] = IF k = 0 THEN m ELSE Found(g[k - 1], h, s[k])
      <4>1. CASE k = b
        <5>1. b - 1 \in 0 .. b - 1 /\ b # 0
          BY <2>3
        <5>2. g[b - 1] = f[b - 1]
          BY <3>1, <5>1
        <5> QED BY <3>2, <4>1, <5>1, <5>2
      <4>2. CASE k # b
        <5>1. k \in 0 .. b - 1 /\ (k # 0 => k - 1 \in 0 .. b - 1)
          BY <2>3, <4>2
        <5>2. f[k] = IF k = 0 THEN m ELSE Found(f[k - 1], h, s[k])
          BY <2>4, <5>1
        <5> QED BY <3>1, <5>1, <5>2
      <4> QED BY <4>1, <4>2
    <3>4. g = [k \in 0 .. b |-> g[k]]
      OBVIOUS
    <3> HIDE DEF g
    <3> QED BY <3>3, <3>4
  <2> HIDE DEF Load
  <2> QED BY <2>5
<1>2. PICK f : Load(f, n)
  <2>1. n \in 0 .. n
    OBVIOUS
  <2> QED BY <1>1, <2>1
<1> QED BY <1>2 DEF Loads

LEMMA LoadsKeep ==
  ASSUME NEW m, NEW h, NEW del, NEW dr, NEW W, NEW U, Sound(m, h, del, dr, W, U),
         Needed(m, del, dr), NEW s \in Seq(Urls)
  PROVE  LET n == Loads(m, h, s)[Len(s)] IN
         /\ Sound(n, h, del, dr, W, U) /\ Extends(m, n)
         /\ \A k \in 1 .. Len(s) : h[File[s[k]]] # None => n.cache[s[k]] # None
<1> DEFINE n == Len(s)
           f == Loads(m, h, s)
           Good(k) == /\ Sound(f[k], h, del, dr, W, U) /\ Needed(f[k], del, dr)
                      /\ Extends(m, f[k])
                      /\ \A j \in 1 .. k : h[File[s[j]]] # None => f[k].cache[s[j]] # None
           Bad == {k \in 0 .. n : ~ Good(k)}
<1>1. n \in Nat /\ \A k \in 1 .. n : s[k] \in Urls
  OBVIOUS
<1>2. \A k \in 0 .. n : f[k] = IF k = 0 THEN m ELSE Found(f[k - 1], h, s[k])
  <2>1. f = [k \in 0 .. n |-> IF k = 0 THEN m ELSE Found(f[k - 1], h, s[k])]
    BY <1>1, LoadsIs
  <2> HIDE DEF f, n
  <2> QED BY <2>1
<1>3. ASSUME Bad # {} PROVE FALSE
  <2>1. PICK b \in Bad : \A j \in Bad : b <= j
    <3>1. Bad \in SUBSET Nat
      OBVIOUS
    <3> HIDE DEF Bad
    <3> QED BY <1>3, <3>1, Smallest
  <2>2. b \in 0 .. n /\ ~ Good(b)
    OBVIOUS
  <2>3. CASE b = 0
    <3>1. f[0] = m
      BY <1>1, <1>2
    <3> HIDE DEF f
    <3> QED BY <2>2, <2>3, <3>1, ExtendsSelf
  <2>4. CASE b # 0
    <3>1. b - 1 \in 0 .. n /\ b \in 1 .. n
      BY <1>1, <2>2, <2>4
    <3>2. b - 1 \notin Bad
      <4> HIDE DEF Bad
      <4> QED BY <1>1, <2>1, <2>2, <3>1
    <3>3. Good(b - 1)
      BY <3>1, <3>2
    <3> DEFINE l == f[b - 1]
               k == f[b]
    <3>4. k = Found(l, h, s[b]) /\ s[b] \in Urls
      BY <1>1, <1>2, <2>2, <2>4, <3>1
    <3>5. /\ Sound(l, h, del, dr, W, U) /\ Needed(l, del, dr) /\ Extends(m, l)
          /\ \A j \in 1 .. b - 1 : h[File[s[j]]] # None => l.cache[s[j]] # None
      BY <3>3
    <3>6. ~ (/\ Sound(k, h, del, dr, W, U) /\ Needed(k, del, dr) /\ Extends(m, k)
             /\ \A j \in 1 .. b : h[File[s[j]]] # None => k.cache[s[j]] # None)
      BY <2>2
    <3> HIDE DEF f, l, k, Good, Bad
    <3>7. /\ Sound(k, h, del, dr, W, U) /\ Needed(k, del, dr) /\ Extends(l, k)
          /\ h[File[s[b]]] # None => k.cache[s[b]] # None
      BY <3>4, <3>5, FoundIs
    <3>8. Extends(m, k)
      BY <3>5, <3>7, ExtendsMore DEF Sound
    <3>9. ASSUME NEW j \in 1 .. b, h[File[s[j]]] # None PROVE k.cache[s[j]] # None
      <4>1. CASE j = b
        BY <3>7, <3>9, <4>1
      <4>2. CASE j # b
        <5>1. j \in 1 .. b - 1 /\ j \in 1 .. n
          BY <1>1, <3>1, <4>2
        <5>2. l.cache[s[j]] # None /\ s[j] \in Urls
          BY <1>1, <3>5, <3>9, <5>1
        <5> QED BY <3>7, <5>2 DEF Extends
      <4> QED BY <4>1, <4>2
    <3> QED BY <3>6, <3>7, <3>8, <3>9
  <2> QED BY <2>3, <2>4
<1>4. n \in 0 .. n
  BY <1>1
<1>5. Good(n)
  BY <1>3, <1>4
<1> QED BY <1>5

\* What a set is as a sequence.
LEMMA SetToSeqIs ==
  ASSUME NEW S \in SUBSET Urls
  PROVE  /\ SetToSeq(S) \in Seq(S) /\ Len(SetToSeq(S)) = Cardinality(S)
         /\ Cardinality(S) \in Nat
         /\ \A u \in S : \E k \in 1 .. Cardinality(S) : SetToSeq(S)[k] = u
<1> DEFINE c == Cardinality(S)
           s == SetToSeq(S)
<1>1. IsFiniteSet(S)
  BY FiniteUrls, FS_Subset
<1>2. c \in Nat /\ ExistsBijection(1 .. c, S)
  BY <1>1, FS_CardinalityType
<1> HIDE DEF c
<1>3. PICK f \in [1 .. c -> S] : \A i, j \in 1 .. c : f[i] = f[j] => i = j
  BY <1>2 DEF ExistsBijection, Bijection, Injection, IsInjective
<1>4. \E e \in [1 .. c -> S] : IsInjective(e)
  BY <1>3 DEF IsInjective
<1>5. s \in [1 .. c -> S] /\ IsInjective(s)
  BY <1>4 DEF SetToSeq, c
<1> HIDE DEF s
<1>6. s \in Injection(1 .. c, S)
  BY <1>5 DEF Injection, IsInjective
<1>7. Cardinality(1 .. c) = Cardinality(S)
  <2>1. 1 \in Int /\ c \in Int /\ (IF 1 > c THEN 0 ELSE c - 1 + 1) = c
    BY <1>2
  <2> QED BY <2>1, FS_Interval DEF c
<1>8. s \in Surjection(1 .. c, S)
  BY <1>1, <1>6, <1>7, FS_Injection
<1>9. \A u \in S : \E k \in 1 .. c : s[k] = u
  BY <1>8 DEF Surjection
<1>10. s \in Seq(S) /\ Len(s) = c
  BY <1>2, <1>5
<1> QED BY <1>2, <1>9, <1>10 DEF c, s

\* children: the list, and a resource for each child.
LEMMA ListedIs ==
  ASSUME NEW m, NEW del, NEW dr, NEW W, NEW U, Sound(m, fs, del, dr, W, U),
         Needed(m, del, dr), NEW d \in Dirs, m.cache[d] # None
  PROVE  Sound(Listed(m, d), fs, del, dr, W, U)
<1> DEFINE k == m.cache[d]
           R == [m.res EXCEPT ![k].list = Children(d)]
           n == [cache |-> m.cache, res |-> R]
           s == SetToSeq(Children(d))
<1>0. Typed(m) /\ Keyed(m) /\ Fresh(m, fs, U) /\ d \in Urls /\ File[d] = d
  BY FileIs DEF Sound
<1>1. k \in DOMAIN m.res /\ m.res[k].url = d
  BY <1>0 DEF Keyed
<1>2. DOMAIN R = DOMAIN m.res /\ \A i \in DOMAIN m.res \ {k} : R[i] = m.res[i]
  OBVIOUS
<1>3. R[k] = [m.res[k] EXCEPT !.list = Children(d)]
  BY <1>1
<1>4. /\ R[k] \in Resource /\ R[k].url = m.res[k].url
      /\ R[k].body = m.res[k].body /\ R[k].list = Children(d)
  <2>1. m.res[k] \in Resource
    BY <1>0, <1>1 DEF Typed
  <2>2. Children(d) \in SUBSET Paths
    BY DEF Children
  <2> HIDE DEF k, R
  <2> QED BY <1>0, <1>1, <1>3, <2>1, <2>2 DEF Resource
<1>5. R = [i \in DOMAIN m.res |-> R[i]]
  BY <1>0 DEF Typed
<1> HIDE DEF R
<1>6. R \in [DOMAIN m.res -> Resource]
  BY <1>0, <1>2, <1>4, <1>5 DEF Typed
<1>7. \A i \in DOMAIN m.res : R[i].url = m.res[i].url
  BY <1>2, <1>4
<1>8. n.cache = m.cache /\ n.res = R /\ n = [cache |-> n.cache, res |-> n.res]
  OBVIOUS
<1> HIDE DEF n
<1>9. Fresh(n, fs, U)
  <2> SUFFICES ASSUME NEW v \in Urls \ U, m.cache[v] # None PROVE FreshAt(n, fs, v)
    BY <1>8 DEF Fresh
  <2>1. CASE m.cache[v] = k
    <3>1. ChildrenOf(fs, d) = Children(d)
      BY DEF ChildrenOf, Children
    <3> QED BY <1>0, <1>1, <1>4, <1>8, <2>1, <3>1 DEF FreshAt, Keyed
  <2>2. CASE m.cache[v] # k
    BY <1>0, <1>2, <1>8, <2>2 DEF FreshAt, Keyed, Fresh
  <2> QED BY <2>1, <2>2
<1>10. Sound(n, fs, del, dr, W, U) /\ Needed(n, del, dr)
  BY <1>2, <1>6, <1>7, <1>8, <1>9, SameUrls DEF Needed
<1>11. s \in Seq(Urls)
  <2>1. Children(d) \in SUBSET Urls
    BY FileIs DEF Children
  <2> DEFINE S == Children(d)
  <2>2. SetToSeq(S) \in Seq(S)
    BY <2>1, SetToSeqIs
  <2> HIDE DEF S
  <2>3. SetToSeq(S) \in Seq(Urls)
    BY <2>1, <2>2 DEF S
  <2> QED BY <2>3 DEF S
<1> HIDE DEF s
<1>12. Sound(Loads(n, fs, s)[Len(s)], fs, del, dr, W, U)
  BY <1>10, <1>11, LoadsKeep
<1>13. Listed(m, d) = m \/ Listed(m, d) = Loads(n, fs, s)[Len(s)]
  BY DEF Listed, n, R, s
<1> QED BY <1>12, <1>13

-----------------------------------------------------------------------------
(* What the requests have in common *)

LEMMA Begins ==
  IInv => /\ DiskPart /\ Sound(Memory, fs, deleted, dir, watched, unsynced)
          /\ Needed(Memory, deleted, dir)
          /\ Memory.cache = cache /\ Memory.res = res
          /\ cache \in [Urls -> Ids \cup {None}]
          /\ deleted \in [Urls -> Ids \cup {None}]
          /\ dir \in [Folders -> Ids \cup {None}]
          /\ 0 \notin Ids
  BY DEF IInv, Memory, Sound, Typed, Apart, Ids

LEMMA InitIInv == Init => IInv
<1> SUFFICES ASSUME Init PROVE IInv
  OBVIOUS
<1>1. /\ Memory = [cache |-> cache, res |-> res]
      /\ fs = [p \in Paths |-> IF p = Top THEN Empty ELSE None]
      /\ cache = [u \in Urls |-> IF u = Top THEN 1 ELSE None]
      /\ res = [i \in {1} |-> Blank(Top)]
      /\ deleted = [u \in Urls |-> None]
      /\ dir = [d \in Folders |-> None]
      /\ nodes = {} /\ watched = {} /\ unsynced = {}
  BY DEF Init, Memory
<1>2. /\ Empty \in Contents /\ 0 \notin Contents
      /\ Top \in Paths /\ Top \in Urls /\ File[Top] = Top
  BY FileIs DEF Empty
<1>3. 1 \in Ids /\ 0 \notin Ids
  <2>1. Cardinality(Urls) \in Nat
    BY FiniteUrls, FS_CardinalityType
  <2> QED BY <2>1 DEF Ids
<1> DEFINE m == Memory
<1>4. m.cache = cache /\ m.res = res /\ m = [cache |-> m.cache, res |-> m.res]
  BY <1>1
<1> HIDE DEF m
<1>5. Blank(Top) \in Resource /\ Blank(Top).url = Top /\ Blank(Top).body = None
      /\ Blank(Top).list = Unlisted
  BY <1>2 DEF Blank, Resource, Unlisted
<1>6. Typed(m)
  BY <1>1, <1>3, <1>4, <1>5 DEF Typed
<1>7. Keyed(m) /\ Real(m, fs)
  BY <1>1, <1>2, <1>4, <1>5 DEF Keyed, Real
<1>8. Fresh(m, fs, unsynced)
  BY <1>1, <1>4, <1>5 DEF Fresh, FreshAt
<1>9. Apart(m, deleted, dir) /\ Told(m, fs, deleted, watched)
  BY <1>1 DEF Apart, Told
<1>10. Needed(m, deleted, dir)
  BY <1>1, <1>2, <1>4 DEF Needed, Range
<1>11. DiskPart
  BY <1>1, <1>2 DEF DiskPart
<1> QED BY <1>6, <1>7, <1>8, <1>9, <1>10, <1>11 DEF IInv, Sound, m

\* What was cached before a request and is not out of date after it is fresh, and so
\* is what was made anew.
LEMMA FreshAfter ==
  ASSUME IInv, NEW S, UpToDate(S), NEW m, Extends(Memory, m)
  PROVE  Fresh(m, fs', unsynced' \cup S) /\ unsynced' \subseteq Urls
<1>1. /\ \A i \in DOMAIN res : i \in DOMAIN m.res /\ m.res[i] = res[i]
      /\ \A u \in Urls : cache[u] # None => m.cache[u] = cache[u]
      /\ \A u \in Urls : cache[u] = None /\ m.cache[u] # None => m.res[m.cache[u]] = Blank(u)
  BY Begins DEF Extends
<1>2. unsynced' = {u \in Urls \ S : cache[u] # None /\ (u \in unsynced \/ Changed(File[u]))}
  BY DEF UpToDate
<1>3. /\ \A u \in Urls : cache[u] # None => cache[u] \in DOMAIN res
      /\ \A u \in Urls \ unsynced : cache[u] # None => FreshAt(Memory, fs, u)
  BY Begins DEF Sound, Keyed, Fresh
<1>4. ASSUME NEW u \in Urls \ (unsynced' \cup S), m.cache[u] # None
      PROVE  FreshAt(m, fs', u)
  <2>1. CASE cache[u] # None
    <3>1. u \notin unsynced /\ ~ Changed(File[u])
      BY <1>2, <2>1
    <3>2. fs'[File[u]] = fs[File[u]] /\ Children(File[u])' = Children(File[u])
      BY <3>1 DEF Changed
    <3>3. ChildrenOf(fs', File[u]) = ChildrenOf(fs, File[u])
      BY <3>2 DEF Children, ChildrenOf
    <3>4. m.res[m.cache[u]] = res[cache[u]]
      BY <1>1, <1>3, <2>1
    <3>5. FreshAt(Memory, fs, u) /\ Memory.cache = cache /\ Memory.res = res
      BY <1>3, <2>1, <3>1, Begins
    <3> QED BY <3>2, <3>3, <3>4, <3>5 DEF FreshAt
  <2>2. CASE cache[u] = None
    <3>1. m.res[m.cache[u]] = [url |-> u, body |-> None, list |-> Unlisted]
      BY <1>1, <1>4, <2>2 DEF Blank
    <3>2. m.res[m.cache[u]].body = None /\ m.res[m.cache[u]].list = Unlisted
      BY <3>1
    <3> QED BY <3>2 DEF FreshAt
  <2> QED BY <2>1, <2>2
<1> QED BY <1>2, <1>4 DEF Fresh

\* A request finds a url.
LEMMA FindsIs ==
  ASSUME IInv, NEW m, Sound(m, fs, deleted, dir, watched, unsynced),
         Needed(m, deleted, dir), Extends(Memory, m), NEW u \in Urls
  PROVE  LET n == Found(m, fs, u) IN
         /\ Sound(n, fs, deleted, dir, watched, unsynced) /\ Needed(n, deleted, dir)
         /\ Extends(Memory, n) /\ Extends(m, n)
         /\ fs[File[u]] # None => n.cache[u] # None
<1> DEFINE n == Found(m, fs, u)
<1>1. /\ Sound(n, fs, deleted, dir, watched, unsynced) /\ Needed(n, deleted, dir)
      /\ Extends(m, n)
      /\ fs[File[u]] # None => n.cache[u] # None
  BY FoundIs
<1> HIDE DEF n
<1>2. Extends(Memory, n)
  BY <1>1, ExtendsMore DEF Sound
<1> QED BY <1>1, <1>2 DEF n

LEMMA FirstFindsIs ==
  ASSUME IInv, NEW u \in Urls
  PROVE  LET n == Found(Memory, fs, u) IN
         /\ Sound(n, fs, deleted, dir, watched, unsynced) /\ Needed(n, deleted, dir)
         /\ Extends(Memory, n)
         /\ fs[File[u]] # None => n.cache[u] # None
<1>1. /\ Sound(Memory, fs, deleted, dir, watched, unsynced)
      /\ Needed(Memory, deleted, dir) /\ Extends(Memory, Memory)
  BY Begins, ExtendsSelf
<1> QED BY <1>1, FindsIs

\* What is watched has a path, with one url, and is a resource; a memory that
\* extends another one has the same.
LEMMA WatchedUrls ==
  ASSUME IInv, NEW m, Extends(Memory, m), NEW i \in watched
  PROVE  /\ res[i].url \in Lone /\ m.res[i].url = res[i].url
         /\ i \in DOMAIN m.res /\ i # None
         /\ fs[res[i].url] = None => deleted[res[i].url] = i
         /\ fs[res[i].url] # None => cache[res[i].url] = i
<1>1. ToldAt(Memory, fs, deleted, i) /\ Memory.res = res /\ Memory.cache = cache
  BY Begins DEF Sound, Told
<1>2. i \in DOMAIN res /\ i # None
  BY <1>1, Begins DEF Sound, Typed, ToldAt
<1> QED BY <1>1, <1>2 DEF Extends, ToldAt

-----------------------------------------------------------------------------
(* The requests *)

LEMMA FindIInv ==
  ASSUME IInv, NEW u \in Urls, Find(u)
  PROVE  IInv'
<1> DEFINE m == Found(Memory, fs, u)
<1>1. /\ UNCHANGED <<fs, deleted, dir, nodes, watched>>
      /\ UpToDate({}) /\ Memorized(m)
  BY DEF Find
<1>2. Sound(m, fs, deleted, dir, watched, unsynced) /\ Extends(Memory, m)
  BY FirstFindsIs
<1> HIDE DEF m
<1>3. Fresh(m, fs', unsynced' \cup {}) /\ unsynced' \subseteq Urls
  BY <1>1, <1>2, FreshAfter
<1>4. Sound(m, fs', deleted', dir', watched', unsynced')
  BY <1>1, <1>2, <1>3 DEF Sound
<1>5. DiskPart'
  BY <1>1, <1>3, Begins DEF DiskPart
<1> QED BY <1>1, <1>4, <1>5, EndIInv

LEMMA GetIInv ==
  ASSUME IInv, NEW u \in Urls, Get(u)
  PROVE  IInv'
<1> DEFINE m == Found(Memory, fs, u)
<1>1. /\ File[u] \in Files /\ fs[File[u]] # None
      /\ UNCHANGED <<fs, deleted, dir, nodes, watched>>
      /\ UpToDate({}) /\ Memorized(Read(m, u))
  BY DEF Get
<1>2. /\ Sound(m, fs, deleted, dir, watched, unsynced) /\ Extends(Memory, m)
      /\ m.cache[u] # None
  BY <1>1, FirstFindsIs
<1> HIDE DEF m
<1>3. Fresh(m, fs', unsynced' \cup {}) /\ unsynced' \subseteq Urls
  BY <1>1, <1>2, FreshAfter
<1>4. Sound(m, fs, deleted, dir, watched, unsynced')
  BY <1>1, <1>2, <1>3 DEF Sound
<1>5. Sound(Read(m, u), fs, deleted, dir, watched, unsynced')
  BY <1>1, <1>2, <1>4, Begins, ReadIs
<1>6. DiskPart'
  BY <1>1, <1>3, Begins DEF DiskPart
<1>7. Sound(Read(m, u), fs', deleted', dir', watched', unsynced')
  BY <1>1, <1>5
<1> QED BY <1>1, <1>6, <1>7, EndIInv

LEMMA PropFindIInv ==
  ASSUME IInv, NEW d \in Dirs, PropFind(d)
  PROVE  IInv'
<1> DEFINE m == Found(Memory, fs, d)
<1>1. /\ fs[d] # None
      /\ UNCHANGED <<fs, deleted, dir, nodes, watched>>
      /\ UpToDate({}) /\ Memorized(Listed(m, d))
  BY DEF PropFind
<1>2. d \in Urls /\ File[d] = d
  BY FileIs
<1>3. /\ Sound(m, fs, deleted, dir, watched, unsynced) /\ Needed(m, deleted, dir)
      /\ Extends(Memory, m) /\ m.cache[d] # None
  BY <1>1, <1>2, FirstFindsIs
<1> HIDE DEF m
<1>4. Fresh(m, fs', unsynced' \cup {}) /\ unsynced' \subseteq Urls
  BY <1>1, <1>3, FreshAfter
<1>5. Sound(m, fs, deleted, dir, watched, unsynced')
  BY <1>1, <1>3, <1>4 DEF Sound
<1>6. Sound(Listed(m, d), fs, deleted, dir, watched, unsynced')
  BY <1>3, <1>5, ListedIs
<1>7. DiskPart'
  BY <1>1, <1>4, Begins DEF DiskPart
<1>8. Sound(Listed(m, d), fs', deleted', dir', watched', unsynced')
  BY <1>1, <1>6
<1> QED BY <1>1, <1>7, <1>8, EndIInv

\* What a file or directory that is written, comes or goes changes.
LEMMA Appeared ==
  ASSUME DiskPart, NEW p \in Paths \ {Top}, NEW c \in Contents \cup {None},
         fs' = [fs EXCEPT ![p] = c]
  PROVE  /\ fs' \in [Paths -> Contents \cup {None}] /\ fs'[Top] # None
         /\ fs'[p] = c
         /\ \A q \in Paths \ {p} : fs'[q] = fs[q]
<1>1. fs \in [Paths -> Contents \cup {None}] /\ fs[Top] # None
  BY DEF DiskPart
<1> QED BY <1>1

LEMMA UpdateIInv ==
  ASSUME IInv, NEW u \in Urls, NEW c \in Contents, Update(u, c)
  PROVE  IInv'
<1> DEFINE p == File[u]
           m == Found(Memory, fs, u)
           n == Synced(m, m.cache[u])
<1>1. /\ p \in Files /\ m.cache[u] # None
      /\ fs' = [fs EXCEPT ![p] = c]
      /\ UNCHANGED <<deleted, dir, nodes, watched>>
      /\ UpToDate({u}) /\ Memorized(n)
  BY DEF Update
<1>2. Sound(m, fs, deleted, dir, watched, unsynced) /\ Extends(Memory, m)
  BY FirstFindsIs
<1> HIDE DEF m
<1>3. p \in Paths /\ p # Top /\ c # None
  BY <1>1
<1>4. /\ fs' \in [Paths -> Contents \cup {None}] /\ fs'[Top] # None
      /\ fs'[p] = c /\ \A q \in Paths \ {p} : fs'[q] = fs[q]
  <2> HIDE DEF p
  <2> QED BY <1>1, <1>3, Begins, Appeared
<1>5. Fresh(m, fs', unsynced' \cup {u}) /\ unsynced' \subseteq Urls
  BY <1>1, <1>2, FreshAfter
<1>6. ASSUME NEW i \in watched PROVE fs[m.res[i].url] = None <=> fs'[m.res[i].url] = None
  <2>1. m.res[i].url \in Lone
    BY <1>2, WatchedUrls
  <2>2. CASE m.res[i].url = p
    <3>1. u = p /\ \A v \in Urls : File[v] = p => v = u
      BY <2>1, <2>2, LoneIs
    <3>2. fs[p] # None
      BY <1>1, <1>2, <3>1 DEF Sound, Real
    <3> QED BY <1>3, <1>4, <2>2, <3>2
  <2>3. CASE m.res[i].url # p
    BY <1>4, <2>1, <2>3, LoneIs
  <2> QED BY <2>2, <2>3
<1>7. \A q \in Paths : fs[q] # None => fs'[q] # None
  BY <1>3, <1>4
<1>8. Sound(m, fs', deleted, dir, watched, unsynced' \cup {u})
  BY <1>2, <1>5, <1>6, <1>7, FilesChange
<1>9. Sound(n, fs', deleted, dir, watched, (unsynced' \cup {u}) \ {u})
  BY <1>8, SyncedIs
<1>10. (unsynced' \cup {u}) \ {u} = unsynced'
  BY <1>1 DEF UpToDate
<1>11. DiskPart'
  BY <1>1, <1>4, <1>5, Begins DEF DiskPart
<1> HIDE DEF n
<1>12. Sound(n, fs', deleted', dir', watched', unsynced')
  BY <1>1, <1>9, <1>10
<1> QED BY <1>1, <1>11, <1>12, EndIInv

\* PUT on a file that was deleted: who watches the deleted resource is told.
LEMMA RestoreIInv ==
  ASSUME IInv, NEW u \in Urls, NEW c \in Contents, Restore(u, c)
  PROVE  IInv'
<1> DEFINE p == File[u]
           w == Made(p)
           k == deleted[w]
           m == Found(Memory, fs, Base(p))
           n == [cache |-> [m.cache EXCEPT ![w] = k], res |-> m.res]
           T == unsynced' \cup {w}
<1>1. /\ p \in Files /\ fs[p] = None /\ k # None
      /\ fs' = [fs EXCEPT ![p] = c]
      /\ deleted' = [deleted EXCEPT ![w] = None]
      /\ UNCHANGED <<dir, nodes, watched>>
      /\ UpToDate({w}) /\ Memorized(Synced(n, k))
  BY DEF Restore, Missing, Forgotten, Restored
<1>2. p \in Paths /\ p # Top /\ c # None
  BY <1>1
<1>3. w \in Urls /\ File[w] = p /\ Base(p) \in Urls
  <2> HIDE DEF p
  <2> QED BY <1>2, NamesAre
<1> HIDE DEF p, w
<1>4. Sound(m, fs, deleted, dir, watched, unsynced) /\ Extends(Memory, m)
  BY <1>3, FirstFindsIs
<1> HIDE DEF m, k
<1>5. /\ fs' \in [Paths -> Contents \cup {None}] /\ fs'[Top] # None
      /\ fs'[p] = c /\ \A q \in Paths \ {p} : fs'[q] = fs[q]
  BY <1>1, <1>2, Begins, Appeared
<1>6. Fresh(m, fs', T) /\ unsynced' \subseteq Urls
  BY <1>1, <1>4, FreshAfter
<1>7. /\ Typed(m) /\ Keyed(m) /\ Real(m, fs)
      /\ Apart(m, deleted, dir) /\ Told(m, fs, deleted, watched)
  BY <1>4 DEF Sound
<1>8. k \in DOMAIN m.res /\ m.res[k].url = w /\ m.cache[w] # k /\ k \in Ids
  BY <1>1, <1>3, <1>7 DEF Apart, k
<1>9. /\ n.res = m.res /\ n.cache = [m.cache EXCEPT ![w] = k]
      /\ n = [cache |-> n.cache, res |-> n.res]
  OBVIOUS
<1> HIDE DEF n
<1>10. n.cache[w] = k /\ \A v \in Urls \ {w} : n.cache[v] = m.cache[v]
  BY <1>3, <1>7, <1>9 DEF Typed
<1>11. deleted'[w] = None /\ \A v \in Urls \ {w} : deleted'[v] = deleted[v]
  BY <1>1, <1>3, Begins
<1>12. Sound(n, fs', deleted', dir', watched', T)
  <2>1. Typed(n)
    <3>1. n.cache \in [Urls -> Ids \cup {None}]
      BY <1>7, <1>8, <1>9 DEF Typed
    <3> QED BY <1>7, <1>9, <3>1 DEF Typed
  <2>2. Keyed(n)
    BY <1>7, <1>8, <1>9, <1>10 DEF Keyed
  <2>3. Real(n, fs')
    <3> SUFFICES ASSUME NEW v \in Urls, n.cache[v] # None, fs'[File[v]] = None
                 PROVE  \E x \in Urls \ {v} : File[x] = File[v] /\ n.cache[x] = None
      BY DEF Real
    <3>1. File[v] # p /\ File[v] \in Paths /\ v # w
      BY <1>2, <1>3, <1>5, FileIs
    <3>2. fs[File[v]] = None /\ m.cache[v] # None
      BY <1>5, <1>10, <3>1
    <3>3. PICK x \in Urls \ {v} : File[x] = File[v] /\ m.cache[x] = None
      BY <1>7, <3>2 DEF Real
    <3> QED BY <1>3, <1>10, <3>1, <3>3
  <2>4. Fresh(n, fs', T)
    <3> SUFFICES ASSUME NEW v \in Urls \ T, n.cache[v] # None PROVE FreshAt(n, fs', v)
      BY DEF Fresh
    <3>1. v # w /\ n.cache[v] = m.cache[v]
      BY <1>10
    <3> QED BY <1>6, <1>9, <3>1 DEF Fresh, FreshAt
  <2>5. Apart(n, deleted', dir')
    <3>1. deleted' \in [Urls -> Ids \cup {None}] /\ dir' = dir
      BY <1>1, Begins
    <3> QED BY <1>7, <1>9, <1>10, <1>11, <3>1 DEF Apart
  <2>6. Told(n, fs', deleted', watched')
    <3> SUFFICES ASSUME NEW i \in watched PROVE ToldAt(n, fs', deleted', i)
      BY <1>1 DEF Told
    <3> DEFINE x == m.res[i].url
    <3>1. ToldAt(m, fs, deleted, i) /\ x \in Lone /\ n.res = m.res
      BY <1>7, <1>9 DEF Told, ToldAt
    <3>2. x \in Paths /\ x \in Urls /\ \A v \in Urls : File[v] = x => v = x
      BY <3>1, LoneIs
    <3>3. CASE x = p
      <4>1. w = x
        BY <1>3, <3>2, <3>3
      <4>2. deleted[x] = i
        BY <1>1, <3>1, <3>3 DEF ToldAt
      <4>3. n.cache[x] = i
        BY <1>10, <4>1, <4>2 DEF k
      <4> QED BY <1>2, <1>5, <3>1, <3>3, <4>3 DEF ToldAt
    <3>4. CASE x # p
      <4>1. x # w
        BY <1>3, <3>1, <3>4, LoneIs
      <4>2. n.cache[x] = m.cache[x] /\ deleted'[x] = deleted[x] /\ fs'[x] = fs[x]
        BY <1>5, <1>10, <1>11, <3>2, <3>4, <4>1
      <4> QED BY <3>1, <4>2 DEF ToldAt
    <3> QED BY <3>3, <3>4
  <2> QED BY <2>1, <2>2, <2>3, <2>4, <2>5, <2>6 DEF Sound
<1>13. Sound(Synced(n, k), fs', deleted', dir', watched', T \ {w})
  BY <1>10, <1>12, SyncedIs
<1>14. T \ {w} = unsynced'
  BY <1>1 DEF UpToDate
<1>15. DiskPart'
  BY <1>1, <1>5, <1>6, Begins DEF DiskPart
<1> QED BY <1>1, <1>13, <1>14, <1>15, EndIInv

LEMMA CreateIInv ==
  ASSUME IInv, NEW u \in Urls, NEW c \in Contents, Create(u, c)
  PROVE  IInv'
<1> DEFINE p == File[u]
           b == Base(p)
           w == Made(p)
           m == Found(Memory, fs, b)
           l == Synced(m, m.cache[b])
           n == Found(l, fs', w)
           T == unsynced' \cup {b}
<1>1. /\ p # Top /\ fs[p] = None
      /\ p \in Files => deleted[w] = None
      /\ fs' = [fs EXCEPT ![p] = c]
      /\ UNCHANGED <<deleted, dir, nodes, watched>>
      /\ UpToDate({b}) /\ Memorized(n)
  BY DEF Create, Missing, Created
<1>2. p \in Paths /\ c # None
  BY FileIs
<1> HIDE DEF p
<1>3. w \in Urls /\ b \in Urls /\ (p \notin Firsts => w = p)
  BY <1>1, <1>2, NamesAre
<1> HIDE DEF w, b
<1>4. /\ Sound(m, fs, deleted, dir, watched, unsynced) /\ Extends(Memory, m)
      /\ Needed(m, deleted, dir)
  BY <1>3, FirstFindsIs
<1> HIDE DEF m
<1>5. /\ fs' \in [Paths -> Contents \cup {None}] /\ fs'[Top] # None
      /\ fs'[p] = c /\ \A q \in Paths \ {p} : fs'[q] = fs[q]
  BY <1>1, <1>2, Begins, Appeared
<1>6. Fresh(m, fs', T) /\ unsynced' \subseteq Urls
  BY <1>1, <1>4, FreshAfter
<1>7. ASSUME NEW i \in watched PROVE fs[m.res[i].url] = None <=> fs'[m.res[i].url] = None
  <2>1. /\ m.res[i].url \in Lone /\ m.res[i].url = res[i].url /\ i # None
        /\ fs[res[i].url] = None => deleted[res[i].url] = i
    BY <1>4, WatchedUrls
  <2>2. m.res[i].url # p
    <3> SUFFICES ASSUME m.res[i].url = p PROVE FALSE
      OBVIOUS
    <3>1. p \in Files /\ w = p
      BY <1>3, <2>1 DEF Lone
    <3> QED BY <1>1, <2>1, <3>1
  <2> QED BY <1>5, <2>1, <2>2, LoneIs
<1>8. \A q \in Paths : fs[q] # None => fs'[q] # None
  BY <1>2, <1>5
<1> HIDE DEF T
<1>9. Sound(m, fs', deleted, dir, watched, T)
  BY <1>4, <1>6, <1>7, <1>8, FilesChange
<1>10. /\ Sound(l, fs', deleted, dir, watched, T \ {b})
       /\ l.cache = m.cache /\ DOMAIN l.res = DOMAIN m.res
  <2> DEFINE k == m.cache[b]
  <2>1. m.cache[b] \in {k, None}
    OBVIOUS
  <2>2. l = Synced(m, k)
    OBVIOUS
  <2> HIDE DEF l, k
  <2> QED BY <1>9, <2>1, <2>2, SyncedAt
<1> HIDE DEF l
<1>11. Needed(l, deleted, dir)
  BY <1>4, <1>10 DEF Needed
<1>12. Sound(n, fs', deleted, dir, watched, T \ {b})
  BY <1>3, <1>10, <1>11, FoundIs
<1>13. T \ {b} = unsynced'
  BY <1>1 DEF UpToDate, T
<1>14. DiskPart'
  BY <1>1, <1>5, <1>6, Begins DEF DiskPart
<1> HIDE DEF n
<1>15. Sound(n, fs', deleted', dir', watched', unsynced')
  BY <1>1, <1>12, <1>13
<1> QED BY <1>1, <1>14, <1>15, EndIInv

\* What is below a file or directory, and what delete takes out of the cache.
LEMMA TreeIs ==
  ASSUME NEW p \in Paths \ {Top}
  PROVE  /\ p \in Tree[p] /\ Top \notin Tree[p]
         /\ Tree[p] \subseteq Dropped(p) /\ Dropped(p) \subseteq Paths
<1>0. Tree[p] = {q \in Paths : \A C \in SUBSET Paths : p \in C /\ Closed(C) => q \in C}
  BY DEF Tree
<1>1. p \in Tree[p]
  BY <1>0
<1>2. Top \notin Tree[p]
  <2>1. Closed(Paths \ {Top})
    BY DEF Closed
  <2> QED BY <1>0, <2>1
<1>3. Dropped(p) \in SUBSET Paths /\ p \in Dropped(p)
  BY DEF Dropped
<1>4. Closed(Dropped(p))
  <2>1. CASE p \in Dirs
    <3> SUFFICES ASSUME NEW q \in Paths \ {Top}, Parent[q] \in Prefixed[p]
                 PROVE  q \in Prefixed[p]
      BY <2>1 DEF Closed, Dropped
    <3>1. Parent[q] \in Dirs /\ q \in Prefixed[Parent[q]]
      OBVIOUS
    <3> QED BY <2>1, <3>1
  <2>2. CASE p \notin Dirs
    BY <2>2 DEF Closed, Dropped
  <2> QED BY <2>1, <2>2
<1> QED BY <1>0, <1>1, <1>2, <1>3, <1>4

\* What is left of the files.
LEMMA Vanished ==
  ASSUME DiskPart, NEW P \in SUBSET Paths, Top \notin P, fs' = Without(P)
  PROVE  /\ fs' \in [Paths -> Contents \cup {None}] /\ fs'[Top] # None
         /\ \A q \in P : fs'[q] = None
         /\ \A q \in Paths \ P : fs'[q] = fs[q]
         /\ \A q \in Paths : fs'[q] \in {None, fs[q]}
<1>1. fs' = [q \in Paths |-> IF q \in P THEN None ELSE fs[q]]
  BY DEF Without
<1>2. fs \in [Paths -> Contents \cup {None}] /\ fs[Top] # None /\ Top \in Paths
  BY DEF DiskPart
<1> QED BY <1>1, <1>2

\* DELETE: the resource of a file is kept with those that are deleted.
LEMMA DeleteIInv ==
  ASSUME IInv, NEW u \in Asked, Delete(u)
  PROVE  IInv'
<1> DEFINE p == File[u]
           b == Base(p)
           D == Dropped(u)
           l == Found(Memory, fs, u)
           m == Found(l, fs, b)
           n == Uncached(m, D)
           T == unsynced' \cup {b}
<1>1. /\ p # Top /\ m.cache[u] # None
      /\ fs' = Without(Tree[p])
      /\ deleted' = IF p \in Files THEN [deleted EXCEPT ![u] = m.cache[u]] ELSE deleted
      /\ watched' = watched \ WatchersOf(D \ {u})
      /\ UNCHANGED <<dir, nodes>>
      /\ UpToDate({b}) /\ Memorized(Synced(n, m.cache[b]))
  BY DEF Delete
<1>2. /\ u \in Urls /\ p \in Paths
      /\ u \notin Dirs => p \in Files /\ D = {u}
      /\ u \in Dirs => u = p
      /\ u \in Paths => u = p
  BY FileIs DEF Asked, Dropped
<1>3. /\ p \in Tree[p] /\ Top \notin Tree[p] /\ Tree[p] \in SUBSET Paths
      /\ Tree[p] \subseteq Dropped(p) /\ Dropped(p) \subseteq Paths
  <2> HIDE DEF p
  <2> QED BY <1>1, <1>2, TreeIs
<1>4. D \in SUBSET Urls /\ u \in D
  BY <1>2, <1>3, FileIs DEF Dropped
<1>5. \A v \in Urls \ D : File[v] \in Tree[p] => \E x \in D : x # v /\ File[x] = File[v]
  <2> SUFFICES ASSUME NEW v \in Urls \ D, File[v] \in Tree[p]
               PROVE  \E x \in D : x # v /\ File[x] = File[v]
    OBVIOUS
  <2>1. CASE u \in Dirs
    <3>1. File[v] \in D /\ File[File[v]] = File[v]
      BY <1>2, <1>3, <2>1, FileIs
    <3> QED BY <3>1
  <2>2. CASE u \notin Dirs
    <3>1. File[v] = p /\ File[u] = p /\ u \in D /\ u # v
      BY <1>2, <1>3, <1>4, <2>2 DEF Dropped
    <3> QED BY <3>1
  <2> QED BY <2>1, <2>2
<1> HIDE DEF D
<1>6. b \in Urls
  <2> HIDE DEF p
  <2> QED BY <1>1, <1>2, NamesAre
<1> HIDE DEF b
<1>7. /\ Sound(l, fs, deleted, dir, watched, unsynced) /\ Extends(Memory, l)
      /\ Needed(l, deleted, dir)
  BY <1>2, FirstFindsIs
<1> HIDE DEF l
<1>8. /\ Sound(m, fs, deleted, dir, watched, unsynced) /\ Extends(Memory, m)
  BY <1>6, <1>7, FindsIs
<1> HIDE DEF m
<1>9. /\ fs' \in [Paths -> Contents \cup {None}] /\ fs'[Top] # None
      /\ \A q \in Tree[p] : fs'[q] = None
      /\ \A q \in Paths \ Tree[p] : fs'[q] = fs[q]
      /\ \A q \in Paths : fs'[q] \in {None, fs[q]}
  <2> HIDE DEF p
  <2> QED BY <1>1, <1>3, Begins, Vanished
<1>10. Fresh(m, fs', T) /\ unsynced' \subseteq Urls
  BY <1>1, <1>8, FreshAfter
<1>11. Typed(m) /\ Keyed(m) /\ Real(m, fs)
  BY <1>8 DEF Sound
<1>12. /\ deleted' \in [Urls -> Ids \cup {None}]
       /\ \A v \in Urls : \/ deleted'[v] = deleted[v]
                          \/ v \in D /\ File[v] \in Files /\ deleted'[v] = m.cache[v]
       /\ p \in Files => deleted'[u] = m.cache[u]
  <2>1. m.cache[u] \in Ids \cup {None}
    BY <1>2, <1>11 DEF Typed
  <2> QED BY <1>1, <1>2, <1>4, <2>1, Begins
<1>13. \A v \in Urls \ D : fs'[File[v]] # fs[File[v]] =>
         \E x \in D : x # v /\ File[x] = File[v]
  BY <1>5, <1>9, FileIs
<1>14. ASSUME NEW i \in watched'
       PROVE  /\ i \in watched
              /\ m.res[i].url \in D => fs'[m.res[i].url] = None /\ deleted'[m.res[i].url] = i
  <2>1. i \in watched /\ res[i].url \notin D \ {u}
    BY <1>1 DEF WatchersOf
  <2>2. /\ res[i].url \in Lone /\ m.res[i].url = res[i].url
        /\ fs[res[i].url] # None => cache[res[i].url] = i
        /\ i # None
    BY <1>8, <2>1, WatchedUrls
  <2>3. CASE m.res[i].url = u
    <3>1. u = p /\ p \in Files /\ \A v \in Urls : File[v] = u => v = u
      BY <1>2, <2>2, <2>3, LoneIs
    <3>2. fs[u] # None
      BY <1>1, <1>2, <1>11, <3>1 DEF Real
    <3>3. m.cache[u] = i
      <4>1. cache[u] = i
        BY <2>2, <2>3, <3>2
      <4> QED BY <1>2, <1>8, <2>2, <4>1, Begins DEF Extends
    <3> QED BY <1>3, <1>9, <1>12, <2>1, <2>3, <3>1, <3>3
  <2>4. CASE m.res[i].url # u
    BY <2>1, <2>2, <2>4
  <2> QED BY <2>3, <2>4
<1>15. \A d \in Folders : dir[d] \in {None, dir[d]}
  OBVIOUS
<1> HIDE DEF T
<1>16. Sound(n, fs', deleted', dir, watched', T)
  <2>1. dir \in [Folders -> Ids \cup {None}]
    BY Begins
  <2> HIDE DEF n
  <2>2. Sound(Uncached(m, D), fs', deleted', dir, watched', T)
    BY ONLY <1>4, <1>8, <1>9, <1>10, <1>12, <1>13, <1>14, <1>15, <2>1, UncachedIs
  <2> QED BY <2>2 DEF n
<1>17. Sound(Synced(n, m.cache[b]), fs', deleted', dir, watched', T \ {b})
  <2>1. n.cache[b] \in {m.cache[b], None}
    BY <1>6 DEF Uncached
  <2> HIDE DEF n
  <2> QED BY <1>16, <2>1, SyncedIs
<1>18. T \ {b} = unsynced' /\ dir' = dir
  BY <1>1 DEF UpToDate, T
<1>19. DiskPart'
  BY <1>1, <1>9, <1>10, Begins DEF DiskPart
<1> HIDE DEF n
<1>20. Sound(Synced(n, m.cache[b]), fs', deleted', dir', watched', unsynced')
  BY <1>17, <1>18
<1> QED BY <1>1, <1>19, <1>20, EndIInv

\* move: the resource of the old url is that of the new one, and its watchers keep it
\* if that is one an editor forms.
LEMMA RekeyedIs ==
  ASSUME NEW m, NEW g, NEW del, NEW dr, NEW W, NEW U, Sound(m, g, del, dr, W, U),
         NEW u \in Urls, NEW w \in Urls, NEW p \in Files, NEW q \in Files, p # q,
         File[u] = p, File[w] = q, NEW k, m.cache[u] = k, k # None,
         NEW h, h[p] = None, h[q] # None, \A x \in Paths \ {p, q} : h[x] = g[x],
         NEW V, \A i \in V : i \in W /\ m.res[i].url # q /\ (i = k => w \in Lone),
         NEW T, w \in T, Fresh(m, h, T)
  PROVE  /\ Sound(Rekeyed(m, u, w), h, del, dr, V, T)
         /\ Rekeyed(m, u, w).cache[w] = k
         /\ \A v \in Urls \ {u, w} : Rekeyed(m, u, w).cache[v] = m.cache[v]
<1> DEFINE R == [m.res EXCEPT ![k].url = w]
           r == [cache |-> [m.cache EXCEPT ![u] = None, ![w] = k], res |-> R]
<1>1. /\ Typed(m) /\ Keyed(m) /\ Real(m, g) /\ Fresh(m, h, T)
      /\ Apart(m, del, dr) /\ Told(m, g, del, W) /\ u # w
  BY DEF Sound
<1>2. k \in DOMAIN m.res /\ m.res[k].url = u /\ k \in Ids
  BY <1>1 DEF Keyed, Typed
<1>3. DOMAIN R = DOMAIN m.res /\ \A i \in DOMAIN m.res \ {k} : R[i] = m.res[i]
  OBVIOUS
<1>4. R[k] = [m.res[k] EXCEPT !.url = w]
  BY <1>2
<1>5. R[k] \in Resource /\ R[k].url = w
  <2>1. m.res[k] \in Resource
    BY <1>1, <1>2 DEF Typed
  <2> HIDE DEF R
  <2> QED BY <1>1, <1>2, <1>4, <2>1 DEF Resource
<1>6. R = [i \in DOMAIN m.res |-> R[i]]
  BY <1>1 DEF Typed
<1> HIDE DEF R
<1>7. R \in [DOMAIN m.res -> Resource]
  BY <1>1, <1>3, <1>5, <1>6 DEF Typed
<1>8. /\ r.cache = [m.cache EXCEPT ![u] = None, ![w] = k] /\ r.res = R
      /\ r = [cache |-> r.cache, res |-> r.res]
  OBVIOUS
<1> HIDE DEF r
<1>9. /\ r.cache[u] = None /\ r.cache[w] = k
      /\ \A x \in Urls \ {u, w} : r.cache[x] = m.cache[x]
  BY <1>1, <1>8 DEF Typed
<1>10. r.cache \in [Urls -> Ids \cup {None}]
  BY <1>1, <1>2, <1>8 DEF Typed
<1>11. \A x \in Urls \ {u, w} : m.cache[x] # None =>
         m.cache[x] # k /\ m.cache[x] \in DOMAIN m.res
  BY <1>1, <1>2 DEF Keyed
<1>12. Typed(r)
  BY <1>1, <1>3, <1>7, <1>8, <1>10 DEF Typed
<1>13. Keyed(r)
  BY <1>1, <1>2, <1>3, <1>5, <1>8, <1>9, <1>11 DEF Keyed
<1>14. Real(r, h)
  <2> SUFFICES ASSUME NEW v \in Urls, r.cache[v] # None, h[File[v]] = None
               PROVE  \E x \in Urls \ {v} : File[x] = File[v] /\ r.cache[x] = None
    BY DEF Real
  <2>1. v # u /\ File[v] # q /\ v # w /\ File[v] \in Paths
    BY <1>9, FileIs
  <2>2. CASE File[v] = p
    BY <1>9, <2>1, <2>2
  <2>3. CASE File[v] # p
    <3>1. g[File[v]] = None /\ m.cache[v] # None
      BY <1>9, <2>1, <2>3
    <3>2. PICK x \in Urls \ {v} : File[x] = File[v] /\ m.cache[x] = None
      BY <1>1, <3>1 DEF Real
    <3>3. x # u /\ x # w
      BY <2>1, <2>3, <3>2
    <3> QED BY <1>9, <3>2, <3>3
  <2> QED BY <2>2, <2>3
<1>15. Fresh(r, h, T)
  <2> SUFFICES ASSUME NEW x \in Urls \ T, r.cache[x] # None PROVE FreshAt(r, h, x)
    BY DEF Fresh
  <2>1. x # u /\ x # w /\ x \notin T
    BY <1>9
  <2>2. FreshAt(m, h, x) /\ r.cache[x] = m.cache[x] /\ r.res[r.cache[x]] = m.res[m.cache[x]]
    BY <1>1, <1>3, <1>8, <1>9, <1>11, <2>1 DEF Fresh
  <2> QED BY <2>1, <2>2 DEF FreshAt
<1>16. Apart(r, del, dr)
  <2>1. ASSUME NEW x \in Urls, del[x] # None
        PROVE  /\ File[x] \in Files
               /\ del[x] \in DOMAIN r.res /\ r.res[del[x]].url = x
               /\ r.cache[x] # del[x]
    <3>1. /\ File[x] \in Files /\ del[x] \in DOMAIN m.res /\ m.res[del[x]].url = x
          /\ m.cache[x] # del[x]
      BY <1>1, <2>1 DEF Apart
    <3>2. del[x] # k
      BY <1>2, <3>1
    <3> QED BY <1>3, <1>8, <1>9, <2>1, <3>1, <3>2
  <2>2. ASSUME NEW d \in Folders, dr[d] # None
        PROVE  dr[d] \in DOMAIN r.res /\ r.res[dr[d]].url = d
    <3>1. dr[d] \in DOMAIN m.res /\ m.res[dr[d]].url = d
      BY <1>1, <2>2 DEF Apart
    <3>2. File[d] = d /\ d \in Dirs
      BY FileIs DEF Folders
    <3>3. dr[d] # k
      BY <1>2, <3>1, <3>2
    <3> QED BY <1>3, <1>8, <3>1, <3>3
  <2> QED BY <1>1, <2>1, <2>2 DEF Apart
<1>17. Told(r, h, del, V)
  <2> SUFFICES ASSUME NEW i \in V PROVE ToldAt(r, h, del, i)
    BY DEF Told
  <2> DEFINE x == m.res[i].url
  <2>1. ToldAt(m, g, del, i) /\ x # q /\ x \in Lone /\ (i = k => w \in Lone)
    BY <1>1 DEF Told, ToldAt
  <2>2. CASE i = k
    <3>1. w \in Lone /\ File[w] = w /\ h[w] # None
      BY <2>1, <2>2, LoneIs
    <3>2. r.res[i].url = w /\ i \in DOMAIN r.res
      BY <1>2, <1>3, <1>5, <1>8, <2>2
    <3> QED BY <1>9, <2>2, <3>1, <3>2 DEF ToldAt
  <2>3. CASE i # k
    <3>1. x \in Paths /\ x \in Urls /\ File[x] = x /\ \A v \in Urls : File[v] = x => v = x
      BY <2>1, LoneIs
    <3>2. x # p
      <4> SUFFICES ASSUME x = p PROVE FALSE
        OBVIOUS
      <4>1. u = x
        BY <3>1
      <4>2. g[x] # None
        BY <1>1, <3>1, <4>1 DEF Real
      <4> QED BY <2>1, <2>3, <4>1, <4>2 DEF ToldAt
    <3>3. x # u /\ x # w
      BY <2>1, <3>1, <3>2
    <3>4. r.res[i] = m.res[i] /\ i \in DOMAIN r.res
      BY <1>3, <1>8, <2>1, <2>3 DEF ToldAt
    <3>5. h[x] = g[x] /\ r.cache[x] = m.cache[x]
      BY <1>9, <2>1, <3>1, <3>2, <3>3
    <3> QED BY <2>1, <3>4, <3>5 DEF ToldAt
  <2> QED BY <2>2, <2>3
<1>18. Sound(r, h, del, dr, V, T)
  BY <1>12, <1>13, <1>14, <1>15, <1>16, <1>17 DEF Sound
<1> QED BY <1>9, <1>18 DEF Rekeyed, r, R

LEMMA MoveIInv ==
  ASSUME IInv, NEW u \in Urls, NEW q \in Files, Move(u, q)
  PROVE  IInv'
<1> DEFINE p == File[u]
           b == Base(p)
           e == Base(q)
           w == Made(q)
           l1 == Found(Memory, fs, u)
           l2 == Found(l1, fs, b)
           m == Found(l2, fs, e)
           k == m.cache[u]
           kb == m.cache[b]
           ke == m.cache[e]
           n1 == Rekeyed(m, u, w)
           n2 == Synced(n1, k)
           n3 == Synced(n2, kb)
           n4 == Synced(n3, ke)
           T == unsynced' \cup {w, b, e}
<1>1. /\ p \in Files /\ p # q /\ fs[p] # None
      /\ fs' = [fs EXCEPT ![p] = None, ![q] = fs[p]]
      /\ watched' = {i \in watched \ WatchersOf({q}) : q \in Firsts => i # k}
      /\ UNCHANGED <<deleted, dir, nodes>>
      /\ UpToDate({w, b, e}) /\ Memorized(n4)
  BY DEF Move
<1>2. p \in Paths /\ q \in Paths /\ p # Top /\ q # Top
  BY <1>1
<1>3. /\ w \in Urls /\ File[w] = q /\ e \in Urls /\ File[e] \in Dirs
      /\ q \notin Firsts => w = q
  BY <1>2, NamesAre
<1>4. b \in Urls /\ File[b] \in Dirs
  <2> HIDE DEF p
  <2> QED BY <1>2, NamesAre
<1>5. b # u /\ b # w /\ e # u /\ e # w /\ File[u] = p
  BY <1>1, <1>3, <1>4
<1> HIDE DEF p, b, e, w
<1>6. /\ Sound(l1, fs, deleted, dir, watched, unsynced) /\ Needed(l1, deleted, dir)
      /\ Extends(Memory, l1) /\ l1.cache[u] # None
  BY <1>1, <1>5, FirstFindsIs
<1> HIDE DEF l1
<1>7. /\ Sound(l2, fs, deleted, dir, watched, unsynced) /\ Needed(l2, deleted, dir)
      /\ Extends(Memory, l2) /\ Extends(l1, l2)
  BY <1>4, <1>6, FindsIs
<1> HIDE DEF l2
<1>8. /\ Sound(m, fs, deleted, dir, watched, unsynced)
      /\ Extends(Memory, m) /\ Extends(l2, m)
  BY <1>3, <1>7, FindsIs
<1> HIDE DEF m
<1>9. k # None
  BY <1>6, <1>7, <1>8 DEF Extends
<1>10. /\ fs' \in [Paths -> Contents \cup {None}] /\ fs'[Top] # None
       /\ fs'[p] = None /\ fs'[q] # None
       /\ \A x \in Paths \ {p, q} : fs'[x] = fs[x]
  BY <1>1, <1>2, Begins DEF DiskPart
<1>11. Fresh(m, fs', T) /\ unsynced' \subseteq Urls
  BY <1>1, <1>8, FreshAfter
<1>12. \A i \in watched' : i \in watched /\ m.res[i].url # q /\ (i = k => w \in Lone)
  <2> SUFFICES ASSUME NEW i \in watched'
               PROVE  i \in watched /\ m.res[i].url # q /\ (i = k => w \in Lone)
    OBVIOUS
  <2>1. i \in watched /\ res[i].url # q /\ (q \in Firsts => i # k)
    BY <1>1 DEF WatchersOf
  <2>2. m.res[i].url = res[i].url
    BY <1>8, <2>1, WatchedUrls
  <2> QED BY <1>3, <2>1, <2>2 DEF Lone
<1> HIDE DEF n1, n2, n3, n4, T, k, kb, ke
<1>13. /\ Sound(n1, fs', deleted, dir, watched', T) /\ n1.cache[w] = k
       /\ n1.cache[b] = kb /\ n1.cache[e] = ke
  <2>1. /\ u \in Urls /\ w \in Urls /\ p \in Files /\ q \in Files /\ p # q
        /\ File[u] = p /\ File[w] = q /\ m.cache[u] = k /\ k # None /\ w \in T
    BY <1>1, <1>3, <1>5, <1>9 DEF k, T
  <2>2. /\ Sound(Rekeyed(m, u, w), fs', deleted, dir, watched', T)
        /\ Rekeyed(m, u, w).cache[w] = k
        /\ \A v \in Urls \ {u, w} : Rekeyed(m, u, w).cache[v] = m.cache[v]
    BY ONLY <2>1, <1>8, <1>10, <1>11, <1>12, RekeyedIs
  <2> QED BY <1>3, <1>4, <1>5, <2>2 DEF n1, kb, ke
<1> DEFINE T2 == T \ {w}
           T3 == T2 \ {b}
           T4 == T3 \ {e}
<1>14. Sound(n2, fs', deleted, dir, watched', T2) /\ n2.cache = n1.cache
  <2>1. n1.cache[w] \in {k, None}
    BY <1>13
  <2> QED BY <1>13, <2>1, SyncedAt DEF n2
<1> HIDE DEF T2
<1>15. Sound(n3, fs', deleted, dir, watched', T3) /\ n3.cache = n2.cache
  <2>1. n2.cache[b] \in {kb, None}
    BY <1>13, <1>14
  <2>2. Sound(n2, fs', deleted, dir, watched', T2)
    BY <1>14
  <2> QED BY <2>1, <2>2, SyncedAt DEF n3
<1> HIDE DEF T3
<1>16. Sound(n4, fs', deleted, dir, watched', T4) /\ n4.cache = n3.cache
  <2>1. n3.cache[e] \in {ke, None}
    BY <1>13, <1>14, <1>15
  <2>2. Sound(n3, fs', deleted, dir, watched', T3)
    BY <1>15
  <2> QED BY <2>1, <2>2, SyncedAt DEF n4
<1>17. T4 = unsynced' /\ deleted' = deleted /\ dir' = dir
  BY <1>1 DEF UpToDate, T, T2, T3
<1> HIDE DEF T4
<1>18. DiskPart'
  BY <1>1, <1>10, <1>11, Begins DEF DiskPart
<1>19. Sound(n4, fs', deleted', dir', watched', unsynced')
  BY <1>16, <1>17
<1> QED BY <1>1, <1>18, <1>19, EndIInv

-----------------------------------------------------------------------------
(* lk.Morph *)

\* A process is added: its files appear, and have resources that are watched.
LEMMA AddProcessIInv ==
  ASSUME IInv, NEW d \in Folders, NEW N \in SUBSET {p \in Files : Parent[p] = d},
         AddProcess(d, N)
  PROVE  IInv'
<1> DEFINE g == [q \in Paths |-> IF q \in N \cup {d} /\ fs[q] = None THEN Empty ELSE fs[q]]
           t == SetToSeq(N)
           s == <<d>> \o t
           c == Cardinality(N)
           m == Loads(Memory, g, s)[1 + c]
           V == watched \ WatchersOf(N)
<1>1. /\ fs' = g /\ dir[d] = None
      /\ dir' = [dir EXCEPT ![d] = m.cache[d]]
      /\ nodes' = nodes \cup N
      /\ watched' = V \cup {m.cache[p] : p \in N}
      /\ deleted' = deleted
      /\ UpToDate({}) /\ Memorized(m)
  BY DEF AddProcess
<1>2. /\ \A p \in N : p \in Lone /\ p \in Files /\ p \in Paths /\ p \in Urls /\ File[p] = p
      /\ d \in Dirs /\ d \in Paths /\ d \in Urls /\ File[d] = d
  BY NodesAre, FileIs DEF Folders
<1>3. Empty \in Contents /\ Empty # None
  BY DEF Empty
<1>4. /\ g \in [Paths -> Contents \cup {None}] /\ g[Top] # None
      /\ \A q \in N \cup {d} : g[q] # None
      /\ \A q \in Paths : fs[q] # None => g[q] # None
      /\ \A q \in Paths \ (N \cup {d}) : g[q] = fs[q]
  BY <1>2, <1>3, Begins DEF DiskPart
<1> HIDE DEF g
<1>5. /\ s \in Seq(Urls) /\ Len(s) = 1 + c
      /\ \A u \in N \cup {d} : \E k \in 1 .. Len(s) : s[k] = u
  <2>1. N \in SUBSET Urls
    BY <1>2
  <2>2. /\ t \in Seq(N) /\ Len(t) = c /\ c \in Nat
        /\ \A u \in N : \E k \in 1 .. c : t[k] = u
    BY <2>1, SetToSeqIs
  <2> HIDE DEF t, c
  <2>3. t \in Seq(Urls)
    BY <2>1, <2>2
  <2>4. /\ s \in Seq(Urls) /\ Len(s) = 1 + c /\ s[1] = d
        /\ \A k \in 1 .. c : s[1 + k] = t[k]
    BY <1>2, <2>2, <2>3
  <2> HIDE DEF s
  <2>5. ASSUME NEW u \in N PROVE \E k \in 1 .. Len(s) : s[k] = u
    <3>1. PICK k \in 1 .. c : t[k] = u
      BY <2>2
    <3>2. 1 + k \in 1 .. Len(s) /\ s[1 + k] = u
      BY <2>2, <2>4, <3>1
    <3> QED BY <3>2
  <2>6. 1 \in 1 .. Len(s)
    BY <2>2, <2>4
  <2> QED BY <2>4, <2>5, <2>6
<1> HIDE DEF s
<1>6. /\ Sound(Memory, fs, deleted, dir, watched, unsynced)
      /\ Needed(Memory, deleted, dir) /\ Extends(Memory, Memory)
  BY Begins, ExtendsSelf
<1>7. Fresh(Memory, g, unsynced') /\ unsynced' \subseteq Urls
  <2>1. Fresh(Memory, fs', unsynced' \cup {}) /\ unsynced' \subseteq Urls
    BY <1>1, <1>6, FreshAfter
  <2> QED BY <1>1, <2>1
<1>8. \A i \in V : i \in watched /\ (fs[Memory.res[i].url] = None <=> g[Memory.res[i].url] = None)
  <2> SUFFICES ASSUME NEW i \in V
               PROVE  i \in watched /\ (fs[Memory.res[i].url] = None <=> g[Memory.res[i].url] = None)
    OBVIOUS
  <2>1. i \in watched /\ res[i].url \notin N
    BY DEF WatchersOf
  <2>2. Memory.res[i].url = res[i].url /\ res[i].url \in Lone
    BY <1>6, <2>1, WatchedUrls
  <2>3. res[i].url \in Paths /\ res[i].url # d
    BY <1>2, <2>2, LoneIs
  <2> QED BY <1>4, <2>1, <2>2, <2>3
<1> HIDE DEF V
<1>9. Sound(Memory, g, deleted, dir, V, unsynced')
  BY <1>4, <1>6, <1>7, <1>8, FilesChange
<1>10. /\ Sound(m, g, deleted, dir, V, unsynced')
       /\ \A k \in 1 .. Len(s) : g[File[s[k]]] # None => m.cache[s[k]] # None
  <2>1. m = Loads(Memory, g, s)[Len(s)]
    BY <1>5
  <2> HIDE DEF m
  <2> DEFINE n == Loads(Memory, g, s)[Len(s)]
  <2>2. /\ Sound(n, g, deleted, dir, V, unsynced')
        /\ \A k \in 1 .. Len(s) : g[File[s[k]]] # None => n.cache[s[k]] # None
    BY <1>5, <1>6, <1>9, LoadsKeep
  <2> HIDE DEF n
  <2> QED BY <2>1, <2>2 DEF n
<1> HIDE DEF m
<1>11. \A u \in N \cup {d} : m.cache[u] # None
  <2> SUFFICES ASSUME NEW u \in N \cup {d} PROVE m.cache[u] # None
    OBVIOUS
  <2>1. PICK k \in 1 .. Len(s) : s[k] = u
    BY <1>5
  <2>2. g[File[u]] # None
    BY <1>2, <1>4
  <2> QED BY <1>10, <2>1, <2>2
<1>12. /\ Typed(m) /\ Keyed(m) /\ Real(m, g) /\ Fresh(m, g, unsynced')
       /\ Apart(m, deleted, dir) /\ Told(m, g, deleted, V)
  BY <1>10 DEF Sound
<1>13. Apart(m, deleted, dir')
  <2>1. m.cache[d] \in Ids \cup {None} /\ m.cache[d] \in DOMAIN m.res /\ m.res[m.cache[d]].url = d
    BY <1>2, <1>11, <1>12 DEF Typed, Keyed
  <2>2. /\ dir' \in [Folders -> Ids \cup {None}]
        /\ dir'[d] = m.cache[d] /\ \A e \in Folders \ {d} : dir'[e] = dir[e]
    BY <1>1, <2>1, Begins
  <2> QED BY <1>12, <2>1, <2>2 DEF Apart
<1>14. Told(m, g, deleted, watched')
  <2> SUFFICES ASSUME NEW p \in N PROVE ToldAt(m, g, deleted, m.cache[p])
    BY <1>1, <1>12 DEF Told
  <2>1. p \in Lone /\ p \in Urls /\ g[p] # None /\ m.cache[p] # None
    BY <1>2, <1>4, <1>11
  <2> QED BY <1>12, <2>1 DEF ToldAt, Keyed
<1>15. Sound(m, fs', deleted', dir', watched', unsynced')
  BY <1>1, <1>12, <1>13, <1>14 DEF Sound
<1>16. DiskPart'
  BY <1>1, <1>2, <1>4, <1>7, Begins DEF DiskPart
<1> QED BY <1>1, <1>15, <1>16, EndIInv

\* A new node: its file is made by the directory of the process.
LEMMA AddNodeIInv ==
  ASSUME IInv, NEW p \in Files, NEW c \in Contents, AddNode(p, c)
  PROVE  IInv'
<1> DEFINE d == Parent[p]
           k == dir[d]
           B == {e \in {d} : cache[e] = dir[e]}
           V == watched \ WatchersOf({p})
           l == Synced(Memory, k)
           m == Found(l, fs', p)
           T == unsynced' \cup B
<1>1. /\ d \in Folders
      /\ fs' = [fs EXCEPT ![p] = c, ![d] = Empty]
      /\ nodes' = nodes \cup {p}
      /\ watched' = V \cup {m.cache[p]}
      /\ UNCHANGED <<deleted, dir>>
      /\ UpToDate(B) /\ Memorized(m)
  BY DEF AddNode, Created
<1>2. /\ p \in Lone /\ p \in Paths /\ p \in Urls /\ File[p] = p /\ p # Top /\ p # d
      /\ d \in Dirs /\ d \in Paths /\ d # Top
  BY <1>1, NodesAre, FileIs
<1>3. \A e \in B : Memory.cache[e] \in {k, None}
  BY Begins
<1> HIDE DEF d
<1>4. Empty \in Contents /\ Empty # None /\ c # None
  BY DEF Empty
<1>5. /\ fs' \in [Paths -> Contents \cup {None}] /\ fs'[Top] # None
      /\ fs'[p] = c /\ \A q \in Paths \ {p, d} : fs'[q] = fs[q]
      /\ \A q \in Paths : fs[q] # None => fs'[q] # None
  BY <1>1, <1>2, <1>4, Begins DEF DiskPart
<1>6. /\ Sound(Memory, fs, deleted, dir, watched, unsynced)
      /\ Needed(Memory, deleted, dir) /\ Extends(Memory, Memory)
  BY Begins, ExtendsSelf
<1>7. Fresh(Memory, fs', T) /\ unsynced' \subseteq Urls
  BY <1>1, <1>6, FreshAfter
<1>8. \A i \in V : /\ i \in watched
                   /\ fs[Memory.res[i].url] = None <=> fs'[Memory.res[i].url] = None
  <2> SUFFICES ASSUME NEW i \in V
               PROVE  /\ i \in watched
                      /\ fs[Memory.res[i].url] = None <=> fs'[Memory.res[i].url] = None
    OBVIOUS
  <2>1. i \in watched /\ res[i].url # p
    BY DEF WatchersOf
  <2>2. Memory.res[i].url = res[i].url /\ res[i].url \in Lone
    BY <1>6, <2>1, WatchedUrls
  <2>3. res[i].url \in Paths /\ res[i].url # d
    BY <1>2, <2>2, LoneIs
  <2> QED BY <1>5, <2>1, <2>2, <2>3
<1> HIDE DEF V, T, B, k
<1>9. Sound(Memory, fs', deleted, dir, V, T)
  BY <1>5, <1>6, <1>7, <1>8, FilesChange
<1>10. /\ Sound(l, fs', deleted, dir, V, T \ B)
       /\ l.cache = Memory.cache /\ DOMAIN l.res = DOMAIN Memory.res
  BY <1>3, <1>9, SyncedIs
<1> HIDE DEF l
<1>11. T \ B = unsynced'
  BY <1>1 DEF UpToDate, T
<1>12. Sound(l, fs', deleted, dir, V, unsynced') /\ Needed(l, deleted, dir)
  BY <1>6, <1>10, <1>11 DEF Needed
<1>13. /\ Sound(m, fs', deleted, dir, V, unsynced') /\ m.cache[p] # None
  BY <1>2, <1>4, <1>5, <1>12, FoundIs
<1> HIDE DEF m
<1>14. ToldAt(m, fs', deleted, m.cache[p])
  BY <1>2, <1>4, <1>5, <1>13 DEF Sound, Keyed, ToldAt
<1>15. Sound(m, fs', deleted', dir', watched', unsynced')
  BY <1>1, <1>13, <1>14 DEF Sound, Told
<1>16. DiskPart'
  BY <1>1, <1>2, <1>5, <1>7, Begins DEF DiskPart
<1> QED BY <1>1, <1>15, <1>16, EndIInv

\* The file of a node, or all that a process has, is removed past the server.
LEMMA RemovedIs ==
  ASSUME IInv, NEW D \in SUBSET Paths, NEW P \in SUBSET D, Top \notin P,
         fs' = Without(P), watched' = watched \ WatchersOf(D),
         deleted' = deleted, nodes' \subseteq Files,
         dir' \in [Folders -> Ids \cup {None}], \A d \in Folders : dir'[d] \in {None, dir[d]},
         UpToDate({}), Memorized(Uncached(Memory, D))
  PROVE  IInv'
<1> DEFINE n == Uncached(Memory, D)
<1>1. /\ fs' \in [Paths -> Contents \cup {None}] /\ fs'[Top] # None
      /\ \A q \in Paths \ P : fs'[q] = fs[q]
      /\ \A q \in Paths : fs'[q] \in {None, fs[q]}
  BY Begins, Vanished
<1>2. Sound(Memory, fs, deleted, dir, watched, unsynced) /\ Extends(Memory, Memory)
  BY Begins, ExtendsSelf
<1>3. Fresh(Memory, fs', unsynced') /\ unsynced' \subseteq Urls
  <2>1. Fresh(Memory, fs', unsynced' \cup {}) /\ unsynced' \subseteq Urls
    BY <1>2, FreshAfter
  <2> QED BY <2>1
<1>4. D \in SUBSET Urls
  BY FileIs
<1>5. ASSUME NEW u \in Urls \ D, fs'[File[u]] # fs[File[u]]
      PROVE  \E v \in D : v # u /\ File[v] = File[u]
  <2>1. File[u] \in Paths
    BY FileIs
  <2>2. File[u] \in D /\ File[File[u]] = File[u]
    BY <1>1, <1>5, <2>1, FileIs
  <2> QED BY <2>2
<1>6. ASSUME NEW i \in watched'
      PROVE  /\ i \in watched
             /\ Memory.res[i].url \in D => fs'[Memory.res[i].url] = None
                                           /\ deleted[Memory.res[i].url] = i
  BY Begins DEF WatchersOf
<1>7. deleted \in [Urls -> Ids \cup {None}] /\ \A u \in Urls : deleted[u] = deleted[u]
  BY Begins
<1> HIDE DEF n
<1>8. Sound(Uncached(Memory, D), fs', deleted, dir', watched', unsynced')
  <2>1. /\ dir' \in [Folders -> Ids \cup {None}]
        /\ \A d \in Folders : dir'[d] \in {None, dir[d]}
    OBVIOUS
  <2> QED BY ONLY <1>1, <1>2, <1>3, <1>4, <1>5, <1>6, <1>7, <2>1, UncachedIs
<1>9. DiskPart'
  BY <1>1, <1>3 DEF DiskPart
<1>10. Sound(Uncached(Memory, D), fs', deleted', dir', watched', unsynced')
  BY <1>8
<1> QED BY <1>9, <1>10, EndIInv

LEMMA RemoveNodeIInv ==
  ASSUME IInv, NEW p \in Files, RemoveNode(p)
  PROVE  IInv'
<1> DEFINE P == IF cache[p] = None THEN {} ELSE {p}
<1>1. /\ fs' = Without(P) /\ watched' = watched \ WatchersOf(P)
      /\ nodes' = nodes \ {p}
      /\ UNCHANGED <<deleted, dir>>
      /\ UpToDate({}) /\ Memorized(Uncached(Memory, P))
  BY DEF RemoveNode
<1>2. P \in SUBSET Paths /\ P \in SUBSET P /\ Top \notin P
  OBVIOUS
<1> HIDE DEF P
<1>3. /\ nodes' \subseteq Files /\ dir' \in [Folders -> Ids \cup {None}]
      /\ \A d \in Folders : dir'[d] \in {None, dir[d]}
  BY <1>1, Begins DEF DiskPart
<1> QED BY <1>1, <1>2, <1>3, RemovedIs

LEMMA RemoveProcessIInv ==
  ASSUME IInv, NEW d \in Folders, RemoveProcess(d)
  PROVE  IInv'
<1>1. /\ fs' = Without(Tree[d]) /\ watched' = watched \ WatchersOf(Dropped(d))
      /\ dir' = [dir EXCEPT ![d] = None]
      /\ nodes' = {p \in nodes : Parent[p] # d}
      /\ deleted' = deleted
      /\ UpToDate({}) /\ Memorized(Uncached(Memory, Dropped(d)))
  BY DEF RemoveProcess
<1>2. d \in Paths \ {Top}
  BY DEF Folders, Firsts
<1>3. /\ Dropped(d) \in SUBSET Paths /\ Tree[d] \in SUBSET Dropped(d) /\ Top \notin Tree[d]
  BY <1>2, TreeIs
<1>4. /\ nodes' \subseteq Files /\ dir' \in [Folders -> Ids \cup {None}]
      /\ \A e \in Folders : dir'[e] \in {None, dir[e]}
  BY <1>1, Begins DEF DiskPart
<1> QED BY <1>1, <1>3, <1>4, RemovedIs

-----------------------------------------------------------------------------
(* The theorems *)

LEMMA NextIInv == IInv /\ [Next]_vars => IInv'
<1> SUFFICES ASSUME IInv, [Next]_vars PROVE IInv'
  OBVIOUS
<1>1. CASE UNCHANGED vars
  BY <1>1 DEF vars, IInv, DiskPart, Memory
<1>2. CASE Next
  <2>1. \A u \in Asked : u \in Urls
    BY DEF Asked
  <2>2. Twice[Top] \in Urls
    BY FileIs
  <2>3. CASE \E u \in Asked \cup {Twice[Top]} : Find(u)
    BY <2>1, <2>2, <2>3, FindIInv
  <2>4. CASE \E u \in Asked : Get(u) \/ Delete(u)
    BY <2>1, <2>4, GetIInv, DeleteIInv
  <2>5. CASE \E u \in Asked, c \in Contents : Update(u, c) \/ Restore(u, c) \/ Create(u, c)
    BY <2>1, <2>5, UpdateIInv, RestoreIInv, CreateIInv
  <2>6. CASE \E u \in Asked, q \in Files : Move(u, q)
    BY <2>1, <2>6, MoveIInv
  <2>7. CASE \E d \in Dirs : PropFind(d)
    BY <2>7, PropFindIInv
  <2>8. CASE \E d \in Folders :
               \/ \E N \in SUBSET {p \in Files : Parent[p] = d} : AddProcess(d, N)
               \/ RemoveProcess(d)
    BY <2>8, AddProcessIInv, RemoveProcessIInv
  <2>9. CASE \E p \in Files : RemoveNode(p) \/ \E c \in Contents : AddNode(p, c)
    BY <2>9, RemoveNodeIInv, AddNodeIInv
  <2> QED BY <1>2, <2>3, <2>4, <2>5, <2>6, <2>7, <2>8, <2>9 DEF Next
<1> QED BY <1>1, <1>2

LEMMA AlwaysIInv == Spec => []IInv
BY InitIInv, NextIInv, PTL DEF Spec

\* Whatever an editor and the patch ask for, the tables of FileResource.root, of
\* DavServer and of the processes refer to resources that exist, a deleted resource
\* is not found any more, a file has no list and a directory no body. Three resources
\* for each url are as many as there can be.
THEOREM TypeCorrect == Spec => []TypeOK
BY AlwaysIInv, IInvIsEnough, PTL

\* FileResource.root.cache has a resource at its own url only, and only while there
\* is a file, except at one of the two urls of the root and of what is in it, when
\* that was removed by the other: a deletion drops every url that begins like that of
\* the directory, and so no less than what is below it; a move takes the resource to
\* the new url.
THEOREM CachedIsReal == Spec => []CacheIsReal
BY AlwaysIInv, IInvIsEnough, PTL

\* The bodies and lists that are served from the cache are those on disk, but for the
\* urls in unsynced, which were cached when the file changed and were not synced
\* since: the list at "", the other one of two urls, and what lk.Morph or the
\* restoring of a deleted file changed past the directory. What was not cached when
\* the file changed is never out of date.
THEOREM CachedIsFresh == Spec => []CacheIsFresh
BY AlwaysIInv, IInvIsEnough, PTL

\* DavServer.deleted keeps the resource of a deleted file until the url is created
\* again: whoever watches it then is told of the new content. That holds below the
\* directories of the root; what is moved to the root, deleted with its directory or
\* added anew is given up (see watched' in each action).
THEOREM WatchersAreReached == Spec => []WatchersReached
BY AlwaysIInv, IInvIsEnough, PTL
==============================================================================
