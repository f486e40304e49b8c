-------------------------------- MODULE Files --------------------------------
(***************************************************************************)
(* The resources that represent the files of a project:                    *)
(* lk.FileResource (lk/lib/lk/FileResource.lua), as lk.DavServer serves    *)
(* them to an editor and as lk.Morph uses and watches them. A resource is  *)
(* found by its url in root.cache, and caches the body of a file or the    *)
(* list of the children of a directory.                                    *)
(*                                                                         *)
(* A path names a file: "" is the root, "/dir" and "/dirty" are in it. The *)
(* root and what is in it have a second url with one slash more, which is  *)
(* a second resource: DavServer finds the parent of "/dirty" as "/", and   *)
(* what it makes or moves there gets the url "//dirty".                    *)
(*                                                                         *)
(* A request is a step: requests do not wait while they are served. Left   *)
(* out: moves of directories (whose children keep their old urls), moves   *)
(* of a file to the url it has, the files lk.Morph keeps for itself (.lkp, *)
(* _patch.yml), news of a process that was removed, and programs that      *)
(* change the files behind the back of this one.                           *)
(***************************************************************************)
EXTENDS Integers, FiniteSets, Sequences, SequencesExt, Functions

CONSTANTS
  Paths,        \* urls as an editor forms them
  Dirs,         \* those that are directories, when they exist
  Top,          \* the root
  Parent,       \* the directory of a path
  Twice,        \* the other url of the root and of what is in it
  Prefixed,     \* paths that begin with the letters of a directory's
  Contents      \* what a file may hold

None == 0
Files == Paths \ Dirs
Firsts == {p \in Paths \ {Top} : Parent[p] = Top}
Folders == Firsts \cap Dirs             \* where lk.Morph keeps processes
Urls == Paths \cup Range(Twice)

ASSUME FilesAssumption ==
  /\ IsFiniteSet(Paths) /\ Top \in Dirs /\ Dirs \subseteq Paths
  /\ Parent \in [Paths \ {Top} -> Dirs]
  /\ Prefixed \in [Dirs -> SUBSET Paths]
  /\ \A p \in Paths \ {Top} : p \in Prefixed[Parent[p]]
  /\ \A d \in Dirs : /\ d \in Prefixed[d]
                     /\ \A e \in Prefixed[d] \cap Dirs : Prefixed[e] \subseteq Prefixed[d]
  /\ Contents # {} /\ None \notin Contents

ASSUME TwiceAssumption ==
  /\ Twice = [p \in {Top} \cup Firsts |-> Twice[p]]
  /\ \A p, q \in {Top} \cup Firsts : Twice[p] \notin Paths /\ (p # q => Twice[p] # Twice[q])

VARIABLES
  fs,           \* what is at a path, None if nothing
  cache,        \* FileResource.root.cache
  res,          \* the resources something refers to
  deleted,      \* DavServer.deleted, of files (that of a directory is not used)
  dir,          \* process.dir, of lk.Morph
  nodes,        \* files of the nodes in process.cache
  watched,      \* resources lk.Morph has added an update callback to, except
                \* those that are given up
  unsynced      \* history: cached urls whose file has changed without a sync

vars == <<fs, cache, res, deleted, dir, nodes, watched, unsynced>>

Ids == 1 .. 3 * Cardinality(Urls) + 1
Empty == CHOOSE c \in Contents : TRUE   \* of a new file, and of any directory
Unlisted == {Top}                       \* no list: it is nobody's child
Children(d) == {p \in Paths \ {Top} : Parent[p] = d /\ fs[p] # None}
Held == (Range(cache) \cup Range(deleted) \cup Range(dir) \cup watched) \ {None}

\* What a resource is when it is made.
Blank(u) == [url |-> u, body |-> None, list |-> Unlisted]

Init ==
  /\ fs = [p \in Paths |-> IF p = Top THEN Empty ELSE None]
  /\ cache = [u \in Urls |-> IF u = Top THEN 1 ELSE None]
  /\ res = [i \in {1} |-> Blank(Top)]
  /\ deleted = [u \in Urls |-> None]
  /\ dir = [d \in Folders |-> None]
  /\ nodes = {} /\ watched = {} /\ unsynced = {}

-----------------------------------------------------------------------------
(* Urls *)

\* root.path .. url, without the slash too many
File == [u \in Urls |-> IF u \in Paths THEN u ELSE CHOOSE p \in DOMAIN Twice : Twice[p] = u]

\* What is asked for: the names of an editor, and those a list may show of what
\* was moved to the root. A request for "/" is one for "".
Asked == {u \in Urls : u \in Paths \/ File[u] \in Files}

\* getParent
Base(p) == IF Parent[p] = Top THEN Twice[Top] ELSE Parent[p]

\* parent.url .. '/' .. name
Made(p) == IF p \in Firsts THEN Twice[p] ELSE p

-----------------------------------------------------------------------------
(* FileResource, on a memory m: the cache and the resources *)

Memory == [cache |-> cache, res |-> res]

\* The constructor: a resource from the cache, or a new one if g has the file.
Found(m, g, u) ==
  IF m.cache[u] # None \/ g[File[u]] = None THEN m
  ELSE LET i == CHOOSE i \in Ids : i \notin DOMAIN m.res IN
       [cache |-> [m.cache EXCEPT ![u] = i],
        res |-> [j \in DOMAIN m.res \cup {i} |-> IF j = i THEN Blank(u) ELSE m.res[j]]]

\* mutant: the body is kept
SyncedList(m, i) == [m EXCEPT !.res[i].list = Unlisted]

\* sync, for a resource that has not moved.
Synced(m, i) ==
  [cache |-> m.cache, res |-> [m.res EXCEPT ![i].body = None, ![i].list = Unlisted]]

\* body
Read(m, u) ==
  LET i == m.cache[u] IN
  IF m.res[i].body # None THEN m
  ELSE [cache |-> m.cache, res |-> [m.res EXCEPT ![i].body = fs[File[u]]]]

\* What m has become after the constructor was called for each of a sequence.
Loads(m, g, s) ==
  LET load[k \in 0 .. Len(s)] == IF k = 0 THEN m ELSE Found(load[k - 1], g, s[k])
  IN load

\* children: every one gets its resource.
Listed(m, d) ==
  LET i == m.cache[d]
      n == [cache |-> m.cache, res |-> [m.res EXCEPT ![i].list = Children(d)]]
      s == SetToSeq(Children(d))
  IN IF m.res[i].list # Unlisted THEN m ELSE Loads(n, fs, s)[Len(s)]

\* createChild of u by the resource i
Created(m, i, g, u) == Found(Synced(m, i), g, u)

\* delete: the urls that are taken out of the cache.
Dropped(u) == IF u \in Dirs THEN Prefixed[u] ELSE {u}
Uncached(m, U) ==
  [cache |-> [u \in Urls |-> IF u \in U THEN None ELSE m.cache[u]], res |-> m.res]

\* C has the children of its directories.
Closed(C) == \A q \in Paths \ {Top} : Parent[q] \in C => q \in C

\* The file or directory at p with all that is below it.
Tree ==
  [p \in Paths |-> {q \in Paths : \A C \in SUBSET Paths : p \in C /\ Closed(C) => q \in C}]

\* The files without those of a set.
Without(P) == [q \in Paths |-> IF q \in P THEN None ELSE fs[q]]

\* What a request leaves: resources nothing refers to are forgotten.
Memorized(m) ==
  /\ cache' = m.cache
  /\ res' = [i \in Held' |-> m.res[i]]

\* The urls of S are synced; what else is cached of files that change is not.
Changed(q) == fs'[q] # fs[q] \/ Children(q)' # Children(q)
UpToDate(S) ==
  unsynced' = {u \in Urls \ S : cache[u] # None /\ (u \in unsynced \/ Changed(File[u]))}

WatchersOf(P) == {i \in watched : res[i].url \in P}

-----------------------------------------------------------------------------
(* Requests to the server; find is called for the url and for its parent *)

\* PROPFIND of depth 0, and requests that are refused after they found this
Find(u) ==
  /\ UNCHANGED <<fs, deleted, dir, nodes, watched>>
  /\ UpToDate({})
  /\ Memorized(Found(Memory, fs, u))

\* GET
Get(u) ==
  /\ File[u] \in Files /\ fs[File[u]] # None
  /\ UNCHANGED <<fs, deleted, dir, nodes, watched>>
  /\ UpToDate({})
  /\ Memorized(Read(Found(Memory, fs, u), u))

\* PROPFIND of a directory and its children
PropFind(d) ==
  /\ d \in Dirs /\ fs[d] # None
  /\ UNCHANGED <<fs, deleted, dir, nodes, watched>>
  /\ UpToDate({})
  /\ Memorized(Listed(Found(Memory, fs, d), d))

\* PUT on what is found: a file, or the resource of one that was removed by its
\* other url, which is written again.
Update(u, c) ==
  LET m == Found(Memory, fs, u) IN
  /\ File[u] \in Files /\ m.cache[u] # None
  /\ fs' = [fs EXCEPT ![File[u]] = c]
  /\ UNCHANGED <<deleted, dir, nodes, watched>>
  /\ UpToDate({u})
  /\ Memorized(Synced(m, m.cache[u]))

\* mutant: the entry stays
Kept(u) == deleted

\* create clears the entry of DavServer.deleted.
Forgotten(u) == [deleted EXCEPT ![u] = None]

\* mutant: the resource is not put back into the cache
RestoredUncached(m, u) == m

\* create: the resource that was deleted is updated and put into the cache.
Restored(m, u) ==
  Synced([cache |-> [m.cache EXCEPT ![u] = deleted[u]], res |-> m.res], deleted[u])

\* u is not found, and the parent of its file p is.
Missing(u, p) ==
  p # Top /\ cache[u] = None /\ fs[p] = None /\ fs[Parent[p]] # None

\* PUT on a file that was deleted, by the url it would now be made under: its
\* resource is used again; the parent is not synced.
Restore(u, c) ==
  LET p == File[u] IN
  /\ p \in Files /\ Missing(u, p) /\ deleted[Made(p)] # None
  /\ fs' = [fs EXCEPT ![p] = c]
  /\ deleted' = Forgotten(Made(p))
  /\ UNCHANGED <<dir, nodes, watched>>
  /\ UpToDate({Made(p)})
  /\ Memorized(Restored(Found(Memory, fs, Base(p)), Made(p)))

\* PUT or MKCOL of something new
Create(u, c) ==
  LET p == File[u]
      m == Found(Memory, fs, Base(p))
  IN
  /\ Missing(u, p)
  /\ IF p \in Files THEN deleted[Made(p)] = None ELSE c = Empty
  /\ fs' = [fs EXCEPT ![p] = c]
  /\ UNCHANGED <<deleted, dir, nodes, watched>>
  /\ UpToDate({Base(p)})
  /\ Memorized(Created(m, m.cache[Base(p)], fs', Made(p)))

\* DELETE: a resource that loses its entry of the cache because its url begins
\* like that of the directory is given up, unless it is the directory.
Delete(u) ==
  LET p == File[u]
      m == Found(Found(Memory, fs, u), fs, Base(p))
  IN
  /\ p # Top /\ m.cache[u] # None
  /\ fs' = Without(Tree[p])
  /\ deleted' = IF p \in Files THEN [deleted EXCEPT ![u] = m.cache[u]] ELSE deleted
  /\ watched' = watched \ WatchersOf(Dropped(u) \ {u})
  /\ UNCHANGED <<dir, nodes>>
  /\ UpToDate({Base(p)})
  /\ Memorized(Synced(Uncached(m, Dropped(u)), m.cache[Base(p)]))

\* mutant: the entry of the old url stays
RekeyedKeepsOld(m, u, w) ==
  [m EXCEPT !.cache[w] = m.cache[u], !.res[m.cache[u]].url = w]

\* move: sync gives the resource its new url.
Rekeyed(m, u, w) ==
  [cache |-> [m.cache EXCEPT ![u] = None, ![w] = m.cache[u]],
   res |-> [m.res EXCEPT ![m.cache[u]].url = w]]

\* MOVE of a file to q, also over another one. One that is moved to the root is
\* given up: it is not found by the name an editor forms.
Move(u, q) ==
  LET p == File[u]
      m == Found(Found(Found(Memory, fs, u), fs, Base(p)), fs, Base(q))
      n == Synced(Rekeyed(m, u, Made(q)), m.cache[u])
  IN
  /\ {p, q} \subseteq Files /\ p # q
  /\ fs[p] # None /\ fs[Parent[q]] # None
  /\ fs' = [fs EXCEPT ![p] = None, ![q] = fs[p]]
  /\ watched' = {i \in watched \ WatchersOf({q}) : q \in Firsts => i # m.cache[u]}
  /\ UNCHANGED <<deleted, dir, nodes>>
  /\ UpToDate({Made(q), Base(p), Base(q)})
  /\ Memorized(Synced(Synced(n, m.cache[Base(p)]), m.cache[Base(q)]))

-----------------------------------------------------------------------------
(* lk.Morph *)

\* process.add and readFile: the directory and the files of the nodes N are found,
\* or made without telling the directory they are in, and the files are watched.
AddProcess(d, N) ==
  LET g == [q \in Paths |-> IF q \in N \cup {d} /\ fs[q] = None THEN Empty ELSE fs[q]]
      m == Loads(Memory, g, <<d>> \o SetToSeq(N))[1 + Cardinality(N)]
  IN
  /\ dir[d] = None
  /\ fs' = g
  /\ dir' = [dir EXCEPT ![d] = m.cache[d]]
  /\ nodes' = nodes \cup N
  /\ watched' = (watched \ WatchersOf(N)) \cup {m.cache[p] : p \in N}
  /\ UNCHANGED deleted
  /\ UpToDate({})
  /\ Memorized(m)

\* A new node: the directory the process holds makes the file, also over one
\* that is there and whose resource may be cached, and with the directory if
\* that was deleted; the resource is watched.
AddNode(p, c) ==
  LET d == Parent[p]
      m == Created(Memory, dir[d], fs', p)
  IN
  /\ d \in Folders /\ dir[d] # None /\ p \notin nodes
  /\ fs' = [fs EXCEPT ![p] = c, ![d] = Empty]
  /\ nodes' = nodes \cup {p}
  /\ watched' = (watched \ WatchersOf({p})) \cup {m.cache[p]}
  /\ UNCHANGED <<deleted, dir>>
  /\ UpToDate({e \in {d} : cache[e] = dir[e]})
  /\ Memorized(m)

\* A node that is removed: resource:delete(), past the directory, if the
\* resource is in the cache.
RemoveNode(p) ==
  LET P == IF cache[p] = None THEN {} ELSE {p} IN
  /\ p \in nodes
  /\ fs' = Without(P)
  /\ nodes' = nodes \ {p}
  /\ watched' = watched \ WatchersOf(P)
  /\ UNCHANGED <<deleted, dir>>
  /\ UpToDate({})
  /\ Memorized(Uncached(Memory, P))

\* removeProcess: process.dir:delete(), past the root.
RemoveProcess(d) ==
  /\ dir[d] # None
  /\ fs' = Without(Tree[d])
  /\ dir' = [dir EXCEPT ![d] = None]
  /\ nodes' = {p \in nodes : Parent[p] # d}
  /\ watched' = watched \ WatchersOf(Dropped(d))
  /\ UNCHANGED deleted
  /\ UpToDate({})
  /\ Memorized(Uncached(Memory, Dropped(d)))

Next ==
  \/ \E u \in Asked \cup {Twice[Top]} : Find(u)
  \/ \E u \in Asked :
       \/ Get(u) \/ Delete(u)
       \/ \E c \in Contents : Update(u, c) \/ Restore(u, c) \/ Create(u, c)
       \/ \E q \in Files : Move(u, q)
  \/ \E d \in Dirs : PropFind(d)
  \/ \E d \in Folders :
       \/ \E N \in SUBSET {p \in Files : Parent[p] = d} : AddProcess(d, N)
       \/ RemoveProcess(d)
  \/ \E p \in Files : RemoveNode(p) \/ \E c \in Contents : AddNode(p, c)

Spec == Init /\ [][Next]_vars

-----------------------------------------------------------------------------
(* Properties *)

\* What the tables refer to exists, bodies are those of files and lists those
\* of directories, and a deleted resource is not found.
TypeOK ==
  /\ fs \in [Paths -> Contents \cup {None}] /\ fs[Top] # None
  /\ cache \in [Urls -> Ids \cup {None}] /\ deleted \in [Urls -> Ids \cup {None}]
  /\ dir \in [Folders -> Ids \cup {None}]
  /\ nodes \subseteq Files /\ watched \subseteq Ids /\ unsynced \subseteq Urls
  /\ DOMAIN res = Held
  /\ Range(deleted) \cap (Range(cache) \cup Range(dir)) \subseteq {None}
  /\ \A i \in Held :
       /\ res[i].url \in Urls
       /\ LET p == File[res[i].url] IN
          /\ res[i].body \in IF p \in Files THEN Contents \cup {None} ELSE {None}
          /\ res[i].list = Unlisted \/ (p \in Dirs /\ res[i].list \subseteq Paths)

\* "should be removed from cache" (FileResource_test.lua): whatever is created,
\* deleted and moved, the cache has a resource at its own url only, and only as
\* long as there is a file. The exception is what is in the root: a file that is
\* removed by one of its two urls stays in the cache at the other, and at no more
\* than that.
CacheIsReal ==
  \A u \in Urls : cache[u] # None =>
    /\ res[cache[u]].url = u
    /\ \/ fs[File[u]] # None
       \/ \E v \in Urls \ {u} : File[v] = File[u] /\ cache[v] = None

\* What is served from the cache is what is on disk: a body is the content of the
\* file, a list that of the directory. The exceptions are cached urls that were
\* not synced when the file changed. Below the directories of the root that is
\* after the operations of Morph that pass over the directory (or use one it holds
\* and that was made anew since), a new node that is written over a file, and the
\* restoring of a deleted file, whose directory is not synced. In the root it is
\* the list at "", whenever something is made or removed ("/" is synced), and the
\* body at the other one of two urls.
CacheIsFresh ==
  \A u \in Urls \ unsynced : cache[u] # None =>
    IF File[u] \in Files THEN res[cache[u]].body \in {None, fs[File[u]]}
    ELSE res[cache[u]].list \in {Unlisted, Children(File[u])}

\* "we use this in case the remote uses a delete and create to update"
\* (DavServer.lua, delete): who watches a file is told of an update that comes
\* as a deletion and a creation, or after a move, because the file still leads
\* to the watched resource, by the url an editor forms. Given up are those whose
\* directory, or one whose url is a beginning of theirs, is deleted by an editor
\* or with its process, that are moved to the root, whose url another file is
\* moved to, and whose node Morph removes or adds anew.
WatchersReached ==
  \A i \in watched :
    /\ res[i].url \in Paths
    /\ fs[res[i].url] # None => cache[res[i].url] = i
=============================================================================
