------------------------------- MODULE MCFiles -------------------------------
(***************************************************************************)
(* An instance of Files for TLC: a directory with a file, and a file in    *)
(* the root whose name begins like that of the directory.                  *)
(***************************************************************************)
EXTENDS Files

MCPaths == {"", "/dir", "/dir/file", "/dirty"}
MCDirs == {"", "/dir"}
MCParent == [p \in MCPaths \ {""} |-> IF p = "/dir/file" THEN "/dir" ELSE ""]
MCTwice ==
  [p \in MCPaths \ {"/dir/file"} |->
     CASE p = "" -> "/" [] p = "/dir" -> "//dir" [] OTHER -> "//dirty"]
MCPrefixed == [d \in MCDirs |-> IF d = "" THEN MCPaths ELSE MCPaths \ {""}]

\* States are the same that differ only in the numbers of the resources, in which
\* of two contents is which (of what is new every content is tried, and a file that
\* Morph makes empty has no old body), in bodies and lists out of the cache (they are
\* synced before they are used again), or in what is deleted at a url that create
\* does not ask for.
Body(i, u) ==
  IF res[i].body = None THEN "none"
  ELSE IF res[i].body = fs[File[u]] THEN "same" ELSE "other"

View ==
  <<{p \in Paths : fs[p] # None}, nodes, unsynced,
    [u \in {u \in Urls : cache[u] # None} |->
       LET i == cache[u] IN
       <<res[i].url, Body(i, u), res[i].list, i \in watched, u \in Folders /\ dir[u] = i>>],
    [u \in {u \in Urls \ Firsts : deleted[u] # None} |->
       <<deleted[u] \in watched, deleted[u] = cache[u]>>],
    {d \in Folders : dir[d] # None}>>
=============================================================================
