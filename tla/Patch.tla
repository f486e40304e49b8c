-------------------------------- MODULE Patch --------------------------------
(***************************************************************************)
(* The links of a patch: lk.Patch, lk.Node, lk.Inlet and lk.Outlet         *)
(* (lk/lib/lk/). An outlet keeps the urls it is linked to (links) and the  *)
(* inlet objects it sends to (inlets). Nodes are created, reloaded and     *)
(* removed in any order, so the inlet behind a url may not exist yet, and  *)
(* the patch then hands out a pending one.                                 *)
(*                                                                         *)
(* A node has at most one inlet and one outlet, so that its name says      *)
(* which inlet is meant. A link names it by a url that starts with the     *)
(* name of the patch or is relative to the patch: <<t, "abs">> or          *)
(* <<t, "rel">>. <<t, k>> is the k-th inlet object made for node t; k is   *)
(* used again when nothing refers to the object.                           *)
(*                                                                         *)
(* Patch.set works on the entries of a request (nodes, then links, then    *)
(* removals) and collects the garbage at the end if need_cleanup is set.   *)
(* Here an entry is a step; entries in another order are those of several  *)
(* requests. The evaluation of the code of a node is one step as well:     *)
(* code that yields while it declares its slots is left out.               *)
(***************************************************************************)
EXTENDS Integers, FiniteSets, Sequences, SequencesExt, Functions

CONSTANTS
  Nodes,        \* names of nodes
  Targets,      \* those whose code may declare an inlet
  MaxEntries,   \* bound: inlets an outlet holds
  Room          \* bound: those the outlet of a node holds

ASSUME PatchAssumption == IsFiniteSet(Nodes) /\ Targets \subseteq Nodes /\ MaxEntries \in Nat
ASSUME RoomAssumption == Room \in [Nodes -> 0 .. MaxEntries]

VARIABLES
  cleanup,      \* Patch.need_cleanup
  present,      \* names in Patch.nodes
  pending,      \* Patch.pending_nodes[n]
  inlet,        \* Node.inlets (by name, weak)
  pendingOf,    \* Node.pending_inlets
  declared,     \* what Node.slots protects: "in" and "out"
  callable,     \* nodes whose outlet_method has the function of the outlet
  outlets,      \* nodes whose outlet is in Node.outlets (by name, weak)
  sends,        \* Outlet.inlets, also of a node that has been removed
  links,        \* keys of Outlet.links
  relative,     \* inlets that have a relative Inlet.target_url
  lost          \* history: links <<a, t>> the patch has lost track of

nodeVars == <<present, pending, inlet, pendingOf, declared, callable>>
outletVars == <<outlets, sends, links>>
vars == <<cleanup, nodeVars, outletVars, relative, lost>>

Slots == {"in", "out"}
SlotsOf(n) == IF n \in Targets THEN Slots ELSE {"out"}
None == <<>>
Objects(t) == {t} \X (1 .. Cardinality(Nodes) * MaxEntries + 4)

Styles == {"abs", "rel"}

\* Inlet.url: a pending inlet answers with the url it was asked for by.
Url(i) == <<i[1], IF i \in relative THEN "rel" ELSE "abs">>

\* The inlet objects of t that outlet a sends to, and the urls it lists.
Heard(a, t) == {i \in Range(sends[a]) : i[1] = t}
Listed(a, t) == {u \in links[a] : u[1] = t}

InUse(t) == {inlet[t], pending[t], pendingOf[t]} \cup UNION {Heard(a, t) : a \in Nodes}

\* The inlets of R have a relative target_url, those that are still in use.
Relative(R) == relative' = {i \in R : i \in InUse(i[1])'}

\* lk.Inlet(...): an object that nothing else is.
Fresh(t) == CHOOSE i \in Objects(t) : i \notin InUse(t)

Init ==
  /\ cleanup = FALSE
  /\ present = {} /\ callable = {} /\ outlets = {} /\ relative = {} /\ lost = {}
  /\ pending = [n \in Nodes |-> None]
  /\ inlet = [n \in Nodes |-> None]
  /\ pendingOf = [n \in Nodes |-> None]
  /\ declared = [n \in Nodes |-> {}]
  /\ sends = [n \in Nodes |-> <<>>]
  /\ links = [n \in Nodes |-> {}]

-----------------------------------------------------------------------------
(* Nodes *)

\* The pending inlets a node starts with: a new one takes over those of the
\* patch, and an existing one has its own.
Waiting(n) == IF n \in present THEN pendingOf[n] ELSE pending[n]

\* mutant: an inlet is always made anew, whoever waits for it
DeclaredAnew(n) == IF n \in present /\ inlet[n] # None THEN inlet[n] ELSE Fresh(n)

\* The inlet that code of n which declares it ends up with.
Declared(n) ==
  IF n \in present /\ inlet[n] # None THEN inlet[n]
  ELSE IF Waiting(n) # None THEN Waiting(n) ELSE Fresh(n)

\* mutant: the patch still thinks the inlets of the new node are pending
NewNodeKeepsPending(n, made) ==
  /\ present' = present \cup {n}
  /\ sends' = IF n \in present THEN sends ELSE [sends EXCEPT ![n] = <<>>]
  /\ UNCHANGED <<pending, lost>>

\* lk.Node(process, name), whose code makes some inlets real: outlets that list
\* them under a relative url do so for ever. The outlets of a former node of that
\* name stay with whoever runs its code, which the model then forgets.
NewNode(n, made) ==
  /\ present' = present \cup {n}
  /\ pending' = [pending EXCEPT ![n] = None]
  /\ sends' = IF n \in present THEN sends ELSE [sends EXCEPT ![n] = <<>>]
  /\ lost' = (IF n \in present THEN lost ELSE lost \ ({n} \X Nodes))
       \cup {<<a, n>> : a \in {a \in Nodes : Range(sends'[a]) \cap made \cap relative # {}}}

\* A definition with code that does not parse: the node exists.
BadCode(n) ==
  /\ NewNode(n, {})
  /\ pendingOf' = [pendingOf EXCEPT ![n] = Waiting(n)]
  /\ UNCHANGED <<cleanup, inlet, declared, callable, outlets, links>>
  /\ Relative(relative)

\* Node.eval: the code has declared the slots when it ends or, unless ok, when
\* it fails; slots is then rolled back, and the tables by name are not.
Eval(n, slots, ok) ==
  /\ cleanup' = TRUE
  /\ NewNode(n, IF "in" \in slots THEN {Declared(n)} ELSE {})
  /\ IF "in" \in slots
     THEN /\ inlet' = [inlet EXCEPT ![n] = Declared(n)]
          /\ pendingOf' = [pendingOf EXCEPT ![n] =
               IF @ = Declared(n) \/ n \notin present THEN None ELSE @]
     ELSE /\ pendingOf' = [pendingOf EXCEPT ![n] = Waiting(n)]
          /\ UNCHANGED inlet
  /\ IF "out" \in slots
     THEN callable' = callable \cup {n} /\ outlets' = outlets \cup {n}
     ELSE callable' = callable \ {n} /\ UNCHANGED outlets
  /\ declared' = IF ok THEN [declared EXCEPT ![n] = slots] ELSE declared
  /\ UNCHANGED links
  /\ Relative(IF "in" \in slots THEN relative \ {Declared(n)} ELSE relative)

-----------------------------------------------------------------------------
(* Links *)

\* Outlet.connect: the same object is not added twice.
Connected(s, i) == IF i \in Range(s) THEN s ELSE Append(s, i)

\* The entries of s at some positions, in their order.
Kept(s, K) ==
  [n \in 1 .. Cardinality(K) |-> s[CHOOSE k \in K : Cardinality({j \in K : j <= k}) = n]]

\* Outlet.disconnect: ipairs goes on behind the entry that has moved up into
\* the place of the removed one, so that an entry stays if the one before goes.
Dropped(s, u) == CHOOSE D \in SUBSET DOMAIN s :
  \A k \in DOMAIN s : k \in D <=> (Url(s[k]) = u /\ k - 1 \notin D)

Disconnected(s, u) == Kept(s, DOMAIN s \ Dropped(s, u))

CanLink(a) == a \in present \cap outlets

\* Outlet.connect: a link is listed under the url u that its inlet has now.
Connect(a, i, u) ==
  /\ CanLink(a)
  /\ Len(sends[a]) < Room[a]
  /\ sends' = [sends EXCEPT ![a] = Connected(@, i)]
  /\ links' = IF i \in Range(sends[a]) THEN links ELSE [links EXCEPT ![a] = @ \cup {u}]

\* setLink finds the inlet, by whichever url.
Link(a, t) ==
  /\ t \in present /\ inlet[t] # None
  /\ Connect(a, inlet[t], Url(inlet[t]))
  /\ UNCHANGED <<cleanup, nodeVars, outlets, lost>>
  /\ Relative(relative)

\* Patch.pendingInlet for a node without that inlet: a new one takes the place
\* of the one that other outlets have been given.
LinkPending(a, t, s) ==
  /\ t \in present /\ inlet[t] = None
  /\ pendingOf' = [pendingOf EXCEPT ![t] = Fresh(t)]
  /\ Connect(a, Fresh(t), <<t, s>>)
  /\ lost' = lost \cup {<<b, t>> : b \in {b \in Nodes : Heard(b, t) # {}}}
  /\ UNCHANGED <<cleanup, present, pending, inlet, declared, callable, outlets>>
  /\ Relative(IF s = "rel" THEN relative \cup {Fresh(t)} ELSE relative)

\* Patch.pendingInlet for a node that does not exist.
LinkAbsent(a, t, s) ==
  /\ t \notin present
  /\ LET new == pending[t] = None
         i == IF new THEN Fresh(t) ELSE pending[t] IN
     /\ pending' = [pending EXCEPT ![t] = i]
     /\ Connect(a, i, IF new THEN <<t, s>> ELSE Url(i))
     /\ UNCHANGED <<cleanup, present, inlet, pendingOf, declared, callable, outlets, lost>>
     /\ Relative(IF new /\ s = "rel" THEN relative \cup {i} ELSE relative)

\* removeLink: the link is forgotten when an inlet has that url now.
Unlink(a, u) ==
  /\ CanLink(a)
  /\ sends' = [sends EXCEPT ![a] = Disconnected(@, u)]
  /\ links' = [links EXCEPT ![a] = IF \E i \in Range(sends[a]) : Url(i) = u THEN @ \ {u} ELSE @]
  /\ lost' = IF Heard(a, u[1])' = {} /\ Listed(a, u[1])' = {} THEN lost \ {<<a, u[1]>>} ELSE lost
  /\ UNCHANGED <<cleanup, nodeVars, outlets>>
  /\ Relative(relative)

\* mutant: nothing is disconnected
CutNothing(n, order) == sends[n]

\* What is left of s after each of a sequence of disconnects.
Cuts(s, order) ==
  LET cut[k \in 0 .. Len(order)] ==
        IF k = 0 THEN s ELSE Disconnected(cut[k - 1], order[k])
  IN cut

\* Outlet.disconnectAll, of an outlet in slots.
Cut(n, order) ==
  IF "out" \in declared[n] THEN Cuts(sends[n], order)[Len(order)] ELSE sends[n]

\* Node.remove and the end of setNodes, with the order of pairs(links); who is
\* linked to n is not told.
RemoveNode(n) ==
  /\ n \in present
  /\ cleanup' = TRUE
  /\ present' = present \ {n}
  /\ inlet' = [inlet EXCEPT ![n] = None]
  /\ pendingOf' = [pendingOf EXCEPT ![n] = None]
  /\ declared' = [declared EXCEPT ![n] = {}]
  /\ callable' = callable \ {n}
  /\ outlets' = outlets \ {n}
  /\ \E order \in SetToSeqs(links[n]) : sends' = [sends EXCEPT ![n] = Cut(n, order)]
  /\ links' = [links EXCEPT ![n] = {}]
  /\ lost' = lost \cup {<<a, n>> : a \in {a \in Nodes : Heard(a, n) # {}}}
                  \cup (IF "out" \in declared[n] THEN {} ELSE {<<n, u[1]>> : u \in links[n]})
  /\ UNCHANGED pending
  /\ Relative(relative)

\* loadFromYaml: the patch forgets its nodes and disconnects none. Those of the
\* new definition follow, as entries of the Patch.set that it ends with.
Reload ==
  /\ present' = {} /\ callable' = {} /\ outlets' = {}
  /\ inlet' = [n \in Nodes |-> None]
  /\ pendingOf' = [n \in Nodes |-> None]
  /\ declared' = [n \in Nodes |-> {}]
  /\ links' = [n \in Nodes |-> {}]
  /\ lost' = lost \cup {l \in Nodes \X Nodes : Heard(l[1], l[2]) # {}}
  /\ UNCHANGED <<cleanup, pending, sends>>
  /\ Relative(relative)

-----------------------------------------------------------------------------
(* The collector *)

\* mutant: slots protect nothing
UnusedUncalled == {n \in outlets : n \notin callable}

\* Outlets that neither the slots of their node nor its code refer to.
Unused == {n \in outlets : "out" \notin declared[n] /\ n \notin callable}

\* Undeclared inlets that no remaining outlet sends to.
Orphans == {t \in present : /\ "in" \notin declared[t]
                            /\ \A a \in Nodes \ Unused : inlet[t] \notin Range(sends[a])}

Collect ==
  /\ outlets' = outlets \ Unused
  /\ sends' = [n \in Nodes |-> IF n \in Unused THEN <<>> ELSE sends[n]]
  /\ links' = [n \in Nodes |-> IF n \in Unused THEN {} ELSE links[n]]
  /\ inlet' = [n \in Nodes |-> IF n \in Orphans THEN None ELSE inlet[n]]
  /\ lost' = lost \ (Unused \X Nodes)
  /\ UNCHANGED <<present, pending, pendingOf, declared, callable>>
  /\ Relative(relative)

\* The collector runs when it likes.
Gc ==
  /\ Collect
  /\ UNCHANGED cleanup

\* The end of Patch.set.
SetEnds ==
  /\ cleanup
  /\ cleanup' = FALSE
  /\ Collect

Next ==
  \/ \E n \in Nodes :
       \/ BadCode(n)
       \/ \E slots \in SUBSET SlotsOf(n), ok \in BOOLEAN : Eval(n, slots, ok)
       \/ RemoveNode(n)
  \/ \E a \in Nodes, t \in Targets :
       \/ Link(a, t)
       \/ \E s \in Styles : LinkPending(a, t, s) \/ LinkAbsent(a, t, s) \/ Unlink(a, <<t, s>>)
  \/ Reload
  \/ Gc
  \/ SetEnds

Spec == Init /\ [][Next]_vars

-----------------------------------------------------------------------------
(* Properties *)

Maybe(t) == Objects(t) \cup {None}

\* Every table maps names to objects made for that name, and what is declared
\* exists.
TypeOK ==
  /\ cleanup \in BOOLEAN
  /\ present \subseteq Nodes /\ callable \subseteq present /\ outlets \subseteq present
  /\ \A n \in Nodes :
       /\ inlet[n] \in Maybe(n) /\ pending[n] \in Maybe(n) /\ pendingOf[n] \in Maybe(n)
       /\ declared[n] \subseteq Slots /\ links[n] \subseteq Nodes \X Styles
       /\ inlet[n] \notin relative
       /\ sends[n] \in Seq(UNION {Objects(t) : t \in Nodes})
       /\ "in" \in declared[n] => inlet[n] # None
       /\ "out" \in declared[n] => n \in outlets
  /\ relative \subseteq UNION {Objects(t) : t \in Nodes}
  /\ lost \subseteq Nodes \X Nodes

\* "If the slot does not exist yet, make a draft to be used when the node
\* creates the real inlet" (Node.lua, setLink): a url stands for one object,
\* pending with the patch, pending with the node, or real.
OneInlet ==
  \A t \in Nodes :
    /\ Cardinality({inlet[t], pendingOf[t], pending[t]} \ {None}) <= 1
    /\ t \in present => pending[t] = None
    /\ t \notin present => inlet[t] = None /\ pendingOf[t] = None

Current(t) == {inlet[t], pendingOf[t], pending[t]} \ {None}

\* Through new definitions, failing code, the collector and removals, the links
\* that Node.dump shows (Outlet.links) are those messages take (Outlet.inlets):
\* an outlet sends only to the inlet that the node has or will have, has it once,
\* and lists it under the url that removes the link. The exceptions are the links
\* the patch loses: their target is removed or forgotten by a reload (Reload);
\* another pending inlet takes the place of theirs (LinkPending); they were made
\* by a relative url to an inlet that then became real (NewNode); their outlet was
\* declared by code that failed, and its node removed. Two entries of one outlet
\* for one node come about only in this way, so that those disconnect skips in its
\* traversal are links that had been lost before.
LinksHold ==
  \A a \in outlets : \A t \in Nodes : <<a, t>> \notin lost =>
    /\ Heard(a, t) \subseteq Current(t)
    /\ Listed(a, t) = {Url(i) : i \in Heard(a, t)}
    /\ Cardinality({k \in DOMAIN sends[a] : sends[a][k][1] = t}) <= 1

\* "This is called on object removal" (Outlet.disconnectAll): code of a removed
\* node that still runs, in a timer for instance, sends to nobody. What it still
\* sends goes along links the patch had lost, by one of the ways LinksHold names.
RemovedIsSilent ==
  \A a \in Nodes \ present, t \in Nodes : <<a, t>> \notin lost => Heard(a, t) = {}
=============================================================================
