---------------------------- MODULE NetworkProofs ----------------------------
(***************************************************************************)
(* Theorems about the two modules of the network: how services are found   *)
(* (Discovery) and what a TCP connection delivers (Stream).                *)
(*                                                                         *)
(* Discovery, for any number of incarnations, any batches and any          *)
(* circumstances.                                                          *)
(* What the browser has found is compared with the network when it has     *)
(* read all events.  Before that the last event that is under way tells    *)
(* what is on the network (LastEvent), whatever the resolvers answer: with *)
(* it BrowserFollows is inductive.  RemovalPending is inductive relative   *)
(* to the types.  CalmIsKnown is what EventuallyKnown promises, of states: *)
(* nothing that the delegates should know has been lost.                   *)
(*                                                                         *)
(* Stream, for any pieces and any capacity of the kernel.  StreamInv says  *)
(* that the buffer begins where the piece does that is next, unless bytes  *)
(* have been dropped.  It rests on what First, a recursive function, is:   *)
(* that a function with its equation exists is shown with the least        *)
(* position at which there would be none.                                  *)
(***************************************************************************)
EXTENDS Discovery, Stream, FiniteSetTheorems, WellFoundedInduction, TLAPS

USE DiscoveryAssumption

\* What a thread of the found devices does, and what the browser may be told.
Kinds == {"announce", "remove"}
Events == ({"add"} \X Gens) \cup {<<"remove", None>>}

\* TypeOK by component, where every event that adds names an incarnation.
NetPart ==
  /\ net \in Gens \cup {None} /\ gen \in 0 .. MaxGen
  /\ queue \in Seq(Events)
  /\ env \in Environments

\* The browser and the resolvers it has started.
BrowserPart ==
  /\ batch \in 0 .. env.batch
  /\ found \in Gens \cup {None, Done}
  /\ resolvers \in SUBSET Gens

\* The table of services, the devices it holds and the threads queued for them.
ServicePart ==
  /\ services \in Gens \cup {None}
  /\ held \in [Gens -> {"none", "announce", "remove"}]
  /\ tasks \in Seq(Kinds \X Gens)

\* The callbacks under way, and what the delegates have been told.
DelegatePart ==
  /\ url \in SUBSET Gens
  /\ calls \in SUBSET Gens
  /\ ready \subseteq {Browser} \cup ({"resolve", "call"} \X Gens)
  /\ known \in [Delegates -> Gens \cup {None}]
  /\ subscribed \in BOOLEAN
  /\ \A g \in Gens : <<"call", g>> \in ready => g \in calls

\* The last event that is under way tells what is on the network.
LastEvent ==
  IF queue = <<>> THEN found # None <=> net # None
                  ELSE queue[Len(queue)][1] = "add" <=> net # None

\* The conjunction is inductive; LastEvent is so relative to it.
IInv == NetPart /\ BrowserPart /\ ServicePart /\ DelegatePart

\* The inductive invariants imply the ones that TLC checks.
LEMMA IInvIsEnough == IInv => TypeOK
<1> SUFFICES ASSUME IInv PROVE TypeOK
  OBVIOUS
<1>1. Seq(Events) \subseteq Seq({"add", "remove"} \X (Gens \cup {None}))
  <2>1. Events \subseteq {"add", "remove"} \X (Gens \cup {None})
    BY DEF Events
  <2> HIDE DEF Events
  <2> QED BY <2>1
<1> QED BY <1>1 DEF IInv, NetPart, BrowserPart, ServicePart, DelegatePart, TypeOK, Kinds

\* Without an event under way, what is found is what is on the network.
LEMMA LastEventIsEnough == LastEvent => BrowserFollows
  BY DEF LastEvent, BrowserFollows

-----------------------------------------------------------------------------
(* What the operations keep *)

\* The numbers that stand for no incarnation and for the end of a resolution.
LEMMA Marks == None \notin Gens /\ Done \notin Gens /\ Done # None
  BY DEF None, Gens, Done

\* The next event, and what is left: the last event stays the last.
LEMMA NextEvent ==
  ASSUME queue \in Seq(Events), queue # <<>>
  PROVE  /\ Head(queue) \in Events /\ Tail(queue) \in Seq(Events)
         /\ Tail(queue) = <<>> => Head(queue) = queue[Len(queue)]
         /\ Tail(queue) # <<>> => Tail(queue)[Len(Tail(queue))] = queue[Len(queue)]
<1>1. Head(queue) = queue[1] /\ Head(queue) \in Events /\ Tail(queue) \in Seq(Events)
      /\ Len(Tail(queue)) = Len(queue) - 1 /\ Len(queue) \in Nat \ {0}
  OBVIOUS
<1>2. \A i \in 1 .. Len(queue) - 1 : Tail(queue)[i] = queue[i + 1]
  OBVIOUS
<1>3. Tail(queue) = <<>> => Len(queue) = 1
  <2>1. \A s : s = <<>> => Len(s) = 0
    OBVIOUS
  <2>2. Tail(queue) = <<>> => Len(Tail(queue)) = 0
    BY <2>1, Zenon
  <2> QED BY <1>1, <2>2
<1>4. Tail(queue) # <<>> => Len(queue) - 1 \in 1 .. Len(queue) - 1
  BY <1>1
<1> QED BY <1>1, <1>2, <1>3, <1>4

\* An event is appended: it is the last one.
LEMMA EventAppended ==
  ASSUME queue \in Seq(Events), NEW e \in Events, queue' = Append(queue, e)
  PROVE  queue' \in Seq(Events) /\ queue' # <<>> /\ queue'[Len(queue')] = e
  OBVIOUS

\* A thread is queued behind the others.
LEMMA TaskQueued ==
  ASSUME NEW T, NEW s \in Seq(T), NEW e \in T
  PROVE  Append(s, e) \in Seq(T)
  OBVIOUS

\* The callbacks of lk.ServiceBrowser queue a thread or do nothing.
LEMMA AddDevicePart ==
  ASSUME ServicePart, NEW g \in Gens, AddDevice(g)
  PROVE  ServicePart'
<1>1. CASE services # None
  BY <1>1 DEF AddDevice, ServicePart
<1>2. CASE services = None
  <2>1. <<"announce", g>> \in Kinds \X Gens
    BY DEF Kinds
  <2>2. Append(tasks, <<"announce", g>>) \in Seq(Kinds \X Gens)
    BY <2>1, TaskQueued DEF ServicePart
  <2> QED BY <1>2, <2>2 DEF AddDevice, ServicePart
<1> QED BY <1>1, <1>2

\* removeDevice queues the thread that will take the device out of the table.
LEMMA RemoveDevicePart ==
  ASSUME ServicePart, RemoveDevice
  PROVE  ServicePart'
<1>1. CASE services = None
  BY <1>1 DEF RemoveDevice, ServicePart
<1>2. CASE services # None
  <2>1. <<"remove", services>> \in Kinds \X Gens
    BY <1>2 DEF Kinds, ServicePart
  <2>2. Append(tasks, <<"remove", services>>) \in Seq(Kinds \X Gens)
    BY <2>1, TaskQueued DEF ServicePart
  <2> QED BY <1>2, <2>2 DEF RemoveDevice, ServicePart
<1> QED BY <1>1, <1>2

\* addDevice and removeDevice of delegates.
LEMMA ToldType ==
  ASSUME DelegatePart, NEW S, NEW name, NEW g \in Gens
  PROVE  /\ Told(S, name, g) \in [Delegates -> Gens \cup {None}]
         /\ Untold(S) \in [Delegates -> Gens \cup {None}]
  BY DEF Told, Untold, DelegatePart

\* The thread that is run leaves the others.
LEMMA NextTaskType ==
  ASSUME ServicePart, NEW kind, NEW g, NextTask(kind, g)
  PROVE  tasks' \in Seq(Kinds \X Gens) /\ ready = {} /\ batch = 0
  BY DEF NextTask, ServicePart

\* What runs in no event of the network or the browser.
LEMMA SameNet ==
  ASSUME NetPart, UNCHANGED netVars
  PROVE  NetPart'
  BY DEF NetPart, netVars

\* Frames: a step that leaves the variables of a part alone keeps the part.
LEMMA SameBrowser ==
  ASSUME BrowserPart, UNCHANGED <<netVars, browserVars>>
  PROVE  BrowserPart'
  BY DEF BrowserPart, netVars, browserVars

\* The same of the table of services.
LEMMA SameServices ==
  ASSUME ServicePart, UNCHANGED <<services, held, tasks>>
  PROVE  ServicePart'
  BY DEF ServicePart

\* The same of the delegates.
LEMMA SameDelegates ==
  ASSUME DelegatePart, UNCHANGED <<url, calls, ready, known, subscribed>>
  PROVE  DelegatePart'
  BY DEF DelegatePart

-----------------------------------------------------------------------------
(* The steps *)

\* Nothing is found, held or under way in the beginning.
LEMMA InitIInv == Init => IInv /\ LastEvent
<1> SUFFICES ASSUME Init PROVE IInv /\ LastEvent
  OBVIOUS
<1>1. env.batch \in Nat
  BY DEF Init, Environments
<1>2. NetPart /\ BrowserPart
  BY <1>1 DEF Init, NetPart, BrowserPart
<1>3. ServicePart
  BY DEF Init, ServicePart
<1>4. DelegatePart
  BY DEF Init, DelegatePart
<1> QED BY <1>2, <1>3, <1>4 DEF IInv, LastEvent, Init

\* The service appears and vanishes.
LEMMA NetworkStep ==
  ASSUME IInv, Appear \/ Vanish
  PROVE  IInv' /\ LastEvent'
<1>0. NetPart /\ BrowserPart /\ ServicePart /\ DelegatePart
  BY DEF IInv
<1>1. UNCHANGED <<env, browserVars, serviceVars, ready, known, subscribed>>
  BY DEF Appear, Vanish
<1>2. BrowserPart' /\ ServicePart' /\ DelegatePart'
  BY <1>0, <1>1, SameServices, SameDelegates DEF BrowserPart, browserVars, serviceVars
<1>3. CASE Appear
  <2>1. gen' \in Gens /\ gen' \in 0 .. MaxGen /\ net' = gen' /\ env' = env
    BY <1>0, <1>3 DEF Appear, NetPart, Gens
  <2>2. <<"add", gen'>> \in Events
    BY <2>1 DEF Events
  <2>3. queue' = Append(queue, <<"add", gen'>>)
    BY <1>3 DEF Appear
  <2>4. queue' \in Seq(Events) /\ queue' # <<>> /\ queue'[Len(queue')] = <<"add", gen'>>
    BY <1>0, <2>2, <2>3, EventAppended DEF NetPart
  <2> QED BY <1>0, <1>2, <2>1, <2>4, Marks DEF IInv, NetPart, LastEvent
<1>4. CASE Vanish
  <2>1. <<"remove", None>> \in Events
    BY DEF Events
  <2>2. queue' = Append(queue, <<"remove", None>>) /\ net' = None /\ UNCHANGED <<env, gen>>
    BY <1>4 DEF Vanish
  <2>3. queue' \in Seq(Events) /\ queue' # <<>> /\ queue'[Len(queue')] = <<"remove", None>>
    BY <1>0, <2>1, <2>2, EventAppended DEF NetPart
  <2> QED BY <1>0, <1>2, <2>2, <2>3 DEF IInv, NetPart, LastEvent
<1> QED BY <1>3, <1>4

\* mdns.Browser reads its events and resolves names.
LEMMA BrowseStep ==
  ASSUME IInv, LastEvent, Browse
  PROVE  IInv' /\ LastEvent'
<1>0. NetPart /\ BrowserPart /\ ServicePart /\ DelegatePart
  BY DEF IInv
<1>1. /\ batch > 0 /\ queue # <<>>
      /\ queue' = Tail(queue)
      /\ batch' = IF queue' = <<>> THEN 0 ELSE batch - 1
      /\ UNCHANGED <<env, net, gen, url, calls, ready, known, subscribed>>
  BY DEF Browse
<1>2. /\ Head(queue) \in Events /\ Tail(queue) \in Seq(Events)
      /\ Tail(queue) = <<>> => Head(queue) = queue[Len(queue)]
      /\ Tail(queue) # <<>> => Tail(queue)[Len(Tail(queue))] = queue[Len(queue)]
  BY <1>0, <1>1, NextEvent DEF NetPart
<1>3. batch' \in 0 .. env.batch
  <2>1. env.batch \in Nat
    BY <1>0 DEF NetPart, Environments
  <2> QED BY <1>0, <1>1, <2>1 DEF BrowserPart
<1>4. /\ ServicePart' /\ found' \in Gens \cup {None, Done} /\ resolvers' \in SUBSET Gens
      /\ found' # None <=> Head(queue)[1] = "add"
  <2>1. CASE Head(queue)[1] = "add" /\ BrowseAdd(Head(queue)[2])
    <3> DEFINE g == Head(queue)[2]
    <3>1. g \in Gens
      BY <1>2, <2>1 DEF Events
    <3> HIDE DEF g
    <3>2. BrowseAdd(g)
      BY <2>1 DEF g
    <3>3. ServicePart'
      BY <1>0, <3>1, <3>2, AddDevicePart, SameServices DEF BrowseAdd
    <3> QED BY <1>0, <2>1, <3>1, <3>2, <3>3, Marks DEF BrowseAdd, BrowserPart
  <2>2. CASE Head(queue)[1] = "remove" /\ BrowseRemove
    <3>1. ServicePart'
      BY <1>0, <2>2, RemoveDevicePart, SameServices DEF BrowseRemove
    <3> QED BY <1>0, <2>2, <3>1 DEF BrowseRemove, BrowserPart
  <2> QED BY <2>1, <2>2 DEF Browse
<1>5. NetPart' /\ BrowserPart' /\ DelegatePart'
  BY <1>0, <1>1, <1>2, <1>3, <1>4, SameDelegates DEF NetPart, BrowserPart
<1>6. LastEvent'
  BY <1>1, <1>2, <1>4 DEF LastEvent
<1> QED BY <1>4, <1>5, <1>6 DEF IInv

\* A resolver answers, in time or too late.
LEMMA ResolveStep ==
  ASSUME IInv, LastEvent, NEW g \in Gens, Resolve(g)
  PROVE  IInv' /\ LastEvent'
<1>0. NetPart /\ BrowserPart /\ ServicePart /\ DelegatePart
  BY DEF IInv
<1>1. /\ UNCHANGED <<netVars, batch, url, calls, known, subscribed>>
      /\ ready' = ready \ {<<"resolve", g>>}
  BY DEF Resolve
<1>2. /\ ServicePart' /\ found' \in Gens \cup {None, Done} /\ resolvers' \in SUBSET Gens
      /\ found' # None <=> found # None
  BY <1>0, AddDevicePart, SameServices, Marks DEF Resolve, BrowserPart
<1>3. NetPart' /\ BrowserPart' /\ DelegatePart'
  BY <1>0, <1>1, <1>2, SameNet DEF BrowserPart, DelegatePart, netVars
<1>4. LastEvent'
  BY <1>1, <1>2 DEF LastEvent, netVars
<1> QED BY <1>2, <1>3, <1>4 DEF IInv

\* The threads of lk.ServiceBrowser, the scheduler, and the collector: they do not
\* touch what the browser has found.
LEMMA DelegateStep ==
  ASSUME IInv, NEW g \in Gens, Announce(g) \/ CallReturns(g) \/ Remove(g)
  PROVE  IInv' /\ UNCHANGED <<netVars, found>>
<1>0. NetPart /\ BrowserPart /\ ServicePart /\ DelegatePart
  BY DEF IInv
<1>1. UNCHANGED <<netVars, browserVars, subscribed>>
  BY DEF Announce, CallReturns, Remove
<1>2. NetPart' /\ BrowserPart'
  BY <1>0, <1>1, SameNet, SameBrowser
<1>3. CASE Announce(g)
  <2>1. tasks' \in Seq(Kinds \X Gens) /\ ready = {}
    BY <1>0, <1>3, NextTaskType DEF Announce
  <2>2. services' = services /\ held' \in [Gens -> {"none", "announce", "remove"}]
        /\ url' \in {url, url \cup {g}} /\ calls' \in {calls, calls \cup {g}} /\ ready' = ready
    BY <1>0, <1>3 DEF Announce, ServicePart
  <2>3. known' \in [Delegates -> Gens \cup {None}]
    <3>1. \A S, name : Told(S, name, g) \in [Delegates -> Gens \cup {None}]
      BY <1>0, ToldType
    <3>2. \/ \E S : known' = Told(S, Name, g)
          \/ known' = known
      BY <1>3 DEF Announce
    <3> QED BY <1>0, <3>1, <3>2 DEF DelegatePart
  <2> QED BY <1>0, <1>1, <1>2, <2>1, <2>2, <2>3
          DEF IInv, ServicePart, DelegatePart, browserVars
<1>4. CASE CallReturns(g)
  <2>1. known' \in [Delegates -> Gens \cup {None}]
    <3>1. Told({"client"}, "short", g) \in [Delegates -> Gens \cup {None}]
      BY <1>0, ToldType
    <3> QED BY <1>0, <1>4, <3>1 DEF CallReturns, DelegatePart
  <2>2. /\ ready' = ready \ {<<"call", g>>} /\ calls' = calls \ {g}
        /\ held' \in {held, [held EXCEPT ![g] = "none"]} /\ UNCHANGED <<services, url, tasks>>
    BY <1>4 DEF CallReturns
  <2>3. ServicePart'
    BY <1>0, <2>2 DEF ServicePart
  <2>4. DelegatePart'
    BY <1>0, <1>1, <2>1, <2>2 DEF DelegatePart
  <2> QED BY <1>1, <1>2, <2>3, <2>4 DEF IInv, browserVars
<1>5. CASE Remove(g)
  <2>1. tasks' \in Seq(Kinds \X Gens)
    BY <1>0, <1>5, NextTaskType DEF Remove
  <2>2. \A S : Untold(S) \in [Delegates -> Gens \cup {None}]
    BY <1>0, ToldType
  <2>3. /\ known' \in [Delegates -> Gens \cup {None}] /\ services' \in {services, None}
        /\ UNCHANGED <<url, held, calls, ready, subscribed>>
    BY <1>5, <2>2 DEF Remove
  <2>4. ServicePart' /\ DelegatePart'
    BY <1>0, <2>1, <2>3 DEF ServicePart, DelegatePart
  <2> QED BY <1>1, <1>2, <2>4 DEF IInv, browserVars
<1> QED BY <1>3, <1>4, <1>5

\* The steps of the scheduler that touch neither the network nor the table.
LEMMA SchedulerStep ==
  ASSUME IInv, BrowserWakes \/ Poll \/ Subscribe
  PROVE  IInv' /\ UNCHANGED <<netVars, found, serviceVars>>
<1>0. NetPart /\ BrowserPart /\ ServicePart /\ DelegatePart
  BY DEF IInv
<1>1. UNCHANGED <<netVars, found, resolvers, serviceVars>>
  BY DEF BrowserWakes, Poll, Subscribe, browserVars
<1>2. NetPart' /\ ServicePart'
  BY <1>0, <1>1, SameNet, SameServices DEF serviceVars
<1>3. BrowserPart'
  <2>1. env.batch \in Nat
    BY <1>0 DEF NetPart, Environments
  <2> QED BY <1>0, <1>1, <2>1 DEF BrowserWakes, Poll, Subscribe, BrowserPart, browserVars, netVars
<1>4. DelegatePart'
  <2>1. CASE BrowserWakes
    BY <1>0, <1>1, <2>1 DEF BrowserWakes, DelegatePart, serviceVars
  <2>2. CASE Poll
    <3>1. Readable \subseteq {Browser} \cup ({"resolve", "call"} \X Gens)
      BY <1>0 DEF Readable, BrowserPart, DelegatePart
    <3>2. \A g \in Gens : <<"call", g>> \in Readable => g \in calls
      BY DEF Readable, Browser
    <3>3. ready' \subseteq Readable /\ UNCHANGED <<url, calls, known, subscribed>>
      BY <2>2 DEF Poll, serviceVars
    <3> QED BY <1>0, <3>1, <3>2, <3>3 DEF DelegatePart
  <2>3. CASE Subscribe
    <3>1. services \in url => services \in Gens
      BY <1>0 DEF DelegatePart
    <3> QED BY <1>0, <1>1, <2>3, <3>1 DEF Subscribe, DelegatePart, Delegates, serviceVars
  <2> QED BY <2>1, <2>2, <2>3
<1> QED BY <1>1, <1>2, <1>3, <1>4 DEF IInv

\* What the collector takes away.
LEMMA CollectorStep ==
  ASSUME IInv, GcTask \/ \E g \in Gens : GcResolver(g) \/ GcCall(g)
  PROVE  IInv' /\ UNCHANGED <<netVars, found, services>> /\ env.collector
<1>0. NetPart /\ BrowserPart /\ ServicePart /\ DelegatePart
  BY DEF IInv
<1>1. UNCHANGED <<netVars, batch, found, services, url, held, ready, known, subscribed>>
      /\ env.collector
  BY DEF GcTask, GcResolver, GcCall, browserVars, serviceVars
<1>2. NetPart'
  BY <1>0, <1>1, SameNet
<1>3. BrowserPart'
  BY <1>0, <1>1 DEF GcTask, GcResolver, GcCall, BrowserPart, browserVars, netVars
<1>4. tasks' \in Seq(Kinds \X Gens)
  <2>1. CASE GcTask
    <3>1. PICK i \in DOMAIN tasks :
            tasks' = SubSeq(tasks, 1, i - 1) \o SubSeq(tasks, i + 1, Len(tasks))
      BY <2>1 DEF GcTask
    <3> DEFINE T == Kinds \X Gens
    <3>2. tasks \in Seq(T)
      BY <1>0 DEF ServicePart
    <3> HIDE DEF T
    <3>3. i \in 1 .. Len(tasks) /\ Len(tasks) \in Nat
      BY <3>2
    <3>4. SubSeq(tasks, 1, i - 1) \in Seq(T) /\ SubSeq(tasks, i + 1, Len(tasks)) \in Seq(T)
      BY <3>2, <3>3
    <3>5. tasks' \in Seq(T)
      BY <3>1, <3>4
    <3> QED BY <3>5 DEF T
  <2>2. CASE \E g \in Gens : GcResolver(g) \/ GcCall(g)
    BY <1>0, <2>2 DEF GcResolver, GcCall, ServicePart, serviceVars
  <2> QED BY <2>1, <2>2
<1>5. ServicePart'
  BY <1>0, <1>1, <1>4 DEF ServicePart
<1>6. calls' \in SUBSET Gens /\ \A g \in Gens : <<"call", g>> \in ready' => g \in calls'
  <2>1. CASE \E g \in Gens : GcCall(g)
    BY <1>0, <1>1, <2>1 DEF GcCall, DelegatePart
  <2>2. CASE GcTask \/ \E g \in Gens : GcResolver(g)
    BY <1>0, <1>1, <2>2 DEF GcTask, GcResolver, DelegatePart, serviceVars
  <2> QED BY <2>1, <2>2
<1>7. DelegatePart'
  BY <1>0, <1>1, <1>6 DEF DelegatePart
<1> QED BY <1>1, <1>2, <1>3, <1>5, <1>7 DEF IInv

\* Every step preserves the types and what the last event tells.
LEMMA NextIInv == IInv /\ LastEvent /\ [Next]_vars => IInv' /\ LastEvent'
<1> SUFFICES ASSUME IInv, LastEvent, [Next]_vars PROVE IInv' /\ LastEvent'
  OBVIOUS
<1>1. ASSUME IInv', UNCHANGED <<netVars, found>> PROVE IInv' /\ LastEvent'
  BY <1>1 DEF LastEvent, netVars
<1>2. CASE UNCHANGED vars
  <2>1. UNCHANGED <<netVars, browserVars, serviceVars, ready, known, subscribed>>
    BY <1>2 DEF vars
  <2>2. IInv'
    BY <2>1, SameNet, SameBrowser, SameServices, SameDelegates DEF IInv, serviceVars
  <2> QED BY <1>1, <2>1, <2>2 DEF browserVars
<1>3. CASE Next
  BY <1>1, <1>3, NetworkStep, BrowseStep, ResolveStep, DelegateStep, SchedulerStep,
     CollectorStep DEF Next, Run
<1> QED BY <1>2, <1>3

-----------------------------------------------------------------------------
(* The thread that takes a removed name out of the table *)

\* Nothing has been removed in the beginning.
LEMMA InitRemoval == Init => RemovalPending
  BY DEF Init, RemovalPending

\* A name that is in the table and no longer found has its removal queued.
LEMMA NextRemoval == IInv /\ RemovalPending /\ [Next]_vars => RemovalPending'
<1> SUFFICES ASSUME IInv, RemovalPending, [Next]_vars,
                    ~env'.collector, "remove" \notin env'.fails, services' # None, found' = None
             PROVE  \E i \in DOMAIN tasks' : tasks'[i] = <<"remove", services'>>
  BY DEF RemovalPending
<1>0. tasks \in Seq(Kinds \X Gens) /\ services \in Gens \cup {None}
  BY DEF IInv, ServicePart
<1> DEFINE Queued == \E i \in DOMAIN tasks : tasks[i] = <<"remove", services>>
<1>1. services # None /\ found = None /\ ~env.collector /\ "remove" \notin env.fails => Queued
  BY DEF RemovalPending
<1>2. ASSUME UNCHANGED <<env, found, services, tasks>> PROVE Queued
  BY <1>1, <1>2
<1>3. CASE Browse
  <2>1. UNCHANGED env
    BY <1>3 DEF Browse
  <2>2. CASE BrowseAdd(Head(queue)[2])
    <3>1. Head(queue) \in Events /\ (Head(queue)[1] = "add" => Head(queue)[2] \in Gens)
      BY <1>3, NextEvent DEF IInv, NetPart, Browse, Events
    <3> QED BY <1>1, <1>3, <2>1, <2>2, <3>1, Marks DEF BrowseAdd, Browse, BrowseRemove
  <2>3. CASE BrowseRemove /\ found = None
    BY <1>2, <2>1, <2>3 DEF BrowseRemove
  <2>4. CASE BrowseRemove /\ found # None
    <3>1. services' = services /\ tasks' = Append(tasks, <<"remove", services>>)
      BY <2>4 DEF BrowseRemove, RemoveDevice
    <3>2. Len(tasks) + 1 \in DOMAIN tasks' /\ tasks'[Len(tasks) + 1] = <<"remove", services>>
      BY <1>0, <3>1
    <3> QED BY <3>1, <3>2
  <2> QED BY <1>3, <2>2, <2>3, <2>4 DEF Browse
<1>4. CASE \E g \in Gens : Resolve(g)
  <2>1. UNCHANGED <<env, found, services, tasks>>
    BY <1>4, Marks DEF Resolve, netVars
  <2> QED BY <1>2, <2>1
<1>5. CASE \E g \in Gens : Announce(g)
  <2>1. PICK g \in Gens : Announce(g)
    BY <1>5
  <2>2. UNCHANGED <<env, found, services>> /\ tasks # <<>> /\ tasks' = Tail(tasks)
        /\ Head(tasks) = <<"announce", g>>
    BY <2>1 DEF Announce, NextTask, netVars, browserVars
  <2>3. PICK i \in DOMAIN tasks : tasks[i] = <<"remove", services>>
    BY <1>1, <2>2
  <2>4. i # 1
    BY <2>2, <2>3
  <2>5. i \in 1 .. Len(tasks) /\ Len(tasks) \in Nat
    BY <1>0
  <2>6. i - 1 \in DOMAIN Tail(tasks) /\ Tail(tasks)[i - 1] = tasks[i]
    BY <1>0, <2>2, <2>4, <2>5
  <2> QED BY <2>2, <2>3, <2>6
<1>6. CASE \E g \in Gens : Remove(g)
  BY <1>6 DEF Remove, netVars
<1>7. CASE \/ Appear \/ Vanish \/ Subscribe \/ BrowserWakes \/ Poll \/ UNCHANGED vars
           \/ \E g \in Gens : CallReturns(g)
  <2>1. UNCHANGED <<env, found, services, tasks>>
    BY <1>7 DEF Appear, Vanish, Subscribe, BrowserWakes, Poll, CallReturns, vars, netVars,
                browserVars, serviceVars
  <2> QED BY <1>2, <2>1
<1>8. CASE GcTask \/ \E g \in Gens : GcResolver(g) \/ GcCall(g)
  BY <1>8, CollectorStep DEF netVars
<1> QED BY <1>3, <1>4, <1>5, <1>6, <1>7, <1>8 DEF Next, Run

-----------------------------------------------------------------------------
\* Everything keeps its type, in particular the threads that wait for the answer to
\* a request are those whose descriptor may be ready.
THEOREM TypeCorrect == Spec => []TypeOK
<1>1. Spec => [](IInv /\ LastEvent)
  BY InitIInv, NextIInv, PTL DEF Spec
<1> QED BY <1>1, IInvIsEnough, PTL

\* When the browser has read all its events the name is found exactly if it is on the
\* network, however often it came and went and whenever the resolvers answered.
THEOREM FoundIsOnline == Spec => []BrowserFollows
<1>1. Spec => [](IInv /\ LastEvent)
  BY InitIInv, NextIInv, PTL DEF Spec
<1> QED BY <1>1, LastEventIsEnough, PTL

\* A name that is not found any more leaves the table of services: the thread that
\* takes it out is queued as long as the collector does not take that thread.
THEOREM RemovalIsQueued == Spec => []RemovalPending
<1>1. Spec => [](IInv /\ LastEvent /\ RemovalPending)
  BY InitIInv, NextIInv, InitRemoval, NextRemoval, PTL DEF Spec
<1> QED BY <1>1, PTL

-----------------------------------------------------------------------------
(* What the delegates know when everything has been delivered              *)
(*                                                                         *)
(* In calm circumstances only one thread of ServiceBrowser is queued at a  *)
(* time.  The invariant says what has still to be done in each of the      *)
(* three situations, and that events alternate, so that the browser never  *)
(* ignores one.                                                            *)

\* Appearances and removals alternate; the first that is under way changes what is
\* found, the last tells the incarnation.
NewsPart ==
  /\ \A i \in 1 .. Len(queue) - 1 : queue[i][1] # queue[i + 1][1]
  /\ queue # <<>> => (queue[1][1] = "add" <=> found = None)
  /\ net # None => IF queue = <<>> THEN services = net ELSE queue[Len(queue)] = <<"add", net>>

\* Only the browser waits for a descriptor, and it is served when no thread is queued.
IdlePart ==
  /\ resolvers = {} /\ calls = {} /\ found \in {None, Done}
  /\ ready \subseteq {Browser}
  /\ batch # 0 \/ ready # {} => tasks = <<>> /\ queue # <<>>
  /\ batch = 0 \/ ready = {}
  /\ ~subscribed => known["client"] = None

\* No thread is queued: the delegates know what the table of services holds.
Settled ==
  /\ tasks = <<>>
  /\ services # None <=> found # None
  /\ services # None => services \in url
  /\ known["watch"] = services
  /\ subscribed /\ NamesMatch => known["client"] = services

\* The announcement of a service is queued, and its thread is referenced.
Announcing(g) ==
  /\ tasks = << <<"announce", g>> >>
  /\ services = g /\ found = Done /\ held[g] = "announce"
  /\ known["watch"] = None /\ (NamesMatch => known["client"] \in {None, g})

\* The removal of a service is queued, and its thread is referenced.
Removing(g) ==
  /\ tasks = << <<"remove", g>> >>
  /\ services = g /\ found = None /\ held[g] = "remove"

WorkPart == Settled \/ \E g \in Gens : Announcing(g) \/ Removing(g)

CalmInv == NewsPart /\ IdlePart /\ WorkPart

\* A settled table and no event under way: the delegates agree with the network.
LEMMA CalmIsEnough == IInv /\ LastEvent /\ CalmInv => KnownAtRest
<1> SUFFICES ASSUME IInv, LastEvent, CalmInv, AtRest PROVE Agreed
  BY DEF KnownAtRest
<1>1. queue = <<>> /\ tasks = <<>>
  BY DEF AtRest
<1>2. Settled
  <2>1. \A e : << e >> # <<>>
    OBVIOUS
  <2> QED BY <1>1, <2>1 DEF CalmInv, WorkPart, Announcing, Removing
<1>3. services = net
  BY <1>1, <1>2 DEF CalmInv, NewsPart, LastEvent, Settled
<1> QED BY <1>2, <1>3 DEF Agreed, Settled

\* Nothing is found, queued or known in the beginning.
LEMMA InitCalm == Init => CalmInv
<1> SUFFICES ASSUME Init PROVE CalmInv
  OBVIOUS
<1>1. NewsPart
  <2>1. Len(queue) = 0 /\ queue = <<>> /\ net = None
    BY DEF Init
  <2> QED BY <2>1 DEF NewsPart
<1>2. IdlePart
  BY DEF Init, IdlePart, Delegates
<1>3. Settled
  BY DEF Init, Settled, Delegates
<1> QED BY <1>1, <1>2, <1>3 DEF CalmInv, WorkPart

\* A thread is queued exactly when the table is not settled.
LEMMA TasksTell ==
  ASSUME CalmInv
  PROVE  /\ tasks = <<>> => Settled
         /\ \A kind, g : tasks # <<>> /\ Head(tasks) = <<kind, g>> =>
              /\ Tail(tasks) = <<>>
              /\ kind = "announce" => Announcing(g)
              /\ kind = "remove" => Removing(g)
<1>1. \A e : << e >> # <<>> /\ Head(<< e >>) = e /\ Tail(<< e >>) = <<>>
  OBVIOUS
<1>2. tasks = <<>> => Settled
  BY <1>1 DEF CalmInv, WorkPart, Announcing, Removing
<1>3. ASSUME NEW kind, NEW g, tasks # <<>>, Head(tasks) = <<kind, g>>
      PROVE  /\ Tail(tasks) = <<>>
             /\ kind = "announce" => Announcing(g)
             /\ kind = "remove" => Removing(g)
  <2>1. PICK h \in Gens : Announcing(h) \/ Removing(h)
    BY <1>3 DEF CalmInv, WorkPart, Settled
  <2>2. CASE Announcing(h)
    <3>1. tasks = << <<"announce", h>> >>
      BY <2>2 DEF Announcing
    <3>2. <<kind, g>> = <<"announce", h>> /\ Tail(tasks) = <<>>
      BY <1>1, <1>3, <3>1
    <3>3. kind = "announce" /\ g = h
      BY <3>2
    <3> QED BY <2>2, <3>2, <3>3
  <2>3. CASE Removing(h)
    <3>1. tasks = << <<"remove", h>> >>
      BY <2>3 DEF Removing
    <3>2. <<kind, g>> = <<"remove", h>> /\ Tail(tasks) = <<>>
      BY <1>1, <1>3, <3>1
    <3>3. kind = "remove" /\ g = h
      BY <3>2
    <3> QED BY <2>3, <3>2, <3>3
  <2> QED BY <2>1, <2>2, <2>3
<1> QED BY <1>2, <1>3

\* Frames of the parts.
LEMMA SameNews ==
  ASSUME NewsPart, UNCHANGED <<queue, net, found, services>>
  PROVE  NewsPart'
  BY DEF NewsPart

\* The same of the threads and the table.
LEMMA SameWork ==
  ASSUME WorkPart, UNCHANGED <<env, found, services, url, held, tasks, known, subscribed>>
  PROVE  WorkPart'
  BY DEF WorkPart, Settled, Announcing, Removing, NamesMatch

\* The same of who waits.
LEMMA SameIdle ==
  ASSUME IdlePart, UNCHANGED <<queue, batch, found, resolvers, calls, tasks, ready, known,
                               subscribed>>
  PROVE  IdlePart'
  BY DEF IdlePart

\* The network appends the opposite of its last event.
LEMMA NetworkCalm ==
  ASSUME IInv, LastEvent, CalmInv, Appear \/ Vanish
  PROVE  CalmInv'
<1>1. UNCHANGED <<env, browserVars, serviceVars, ready, known, subscribed>>
  BY DEF Appear, Vanish
<1>2. queue \in Seq(Events)
  BY DEF IInv, NetPart
<1>3. PICK e \in Events : /\ queue' = Append(queue, e)
                          /\ e[1] = "add" <=> net = None
                          /\ net' # None => e = <<"add", net'>>
  <2>1. CASE Appear
    <3>1. net = None /\ net' = gen' /\ queue' = Append(queue, <<"add", gen'>>)
      BY <2>1 DEF Appear
    <3>2. gen' \in Gens
      <4>1. gen' = gen + 1 /\ gen < MaxGen
        BY <2>1 DEF Appear
      <4>2. gen \in 0 .. MaxGen
        BY DEF IInv, NetPart
      <4> QED BY <4>1, <4>2 DEF Gens
    <3>3. <<"add", gen'>> \in Events
      BY <3>2 DEF Events
    <3> QED BY <3>1, <3>3
  <2>2. CASE Vanish
    <3>1. <<"remove", None>> \in Events
      BY DEF Events
    <3> QED BY <2>2, <3>1 DEF Vanish
  <2> QED BY <2>1, <2>2
<1>4. \A f \in Events : f[1] = "add" \/ f[1] = "remove"
  BY DEF Events
<1>5. /\ queue' \in Seq(Events) /\ Len(queue') = Len(queue) + 1 /\ Len(queue) \in Nat
      /\ queue'[Len(queue')] = e /\ queue' # <<>>
      /\ \A i \in 1 .. Len(queue) : queue'[i] = queue[i]
  BY <1>2, <1>3
<1>6. CASE queue = <<>>
  <2>1. Len(queue) = 0
    BY <1>6
  <2>2. found = None <=> net = None
    BY <1>6 DEF LastEvent
  <2>3. queue'[1] = e /\ Len(queue') - 1 = 0
    BY <1>5, <2>1
  <2>4. NewsPart'
    BY <1>1, <1>3, <1>5, <2>2, <2>3 DEF NewsPart, browserVars
  <2> QED BY <1>1, <1>5, <2>4, SameWork
          DEF CalmInv, IdlePart, browserVars, serviceVars
<1>7. CASE queue # <<>>
  <2>1. Len(queue) \in 1 .. Len(queue)
    BY <1>2, <1>7
  <2>2. queue[Len(queue)][1] = "add" <=> net # None
    BY <1>7 DEF LastEvent
  <2>3. queue[Len(queue)][1] # e[1]
    BY <1>3, <2>2
  <2>4. \A i \in 1 .. Len(queue') - 1 : queue'[i][1] # queue'[i + 1][1]
    <3> SUFFICES ASSUME NEW i \in 1 .. Len(queue) PROVE queue'[i][1] # queue'[i + 1][1]
      BY <1>5
    <3>1. CASE i = Len(queue)
      BY <1>5, <2>1, <2>3, <3>1
    <3>2. CASE i # Len(queue)
      <4>1. i \in 1 .. Len(queue) - 1 /\ i + 1 \in 1 .. Len(queue)
        BY <1>5, <3>2
      <4>2. queue[i][1] # queue[i + 1][1]
        BY <4>1 DEF CalmInv, NewsPart
      <4> QED BY <1>5, <4>1, <4>2
    <3> QED BY <3>1, <3>2
  <2>5. queue'[1] = queue[1]
    BY <1>5, <2>1
  <2>6. NewsPart'
    BY <1>1, <1>3, <1>5, <1>7, <2>4, <2>5 DEF CalmInv, NewsPart, browserVars
  <2> QED BY <1>1, <1>5, <1>7, <2>6, SameWork
          DEF CalmInv, IdlePart, browserVars, serviceVars
<1> QED BY <1>6, <1>7

\* The browser reads an event: it is never one that it ignores, and it finds the table
\* settled.
LEMMA BrowseCalm ==
  ASSUME IInv, LastEvent, Calm, CalmInv, Browse
  PROVE  CalmInv'
<1>1. /\ batch > 0 /\ queue # <<>> /\ queue' = Tail(queue)
      /\ batch' = IF queue' = <<>> THEN 0 ELSE batch - 1
      /\ UNCHANGED <<env, net, gen, url, calls, ready, known, subscribed>>
  BY DEF Browse
<1>2. queue \in Seq(Events) /\ batch = 1 /\ services \in Gens \cup {None}
      /\ held \in [Gens -> {"none", "announce", "remove"}]
  BY <1>1 DEF IInv, NetPart, BrowserPart, ServicePart, Calm
<1>3. tasks = <<>> /\ ready \subseteq {Browser} /\ resolvers = {} /\ calls = {}
      /\ (~subscribed => known["client"] = None)
  BY <1>2 DEF CalmInv, IdlePart
<1>4. Settled
  BY <1>3, TasksTell
<1>5. batch' = 0 /\ ready = {}
  BY <1>1, <1>2 DEF CalmInv, IdlePart
<1>6. /\ Head(queue) = queue[1] /\ Head(queue) \in Events /\ Len(queue) \in Nat \ {0}
      /\ Len(queue') = Len(queue) - 1 /\ \A i \in 1 .. Len(queue') : queue'[i] = queue[i + 1]
  BY <1>1, <1>2
<1>7. queue' = <<>> => Len(queue) = 1
  <2>1. \A s : s = <<>> => Len(s) = 0
    OBVIOUS
  <2>2. queue' = <<>> => Len(queue') = 0
    BY <2>1, Zenon
  <2> QED BY <1>6, <2>2
<1>8. \A e \in Events : e[1] = "add" \/ e[1] = "remove"
  BY DEF Events
<1>9. ~env.fd
  BY DEF Calm
\* What is read was the opposite of what is found.
<1>10. queue[1][1] = "add" <=> found = None
  BY <1>1 DEF CalmInv, NewsPart
<1>11. /\ found' \in {None, Done} /\ resolvers' = {}
       /\ found' # None <=> queue[1][1] = "add"
       /\ queue[1][1] = "add" => services' = queue[1][2]
       /\ \E g \in Gens : Announcing(g)' \/ Removing(g)'
  <2>1. CASE queue[1][1] = "add"
    <3>1. found = None /\ services = None
      BY <1>4, <1>10, <2>1 DEF Settled
    <3>2. PICK g \in Gens : queue[1] = <<"add", g>>
      BY <1>6, <2>1 DEF Events
    <3>3. BrowseAdd(g)
      BY <1>6, <2>1, <3>2 DEF Browse
    <3>4. found' = Done /\ resolvers' = resolvers /\ AddDevice(g)
      BY <1>9, <3>1, <3>3 DEF BrowseAdd
    <3>5. /\ services' = g /\ held'[g] = "announce"
          /\ tasks' = << <<"announce", g>> >>
      BY <1>2, <1>3, <3>1, <3>4 DEF AddDevice
    <3>6. known["watch"] = None /\ (NamesMatch => known["client"] = None)
      BY <1>3, <1>4, <3>1 DEF Settled
    <3>7. Announcing(g)'
      BY <1>1, <3>4, <3>5, <3>6 DEF Announcing, NamesMatch
    <3> QED BY <1>3, <2>1, <3>2, <3>4, <3>5, <3>7, Marks
  <2>2. CASE queue[1][1] = "remove"
    <3>1. found # None /\ services # None
      BY <1>4, <1>10, <2>2 DEF Settled
    <3>2. BrowseRemove
      BY <1>6, <2>2 DEF Browse
    <3>3. found' = None /\ resolvers' = resolvers /\ RemoveDevice
      BY <3>1, <3>2 DEF BrowseRemove
    <3>4. services' = services /\ services \in Gens /\ held'[services] = "remove"
      BY <1>2, <3>1, <3>3 DEF RemoveDevice
    <3>5. tasks' = << <<"remove", services>> >>
      BY <1>3, <3>1, <3>3 DEF RemoveDevice
    <3>6. Removing(services)'
      BY <3>3, <3>4, <3>5 DEF Removing
    <3> QED BY <1>3, <2>2, <3>3, <3>4, <3>6
  <2> QED BY <1>6, <1>8, <2>1, <2>2
<1>12. IdlePart'
  BY <1>1, <1>3, <1>5, <1>11 DEF IdlePart
<1>13. NewsPart'
  <2>1. \A i \in 1 .. Len(queue') - 1 : queue'[i][1] # queue'[i + 1][1]
    <3> SUFFICES ASSUME NEW i \in 1 .. Len(queue') - 1 PROVE queue'[i][1] # queue'[i + 1][1]
      OBVIOUS
    <3>1. i + 1 \in 1 .. Len(queue) - 1
      BY <1>6
    <3>2. queue[i + 1][1] # queue[i + 1 + 1][1]
      BY <3>1 DEF CalmInv, NewsPart
    <3> QED BY <1>6, <3>1, <3>2
  <2>2. ASSUME queue' # <<>> PROVE queue'[1][1] = "add" <=> found' = None
    <3>1. Len(queue') \in Nat /\ Len(queue') # 0
      BY <1>1, <1>2, <1>6, <2>2
    <3>2. 1 \in 1 .. Len(queue) - 1 /\ queue'[1] = queue[2]
      BY <1>6, <3>1
    <3>3. queue[1][1] # queue[2][1]
      BY <3>2 DEF CalmInv, NewsPart
    <3>4. queue[1] \in Events /\ queue[2] \in Events
      BY <1>2, <1>6, <3>2
    <3> QED BY <1>8, <1>11, <3>2, <3>3, <3>4
  <2>3. ASSUME net' # None
        PROVE  IF queue' = <<>> THEN services' = net' ELSE queue'[Len(queue')] = <<"add", net'>>
    <3>1. queue[Len(queue)] = <<"add", net>>
      BY <1>1, <2>3 DEF CalmInv, NewsPart
    <3>2. CASE queue' = <<>>
      BY <1>1, <1>7, <1>11, <3>1, <3>2
    <3>3. CASE queue' # <<>>
      BY <1>1, <1>2, <3>1, <3>3, NextEvent
    <3> QED BY <3>2, <3>3
  <2> QED BY <2>1, <2>2, <2>3 DEF NewsPart
<1> QED BY <1>11, <1>12, <1>13 DEF CalmInv, WorkPart

\* The queued thread settles the table.
LEMMA DelegateCalm ==
  ASSUME IInv, LastEvent, Calm, CalmInv, NEW g \in Gens, Announce(g) \/ Remove(g)
  PROVE  CalmInv'
<1>1. UNCHANGED <<netVars, browserVars, ready, subscribed>> /\ ready = {} /\ batch = 0
  BY DEF Announce, Remove, NextTask
<1>2. known \in [Delegates -> Gens \cup {None}]
  BY DEF IInv, DelegatePart
<1>3. /\ calls' = calls /\ tasks' = <<>> /\ Settled'
      /\ services' = services \/ found = None
      /\ ~subscribed => known'["client"] = None
  <2>1. CASE Announce(g)
    <3>1. Announcing(g) /\ tasks' = <<>>
      BY <2>1, TasksTell DEF Announce, NextTask
    <3>2. calls' = calls /\ services' = services /\ url' = url \cup {g}
          /\ known' = Told(Delegates, Name, g)
      BY <2>1 DEF Announce, Calm
    <3>3. NamesMatch => Name = "full" /\ env.asked = "full"
      BY DEF NamesMatch, Name
    <3>4. known'["watch"] = g
      BY <3>1, <3>2 DEF Told, Listens, Announcing, Delegates
    <3>5. known'["client"] = IF subscribed /\ env.asked = Name /\ known["client"] = None
                             THEN g ELSE known["client"]
      BY <3>2 DEF Told, Listens, Delegates
    <3>6. ~subscribed => known["client"] = None
      BY DEF CalmInv, IdlePart
    <3>7. /\ subscribed /\ NamesMatch => known'["client"] = g
          /\ ~subscribed => known'["client"] = None
      BY <3>1, <3>3, <3>5, <3>6 DEF Announcing
    <3>8. Settled'
      BY <1>1, <3>1, <3>2, <3>4, <3>7, Marks
         DEF Settled, Announcing, NamesMatch, netVars, browserVars
    <3> QED BY <3>1, <3>2, <3>7, <3>8
  <2>2. CASE Remove(g)
    <3>1. Removing(g) /\ tasks' = <<>>
      BY <2>2, TasksTell DEF Remove, NextTask
    <3>2. calls' = calls /\ services' = None /\ url' = url
          /\ known' = Untold(Delegates) /\ found' = None
      BY <1>1, <2>2, <3>1 DEF Remove, Removing, Calm, browserVars
    <3>3. /\ known'["watch"] = None
          /\ subscribed /\ NamesMatch => known'["client"] = None
          /\ ~subscribed => known'["client"] = known["client"]
      BY <3>2 DEF Untold, Listens, NamesMatch, Delegates
    <3>4. ~subscribed => known'["client"] = None
      BY <3>3 DEF CalmInv, IdlePart
    <3>5. Settled'
      BY <1>1, <3>1, <3>2, <3>3 DEF Settled, NamesMatch, netVars
    <3> QED BY <3>1, <3>2, <3>4, <3>5 DEF Removing
  <2> QED BY <2>1, <2>2
\* Where the table changes nothing is found: if the network has the service, its
\* appearance is under way.
<1>4. NewsPart'
  BY <1>1, <1>3 DEF CalmInv, NewsPart, LastEvent, netVars, browserVars
<1>5. IdlePart'
  BY <1>1, <1>3 DEF CalmInv, IdlePart, netVars, browserVars
<1> QED BY <1>3, <1>4, <1>5 DEF CalmInv, WorkPart

\* The scheduler lets the browser read when no thread is queued. Who subscribes is told
\* at once or by the announcement.
LEMMA SchedulerCalm ==
  ASSUME IInv, Calm, CalmInv, BrowserWakes \/ Poll \/ Subscribe
  PROVE  CalmInv'
<1>1. UNCHANGED <<netVars, found, resolvers, serviceVars>>
  BY DEF BrowserWakes, Poll, Subscribe, browserVars
<1>2. NewsPart'
  BY <1>1, SameNews DEF CalmInv, netVars, serviceVars
<1>3. CASE BrowserWakes
  <2>1. ready # {} /\ ready' = {} /\ batch' = 1 /\ UNCHANGED <<known, subscribed>>
    BY <1>3 DEF BrowserWakes, CalmInv, IdlePart, Calm
  <2>2. IdlePart'
    BY <1>1, <2>1 DEF CalmInv, IdlePart, netVars, serviceVars
  <2> QED BY <1>1, <1>2, <2>1, <2>2, SameWork DEF CalmInv, netVars, serviceVars
<1>4. CASE Poll
  <2>1. batch = 0 /\ tasks = <<>> /\ ready' # {} /\ ready' \subseteq Readable
        /\ UNCHANGED <<batch, known, subscribed>>
    BY <1>4 DEF Poll, browserVars
  <2>2. Readable = IF queue # <<>> THEN {Browser} ELSE {}
    BY DEF CalmInv, IdlePart, Readable
  <2>3. IdlePart'
    BY <1>1, <2>1, <2>2 DEF CalmInv, IdlePart, netVars, serviceVars
  <2> QED BY <1>1, <1>2, <2>1, <2>3, SameWork DEF CalmInv, netVars, serviceVars
<1>5. CASE Subscribe
  <2>1. /\ ~subscribed /\ subscribed' = TRUE
        /\ known' = IF services \in url /\ env.asked = "full"
                    THEN [known EXCEPT !["client"] = services] ELSE known
        /\ UNCHANGED <<env, batch, ready>>
    BY <1>5 DEF Subscribe, netVars, browserVars
  <2>2. known \in [Delegates -> Gens \cup {None}]
    BY DEF IInv, DelegatePart
  <2>3. known["client"] = None
    BY <2>1 DEF CalmInv, IdlePart
  <2>4. known'["watch"] = known["watch"]
        /\ NamesMatch => known'["client"] = IF services \in url THEN services ELSE None
    BY <2>1, <2>2, <2>3 DEF Delegates, NamesMatch
  <2>5. WorkPart'
    <3>1. CASE Settled
      BY <1>1, <2>1, <2>4, <3>1 DEF WorkPart, Settled, NamesMatch, serviceVars
    <3>2. ASSUME NEW g \in Gens, Announcing(g) PROVE Announcing(g)'
      BY <1>1, <2>1, <2>4, <3>2 DEF Announcing, NamesMatch, serviceVars
    <3>3. ASSUME NEW g \in Gens, Removing(g) PROVE Removing(g)'
      BY <1>1, <3>3 DEF Removing, serviceVars
    <3> QED BY <3>1, <3>2, <3>3 DEF CalmInv, WorkPart
  <2>6. IdlePart'
    BY <1>1, <2>1 DEF CalmInv, IdlePart, netVars, serviceVars
  <2> QED BY <1>2, <2>5, <2>6 DEF CalmInv
<1> QED BY <1>3, <1>4, <1>5

\* No resolver and no call waits; the collector finds the queued thread referenced.
LEMMA NothingCollected ==
  ASSUME IInv, CalmInv
  PROVE  /\ \A g \in Gens : ~Resolve(g) /\ ~CallReturns(g) /\ ~GcResolver(g) /\ ~GcCall(g)
         /\ ~GcTask
<1>1. resolvers = {} /\ calls = {} /\ ready \subseteq {Browser}
  BY DEF CalmInv, IdlePart
<1>2. \A g : <<"resolve", g>> # Browser /\ <<"call", g>> # Browser
  BY DEF Browser
<1>3. \A g \in Gens : ~Resolve(g) /\ ~CallReturns(g) /\ ~GcResolver(g) /\ ~GcCall(g)
  BY <1>1, <1>2 DEF Resolve, CallReturns, GcResolver, GcCall
<1>4. ASSUME NEW i \in DOMAIN tasks PROVE Referenced(tasks[i][1], tasks[i][2])
  <2>1. tasks # <<>>
    BY <1>4
  <2>2. PICK g \in Gens : Announcing(g) \/ Removing(g)
    BY <2>1 DEF CalmInv, WorkPart, Settled
  <2>3. \E kind : /\ tasks = << <<kind, g>> >> /\ services = g /\ held[g] = kind
    BY <2>2 DEF Announcing, Removing
  <2>4. PICK kind : tasks = << <<kind, g>> >> /\ services = g /\ held[g] = kind
    BY <2>3
  <2>5. i = 1
    BY <2>4
  <2>6. tasks[i] = <<kind, g>>
    BY <2>4, <2>5
  <2> QED BY <2>4, <2>6 DEF Referenced
<1>5. ~GcTask
  BY <1>4 DEF GcTask
<1> QED BY <1>3, <1>5

\* Every step keeps the circumstances, and in calm ones what has still to be done.
LEMMA NextCalm ==
  IInv /\ LastEvent /\ (Calm => CalmInv) /\ [Next]_vars => (Calm => CalmInv)'
<1> SUFFICES ASSUME IInv, LastEvent, Calm => CalmInv, [Next]_vars, Calm' PROVE CalmInv'
  OBVIOUS
<1>1. env' = env
  BY DEF Next, Run, Appear, Vanish, Subscribe, BrowserWakes, Browse, Poll, Resolve, Announce,
         CallReturns, Remove, GcTask, GcResolver, GcCall, vars, netVars
<1>2. Calm /\ CalmInv
  BY <1>1 DEF Calm
<1>3. CASE UNCHANGED vars
  BY <1>2, <1>3, SameNews, SameIdle, SameWork
     DEF CalmInv, vars, netVars, browserVars, serviceVars
<1>4. CASE Next
  BY <1>2, <1>4, NothingCollected, NetworkCalm, BrowseCalm, DelegateCalm, SchedulerCalm
     DEF Next, Run
<1> QED BY <1>3, <1>4

\* When services come resolved, one event at a time, and no delegate waits or fails:
\* whenever everything has been delivered the watch knows the incarnation that is on
\* the network, and so does a client that was added before the watch and asks for the
\* name with its zone, whenever it subscribes and whatever the collector does. Of
\* other clients nothing is claimed: the watch has changed the name they are told
\* (ProcessWatch.lua 72-73), or they ask for another. It is the part of
\* EventuallyKnown that is not liveness.
THEOREM CalmIsKnown == Spec => [](Calm => KnownAtRest)
<1>1. Spec => [](IInv /\ LastEvent /\ (Calm => CalmInv))
  <2>1. Init => (Calm => CalmInv)
    BY InitCalm
  <2> QED BY InitIInv, NextIInv, <2>1, NextCalm, PTL DEF Spec
<1>2. IInv /\ LastEvent /\ (Calm => CalmInv) => (Calm => KnownAtRest)
  BY CalmIsEnough
<1> QED BY <1>1, <1>2, PTL

-----------------------------------------------------------------------------
(* One direction of a TCP connection: theorems about Stream *)

\* A set of numbers has a least element.
LEMMA Smallest ==
  ASSUME NEW X \in SUBSET Nat, X # {}
  PROVE  \E i \in X : \A j \in X : i <= j
<1> DEFINE T == {0 .. i : i \in X}
<1>1. T \subseteq FiniteSubsetsOf(Nat) /\ T # {}
  <2>1. ASSUME NEW i \in X PROVE IsFiniteSet(0 .. i) /\ 0 .. i \in SUBSET Nat
    BY FS_Interval
  <2>2. ASSUME NEW x \in T PROVE x \in FiniteSubsetsOf(Nat)
    <3>1. PICK i \in X : x = 0 .. i
      OBVIOUS
    <3> QED BY <2>1, <3>1 DEF FiniteSubsetsOf
  <2>3. T # {}
    <3>1. PICK i : i \in X
      OBVIOUS
    <3>2. 0 .. i \in T
      BY <3>1
    <3> QED BY <3>2
  <2> HIDE DEF T
  <2> QED BY <2>2, <2>3
<1>2. PICK x \in T : \A y \in T : ~ (<<y, x>> \in StrictSubsetOrdering(Nat))
  <2> HIDE DEF T
  <2> QED BY <1>1, FS_StrictSubsetOrderingWellFounded, WFMin
<1>3. PICK i \in X : x = 0 .. i
  OBVIOUS
<1>4. ASSUME NEW j \in X PROVE i <= j
  <2>1. ~ (<<0 .. j, 0 .. i>> \in StrictSubsetOrdering(Nat))
    BY <1>2, <1>3
  <2>2. 0 .. i \in SUBSET Nat /\ 0 .. j \in SUBSET Nat
    OBVIOUS
  <2>3. ~ (0 .. j \subseteq 0 .. i /\ 0 .. j # 0 .. i)
    BY <2>1, <2>2 DEF StrictSubsetOrdering
  <2>4. CASE j < i
    <3>1. 0 .. j \subseteq 0 .. i
      BY <2>4
    <3>2. i \in 0 .. i /\ i \notin 0 .. j
      BY <2>4
    <3> QED BY <2>3, <3>1, <3>2
  <2> QED BY <2>4
<1> QED BY <1>4

-----------------------------------------------------------------------------
(* Where the pieces begin *)

Count == Len(Pieces)

LEMMA PiecesAre ==
  /\ Count \in Nat
  /\ \A k \in 1 .. Count : /\ Pieces[k].line \in BOOLEAN
                           /\ Pieces[k].size \in Nat /\ Pieces[k].size > 0
  /\ Capacity \in Nat /\ Capacity > 0
<1>1. Pieces \in Seq([line : BOOLEAN, size : Nat \ {0}])
  BY StreamAssumption
<1>2. Count \in Nat /\ \A k \in 1 .. Count : Pieces[k] \in [line : BOOLEAN, size : Nat \ {0}]
  <2> DEFINE P == [line : BOOLEAN, size : Nat \ {0}]
  <2>1. Pieces \in Seq(P)
    BY <1>1
  <2> HIDE DEF P
  <2>2. Len(Pieces) \in Nat /\ \A k \in 1 .. Len(Pieces) : Pieces[k] \in P
    BY <2>1
  <2> QED BY <2>2 DEF Count, P
<1> QED BY <1>2, StreamAssumption

\* First is what its equation says.
LEMMA FirstIs ==
  First = [k \in 1 .. Count + 1 |->
             IF k = 1 THEN 1 ELSE First[k - 1] + Pieces[k - 1].size]
<1> DEFINE Load(f, j) == f = [k \in 1 .. j |->
                           IF k = 1 THEN 1 ELSE f[k - 1] + Pieces[k - 1].size]
           Bad == {j \in 1 .. Count + 1 : ~ \E f : Load(f, j)}
<1>0. Count \in Nat
  BY PiecesAre
<1>1. ASSUME Bad # {} PROVE FALSE
  <2>1. PICK b \in Bad : \A j \in Bad : b <= j
    <3>1. Bad \in SUBSET Nat
      BY <1>0
    <3> HIDE DEF Bad
    <3> QED BY <1>1, <3>1, Smallest
  <2>2. b # 1
    <3>1. Load([k \in 1 .. 1 |-> 1], 1)
      OBVIOUS
    <3> HIDE DEF Load
    <3> QED BY <3>1
  <2>3. b \in 2 .. Count + 1 /\ b - 1 \in 1 .. Count + 1 /\ b - 1 \notin Bad
    <3>1. b \in 1 .. Count + 1
      OBVIOUS
    <3> HIDE DEF Bad
    <3> QED BY <1>0, <2>1, <2>2, <3>1
  <2>4. PICK f : Load(f, b - 1)
    BY <2>3
  <2> DEFINE g == [k \in 1 .. b |-> IF k = b THEN f[b - 1] + Pieces[b - 1].size ELSE f[k]]
  <2>5. Load(g, b)
    <3>1. \A k \in 1 .. b - 1 : g[k] = f[k]
      BY <1>0, <2>3
    <3>2. g[b] = f[b - 1] + Pieces[b - 1].size
      BY <1>0, <2>3
    <3>3. ASSUME NEW k \in 1 .. b
          PROVE  g[k] = IF k = 1 THEN 1 ELSE g[k - 1] + Pieces[k - 1].size
      <4>1. CASE k = b
        <5>1. b - 1 \in 1 .. b - 1 /\ b # 1
          BY <1>0, <2>3
        <5>2. g[b - 1] = f[b - 1]
          BY <3>1, <5>1
        <5> QED BY <3>2, <4>1, <5>1, <5>2
      <4>2. CASE k # b
        <5>1. k \in 1 .. b - 1 /\ (k # 1 => k - 1 \in 1 .. b - 1)
          BY <1>0, <2>3, <4>2
        <5>2. f[k] = IF k = 1 THEN 1 ELSE f[k - 1] + Pieces[k - 1].size
          BY <2>4, <5>1
        <5> HIDE DEF g
        <5> QED BY <3>1, <5>1, <5>2
      <4> QED BY <4>1, <4>2
    <3>4. g = [k \in 1 .. b |-> g[k]]
      OBVIOUS
    <3> HIDE DEF g
    <3> QED BY <3>3, <3>4
  <2> HIDE DEF Load
  <2> QED BY <2>5
<1>2. PICK f : Load(f, Count + 1)
  <2>1. Count + 1 \in 1 .. Count + 1
    BY <1>0
  <2> QED BY <1>1, <2>1
<1>3. \E h : h = [k \in 1 .. Count + 1 |-> IF k = 1 THEN 1 ELSE h[k - 1] + Pieces[k - 1].size]
  BY <1>2
<1> QED BY <1>3 DEF First, Count

LEMMA FirstNext ==
  /\ First[1] = 1
  /\ \A k \in 1 .. Count : First[k + 1] = First[k] + Pieces[k].size
<1> DEFINE F(f) == [k \in 1 .. Count + 1 |-> IF k = 1 THEN 1 ELSE f[k - 1] + Pieces[k - 1].size]
<1>0. Count \in Nat
  BY PiecesAre
<1>1. First = F(First)
  BY FirstIs
<1>2. F(First)[1] = 1
  BY <1>0
<1>3. ASSUME NEW k \in 1 .. Count PROVE F(First)[k + 1] = First[k] + Pieces[k].size
  <2>1. k + 1 \in 1 .. Count + 1 /\ k + 1 # 1 /\ k + 1 - 1 = k
    BY <1>0
  <2> QED BY <2>1
<1> HIDE DEF F
<1> QED BY <1>1, <1>2, <1>3

LEMMA FirstType ==
  \A k \in 1 .. Count + 1 : First[k] \in Nat /\ First[k] >= 1
<1> DEFINE Bad == {k \in 1 .. Count + 1 : ~ (First[k] \in Nat /\ First[k] >= 1)}
<1>0. Count \in Nat
  BY PiecesAre
<1>1. ASSUME Bad # {} PROVE FALSE
  <2>1. PICK b \in Bad : \A j \in Bad : b <= j
    <3>1. Bad \in SUBSET Nat
      BY <1>0
    <3> HIDE DEF Bad
    <3> QED BY <1>1, <3>1, Smallest
  <2>2. b \in 1 .. Count + 1 /\ ~ (First[b] \in Nat /\ First[b] >= 1)
    OBVIOUS
  <2>3. b # 1
    BY <2>2, FirstNext
  <2>4. b - 1 \in 1 .. Count /\ b - 1 \in 1 .. Count + 1 /\ b - 1 + 1 = b
    BY <1>0, <2>2, <2>3
  <2>5. b - 1 \notin Bad
    <3> HIDE DEF Bad
    <3> QED BY <1>0, <2>1, <2>2
  <2>6. First[b - 1] \in Nat /\ First[b - 1] >= 1
    BY <2>4, <2>5
  <2>7. First[b] = First[b - 1] + Pieces[b - 1].size
    BY <2>4, FirstNext
  <2>8. Pieces[b - 1].size \in Nat
    BY <2>4, PiecesAre
  <2> QED BY <2>2, <2>6, <2>7, <2>8
<1> QED BY <1>1

\* Every piece has a byte: later ones begin later.
LEMMA FirstGrows ==
  ASSUME NEW i \in 1 .. Count + 1, NEW j \in 1 .. Count + 1, i < j
  PROVE  First[i] < First[j]
<1> DEFINE Bad == {k \in 1 .. Count + 1 : i < k /\ ~ (First[i] < First[k])}
<1>0. Count \in Nat
  BY PiecesAre
<1>1. ASSUME Bad # {} PROVE FALSE
  <2>1. PICK b \in Bad : \A k \in Bad : b <= k
    <3>1. Bad \in SUBSET Nat
      BY <1>0
    <3> HIDE DEF Bad
    <3> QED BY <1>1, <3>1, Smallest
  <2>2. b \in 1 .. Count + 1 /\ i < b /\ ~ (First[i] < First[b])
    OBVIOUS
  <2>4. b - 1 \in 1 .. Count /\ b - 1 \in 1 .. Count + 1 /\ b - 1 + 1 = b
    BY <1>0, <2>2
  <2>5. b - 1 \notin Bad
    <3> HIDE DEF Bad
    <3> QED BY <1>0, <2>1, <2>2
  <2>6. i = b - 1 \/ First[i] < First[b - 1]
    BY <1>0, <2>2, <2>4, <2>5
  <2>7. First[b] = First[b - 1] + Pieces[b - 1].size
    BY <2>4, FirstNext
  <2>8. /\ Pieces[b - 1].size \in Nat /\ Pieces[b - 1].size > 0
        /\ First[b - 1] \in Nat /\ First[i] \in Nat
    BY <2>4, PiecesAre, FirstType
  <2> QED BY <2>2, <2>6, <2>7, <2>8
<1> QED BY <1>1

LEMMA SizeIs ==
  Size \in Nat /\ Size = First[Count + 1] - 1 /\ Count + 1 \in 1 .. Count + 1
<1>1. Count \in Nat /\ Count + 1 \in 1 .. Count + 1
  BY PiecesAre
<1> QED BY <1>1, FirstType DEF Size, Count

\* The least of a set of numbers.
LEMMA MinIs ==
  ASSUME NEW X \in SUBSET Nat, X # {}
  PROVE  Min(X) \in X /\ \A j \in X : Min(X) <= j
<1>1. \E i \in X : \A j \in X : i <= j
  BY Smallest
<1> QED BY <1>1 DEF Min

-----------------------------------------------------------------------------
(* The receiver *)

\* The types, with the number of bytes the kernel holds.
CountPart ==
  /\ taken \in Nat /\ arrived \in Nat /\ sent \in Nat
  /\ taken <= arrived /\ arrived <= sent /\ sent <= Size
  /\ sent - taken <= Capacity
  /\ from \in Nat /\ 1 <= from /\ from <= taken + 1
  /\ fin \in {"no", "sent", "arrived"} /\ open \in BOOLEAN /\ dropped \in BOOLEAN
  /\ got \in Seq((1 .. Size) \X (1 .. Size)) /\ Len(got) <= Count

\* The end comes behind the last byte.
FinPart ==
  /\ fin # "no" => sent = Size
  /\ fin = "arrived" => arrived = Size

\* Nothing is lost: the buffer starts where the piece does that is next, and the
\* connection has not been found closed.
PiecePart ==
  ~dropped => /\ from = First[Len(got) + 1]
              /\ \A k \in 1 .. Len(got) : got[k] = Expected[k]
              /\ open

StreamInv == CountPart /\ FinPart /\ PiecePart

LEMMA NextPiece ==
  ASSUME CountPart, Len(got) < Count
  PROVE  /\ Len(got) + 1 \in 1 .. Count /\ Len(got) + 1 \in 1 .. Count + 1
         /\ Len(got) + 2 \in 1 .. Count + 1 /\ Len(got) \in Nat
         /\ Piece.line \in BOOLEAN /\ Piece.size \in Nat /\ Piece.size > 0
         /\ First[Len(got) + 2] = First[Len(got) + 1] + Piece.size
         /\ First[Len(got) + 1] \in Nat /\ First[Len(got) + 2] \in Nat
         /\ First[Len(got) + 2] - 1 <= Size
<1>1. Len(got) \in Nat /\ Count \in Nat
  BY PiecesAre DEF CountPart
<1>2. /\ Len(got) + 1 \in 1 .. Count /\ Len(got) + 1 \in 1 .. Count + 1
      /\ Len(got) + 2 \in 1 .. Count + 1 /\ Len(got) + 1 + 1 = Len(got) + 2
  BY <1>1
<1>3. Piece.line \in BOOLEAN /\ Piece.size \in Nat /\ Piece.size > 0
  BY <1>2, PiecesAre DEF Piece
<1>4. First[Len(got) + 2] = First[Len(got) + 1] + Piece.size
  BY <1>2, FirstNext DEF Piece
<1>5. First[Len(got) + 1] \in Nat /\ First[Len(got) + 2] \in Nat /\ First[Count + 1] \in Nat
  BY <1>2, FirstType, SizeIs
<1>6. First[Len(got) + 2] <= First[Count + 1]
  <2>1. CASE Len(got) + 2 = Count + 1
    BY <2>1, <1>5
  <2>2. CASE Len(got) + 2 # Count + 1
    <3>1. First[Len(got) + 2] < First[Count + 1]
      BY <1>1, <1>2, <2>2, FirstGrows, SizeIs
    <3> QED BY <3>1, <1>5
  <2> QED BY <2>1, <2>2
<1>7. First[Len(got) + 2] - 1 <= Size
  BY <1>5, <1>6, SizeIs
<1> QED BY <1>1, <1>2, <1>3, <1>4, <1>5, <1>7

\* What is returned is in the buffer, and the rest begins behind it.
LEMMA RestIs ==
  ASSUME CountPart, Len(got) < Count, Enough
  PROVE  /\ Rest \in Nat /\ from < Rest /\ Rest <= taken + 1
         /\ Piece.line => Rest - 1 \in Newlines /\ \A e \in Ends : Rest - 1 <= e
<1>1. taken \in Nat /\ from \in Nat
  BY DEF CountPart
<1>2. Piece.line \in BOOLEAN /\ Piece.size \in Nat /\ Piece.size > 0
  BY NextPiece
<1>3. CASE Piece.line
  <2>1. /\ Ends \in SUBSET Nat /\ Ends # {}
        /\ Ends \subseteq from .. taken /\ Ends \subseteq Newlines
    BY <1>1, <1>3 DEF Enough, Ends
  <2>2. Min(Ends) \in Ends /\ \A e \in Ends : Min(Ends) <= e
    BY <2>1, MinIs
  <2>3. Rest = Min(Ends) + 1
    BY <1>3 DEF Rest
  <2>4. Min(Ends) \in Nat /\ from <= Min(Ends) /\ Min(Ends) <= taken
    <3>1. Min(Ends) \in from .. taken /\ Min(Ends) \in Nat
      BY <2>1, <2>2
    <3> QED BY <1>1, <3>1
  <2>5. Rest - 1 = Min(Ends)
    BY <2>3, <2>4
  <2> QED BY <1>1, <2>1, <2>2, <2>3, <2>4, <2>5
<1>4. CASE ~Piece.line
  BY <1>1, <1>2, <1>4 DEF Enough, Rest
<1> QED BY <1>3, <1>4

\* The newlines are the last bytes of the lines.
LEMMA NewlineIs ==
  ASSUME NEW e
  PROVE  e \in Newlines <=> \E k \in 1 .. Count : Pieces[k].line /\ e = First[k + 1] - 1
  BY DEF Newlines, Count

\* The first newline of a buffer that begins with a line is the end of that line.
LEMMA LineEnds ==
  ASSUME CountPart, Len(got) < Count, Piece.line, from = First[Len(got) + 1]
  PROVE  /\ First[Len(got) + 2] - 1 \in Newlines
         /\ \A e \in Newlines : e >= from => e >= First[Len(got) + 2] - 1
<1> DEFINE k == Len(got) + 1
<1>1. k \in 1 .. Count /\ k \in 1 .. Count + 1 /\ k + 1 \in 1 .. Count + 1 /\ k + 1 = Len(got) + 2
  BY NextPiece
<1> HIDE DEF k
<1>2. First[k + 1] - 1 \in Newlines
  BY <1>1, NewlineIs DEF Piece, k
<1>3. ASSUME NEW e \in Newlines, e >= from PROVE e >= First[k + 1] - 1
  <2>1. PICK j \in 1 .. Count : e = First[j + 1] - 1
    BY NewlineIs
  <2>2. j \in 1 .. Count /\ j + 1 \in 1 .. Count + 1 /\ Count \in Nat /\ j \in Nat /\ k \in Nat
    BY <1>1, PiecesAre
  <2>3. First[j + 1] \in Nat /\ First[k + 1] \in Nat /\ First[k] \in Nat
    BY <1>1, <2>2, FirstType
  <2>4. from = First[k]
    BY DEF k
  <2>5. ~ (First[j + 1] <= First[k])
    BY <1>3, <2>1, <2>3, <2>4
  <2>6. ~ (j + 1 <= k)
    <3> SUFFICES ASSUME j + 1 <= k PROVE FALSE
      OBVIOUS
    <3>1. CASE j + 1 = k
      BY <3>1, <2>3, <2>5
    <3>2. CASE j + 1 < k
      BY <3>2, <1>1, <2>2, <2>3, <2>5, FirstGrows
    <3> QED BY <3>1, <3>2, <2>2
  <2>7. CASE j = k
    BY <2>1, <2>3, <2>7
  <2>8. CASE k + 1 < j + 1
    BY <1>1, <2>1, <2>2, <2>3, <2>8, FirstGrows
  <2> QED BY <2>2, <2>6, <2>7, <2>8
<1> QED BY <1>1, <1>2, <1>3

\* So what is returned ends where the piece does.
LEMMA RestIsNext ==
  ASSUME CountPart, Len(got) < Count, Enough, from = First[Len(got) + 1]
  PROVE  Rest = First[Len(got) + 2]
<1>1. /\ taken \in Nat /\ from \in Nat
      /\ First[Len(got) + 2] \in Nat /\ Piece.size \in Nat /\ Piece.line \in BOOLEAN
      /\ First[Len(got) + 2] = First[Len(got) + 1] + Piece.size
  BY NextPiece DEF CountPart
<1>2. Rest \in Nat /\ from < Rest /\ Rest <= taken + 1
  BY RestIs
<1>3. CASE Piece.line
  <2>1. Rest - 1 \in Newlines /\ \A e \in Ends : Rest - 1 <= e
    BY <1>3, RestIs
  <2>2. Rest - 1 >= First[Len(got) + 2] - 1
    BY <1>1, <1>2, <1>3, <2>1, LineEnds
  <2>3. First[Len(got) + 2] - 1 \in Newlines
    BY <1>3, LineEnds
  <2>4. First[Len(got) + 2] - 1 \in from .. taken
    BY <1>1, <1>2, <2>2, NextPiece
  <2>5. Rest - 1 <= First[Len(got) + 2] - 1
    BY <2>1, <2>3, <2>4 DEF Ends
  <2> QED BY <1>1, <1>2, <2>2, <2>5
<1>4. CASE ~Piece.line
  BY <1>1, <1>4 DEF Rest
<1> QED BY <1>1, <1>3, <1>4

\* When everything has been read there is enough for every piece.
LEMMA AllIsEnough ==
  ASSUME CountPart, Len(got) < Count,
         from = First[Len(got) + 1], taken = Size
  PROVE  Enough
<1>1. /\ taken \in Nat /\ from \in Nat
      /\ First[Len(got) + 2] \in Nat /\ Piece.size \in Nat /\ Piece.size > 0
      /\ Piece.line \in BOOLEAN
      /\ First[Len(got) + 2] = from + Piece.size
      /\ First[Len(got) + 2] - 1 <= taken
  BY NextPiece DEF CountPart
<1> DEFINE b == First[Len(got) + 2]
           z == Piece.size
<1>2. b - 1 \in from .. taken /\ taken - from + 1 >= z
  <2>1. b \in Nat /\ z \in Nat /\ z > 0 /\ b = from + z /\ b - 1 <= taken
    BY <1>1
  <2>2. taken \in Nat /\ from \in Nat
    BY <1>1
  <2> HIDE DEF b, z
  <2>3. from <= b - 1 /\ taken - from + 1 >= z /\ b - 1 \in Int
    BY ONLY <2>1, <2>2
  <2> QED BY ONLY <2>1, <2>2, <2>3
<1>3. CASE Piece.line
  BY <1>2, <1>3, LineEnds DEF Enough, Ends
<1>4. CASE ~Piece.line
  BY <1>2, <1>4 DEF Enough
<1> QED BY <1>1, <1>3, <1>4

-----------------------------------------------------------------------------
(* The steps of Stream *)

LEMMA InitStreamInv ==
  StreamInit => StreamInv
<1> SUFFICES ASSUME StreamInit PROVE StreamInv
  OBVIOUS
<1>1. /\ sent = 0 /\ arrived = 0 /\ taken = 0 /\ from = 1 /\ got = <<>>
      /\ fin = "no" /\ open = TRUE /\ dropped = FALSE /\ Len(got) = 0
  BY DEF StreamInit
<1>2. Count \in Nat /\ Size \in Nat /\ Capacity \in Nat
  BY PiecesAre, SizeIs
<1>3. CountPart
  <2>1. <<>> \in Seq((1 .. Size) \X (1 .. Size)) /\ TRUE \in BOOLEAN /\ FALSE \in BOOLEAN
    OBVIOUS
  <2>2. /\ sent - taken <= Capacity /\ from <= taken + 1 /\ 1 <= from
        /\ sent <= Size /\ Len(got) <= Count
    BY <1>1, <1>2
  <2>3. got \in Seq((1 .. Size) \X (1 .. Size)) /\ open \in BOOLEAN /\ dropped \in BOOLEAN
    BY <1>1, <2>1, Zenon
  <2> QED BY <1>1, <2>2, <2>3 DEF CountPart
<1>4. FinPart
  BY <1>1 DEF FinPart
<1>5. PiecePart
  BY <1>1, FirstNext DEF PiecePart
<1> QED BY <1>3, <1>4, <1>5 DEF StreamInv

LEMMA SendInv ==
  ASSUME StreamInv, Send
  PROVE  StreamInv'
<1>1. PICK k \in 1 .. Min({Size - sent, Room}) : sent' = sent + k
  BY DEF Send
<1>2. /\ fin = "no"
      /\ UNCHANGED <<arrived, fin, taken, from, got, open, dropped>>
  BY DEF Send
<1> DEFINE a == Size - sent
           b == Room
<1>3. a \in Nat /\ b \in Nat
  BY SizeIs, PiecesAre DEF StreamInv, CountPart, Room
<1> HIDE DEF a, b
<1>4. Min({a, b}) \in {a, b} /\ Min({a, b}) <= a /\ Min({a, b}) <= b
  BY <1>3, MinIs
<1>5. k \in Nat /\ k <= a /\ k <= b
  BY <1>1, <1>3, <1>4 DEF a, b
<1>6. CountPart'
  BY <1>1, <1>2, <1>5, SizeIs, PiecesAre DEF StreamInv, CountPart, Room, a, b, Size
<1>7. FinPart' /\ PiecePart'
  BY <1>2 DEF StreamInv, FinPart, PiecePart
<1> QED BY <1>6, <1>7 DEF StreamInv

LEMMA CloseInv ==
  ASSUME StreamInv, Close
  PROVE  StreamInv'
<1>1. /\ sent = Size /\ fin' = "sent"
      /\ UNCHANGED <<sent, arrived, taken, from, got, open, dropped>>
  BY DEF Close
<1>2. CountPart' /\ FinPart' /\ PiecePart'
  BY <1>1 DEF StreamInv, CountPart, FinPart, PiecePart
<1> QED BY <1>2 DEF StreamInv

LEMMA ArriveInv ==
  ASSUME StreamInv, Arrive
  PROVE  StreamInv'
<1>1. UNCHANGED <<sent, taken, from, got, open, dropped>>
  BY DEF Arrive
<1>2. PiecePart'
  BY <1>1 DEF StreamInv, PiecePart
<1>3. /\ arrived \in Nat /\ sent \in Nat /\ taken \in Nat /\ Size \in Nat
      /\ taken <= arrived /\ arrived <= sent /\ sent <= Size
  BY SizeIs DEF StreamInv, CountPart
<1>4. CASE \E n \in arrived + 1 .. sent : arrived' = n /\ fin' = fin
  <2>1. /\ arrived' \in Nat /\ arrived < arrived' /\ arrived' <= sent /\ fin' = fin
        /\ taken <= arrived'
    BY <1>3, <1>4
  <2>2. fin # "arrived"
    BY <1>3, <2>1 DEF StreamInv, FinPart
  <2> QED BY <1>1, <1>2, <2>1, <2>2 DEF StreamInv, CountPart, FinPart
<1>5. CASE fin = "sent" /\ arrived' = sent /\ fin' = "arrived"
  BY <1>1, <1>2, <1>3, <1>5 DEF StreamInv, CountPart, FinPart
<1> QED BY <1>4, <1>5 DEF Arrive

LEMMA ReturnInv ==
  ASSUME StreamInv, Return
  PROVE  StreamInv'
<1>1. /\ Reading /\ Enough
      /\ got' = Append(got, <<from, Rest - 1>>) /\ from' = Rest
      /\ UNCHANGED <<sent, arrived, fin, taken, open, dropped>>
  BY DEF Return
<1> DEFINE X == (1 .. Size) \X (1 .. Size)
<1>2. /\ CountPart /\ FinPart /\ PiecePart
      /\ Len(got) < Count /\ Len(got) \in Nat /\ Count \in Nat /\ Size \in Nat
      /\ taken \in Nat /\ from \in Nat /\ 1 <= from /\ taken <= Size /\ got \in Seq(X)
  BY <1>1, SizeIs, PiecesAre DEF StreamInv, Reading, Count, CountPart
<1>3. Rest \in Nat /\ from < Rest /\ Rest <= taken + 1
  BY <1>1, <1>2, RestIs
<1>4. <<from, Rest - 1>> \in X
  BY <1>2, <1>3
<1> DEFINE e == <<from, Rest - 1>>
<1> HIDE DEF X
<1>5. got' \in Seq(X) /\ Len(got') = Len(got) + 1
  BY <1>1, <1>2, <1>4
<1>6. /\ \A k \in 1 .. Len(got) : got'[k] = got[k]
      /\ got'[Len(got) + 1] = e
  <2>1. got' = Append(got, e)
    BY <1>1
  <2> HIDE DEF e
  <2> QED BY <1>2, <2>1
<1>7. CountPart'
  BY <1>1, <1>2, <1>3, <1>5 DEF CountPart, X, Size, Count
<1>8. FinPart'
  BY <1>1, <1>2 DEF FinPart
<1>9. PiecePart'
  <2> SUFFICES ASSUME ~dropped
               PROVE  /\ from' = First[Len(got') + 1]
                      /\ \A k \in 1 .. Len(got') : got'[k] = Expected[k]
                      /\ open'
    BY <1>1 DEF PiecePart
  <2>1. /\ from = First[Len(got) + 1] /\ open
        /\ \A k \in 1 .. Len(got) : got[k] = Expected[k]
    BY <1>2 DEF PiecePart
  <2>2. Rest = First[Len(got) + 2]
    BY <1>1, <1>2, <2>1, RestIsNext
  <2>3. from' = First[Len(got') + 1]
    <3>1. Len(got') + 1 = Len(got) + 2
      BY <1>2, <1>5
    <3> QED BY <1>1, <2>2, <3>1
  <2>4. Expected[Len(got) + 1] = <<First[Len(got) + 1], First[Len(got) + 2] - 1>>
    <3>1. Len(got) + 1 \in 1 .. Count /\ Len(got) + 1 + 1 = Len(got) + 2
      BY <1>2
    <3> QED BY <3>1 DEF Expected, Count
  <2>5. got'[Len(got) + 1] = Expected[Len(got) + 1]
    BY <1>6, <2>1, <2>2, <2>4
  <2>6. \A k \in 1 .. Len(got') : k \in 1 .. Len(got) \/ k = Len(got) + 1
    BY <1>2, <1>5
  <2>7. \A k \in 1 .. Len(got') : got'[k] = Expected[k]
    BY <1>6, <2>1, <2>5, <2>6
  <2> QED BY <1>1, <2>1, <2>3, <2>7
<1> QED BY <1>7, <1>8, <1>9 DEF StreamInv

LEMMA ReceiveInv ==
  ASSUME StreamInv, Receive
  PROVE  StreamInv'
<1>1. /\ arrived > taken /\ taken' = arrived
      /\ from' = from \/ from' = taken + 1
      /\ dropped' = (dropped \/ from' # from)
      /\ UNCHANGED <<sent, arrived, fin, got, open>>
  BY DEF Receive
<1>2. CountPart'
  BY <1>1, PiecesAre DEF StreamInv, CountPart
<1>3. FinPart'
  BY <1>1 DEF StreamInv, FinPart
<1>4. PiecePart'
  BY <1>1 DEF StreamInv, CountPart, PiecePart
<1> QED BY <1>2, <1>3, <1>4 DEF StreamInv

\* The end of the stream is not met before the last piece has been returned, unless
\* bytes are dropped.
LEMMA ReceiveEndInv ==
  ASSUME StreamInv, ReceiveEnd
  PROVE  StreamInv'
<1>1. /\ Reading /\ ~Enough /\ fin = "arrived"
      /\ taken' = arrived
      /\ dropped' = (dropped \/ arrived > taken)
      /\ open' = FALSE
      /\ UNCHANGED <<sent, arrived, fin, from, got>>
  BY DEF ReceiveEnd
<1>2. CountPart'
  <2>1. open' \in BOOLEAN /\ dropped' \in BOOLEAN
    BY <1>1, Zenon
  <2>2. CountPart
    BY DEF StreamInv
  <2>3. /\ taken' \in Nat /\ taken' <= arrived /\ sent - taken' <= Capacity
        /\ from <= taken' + 1
    BY <1>1, <2>2, PiecesAre DEF CountPart
  <2> QED BY <1>1, <2>1, <2>2, <2>3 DEF CountPart
<1>3. FinPart'
  BY <1>1 DEF StreamInv, FinPart
<1>4. PiecePart'
  <2> SUFFICES ASSUME ~dropped' PROVE FALSE
    BY DEF PiecePart
  <2>1. taken = arrived /\ arrived = Size /\ ~dropped
    <3>1. ~dropped /\ ~ (arrived > taken)
      BY <1>1, Zenon
    <3> QED BY <1>1, <3>1, SizeIs DEF StreamInv, CountPart, FinPart
  <2>2. from = First[Len(got) + 1] /\ Len(got) < Count /\ CountPart
    BY <1>1, <2>1 DEF StreamInv, PiecePart, Reading, Count
  <2>3. Enough
    BY <2>1, <2>2, AllIsEnough
  <2> QED BY <1>1, <2>3
<1> QED BY <1>2, <1>3, <1>4 DEF StreamInv

LEMMA NextStreamInv ==
  StreamInv /\ [StreamNext]_streamVars => StreamInv'
<1> SUFFICES ASSUME StreamInv, [StreamNext]_streamVars PROVE StreamInv'
  OBVIOUS
<1>1. CASE UNCHANGED streamVars
  BY <1>1 DEF streamVars, StreamInv, CountPart, FinPart, PiecePart
<1>2. CASE StreamNext
  BY <1>2, SendInv, CloseInv, ArriveInv, ReturnInv, ReceiveInv, ReceiveEndInv
     DEF StreamNext
<1> QED BY <1>1, <1>2

LEMMA AlwaysStreamInv ==
  StreamSpec => []StreamInv
<1>1. StreamInit => StreamInv
  BY InitStreamInv
<1>2. StreamInv /\ [StreamNext]_streamVars => StreamInv'
  BY NextStreamInv
<1> QED BY <1>1, <1>2, PTL DEF StreamSpec

-----------------------------------------------------------------------------
(* The theorems about Stream *)

\* Whatever the parts in which the text travels, what the kernel holds is bounded, and
\* the receiver returns intervals of what it has read, no more of them than it asked
\* for.
THEOREM StreamTypeCorrect ==
  StreamSpec => []StreamTypeOK
<1>1. StreamInv => StreamTypeOK
  BY SizeIs, PiecesAre DEF StreamInv, CountPart, StreamTypeOK, Count
<1> QED BY <1>1, AlwaysStreamInv, PTL

\* recv and recvLine of lk.Socket return the pieces that were sent, for any pieces and
\* any capacity of the kernel, as long as no bytes are thrown away.
THEOREM PiecesAreExact ==
  StreamSpec => []PiecesExact
<1>1. StreamInv => PiecesExact
  <2> SUFFICES ASSUME StreamInv, ~dropped PROVE got = SubSeq(Expected, 1, Len(got))
    BY DEF PiecesExact
  <2>1. /\ \A k \in 1 .. Len(got) : got[k] = Expected[k]
        /\ Len(got) \in Nat /\ got = [k \in 1 .. Len(got) |-> got[k]]
    BY DEF StreamInv, CountPart, PiecePart
  <2>2. /\ Len(got) <= Count /\ Count \in Nat /\ Len(Expected) = Count
        /\ Expected = [k \in 1 .. Count |-> Expected[k]]
    BY PiecesAre DEF StreamInv, CountPart, Expected, Count
  <2>3. SubSeq(Expected, 1, Len(got)) = [k \in 1 .. Len(got) |-> Expected[k]]
    BY <2>1, <2>2
  <2> QED BY <2>1, <2>3
<1> QED BY <1>1, AlwaysStreamInv, PTL

\* While pieces are missing and none was damaged, the connection is open, and the
\* receiver has enough for the next one, or bytes are on their way to it, or the
\* kernel has room for more of them.
SomebodyMoves ==
  Len(got) < Len(Pieces) /\ ~dropped =>
    /\ open
    /\ \/ Enough
       \/ taken < arrived \/ arrived < sent
       \/ fin = "no" /\ sent < Size /\ Room > 0

\* The sender that waits for room and the receiver that waits for bytes (waitWrite in
\* send, waitRead in recv) never wait for each other, however little the kernel holds.
THEOREM NobodyStalls ==
  StreamSpec => []SomebodyMoves
<1>1. StreamInv => SomebodyMoves
  <2> SUFFICES ASSUME StreamInv, Len(got) < Len(Pieces), ~dropped,
                      ~(taken < arrived), ~(arrived < sent)
               PROVE  open /\ (Enough \/ (fin = "no" /\ sent < Size /\ Room > 0))
    BY DEF SomebodyMoves, StreamInv, PiecePart
  <2>1. /\ taken = arrived /\ arrived = sent /\ CountPart
        /\ sent \in Nat /\ Size \in Nat /\ sent <= Size
    BY SizeIs DEF StreamInv, CountPart
  <2>2. open /\ from = First[Len(got) + 1]
    BY DEF StreamInv, PiecePart
  <2>3. CASE sent = Size
    <3>1. Len(got) < Count /\ taken = Size
      BY <2>1, <2>3 DEF Count
    <3>2. Enough
      BY ONLY <2>1, <2>2, <3>1, AllIsEnough
    <3> QED BY <2>2, <3>2
  <2>4. CASE sent # Size
    BY <2>1, <2>2, <2>4, PiecesAre DEF Room, StreamInv, FinPart, CountPart
  <2> QED BY <2>3, <2>4
<1> QED BY <1>1, AlwaysStreamInv, PTL
=============================================================================
