------------------------------ MODULE Discovery ------------------------------
(***************************************************************************)
(* How a process learns of the services on the network: mdns.Browser       *)
(* (mdns/lib/mdns/Browser.lua) reads the events of the system, resolves a  *)
(* name in a thread of its own and calls lk.ServiceBrowser                 *)
(* (lk/lib/lk/ServiceBrowser.lua), which tells its delegates, again in     *)
(* threads of their own: an lk.ProcessWatch and an lk.Client, in the order *)
(* in which they were added. All are given the same table, in which the    *)
(* watch replaces the name 'zone:name' by the name alone.                  *)
(*                                                                         *)
(* All tables are indexed by the name of the service; the module is about  *)
(* one name. The same name may appear again after it has vanished, then as *)
(* another incarnation with another address.                               *)
(*                                                                         *)
(* A pass of the scheduler runs the threads that are queued, then polls    *)
(* and resumes, once each, those whose descriptor is ready.                *)
(***************************************************************************)
EXTENDS Integers, Sequences

CONSTANTS
  Fd, Yields, Collector, Batch,     \* which circumstances are considered
  ToldFirst, Asked, Fails,
  MaxGen                            \* bound: incarnations of the service

ASSUME DiscoveryAssumption ==
  /\ Fd \subseteq BOOLEAN /\ Yields \subseteq BOOLEAN /\ Collector \subseteq BOOLEAN
  /\ Batch \subseteq Nat \ {0}
  /\ ToldFirst \subseteq {"watch", "client"} /\ Asked \subseteq {"full", "short"}
  /\ Fails \subseteq SUBSET {"announce", "remove"}
  /\ MaxGen \in Nat

VARIABLES
  env,          \* the circumstances, which do not change
  net,          \* the incarnation on the network, None if there is none
  gen,          \* how many there have been
  queue,        \* what the system has not told the browser yet
  batch,        \* events the browser still reads in this turn
  found,        \* mdns.Browser.found: the one being resolved, or Done
  resolvers,    \* incarnations whose resolver waits for its descriptor
  services,     \* lk.ServiceBrowser.services
  url,          \* incarnations whose addresses the announcement has set
  held,         \* remote_service.announce_thread
  tasks,        \* threads queued in the scheduler
  calls,        \* announcements that wait inside the watch's delegate
  ready,        \* threads whose descriptor is ready, not yet resumed
  known,        \* what each delegate believes to be online
  subscribed    \* the client has asked for this service

netVars == <<env, net, gen, queue>>
browserVars == <<batch, found, resolvers>>
serviceVars == <<services, url, held, tasks, calls>>
vars == <<netVars, browserVars, serviceVars, ready, known, subscribed>>

None == 0
Gens == 1 .. MaxGen
Done == MaxGen + 1
Delegates == {"watch", "client"}
Browser == <<"browser", None>>

\* fd: services are resolved through a descriptor (macosx); yields: a
\* processConnected may wait (it sends a request); collector: unreferenced
\* threads may be collected; batch: how many events the browser reads at most
\* before it waits again; first: the delegate that was added first; asked: the
\* name the client subscribes to, with or without the zone; fails: the threads
\* that an error in a delegate, or a service without TXT record, may end.
Environments == [fd : Fd, yields : Yields, collector : Collector, batch : Batch,
                 first : ToldFirst, asked : Asked, fails : Fails]

Init ==
  /\ env \in Environments
  /\ net = None /\ gen = 0 /\ queue = <<>>
  /\ batch = 0 /\ found = None /\ resolvers = {}
  /\ services = None /\ url = {} /\ tasks = <<>> /\ calls = {}
  /\ held = [g \in Gens |-> "none"]
  /\ ready = {}
  /\ known = [d \in Delegates |-> None]
  /\ subscribed = FALSE

-----------------------------------------------------------------------------
(* The network *)

Appear ==
  /\ net = None /\ gen < MaxGen
  /\ gen' = gen + 1
  /\ net' = gen'
  /\ queue' = Append(queue, <<"add", gen'>>)
  /\ UNCHANGED <<env, browserVars, serviceVars, ready, known, subscribed>>

Vanish ==
  /\ net # None
  /\ net' = None
  /\ queue' = Append(queue, <<"remove", None>>)
  /\ UNCHANGED <<env, gen, browserVars, serviceVars, ready, known, subscribed>>

-----------------------------------------------------------------------------
(* The callbacks of lk.ServiceBrowser *)

AddDevice(g) ==
  IF services # None THEN UNCHANGED <<services, held, tasks>>
  ELSE /\ services' = g
       /\ held' = [held EXCEPT ![g] = "announce"]
       /\ tasks' = Append(tasks, <<"announce", g>>)

RemoveUnknown ==   \* mutant: does not ask whether the service is known
  /\ held' = [held EXCEPT ![services] = "remove"]
  /\ tasks' = Append(tasks, <<"remove", services>>)
  /\ UNCHANGED services

RemoveDevice ==
  IF services = None THEN UNCHANGED <<services, held, tasks>>
  ELSE /\ held' = [held EXCEPT ![services] = "remove"]
       /\ tasks' = Append(tasks, <<"remove", services>>)
       /\ UNCHANGED services

-----------------------------------------------------------------------------
(* mdns.Browser *)

BrowserWakes ==
  /\ batch = 0 /\ Browser \in ready
  /\ ready' = ready \ {Browser}
  /\ batch' = env.batch
  /\ UNCHANGED <<netVars, found, resolvers, serviceVars, known, subscribed>>

\* browseCallback(service), for an event that adds and one that removes.
BrowseAdd(g) ==
  \/ /\ found # None
     /\ UNCHANGED <<found, resolvers, services, held, tasks>>
  \/ /\ found = None /\ env.fd
     /\ found' = g
     /\ resolvers' = resolvers \cup {g}
     /\ UNCHANGED <<services, held, tasks>>
  \/ /\ found = None /\ ~env.fd
     /\ found' = Done
     /\ AddDevice(g)
     /\ UNCHANGED resolvers

BrowseRemove ==
  /\ found' = None
  /\ IF found = None THEN UNCHANGED <<services, held, tasks>> ELSE RemoveDevice
  /\ UNCHANGED resolvers

Browse ==
  /\ batch > 0 /\ queue # <<>>
  /\ queue' = Tail(queue)
  /\ batch' = IF queue' = <<>> THEN 0 ELSE batch - 1
  /\ \/ Head(queue)[1] = "add" /\ BrowseAdd(Head(queue)[2])
     \/ Head(queue)[1] = "remove" /\ BrowseRemove
  /\ UNCHANGED <<env, net, gen, url, calls, ready, known, subscribed>>

ResolveUnchecked(g) ==   \* mutant: does not ask whether it has been removed
  /\ batch = 0 /\ <<"resolve", g>> \in ready
  /\ ready' = ready \ {<<"resolve", g>>}
  /\ found' = Done
  /\ resolvers' = resolvers \ {g}
  /\ AddDevice(g)
  /\ UNCHANGED <<netVars, batch, url, calls, known, subscribed>>

\* A resolver is resumed. It announces the answer it got, waits for more of it,
\* or, when the name has been removed, waits again.
Resolve(g) ==
  /\ batch = 0 /\ <<"resolve", g>> \in ready
  /\ ready' = ready \ {<<"resolve", g>>}
  /\ \/ /\ found # None
        /\ found' = Done
        /\ resolvers' = resolvers \ {g}
        /\ AddDevice(g)
     \/ UNCHANGED <<found, resolvers, services, held, tasks>>
  /\ UNCHANGED <<netVars, batch, url, calls, known, subscribed>>

-----------------------------------------------------------------------------
(* The threads of lk.ServiceBrowser and the delegates *)

\* Those that know when a delegate of the watch waits or fails.
Reached == {env.first, "watch"}

\* The name under which the client is told: the watch has shortened it if it was
\* told first and did not know the service.
Name == IF env.first = "watch" /\ known["watch"] = None THEN "short" ELSE "full"

Listens(d, name) == d = "watch" \/ (subscribed /\ env.asked = name)

\* addDevice of some delegates; each keeps what it knows while that is online.
Told(S, name, g) ==
  [d \in Delegates |-> IF d \in S /\ Listens(d, name) /\ known[d] = None
                       THEN g ELSE known[d]]

\* removeDevice of some delegates. The client looks for the name with its zone.
Untold(S) == [d \in Delegates |-> IF d \in S /\ Listens(d, "full") THEN None ELSE known[d]]

NextTask(kind, g) ==
  /\ batch = 0 /\ ready = {}
  /\ tasks # <<>> /\ Head(tasks) = <<kind, g>>
  /\ tasks' = Tail(tasks)

\* All delegates are told; or a delegate of the watch waits or fails; or nobody is
\* told, when the TXT record is missing or incomplete. A thread that fails stays
\* in announce_thread.
Announce(g) ==
  /\ NextTask("announce", g)
  /\ \/ /\ known' = Told(Delegates, Name, g)
        /\ url' = url \cup {g}
        /\ held' = [held EXCEPT ![g] = "none"]
        /\ UNCHANGED calls
     \/ /\ known["watch"] = None
        /\ known' = Told(Reached, Name, g)
        /\ url' = url \cup {g}
        /\ \/ env.yields /\ calls' = calls \cup {g}
           \/ "announce" \in env.fails /\ UNCHANGED calls
        /\ UNCHANGED held
     \/ /\ "announce" \in env.fails
        /\ url' \in {url, url \cup {g}}
        /\ UNCHANGED <<known, held, calls>>
  /\ UNCHANGED <<netVars, browserVars, services, ready, subscribed>>

\* The request of processConnected is answered, or fails; after an answer the
\* client is told if it is next.
CallReturns(g) ==
  /\ batch = 0 /\ <<"call", g>> \in ready
  /\ ready' = ready \ {<<"call", g>>}
  /\ calls' = calls \ {g}
  /\ \/ /\ known' = IF env.first = "watch" THEN Told({"client"}, "short", g) ELSE known
        /\ held' = [held EXCEPT ![g] = "none"]
     \/ "announce" \in env.fails /\ UNCHANGED <<known, held>>
  /\ UNCHANGED <<netVars, browserVars, services, url, tasks, subscribed>>

RemoveKeepsService(g) ==   \* mutant: the table of services is left alone
  /\ NextTask("remove", g)
  /\ known' = Untold(Delegates)
  /\ UNCHANGED <<netVars, browserVars, services, url, held, calls, ready, subscribed>>

RemoveTellsFirst(g) ==   \* mutant: stops after the first delegate
  /\ NextTask("remove", g)
  /\ known' = Untold({env.first})
  /\ services' = None
  /\ UNCHANGED <<netVars, browserVars, url, held, calls, ready, subscribed>>

\* After an error the service stays in the table.
Remove(g) ==
  /\ NextTask("remove", g)
  /\ \/ known' = Untold(Delegates) /\ services' = None
     \/ /\ "remove" \in env.fails
        /\ known' = Untold(Reached)
        /\ UNCHANGED services
  /\ UNCHANGED <<netVars, browserVars, url, held, calls, ready, subscribed>>

\* lk.Client:subscribe by some thread, which finds a service with its zone only.
\* Before the announcement there is no address: connect fails, the subscription
\* is kept.
Subscribe ==
  /\ batch = 0 /\ ~subscribed
  /\ subscribed' = TRUE
  /\ known' = IF services \in url /\ env.asked = "full"
              THEN [known EXCEPT !["client"] = services] ELSE known
  /\ UNCHANGED <<netVars, browserVars, serviceVars, ready>>

-----------------------------------------------------------------------------
(* The scheduler and the collector *)

Readable ==
  (IF queue # <<>> THEN {Browser} ELSE {})
    \cup {<<"resolve", g>> : g \in resolvers} \cup {<<"call", g>> : g \in calls}

Poll ==
  /\ batch = 0 /\ ready = {} /\ tasks = <<>>
  /\ ready' \in (SUBSET Readable) \ {{}}
  /\ UNCHANGED <<netVars, browserVars, serviceVars, known, subscribed>>

\* A service is referenced by the table, and by the send of the RemoteProcess
\* that is connected to it; its thread by announce_thread only.
Referenced(kind, g) == g \in {services, known["watch"]} /\ held[g] = kind

GcResolver(g) ==
  /\ env.collector /\ batch = 0
  /\ g \in resolvers /\ found # g /\ <<"resolve", g>> \notin ready
  /\ resolvers' = resolvers \ {g}
  /\ UNCHANGED <<netVars, batch, found, serviceVars, ready, known, subscribed>>

GcCall(g) ==
  /\ env.collector /\ batch = 0
  /\ g \in calls /\ ~Referenced("announce", g) /\ <<"call", g>> \notin ready
  /\ calls' = calls \ {g}
  /\ UNCHANGED <<netVars, browserVars, services, url, held, tasks, ready, known, subscribed>>

GcTask ==
  /\ env.collector /\ batch = 0
  /\ \E i \in DOMAIN tasks :
       /\ ~Referenced(tasks[i][1], tasks[i][2])
       /\ tasks' = SubSeq(tasks, 1, i - 1) \o SubSeq(tasks, i + 1, Len(tasks))
  /\ UNCHANGED <<netVars, browserVars, services, url, held, calls, ready, known, subscribed>>

Run ==
  \/ BrowserWakes \/ Browse \/ Poll
  \/ \E g \in Gens : Resolve(g) \/ Announce(g) \/ CallReturns(g) \/ Remove(g)

Next ==
  \/ Appear \/ Vanish \/ Subscribe \/ Run \/ GcTask
  \/ \E g \in Gens : GcResolver(g) \/ GcCall(g)

Spec == Init /\ [][Next]_vars
\* The scheduler goes round; nothing is assumed of the network or the collector.
FairSpec == Spec /\ WF_vars(Run)

-----------------------------------------------------------------------------
(* Properties *)

\* Types; a thread waits for a descriptor or is queued at most once.
TypeOK ==
  /\ net \in Gens \cup {None} /\ gen \in 0 .. MaxGen
  /\ queue \in Seq({"add", "remove"} \X (Gens \cup {None}))
  /\ env \in Environments
  /\ batch \in 0 .. env.batch
  /\ found \in Gens \cup {None, Done}
  /\ resolvers \in SUBSET Gens
  /\ services \in Gens \cup {None}
  /\ url \in SUBSET Gens
  /\ held \in [Gens -> {"none", "announce", "remove"}]
  /\ tasks \in Seq({"announce", "remove"} \X Gens)
  /\ calls \in SUBSET Gens
  /\ ready \subseteq {Browser} \cup ({"resolve", "call"} \X Gens)
  /\ known \in [Delegates -> Gens \cup {None}]
  /\ subscribed \in BOOLEAN
  /\ \A g \in Gens : <<"call", g>> \in ready => g \in calls

\* However events and resolvers interleave, once the browser has read all of
\* its events the name is found exactly if it is on the network: a resolver that
\* answers late neither resurrects a removed name nor hides one that is back.
BrowserFollows == queue = <<>> => (found # None <=> net # None)

\* A name that is not found any more leaves the table of services: the thread
\* that takes it out is queued, however it interleaves with announcements that
\* wait or fail. (The collector may take that thread: an announcement that ends
\* drops the only reference to it. An error in the removal leaves the name there.)
RemovalPending ==
  ~env.collector /\ "remove" \notin env.fails /\ services # None /\ found = None
    => \E i \in DOMAIN tasks : tasks[i] = <<"remove", services>>

AtRest ==
  /\ queue = <<>> /\ batch = 0 /\ ready = {} /\ tasks = <<>> /\ calls = {}
  /\ found \notin resolvers

\* The client is told under the name it asks for and looks for in the table. If
\* the watch was told first, or it asks for the short name, it does not learn of
\* an appearance, or not of its end.
NamesMatch == env.first = "client" /\ env.asked = "full"

Agreed == known["watch"] = net /\ (subscribed /\ NamesMatch => known["client"] = net)

\* When everything has been delivered the delegates know the incarnation that is
\* on the network ("listens for incoming services and publishes them in the
\* application", ServiceBrowser.lua).
KnownAtRest == AtRest => Agreed

\* When services come resolved, one event at a time, and no delegate waits or
\* fails, every appearance and removal reaches the delegates in the end.
Calm == ~env.fd /\ ~env.yields /\ env.batch = 1 /\ env.fails = {}

EventuallyKnown == Calm => <>[]Agreed
=============================================================================
