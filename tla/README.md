# A TLA+ model of lubyk

lubyk runs patches of Lua nodes in processes spread over machines.  Everything
in a process happens on one OS thread: coroutines (`lk.Thread`) wait for file
descriptors, 0MQ sockets and dates, and a scheduler (`lk.Scheduler`) resumes
them.  Processes find one another with mDNS, exchange msgpack messages over 0MQ
and are started and supervised by a morph server with the help of stem cells.

This directory holds specifications of that code, the configurations with which
TLC checks them, and proofs checked by TLAPS.  `PROJECT.json` lists components,
runs, mutants (small bugs each property catches), the source lines of every
definition, the hazards, and the disagreements found between code and comments.

Paths are relative to `src/modules/`.

## Inventory

| Component | State | Operations | What makes it hard | What makes it correct | Modelled |
|---|---|---|---|---|---|
| Poller (`zmq/include/zmq/Poller.h`, `zmq/src/core/poller.cpp`) | three arrays, counts, `interrupted_` | add, modify, remove, poll, events | compaction moves items under stable handles; growth; SIGINT | a handle keeps its item; events are exactly what is ready | `Poller` |
| Poller interface (`lk/lib/lk/Poller.lua`) | - | the same | - | implemented by the poller | `PollerMap` |
| Scheduler and threads (`lk/lib/lk/Scheduler.lua`, `Thread.lua`, `core/lib/lk/Finalizer.lua`) | sorted list of dates, descriptor tables, join tables, the coroutines | run, sleep, wait, waitRead/Write, join, kill, quit, collection | a running thread changes what the loop walks; the collector runs anywhere; restart after errors | tables agree; nobody is queued twice; who waits is resumed | `Scheduler`, in part |
| Timer (`lk/lib/lk/Timer.lua`) | thread, interval | start, stop, setInterval, join, run | a tick may sleep, stop or change the timer that calls it | one thread ticks, without drift, until it is stopped | `Timer` |
| SelectCallback (`lk/lib/lk/SelectCallback.lua`, `lk/include/lk/SelectCallback.h`) | up to three threads | update, remove | a callback kills the thread that runs it | callbacks are those last asked for | `SelectCallback` |
| mDNS (`mdns/lib/mdns/*.lua`, C++) | services found | browse, resolve, register | removal during resolution | found = present | `Discovery`, in part |
| Service discovery (`lk/lib/lk/ServiceBrowser.lua`, `ProcessWatch.lua`, `RemoteProcess.lua`, `Client.lua`, `Service.lua`) | services, processes, delegates | addDevice, removeDevice, delegates | notifications are made by threads started for them | delegates end up knowing who is there | `Discovery`, in part |
| Patch and nodes (`lk/lib/lk/Patch.lua`, `Node.lua`, `Inlet.lua`, `Outlet.lua`, `InletMethod.lua`, `OutletMethod.lua`) | nodes, slots, pending inlets, links | set, eval, links, remove | links to what does not exist yet; reload with rollback; weak tables | a link reaches the inlet its url names | `Patch`, in part |
| File resources (`lk/lib/lk/FileResource.lua`, requests of `DavServer.lua`, uses of `Morph.lua`) | cache of resources, bodies, lists | get, list, update, delete, move, restore | cached objects for moved, deleted and restored files | the cache agrees with the file system; watchers are told | `Files`, in part |
| BSD sockets (`lk/lib/lk/Socket.lua`, `lk/src/more/socket.cpp`) | receive buffer, clients | connect, send, recv, accept | data arrive in arbitrary parts; full buffers | bytes are delivered once, in order | `Stream`, in part |
| Morph and stem cells (`lk/lib/lk/Morph.lua`, `StemCell.lua`) | processes, stem cells, pids | create, remove, restart, (dis)appearances | processes and machines come and go; messages are lost | a process that should run does, once | `Morph`, in part |
| zmq sockets (`zmq/lib/zmq/*.lua`, `zmq/include/zmq/Socket.h`) | thread, receive guard | send, recv, request, start, quit, kill | a send that has to wait is tried once more; shared `Req` | each message sent once; replies go to who asked | no |
| C++ Fifo and Mutex (`core/include/lk`) | queue | push, pop | two OS threads | FIFO order | no |
| WebDAV formats and web server, Doc, helpers, test framework, vendored code | | | parsing, formatting, batch work | | no |

How they interact: a thread *yields* a request (`read`/`write` fd, `wait` date,
`join` thread, `abort`) which `runThread` turns into changes of the poller, the
list of dates or the join table of another thread.  Everything else calls the
scheduler through threads: timers, sockets, browsers and patches are objects
with coroutines.  The poller knows nothing of threads; the scheduler maps its
handles to them (`idx_to_thread`).

## Modules

    PollerMap        what a poller promises: a map of stable handles
    Poller           the arrays; implements PollerMap           MCPoller
    PollerProofs     theorems about Poller
    Scheduler        the loop, the threads and the collector    MCScheduler
    SchedulerProofs  theorems about Scheduler
    Timer            lk.Timer                                   MCTimer
    TimerProofs      theorems about Timer
    SelectCallback   lk.SelectCallback                          MCSelectCallback
    SelectCallbackProofs  theorems about SelectCallback
    Discovery        mDNS events up to the delegates            MCDiscovery
    Patch            nodes, slots and links                     MCPatch
    PatchProofs      theorems about Patch
    Files            resources of files                         MCFiles
    FilesProofs      theorems about Files
    Stream           a TCP connection of lk.Socket              MCStream
    NetworkProofs    theorems about Discovery and Stream
    Morph            supervision of a process                   MCMorph
    MorphProofs      theorems about Morph

The modules from `Timer` on do not instantiate `Scheduler`: a product with the
whole loop could not be checked.  Each reduces the scheduler to what its
threads can tell of it (the order of dates, that events are collected before
they are served, that a killed thread is buried later, that the collector runs
anywhere), and names the actions that stand for `runThread` with their lines.

History variables record what the code has lost, so that a property can name
its exceptions: `doubled`, `strays`, `lost`, `unsynced`, `dropped`, `astray`,
`unseen`.  No guard reads them.  Where they are set is a defect of the code or
its documented limit; each is listed under *Disagreements*.

### Poller and PollerMap

The variables of `Poller` are the members of the C++ class (`items` is
`pollitems_`, `idxToPos`, `posToIdx`, `used`, `size`, `eventCount`,
`interrupted`), and `ret` is what the last call returned.  One action is one
call, except for `poll`, which is split where a signal can make a difference:
the test of `interrupted_` (`PollCall`, `PollRefused`), the entry into
`zmq_poll` (`PollWait`) and its return (`PollReady`, `PollTimeout`, `PollFail`).
An item is a descriptor or socket, an event mask, and whether `revents` is not
zero.  `remove` leaves stale copies in the tables and in the last slot, and
`add` does not clear `revents`; both are in the model.

`AddGrow` covers the doubling of the arrays, `AddFails` the failure of
`realloc`.  A failure of the second or third `realloc` leaves arrays of
different capacities and unchanged counts, which no operation can tell from
failing at the first.  `modify` asserts a valid index and does not test that it
is in use; the model gives it live ones only, and `FdTables` of `Scheduler` is
why the scheduler never passes another.  `wait` of a program for longer than a
microsecond but less than the resolution of `zmq_poll` is not represented.

`PollerMap` has no arrays: `reg` maps handles to what they poll and `ready` is
what the next `events()` returns.  `Poller` implements it under the mapping
`reg[i] = items[idxToPos[i]]`.  After a poll, `ready` may change only when a
handle is added, modified or removed: `revents` is then out of date, as in the
code.  The contract "`events()` right after `poll()` is exact" is the separate
property `EventsExact`.

### Scheduler

Since Lua code runs one coroutine at a time, one action is what happens between
two points at which other code may run:

* the loop: `Collect` (take the due entries), `RunNext` (resume one, or bury one
  that was killed or collected), `RunDone` (decide to stop, to poll or to leave),
  `PollReady`/`PollTimedOut`/`PollInterrupted`/`PollError`, `EventNext`,
  `EventUnknown` (the `error` of the loop), `EventsDone`, `Stop`;
* what the running thread may call before it yields: `Spawn`, `Kill`, `Quit`,
  and `Drop` (the program forgets an object);
* its yield with the tail of `runThread`: `YieldFd`, `YieldJoin`, `YieldWait`,
  `YieldEnd`, `YieldError` (with restart), `YieldBad`;
* the collector: `Gc` runs the finalizer of an unreachable thread, `GcWrap`
  removes its wrapper from the weak join tables; either may happen at any time;
* `Tick`, the clock.

The linked list `at_next` is the sequence `atList`; `now_list` and `events` are
kept as the rest that is still to be served.  The object (`lk.Thread`) and its
wrapper have one name; `obj` says whether the object still exists, `co` whether
it has a coroutine.  The poller is a map from handle to descriptor, as
`PollerMap` describes it, with the lowest free handle given to a new entry.
`joins` keeps the holes a weak table gets, reads stop at the first
hole (`ipairs`) and inserts go behind any border, as Lua leaves open.

A wake-up of the poll a little before the date (it is cut to microseconds) only
takes the loop round once more and is not represented.  A cycle of unreferenced
threads that join one another counts as reachable.

### Timer

`thread` and `interval` are the fields of the object; `tk` has the threads the
timer has started (tickers), with the next thing they do, whether their
coroutine lives and their date.  `Start`, `Stop`, `SetInterval` and
`SetAndStart` are called by other threads (`UserCall`, which runs at a date or
at an event) or inside the tick (`TickCalls`); `Delay`, `Tick`, `RunEnds`,
`TickSleeps`, `TickAwakes`, `TickReturns` and `TickReturnsInterval` are the body
of the thread from one yield to the next.  `TickRaises` is an error in the tick,
which ends the thread (Scheduler.lua:354-373) while the timer keeps it and its
interval: `failed` remembers that until another thread is started.  `now` is
`sched.now`, the logical date; `clock` is `elapsed()`, which may be any amount
later.

### SelectCallback

`slot` has the three thread fields of the object, `th` the threads it has made,
with their handles in the poller.  `Update` and `Remove` are the two calls from
C++, made in a callback or between any two steps of the loop.  A thread that is
killed while it runs its callback goes on to its next wait and enters the poller
once more (`Wait` in `Return`); a thread that is killed while its event waits
leaves an event nobody has (`EventUnknown`, after which the loop is over).  The
object is an `AvahiWatch` or an `AvahiTimeout`, as chosen in `Init`.  Data can
become readable or be used up whenever the loop is about to poll.

### Discovery

One name.  `Appear` and `Vanish` are the network; `queue` is what the system has
not told yet, read by the browser in batches (`Browse`).  `Resolve` is the
thread that resolves a name, `Announce` and `Remove` the threads
`lk.ServiceBrowser` starts, which tell the `lk.ProcessWatch` and a `lk.Client` in
the order they were added; `CallReturns` is the end of an announcement that waits
inside the first.  `Run` is one step of the scheduler: threads that are queued
first, then `Poll` and those it found ready.

Both delegates are given one table, and the watch replaces the `name` in it,
`zone:name`, by the name alone (ProcessWatch.lua:72-73).  A client that is told
after it looks for the short name (Client.lua:43), while a removal (Browser.lua:99)
and `subscribe` (Client.lua:66) use the long one.  `Name` is the name under which
the client is told, `asked` the one it subscribes to; only a client told before
the watch that asks for the long one (`NamesMatch`) hears of both appearance and
end, and `Agreed` claims no more.  An error in a delegate of the watch, or a
missing TXT record, ends the thread: the delegates behind it are not told, and
after a removal the service stays in the table.

`env` fixes, for a behaviour, whether names come unresolved (`fd`), delegates wait
(`yields`), the collector runs (`collector`), how many events come at a time
(`batch`), who is told first (`first`), what the client asks for (`asked`) and
which threads may fail (`fails`).

### Patch

`Eval` is `Node:eval` for a set of declared slots, with code that runs to its
end or fails (`ok`); `BadCode` is code that does not compile; `Link`,
`LinkPending` and `LinkAbsent` are the three places an inlet may come from in
`setLink` (the node has it, the node is there without it, there is no such
node); `Unlink`, `RemoveNode`, `Collect` with `SetEnds` are the rest of
`Patch:set`, `Reload` the `self.nodes = {}` of `loadFromYaml` (the nodes it loads
follow as entries), and `Gc` the collector, which empties the weak tables by name.
Entries of a request are steps, which allows every order of entries and so more
than a request does.

An inlet that is pending answers `url()` with the url it was asked for by, which
may be relative to the patch (`Styles`, `relative`); when its node makes it real
(`NewNode`, from `Eval`) the answer becomes the absolute one.  `Connect` is
`Outlet.connect`: it returns early for an inlet the outlet has, and otherwise lists
the link under the url the inlet has at that moment.  Whatever looks for the link
later (`Unlink`, `Cut`) compares with the url of that later moment (`Url`).

`Disconnected` removes entries from the list `ipairs` walks.  `Dropped` says
which positions go, as the code decides: an entry of the url goes unless the one
before it has just gone, because that one's place is then passed over.  `Cuts`
is a sequence of disconnects, in any order of `pairs(links)`.

### Files

`fs` is the disk, by path; `cache` is by url.  The root and what is in it have two
urls each (`Twice`): `getParent` of `/x` finds `/` where a request for the root
itself finds the empty url (`Base`), and what is created in or moved to `/` gets
`//x` (`Made`).  The two urls are two resources of one file, and everything below a
directory has one.  Requests of an editor, by any url it may have seen (`Asked`):
`Find`, `Get`, `PropFind`, `Update`, `Create`, `Restore` (a file written again after
it was deleted), `Delete`, `Move`.  What the morph does: `AddProcess` and
`RemoveProcess`, between which it holds the resource of the directory (`dir`)
whatever becomes of the cache, and `AddNode`, which is a `createChild` on that
resource, and `RemoveNode`.  `watched` are the resources of nodes with a callback;
an action that ends the promise to a watcher takes it out, and `WatchersReached`
lists these.  `unsynced` is history: the urls that were cached when their file
changed and have not been synced since.  A step is a request, since requests do
not wait.

### Stream

A byte is its position in the text, so that what the reader has is an interval.
`Send` sends what the kernel has room for, `Receive` is the `recv` of a wait,
`Return` the piece that `recvLine` or `recv(n)` cuts from the buffer,
`ReceiveEnd` the read that meets the end of the stream.  The kernel and the
network (`Arrive`, `Room`) are modelled by what `socket.cpp` asks of them.

### Morph

One process name and its machine.  `Spawn` and `Kill` are the stem cell's,
`StemConnected`, `StemDisconnected`, `ProcessConnected` and
`ProcessDisconnected` the notifications the morph gets, `Create`, `Remove` and
`Restart` what the editor asks.  Crashes of processes and stem cells
(`Crash`, `StemCrash`) lose the messages on their way; `Register` is the
registration of a process under its name, refused when the name is taken.

## Runs

`Killable` of `Scheduler` says where a thread may be when it is killed (running,
queued by date, in the poller, in no queue) and `Faults` what else may happen,
so that a run asks one question.

| Run | Result | What it shows |
|---|---|---|
| `poller` | pass | 2 slots that double to 4, 3 in use, 2 descriptors: `TablesInverse`, `FreeIndexExists`, `EventsExact`, `ImplementsMap` |
| `scheduler_safety` | pass | 3 threads, every kill and fault, both threads other than main with restart: `FdTables`, `QueuedOnce`, `DatesInOrder`, `PendingEventsKeepThread` |
| `scheduler_live` | pass | fairness; kill of queued threads: `JoinersResumed`, `DueThreadsRun`, `PassEnds` |
| `scheduler_kill_waiting` | violation | joiners of a thread killed while it waits for a descriptor never resume |
| `timer` | pass | 3 tickers, intervals 0 to 2, dates to 4: `OneTicker`, `KeepsTicking`, `TicksSpaced` |
| `select_callback` | pass | 3 threads, both flags or a timeout: `FlagsFollowed`, `OneGhost`, `CallbackTriggered` |
| `discovery` | pass | 3 incarnations, all circumstances: `BrowserFollows`, `RemovalPending`, and `EventuallyKnown` in calm ones |
| `discovery_readd` | violation | a service that is removed and comes back in one batch of events stays unknown (`KnownAtRest`) |
| `patch` | pass | 2 nodes that send, one of them a target, absolute and relative urls, 2 entries in an outlet, 1 in that of the target: `OneInlet`, `LinksHold`, `RemovedIsSilent` |
| `files` | pass | the root and in it a file and a directory with a file, names with a common beginning, second urls of what is in the root, one process, 2 contents: `CacheIsReal`, `CacheIsFresh`, `WatchersReached` |
| `stream` | pass | two requests of lines and bodies, 14 bytes, a kernel that holds 7: `PiecesExact`, `AllReceived` |
| `morph` | pass | 5 crashes and requests: `StemKnowsPid`, `EventuallyOnline`, `RemovedEnds` |

Every property of a passing run has a mutant in `PROJECT.json`: a small bug in a
definition that the run catches.

### Bounds

* `poller`: two slots that double to four.  Three in use are the least for which a
  removal has an entry before, at and behind it, and freed indexes are reused in
  another order (constraint `Few`); two descriptors tell a right item from a
  wrong one.  The theorems hold for any size.
* `scheduler_*`: three threads are the least with which one joins a second while
  a third kills it, or one gets the handle another lost.  `MaxTime` 2 allows the
  dates 0 and 1, so that there are threads due now, due later and of equal date;
  the clock stops at `MaxTime`, when every date has passed.
* `timer`: three tickers are the one of the timer, one it let go of and one that
  is joined; `LongWait` 1 makes interval 2 the one that fails.  With four dates
  intervals of one and two meet and miss one another.
* `select_callback`: `Pool` is how many threads exist at a time; three are a
  reader, a writer and one that was killed and is not buried yet.  An update that
  needs more waits.
* `discovery`: three incarnations: one that goes, one that comes back, and one
  that comes while the threads of both others are under way.  Removals fail only
  together with announcements; `RemovalPending` needs them not to.
* `patch`: `MaxEntries` 2 is what the traversal of a list from which entries are
  removed needs: of two entries for one url one stays.  The outlet of the target
  itself holds one (`Room`): it is there to be replaced and removed by.
* `files`: a file in the root with two urls, one in a directory with one, and the
  name of the first begins like that of the directory; a process in that directory.
  Two contents tell the old from the new.  The view of `MCFiles` identifies states
  that differ only in the names of the resources, in which content is which, and in
  what is neither served nor used again; 253000 are left.
* `stream`: the capacity is less than the first request, and not a multiple of a
  piece, so that parts end inside of lines and bodies.
* `morph`: with five events a process dies, its stem cell dies and comes back, and
  the editor removes and creates the name meanwhile.

Symmetry permutes descriptors (`MCPoller`), the threads other than main
(`MCScheduler`) and tickers (`MCTimer`), in runs without liveness.

Deadlock is not checked where the system may stop: the scheduler stops when it
has nothing to wait for, raises an error or waits in the poll for ever; a timer
has been stopped; the network, the editor or the sender does nothing more.

### Fairness

* `Poller`: a thread inside `poll()` goes on; a finite timeout elapses.  Nothing
  is assumed of events.
* `Scheduler`: the loop goes on, a poll with a timeout ends when the date has
  come, time passes, and the running thread reaches its next yield.  No
  descriptor is assumed ever to be ready, nobody to kill or create, the collector
  need not run.  This is what a single OS thread running the loop gives.
* `SelectCallback`: callbacks return, events are served (weak); every pass of the
  loop runs what is due and polls (strong, because the poll is not enabled while
  callbacks run; `PassEnds` is the property of `Scheduler` that justifies it).
  That the descriptor stays ready is a premise of the property.
* `Discovery`: the scheduler goes round (`Run`).
* `Stream`: whoever may send or receive does, and what was sent arrives.
* `Morph`: notifications and messages are worked on, a process gets to its
  registration and obeys a quit.  Crashes and requests are not fair.

## Proofs

`PollerProofs` proves, for any sizes and descriptors,

* `TypeCorrect`, `TablesStayInverse`: `Spec => []TypeOK`, `Spec => []TablesInverse`.
  Their conjunction is inductive, neither is alone: `remove` finds the item it
  moves through `pos_to_idx_`, must not touch the others, and reads slots only
  because of the types.  `addItem` keeps it because it copies the whole used part
  when it grows;
* `AddFindsIndex`: `Spec => []FreeIndexExists`.  The live indexes map one to one
  to the used positions, so there are `used` of them, fewer than `size`;
* `PollerIsMap`: `Spec => ImplementsMap`, the refinement of `PollerMap`: `Init` maps
  to its initial state and each action to one of its actions or to no change,
  because the tables are inverse before and after it;
* `EventsReportReady`: `Spec => EventsExact`, about the state right after a poll.  A
  poll counts what it marks, and no mark counts further than all of them:
  `events()`, which stops at the count, stops behind the last.  Nothing is claimed
  of a call between the poll and `events()`; an item added at a position with old
  revents would be reported.

`SchedulerProofs` proves, for any finite set of threads and any choice of
`Killable` and `Faults`,

* `TypeCorrect`: `Spec => []TypeOK`;
* `FdTablesAgree`: `Spec => []FdTables`.  The tables, the count and the poller
  agree after any sequence of waits, kills, collections, restarts and burials.
  The invariant adds that the poller has finitely many handles: only then does
  the count determine anything, and only then is there a lowest free one;
* `QueueHasNoDuplicate`: `Spec => []QueuedOnce`.  A thread that ends queues those
  that joined it, so the invariant (`QInv`) follows the joiners too: each is in one
  place of one table of joins and in no list, and those that were collected in
  nothing;
* `ListIsInOrder`: `Spec => []DatesInOrder`.  `kill` sets a date to 0 in place, so
  the order is that of the entries it has not touched (`DatePart`);
* `PendingEventsKept`: `Spec => PendingEventsKeepThread`, from what is known of
  handles that are reported and not served yet (`EventPart`);
* `NobodyIsForgotten`: `Spec => []NobodyForgotten`, the part of `JoinersResumed`
  that is not liveness.  Every thread that has a coroutine runs, is in a list,
  waits in the poller, or is in the table of joins of a thread of which the same can
  be said (a ring of threads that join each other is not excluded, nor does the code
  prevent it).  The invariant (`HeldInv`) adds that the tables have no holes, that no
  thread is collected and that the list of due threads is empty outside a pass.
  The hypothesis `NothingLoses` excludes the kill of a thread in the poller, the
  collector, a failure of a thread that restarts and an unknown yield: with any of
  them TLC finds a state in which a thread is forgotten;
* `PollerIsUsedAsMap`: `Spec => PollerUsed`, the other side of the interface that
  `PollerIsMap` proves: the scheduler removes a handle once, while it is in use,
  and changes one only for the thread it belongs to.  `Poller` can leave the use of
  other indexes open because of it.

`TimerProofs` proves, for any tickers, intervals and limit of a wait,

* `TypeCorrect`: `Spec => []TypeOK`, with the fact that only the thread that runs
  is in its tick;
* `OneThreadTicks`: `Spec => []OneTicker`, and `GoesOn`: `Spec => []KeepsTicking`,
  both inductive with the types.  `KeepsTicking` excepts a thread that ended with
  an error of its tick, and speaks only of intervals of at most `LongWait`;
* `TicksOneIntervalApart`: `Spec => TicksSpaced`.  It needs two invariants that no
  run lists: a thread in its loop has an interval to wait for (`Positive`, which
  holds because `setInterval` kills the thread before it sets 0, and rests on
  `OneTicker`), and between two ticks the thread is queued for one interval after
  the last (`Spaced`).

`SelectCallbackProofs` proves, for any number of threads,

* `TypeCorrect` and `FlagsAreFollowed`: `Spec => []TypeOK`, `Spec => []FlagsFollowed`.
  One update kills and starts several threads.  What holds in between (`Fine`) is
  stated of slots and threads as values, and preserved by `Stopped` and `Started`;
* `AtMostOneGhost`: `Spec => []OneGhost`.  There may be several threads that were
  killed and are still in the poller while events are served; the invariant
  (`GhostPart`) says which of them an event will not end: one for a flag.

`NetworkProofs` proves of `Discovery`, for any number of incarnations,

* `TypeCorrect`: `Spec => []TypeOK`;
* `FoundIsOnline`: `Spec => []BrowserFollows`.  The property is about the moment at
  which all events are read; before it, the last event under way tells what is on
  the network (`LastEvent`);
* `RemovalIsQueued`: `Spec => []RemovalPending`, inductive with the types, as long
  as no collector runs and no removal fails; announcements may;
* `CalmIsKnown`: `Spec => [](Calm => KnownAtRest)`, the part of `EventuallyKnown`
  that is not liveness, of the watch and of a client whose names match.  In calm
  circumstances one thread of the service browser is
  queued at a time, the events alternate and the collector finds that thread
  referenced (`CalmInv`: the table is settled, or announcing, or removing).
  `discovery_readd` is the counterexample to `KnownAtRest` without `Calm`.

and of `Stream`, for any pieces, capacity and end,

* `StreamTypeCorrect` and `PiecesAreExact`: `StreamSpec => []StreamTypeOK` and
  `StreamSpec => []PiecesExact`.  `First`, the position at which a piece begins, is a recursive
  function, and that a function with its equation exists has to be shown first, with
  the least position at which there would be none; then it grows, a line ends at the
  least newline (`LineEnds`), and the invariant (`StreamInv`) says that the buffer
  begins where the piece does that is next, unless bytes were dropped;
* `NobodyStalls`: `StreamSpec => []SomebodyMoves`, the part of `AllReceived` that is not
  liveness: while something is to be received the sender, the network or the receiver
  can go on.

`PatchProofs` proves, for any nodes, any choice of those that declare inlets, and
any number of links,

* `TypeCorrect` and `OneInletOnly`: `Spec => []TypeOK`, `Spec => []OneInlet`.  There is
  always an identity for a new inlet, by counting those in use (`FreshIs`);
* `LinksAreHeld` and `RemovedAreSilent`: `Spec => []LinksHold`,
  `Spec => []RemovedIsSilent`.  Neither is inductive.  The invariant adds that a link
  that is not lost is listed by the url its inlet has now (`Pair`), since `unlink`
  keeps the link when no inlet has that url; that an outlet has one entry for a node
  (`Single`), since `disconnect` misses the second of two in a row; and that a node
  without outlet has no links (`BarePart`).  Lemmas about `Dropped` and `Cuts` say
  what is left of an outlet, and `UrlsKept` that urls do not change while an inlet is
  pending or once it is real.  Both theorems except the links in `lost`, which are
  those of the five ways that `LinksHold` names.

`FilesProofs` proves, for any finite set of urls with any parents and common
beginnings,

* `TypeCorrect`, `CachedIsReal`, `CachedIsFresh`, `WatchersAreReached`:
  `Spec => []TypeOK`, `[]CacheIsReal`, `[]CacheIsFresh` and `[]WatchersReached`.  The
  invariant (`Sound`) is stated of a memory, files, deleted resources, watchers and
  urls out of date, and there is a lemma for each operation of `FileResource` that
  actions chain (`FoundIs`, `SyncedIs`, `ReadIs`, `ListedIs`, `RekeyedIs`).  It adds
  that who watches a url without file is the resource in `DavServer.deleted`, which
  makes the one that is restored the right one, that watched urls are those of files
  with one url, and that cached, deleted and held resources are all there are
  (`Needed`).  What a request forgets (`Memorized`) leaves at most three resources
  for each url, so that a new one always has an identity (`FreeId`).  That only the
  urls in `unsynced` are out of date is one lemma for all actions (`FreshAfter`):
  what was cached before and is not exempt was synced or did not change, and what is
  new is blank.  A directory is deleted with a set of urls that
  contains all below it, because a url begins like its directory's (`TreeIs`).

`MorphProofs` proves, for any number of crashes and requests,

* `TypeCorrect`: `Spec => []TypeOK`, which says that what the morph believes is true
  or that the contrary is on its way.  That depends on the order of the news
  (`NewsPart`);
* `PidIsKnown`: `Spec => []StemKnowsPid`, because a stem cell that is not astray knows
  of all that lives (`StemPart`);
* `KeptRuns` and `RemovedIsKilled`: `Spec => []WantedIsOnline`, `Spec => []RemovedIsGone`,
  the parts of `EventuallyOnline` and `RemovedEnds` that are not liveness.  When no
  news, message or quit is under way, what the project keeps is online if its machine
  has a stem cell and nothing died unheard of, and nothing else lives.  A quiet state
  is reached by many ways, so the invariant is about the others: for what is kept, the
  process, its spawn, its stem cell's appearance or its end is under way (`Coming`);
  for what is not, a quit or its appearance is (`Leaving`).  Both need that the morph
  is connected to the stem cell that runs or will hear of it last (`StemHeard`).

The assumptions are those on the constants that each module declares
(`PollerAssumption`, `SchedulerAssumption`, `TimerAssumption`, `SelectAssumption`,
`DiscoveryAssumption`, `StreamAssumption`, `PatchAssumption`, `RoomAssumption`, `FilesAssumption`,
`TwiceAssumption`, `MorphAssumption`), and `NothingLoses` for one theorem:
constants are of the right kind, sets of threads, nodes and urls are finite,
`Main` is a thread, `NoThread` and `NoFd` are not values, a url is among those that
begin like its directory's.  TLC evaluates them in the runs.

All invariants and action properties of the passing runs are proved.  Checked by
TLC only: liveness, which the prover cannot reason about: `JoinersResumed`,
`DueThreadsRun`, `PassEnds`, `CallbackTriggered`, `EventuallyKnown`, `AllReceived`,
`EventuallyOnline`, `RemovedEnds`.  Of five of them the theorems above prove what is
a property of states: that nothing is lost, and so that whoever waits waits for
something that is under way.  That it arrives is left to TLC and to fairness.

## Disagreements

Two runs are kept as counterexamples and recorded with their quotes in
`PROJECT.json` ("findings"): `scheduler_kill_waiting` and `discovery_readd`.  The
models contain the following as well; properties of passing runs name them as
exceptions.

* Poller: SIGINT between the test of `interrupted_` (Poller.h:109) and `zmq_poll`
  is lost; 83-86 promise that it ends the poll.
* Scheduler: a thread killed while its event waits leaves an unknown index, and
  the `error` ends the loop (Scheduler.lua:180-184).  A hole in the weak table of
  joins hides the joiners behind it (Thread.lua:85).  A thread with `restart` that
  fails without a descriptor is in no queue (365; "Restart on error").  A new
  descriptor is not stored in `thread.fd` (382).  The finalizer calls the poller
  (267), which its comment excludes (253-255).
* Timer: a second `start` ticks twice until the collector comes (Timer.lua:46);
  `setInterval` loses the phase it means to keep (89, comment 86-87); `join`
  returns at a change of interval (111); a wait of more than ten seconds raises an
  error in its warning (Scheduler.lua:81); after an error in the tick the timer
  keeps its dead thread and ticks no more ("continue until 'timer' is gc or
  stopped", Timer_test.lua).
* SelectCallback: a timeout set in the callback of a timeout is forgotten when
  that returns (SelectCallback.lua:67): a later update cannot stop it and the
  collector may end it before it fires, against SelectCallback.h:46-48
  (`strays`).  Clearing a flag in the callback of the other, while both are ready,
  is the unknown event above.  `AvahiTimeout` passes milliseconds
  (mdns/src/linux/Context.cpp:137) where `sleep` takes seconds.
* Discovery: a client added after a `ProcessWatch` is told `name` where it asks for
  `zone:name` ("base:Mars" in Service_test.lua), and never learns of a service
  that appears after its `subscribe` (ProcessWatch.lua:72-73, Client.lua:43);
  with the short name it does not learn of the end, and is not connected again.
  An error in a delegate hides the service from those behind it, and an error
  while it is removed leaves it in the table (ServiceBrowser.lua:67, 82-85).  A
  delegate that waits lets a removal overtake it
  (ServiceBrowser.lua:67), a resolver of a former incarnation announces the old
  address (Browser.lua:69-70), and the end of an announcement drops the only
  reference to the thread of the removal (ServiceBrowser.lua:70).
* Patch: `pendingInlet` makes a new inlet each time for a node that is there, and
  replaces the former one (Patch.lua:94-95).  Inlets of a removed node stay linked
  and a new node of the name is not reached (Node.lua:327).  `disconnect` removes
  entries of the list it traverses, so a second one stays (Outlet.lua:75).  A link
  to a pending inlet by a relative url (Node_test.lua:160-169) keeps that url as its
  key when the inlet is made real and answers with the absolute one
  (Inlet.lua:47, 57-65): from then on `disconnectAll` and a request by the relative
  url do not find it, and one by the absolute url ends it but leaves it listed.  `loadFromYaml` forgets the nodes without `remove`
  (Patch.lua:411), so their outlets go on sending.
  Undeclared inlets that are linked are not collected (Node.lua:131).  Code that
  fails leaves `o.x` of the former code undefined (Node.lua:104: "In case of
  error, we rollback").  Code that yields while it is evaluated lets requests see
  half declared slots (not modelled).
* Files: deleting a directory drops siblings whose name begins like it from the
  cache (FileResource.lua:127); a restored file is missing in the cached list of
  its directory (DavServer.lua:86-91); `createChild` over a cached file keeps the
  old body (FileResource.lua:206); children of a moved directory keep their old
  urls (140, not modelled); the morph makes and removes files without a sync of
  the directory (Morph.lua:291-310, 518), and makes those of new nodes by the
  resource of the directory it holds, which need not be the one in the cache (525).
  The parent of `/x` is `/` (DavServer.lua:257-260) and the root is cached at the
  empty url (FileResource.lua:36-41), where its list is served
  (WebServer.lua:111): a `PUT`, `MKCOL`, `DELETE` or `MOVE` in the root does not sync
  that list.  What it makes has the url `//x`: it stays in the cache, and its body
  may be served, after `DELETE /x`; `deleted` is asked for `//x` (DavServer.lua:84),
  so that a file of the root that is deleted by `/x` and written again does not get
  its resource back; and a watched file that is moved to the root is not found by
  `/x`, so that its watcher is not told of updates.
* Sockets: `recv(n)` drops what it had when a body takes more than one read
  (Socket.lua:66); bytes that come with the end of the stream are dropped
  (socket.cpp:524).  zmq: the second `send` may fail unnoticed
  (zmq/Socket.lua:78); `request` of two threads on one `Req` is refused by 0MQ
  although Req.lua:8-11 says it can be shared (both not modelled).
* Morph: stem cells are stored without `@` and looked up with it (Morph.lua:243);
  `restart` uses the connection of a stem cell that may be gone (657-658);
  `on_stem` is not looked at when the process is online as the stem cell appears
  (214-222); processes that are alive are spawned again, which replaces the pid
  `kill` needs (StemCell.lua:105); a process that dies before it is announced is
  not started again (104: "If a process dies, the stem cell will restart it").

## Not modelled

* The hand-over of the scheduler to the poller of the GUI (`usePoller`, `mimas`
  yields), whose other half is not in this repository; `pcall` and `try`, which
  nest coroutines; the finalizers run after the loop.
* zmq sockets: what `send`, `recv` and `request` do depends on the queues and the
  states of 0MQ sockets, which are not in this repository; a model would be one of
  0MQ, with one action of this code.
* mDNS registration and the calls of Bonjour and Avahi other than those of
  `SelectCallback`; services without TXT record.
* Parameters, inlets of remote processes and messages through outlets; moves of
  directories and of a file to its own url, the files the morph keeps for itself, big
  files; `connect`, `accept` and UDP; the end of the morph, views
  and notifications.
* Parsing, formatting, batch work and helpers (`Doc`, WebDAV formats, `util`, ...),
  generated bindings, and vendored code (LuaJIT, 0MQ, msgpack), which is most of
  the lines of the repository.

## Plan

1. `usePoller`, with an abstract poller on the side of the GUI.
2. The zmq sockets, given an abstract queue of 0MQ to model them over.
