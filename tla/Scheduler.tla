------------------------------ MODULE Scheduler ------------------------------
(***************************************************************************)
(* lk.Scheduler and lk.Thread (lk/lib/lk/Scheduler.lua, Thread.lua).       *)
(*                                                                         *)
(* Threads are coroutines: exactly one piece of Lua runs at a time, and a  *)
(* thread runs until it yields what it waits for: a file descriptor, a     *)
(* date or the end of another thread.  The main loop resumes the threads   *)
(* whose date has passed, then polls the descriptors and resumes the       *)
(* threads they belong to.  While it runs, a thread may do anything to the *)
(* structures the loop walks: create and kill threads, drop the last       *)
(* reference to one, stop the scheduler.  The garbage collector may run at *)
(* any allocation and finalises unreachable threads.                       *)
(*                                                                         *)
(* The poller is the abstract one (module PollerMap): `poller` maps a      *)
(* handle to the descriptor polled for it.                                 *)
(***************************************************************************)
EXTENDS Integers, Sequences, FiniteSets

CONSTANTS
  Threads,      \* every lk.Thread that may ever be created
  Main,         \* the one created by sched:run
  NoThread,
  Fds,          \* descriptors and zmq sockets a thread may wait for
  NoFd,
  Restart,      \* threads created with thread.restart = true
  Killable,     \* where a thread may be when another one kills it
  Faults,       \* what else may happen, a subset of AllFaults
  MaxTime       \* bound: dates go from 0 to MaxTime

\* "gc": the collector runs; "drop": the program lets go of a thread object;
\* "badYield": a thread yields an unknown word; "error": an unprotected error;
\* "quit": sched:quit is called; "interrupt": a signal, or an error of zmq_poll,
\* ends the poll.
AllFaults == {"gc", "drop", "badYield", "error", "quit", "interrupt"}
\* Where a thread is: running, queued by date, in the poller, or in no queue.
Places == {"run", "at", "fd", "none"}

ASSUME SchedulerAssumption ==
  /\ Main \in Threads
  /\ NoThread \notin Threads
  /\ NoFd \notin Fds
  /\ Restart \subseteq Threads
  /\ Killable \subseteq Places
  /\ Faults \subseteq AllFaults
  /\ MaxTime \in Nat \ {0}
  /\ IsFiniteSet(Threads)

VARIABLES
  obj,          \* the lk.Thread object: not created, live, collected
  ref,          \* the program holds a reference to the object
  co,           \* self.co is set (kill and the end of the thread clear it)
  joins,        \* self.joins, the threads to resume when this one ends
  joining,      \* the thread in whose join() the coroutine is suspended
  at,           \* wrap.at, None when nil
  fd,           \* wrap.fd
  idx,          \* wrap.idx, None when nil
  atList,       \* the linked list self.at_next, ...
  fdCount,      \* self.fd_count
  idxToThread,  \* self.idx_to_thread
  poller,       \* self.poller: handle -> descriptor
  shouldRun,    \* self.should_run
  pc,           \* where the main loop is
  nowList,      \* rest of now_list, the threads collected as due
  evList,       \* rest of events, the handles poll() reported
  cur,          \* the running thread
  clock         \* elapsed()

threadVars == <<obj, ref, co, joins, joining>>
fdVars == <<fd, idx, fdCount, idxToThread, poller>>
atVars == <<at, atList>>
loopVars == <<shouldRun, pc, nowList, evList>>
vars == <<threadVars, fdVars, atVars, loopVars, cur, clock>>

None == -1
Elems(s) == {s[i] : i \in DOMAIN s}
Without(f, k) == [x \in DOMAIN f \ {k} |-> f[x]]

Init ==
  /\ obj = [t \in Threads |-> IF t = Main THEN "live" ELSE "unborn"]
  /\ ref = [t \in Threads |-> t = Main]
  /\ co = [t \in Threads |-> t = Main]
  /\ joins = [t \in Threads |-> <<>>]
  /\ joining = [t \in Threads |-> NoThread]
  /\ at = [t \in Threads |-> IF t = Main THEN 0 ELSE None]
  /\ fd = [t \in Threads |-> NoFd]
  /\ idx = [t \in Threads |-> None]
  /\ atList = <<Main>>
  /\ fdCount = 0
  /\ idxToThread = <<>>
  /\ poller = <<>>
  /\ shouldRun = TRUE
  /\ pc = "loop"
  /\ nowList = <<>>
  /\ evList = <<>>
  /\ cur = NoThread
  /\ clock = 0

-----------------------------------------------------------------------------
(* The list of dates and the table of descriptors *)

ScheduleUnsorted(date, ws) ==   \* mutant: only looks at the first entry
  /\ atList' = IF atList # <<>> /\ at[atList[1]] > date THEN ws \o atList
                                                       ELSE atList \o ws
  /\ at' = [t \in Threads |-> IF t \in Elems(ws) THEN date ELSE at[t]]

\* scheduleAt for each thread of the sequence ws, with the same date: the new
\* entries go before the first one that is later.
ScheduleAt(date, ws) ==
  LET earlier == {i \in DOMAIN atList : \A j \in 1 .. i : at[atList[j]] <= date}
      n == Cardinality(earlier)
  IN /\ atList' = SubSeq(atList, 1, n) \o ws \o SubSeq(atList, n + 1, Len(atList))
     /\ at' = [t \in Threads |-> IF t \in Elems(ws) THEN date ELSE at[t]]

\* Thread:finalize resumes the threads that joined t. joins has weak values and
\* is read by ipairs, which stops at the first hole.
Joined(t) ==
  LET filled == {i \in DOMAIN joins[t] : \A j \in 1 .. i : joins[t][j] # NoThread}
  IN SubSeq(joins[t], 1, Cardinality(filled))

Finalize(t) ==
  IF Joined(t) = <<>> THEN UNCHANGED atVars ELSE ScheduleAt(0, Joined(t))

RemoveFdAlwaysCounts(t) ==   \* mutant: fd_count is decremented without a descriptor
  IF fd[t] = NoFd
  THEN /\ fdCount' = fdCount - 1
       /\ UNCHANGED <<fd, idx, idxToThread, poller>>
  ELSE /\ poller' = Without(poller, idx[t])
       /\ idxToThread' = Without(idxToThread, idx[t])
       /\ fd' = [fd EXCEPT ![t] = NoFd]
       /\ idx' = [idx EXCEPT ![t] = None]
       /\ fdCount' = fdCount - 1

RemoveFdKeepsThread(t) ==   \* mutant: idx_to_thread keeps the thread
  IF fd[t] = NoFd
  THEN UNCHANGED fdVars
  ELSE /\ poller' = Without(poller, idx[t])
       /\ fd' = [fd EXCEPT ![t] = NoFd]
       /\ idx' = [idx EXCEPT ![t] = None]
       /\ fdCount' = fdCount - 1
       /\ UNCHANGED idxToThread

RemoveFd(t) ==
  IF fd[t] = NoFd
  THEN UNCHANGED fdVars
  ELSE /\ poller' = Without(poller, idx[t])
       /\ idxToThread' = Without(idxToThread, idx[t])
       /\ fd' = [fd EXCEPT ![t] = NoFd]
       /\ idx' = [idx EXCEPT ![t] = None]
       /\ fdCount' = fdCount - 1

AddFdAtCount(t, f) ==   \* mutant: the number of handles is taken for a free one
  LET i == Cardinality(DOMAIN poller)
  IN /\ poller' = [k \in DOMAIN poller \union {i} |-> IF k = i THEN f ELSE poller[k]]
     /\ idxToThread' = [k \in DOMAIN idxToThread \union {i} |->
                          IF k = i THEN t ELSE idxToThread[k]]
     /\ fd' = [fd EXCEPT ![t] = f]
     /\ idx' = [idx EXCEPT ![t] = i]
     /\ fdCount' = fdCount + 1

\* A thread waits for f for the first time since it left the poller.
AddFd(t, f) ==
  \E i \in 0 .. Cardinality(DOMAIN poller) :
    /\ i \notin DOMAIN poller
    /\ 0 .. i - 1 \subseteq DOMAIN poller
    /\ poller' = [k \in DOMAIN poller \union {i} |-> IF k = i THEN f ELSE poller[k]]
    /\ idxToThread' = [k \in DOMAIN idxToThread \union {i} |->
                         IF k = i THEN t ELSE idxToThread[k]]
    /\ fd' = [fd EXCEPT ![t] = f]
    /\ idx' = [idx EXCEPT ![t] = i]
    /\ fdCount' = fdCount + 1

\* It is in the poller already. The new descriptor reaches the poller only:
\* the scheduler does not store it in thread.fd.
ModifyFd(t, f) ==
  /\ poller' = IF f = fd[t] THEN poller ELSE [poller EXCEPT ![idx[t]] = f]
  /\ UNCHANGED <<fd, idx, fdCount, idxToThread>>

-----------------------------------------------------------------------------
(* The main loop *)

CollectStopsAtKilled ==   \* mutant: a killed thread is not due, nor what follows it
  LET due == {i \in DOMAIN atList :
                \A j \in 1 .. i : at[atList[j]] < clock /\ co[atList[j]]}
      n == Cardinality(due)
  IN /\ pc = "loop"
     /\ shouldRun
     /\ nowList' = SubSeq(atList, 1, n)
     /\ atList' = SubSeq(atList, n + 1, Len(atList))
     /\ pc' = "now"
     /\ UNCHANGED <<threadVars, fdVars, at, shouldRun, evList, cur, clock>>

\* Collect the entries at the head of the list whose date has passed.
Collect ==
  LET due == {i \in DOMAIN atList : \A j \in 1 .. i : at[atList[j]] < clock}
      n == Cardinality(due)
  IN /\ pc = "loop"
     /\ shouldRun
     /\ nowList' = SubSeq(atList, 1, n)
     /\ atList' = SubSeq(atList, n + 1, Len(atList))
     /\ pc' = "now"
     /\ UNCHANGED <<threadVars, fdVars, at, shouldRun, evList, cur, clock>>

Stop ==
  /\ pc = "loop"
  /\ ~shouldRun
  /\ pc' = "stopped"
  /\ UNCHANGED <<threadVars, fdVars, atVars, shouldRun, nowList, evList, cur, clock>>

BuryInSilence(w) ==   \* mutant: a killed thread is not finalised
  /\ obj[w] # "live" \/ ~co[w]
  /\ RemoveFd(w)
  /\ UNCHANGED <<atVars, joining, cur>>

\* runThread for a thread that was killed or collected ...
Bury(w) ==
  /\ obj[w] # "live" \/ ~co[w]
  /\ RemoveFd(w)
  /\ IF obj[w] = "live" THEN Finalize(w) ELSE UNCHANGED atVars
  /\ UNCHANGED <<joining, cur>>

\* ... and for one that can be resumed.
Resume(w) ==
  /\ obj[w] = "live"
  /\ co[w]
  /\ cur' = w
  /\ at' = [at EXCEPT ![w] = None]
  /\ joining' = [joining EXCEPT ![w] = NoThread]
  /\ UNCHANGED <<fdVars, atList>>

RunThread(w) == Bury(w) \/ Resume(w)

RunNext ==
  /\ pc = "now"
  /\ cur = NoThread
  /\ nowList # <<>>
  /\ RunThread(Head(nowList))
  /\ nowList' = Tail(nowList)
  /\ UNCHANGED <<obj, ref, co, joins, shouldRun, pc, evList, clock>>

RunDoneRecollects ==   \* mutant: what was added for now runs before the poll
  /\ pc = "now"
  /\ cur = NoThread
  /\ nowList = <<>>
  /\ IF atList # <<>> /\ at[Head(atList)] < clock /\ shouldRun
     THEN /\ nowList' = <<Head(atList)>>
          /\ atList' = Tail(atList)
          /\ UNCHANGED <<pc, shouldRun>>
     ELSE /\ UNCHANGED <<nowList, atList>>
          /\ IF fdCount = 0 /\ atList = <<>>
             THEN pc' = "loop" /\ shouldRun' = FALSE
             ELSE pc' = (IF shouldRun THEN "poll" ELSE "loop") /\ UNCHANGED shouldRun
  /\ UNCHANGED <<threadVars, fdVars, at, evList, cur, clock>>

\* All due threads have run: poll, unless there is nothing left to wait for or
\* a thread called quit.
RunDone ==
  /\ pc = "now"
  /\ cur = NoThread
  /\ nowList = <<>>
  /\ IF fdCount = 0 /\ atList = <<>>
     THEN pc' = "loop" /\ shouldRun' = FALSE
     ELSE pc' = (IF shouldRun THEN "poll" ELSE "loop") /\ UNCHANGED shouldRun
  /\ UNCHANGED <<threadVars, fdVars, atVars, nowList, evList, cur, clock>>

\* The orders in which events() may list the handles of a set.
Orders(S) == {s \in [1 .. Cardinality(S) -> S] : Elems(s) = S}

\* poll() returns without events when its timeout has passed: the first date of
\* the list, none when the list is empty.
TimedOut == atList # <<>> /\ at[Head(atList)] <= clock

PollTimedOut ==
  /\ pc = "poll"
  /\ TimedOut
  /\ evList' = <<>>
  /\ pc' = "events"
  /\ UNCHANGED <<threadVars, fdVars, atVars, shouldRun, nowList, cur, clock>>

PollReady(S) ==
  /\ pc = "poll"
  /\ S # {}
  /\ evList' \in Orders(S)
  /\ pc' = "events"
  /\ UNCHANGED <<threadVars, fdVars, atVars, shouldRun, nowList, cur, clock>>

PollInterrupted ==
  /\ "interrupt" \in Faults
  /\ pc = "poll"
  /\ shouldRun' = FALSE
  /\ pc' = "stopped"
  /\ UNCHANGED <<threadVars, fdVars, atVars, nowList, evList, cur, clock>>

\* zmq_poll failed, or a signal other than SIGINT woke it: poll() throws.
PollError ==
  /\ "interrupt" \in Faults
  /\ pc = "poll"
  /\ pc' = "crashed"
  /\ UNCHANGED <<threadVars, fdVars, atVars, shouldRun, nowList, evList, cur, clock>>

EventNext ==
  /\ pc = "events"
  /\ cur = NoThread
  /\ evList # <<>>
  /\ Head(evList) \in DOMAIN idxToThread
  /\ RunThread(idxToThread[Head(evList)])
  /\ evList' = Tail(evList)
  /\ UNCHANGED <<obj, ref, co, joins, shouldRun, pc, nowList, clock>>

\* error("Unknown thread idx '%i' in poller") leaves the main loop.
EventUnknown ==
  /\ pc = "events"
  /\ cur = NoThread
  /\ evList # <<>>
  /\ Head(evList) \notin DOMAIN idxToThread
  /\ pc' = "crashed"
  /\ UNCHANGED <<threadVars, fdVars, atVars, shouldRun, nowList, evList, cur, clock>>

\* The garbage list that is emptied here holds no thread with a descriptor:
\* remove() has taken it out of the poller before (see Gc).
EventsDone ==
  /\ pc = "events"
  /\ cur = NoThread
  /\ evList = <<>>
  /\ pc' = "loop"
  /\ UNCHANGED <<threadVars, fdVars, atVars, shouldRun, nowList, evList, cur, clock>>

-----------------------------------------------------------------------------
(* What the running thread does between two yields *)

Running(t) == cur = t /\ t # NoThread

\* lk.Thread(func, at)
Spawn(u, date) ==
  /\ cur # NoThread
  /\ obj[u] = "unborn"
  /\ obj' = [obj EXCEPT ![u] = "live"]
  /\ ref' = [ref EXCEPT ![u] = TRUE]
  /\ co' = [co EXCEPT ![u] = TRUE]
  /\ ScheduleAt(date, <<u>>)
  /\ UNCHANGED <<joins, joining, fdVars, loopVars, cur, clock>>

Listed == Elems(atList) \union Elems(nowList)
Place(u) == IF cur = u THEN "run"
            ELSE IF u \in Listed THEN "at"
            ELSE IF fd[u] # NoFd THEN "fd"
            ELSE "none"

KillReschedules(u) ==   \* mutant: the killed thread is queued, to be finalised
  /\ cur # NoThread
  /\ obj[u] = "live"
  /\ ref[u]
  /\ Place(u) \in Killable
  /\ RemoveFd(u)
  /\ ScheduleAt(0, <<u>>)
  /\ co' = [co EXCEPT ![u] = FALSE]
  /\ UNCHANGED <<obj, ref, joins, joining, loopVars, cur, clock>>

\* thread:kill(), of a thread that may have ended or be dead already. It stays
\* where it is in the list of dates.
Kill(u) ==
  /\ cur # NoThread
  /\ obj[u] = "live"
  /\ ref[u]
  /\ Place(u) \in Killable
  /\ RemoveFd(u)
  /\ at' = [at EXCEPT ![u] = 0]
  /\ co' = [co EXCEPT ![u] = FALSE]
  /\ UNCHANGED <<obj, ref, joins, joining, atList, loopVars, cur, clock>>

\* sched:quit()
Quit ==
  /\ "quit" \in Faults
  /\ cur # NoThread
  /\ shouldRun' = FALSE
  /\ UNCHANGED <<threadVars, fdVars, atVars, pc, nowList, evList, cur, clock>>

\* The program forgets a thread object (sched.main keeps the first one).
Drop(u) ==
  /\ "drop" \in Faults
  /\ cur # NoThread
  /\ u # Main
  /\ ref[u]
  /\ ref' = [ref EXCEPT ![u] = FALSE]
  /\ UNCHANGED <<obj, co, joins, joining, fdVars, atVars, loopVars, cur, clock>>

-----------------------------------------------------------------------------
(* Yields: the tail of runThread, by what coroutine.resume returned *)

\* waitRead, waitWrite
YieldFd(t, f) ==
  /\ Running(t)
  /\ IF fd[t] = NoFd THEN AddFd(t, f) ELSE ModifyFd(t, f)
  /\ cur' = NoThread
  /\ UNCHANGED <<threadVars, atVars, loopVars, clock>>

\* Where table.insert puts a value: after a border of the table, which is any
\* filled entry with a hole behind it (or the beginning).
Borders(s) == {n \in 0 .. Len(s) : (n > 0 => s[n] # NoThread)
                                     /\ (n < Len(s) => s[n + 1] = NoThread)}

\* Thread:addJoin
AddJoin(u, t) ==
  \E n \in Borders(joins[u]) :
    joins' = [joins EXCEPT ![u] =
                IF n = Len(@) THEN Append(@, t) ELSE [@ EXCEPT ![n + 1] = t]]

\* thread:join() yields only if u has not ended.
YieldJoin(t, u) ==
  /\ Running(t)
  /\ obj[u] = "live"
  /\ ref[u]
  /\ co[u]
  /\ RemoveFd(t)
  /\ AddJoin(u, t)
  /\ joining' = [joining EXCEPT ![t] = u]
  /\ cur' = NoThread
  /\ UNCHANGED <<obj, ref, co, atVars, loopVars, clock>>

\* sched:sleep and sched:wait
YieldWait(t, date) ==
  /\ Running(t)
  /\ RemoveFd(t)
  /\ ScheduleAt(date, <<t>>)
  /\ cur' = NoThread
  /\ UNCHANGED <<threadVars, loopVars, clock>>

\* The function returned, called sched:abort, or raised an error and is not to
\* be restarted; or a killed thread yielded something unknown.
YieldEnd(t) ==
  /\ Running(t)
  /\ RemoveFd(t)
  /\ co' = [co EXCEPT ![t] = FALSE]
  /\ Finalize(t)
  /\ cur' = NoThread
  /\ UNCHANGED <<obj, ref, joins, joining, loopVars, clock>>

\* An unprotected error in a thread to restart: it gets a new coroutine, and
\* keeps its descriptor if it has one. Nothing schedules it.
YieldError(t) ==
  /\ "error" \in Faults
  /\ Running(t)
  /\ t \in Restart
  /\ co' = [co EXCEPT ![t] = TRUE]
  /\ cur' = NoThread
  /\ UNCHANGED <<obj, ref, joins, joining, fdVars, atVars, loopVars, clock>>

\* "BAD YIELD" is printed; the thread is not finalised.
YieldBad(t) ==
  /\ "badYield" \in Faults
  /\ Running(t)
  /\ co[t]
  /\ RemoveFd(t)
  /\ cur' = NoThread
  /\ UNCHANGED <<threadVars, atVars, loopVars, clock>>

-----------------------------------------------------------------------------
(* The collector and the clock *)

\* A thread object is reached from the program, or from the stack of a thread
\* that joined it (while that one has a coroutine).
Reachable(t) ==
  \/ ref[t]
  \/ cur = t
  \/ \E u \in Threads : joining[u] = t /\ obj[u] = "live" /\ co[u]

\* lk.Finalizer calls sched:remove(wrap); with the object goes its coroutine.
Gc(t) ==
  /\ "gc" \in Faults
  /\ pc \notin {"stopped", "crashed"}
  /\ obj[t] = "live"
  /\ ~Reachable(t)
  /\ obj' = [obj EXCEPT ![t] = "gone"]
  /\ co' = [co EXCEPT ![t] = FALSE]
  /\ RemoveFd(t)
  /\ UNCHANGED <<ref, joins, joining, atVars, loopVars, cur, clock>>

\* A later cycle finds that nothing holds the wrapper of a collected thread: it
\* disappears from the tables with weak values.
GcWrap(t) ==
  /\ "gc" \in Faults
  /\ pc \notin {"stopped", "crashed"}
  /\ obj[t] = "gone"
  /\ t \notin Listed
  /\ \E u \in Threads : t \in Elems(joins[u])
  /\ joins' = [u \in Threads |-> [i \in DOMAIN joins[u] |->
                 IF joins[u][i] = t THEN NoThread ELSE joins[u][i]]]
  /\ UNCHANGED <<obj, ref, co, joining, fdVars, atVars, loopVars, cur, clock>>

Tick ==
  /\ clock < MaxTime
  /\ pc \notin {"stopped", "crashed"}
  /\ clock' = clock + 1
  /\ UNCHANGED <<threadVars, fdVars, atVars, loopVars, cur>>

-----------------------------------------------------------------------------
\* A date before MaxTime: the clock passes it.
Dates == 0 .. MaxTime - 1

Loop ==
  \/ Collect
  \/ Stop
  \/ RunNext
  \/ RunDone
  \/ EventNext
  \/ EventUnknown
  \/ EventsDone

Work ==
  \/ \E u \in Threads, date \in Dates : Spawn(u, date)
  \/ \E u \in Threads : Kill(u) \/ Drop(u)
  \/ Quit

Yield ==
  \E t \in Threads :
    \/ \E f \in Fds : YieldFd(t, f)
    \/ \E u \in Threads : YieldJoin(t, u)
    \/ \E date \in Dates : YieldWait(t, date)
    \/ YieldEnd(t)
    \/ YieldError(t)
    \/ YieldBad(t)

Collector == \E t \in Threads : Gc(t) \/ GcWrap(t)

Polled == \E S \in SUBSET DOMAIN poller : PollReady(S)

Next == Loop \/ PollTimedOut \/ Polled \/ PollInterrupted \/ PollError
        \/ Work \/ Yield \/ Collector \/ Tick

Spec == Init /\ [][Next]_vars

\* The loop keeps going, a timeout of poll() elapses, time passes, and threads
\* are cooperative: the running one reaches its next yield. Nothing says that a
\* descriptor ever becomes ready.
Fairness == WF_vars(Loop) /\ WF_vars(PollTimedOut) /\ WF_vars(Yield) /\ WF_vars(Tick)
FairSpec == Spec /\ Fairness

-----------------------------------------------------------------------------
(* Safety *)

TypeOK ==
  /\ obj \in [Threads -> {"unborn", "live", "gone"}]
  /\ ref \in [Threads -> BOOLEAN]
  /\ co \in [Threads -> BOOLEAN]
  /\ joins \in [Threads -> Seq(Threads \union {NoThread})]
  /\ joining \in [Threads -> Threads \union {NoThread}]
  /\ at \in [Threads -> Dates \union {None}]
  /\ fd \in [Threads -> Fds \union {NoFd}]
  /\ idx \in [Threads -> Nat \union {None}]
  /\ atList \in Seq(Threads)
  /\ fdCount \in Nat
  /\ DOMAIN idxToThread \subseteq Nat /\ Elems(idxToThread) \subseteq Threads
  /\ DOMAIN poller \subseteq Nat /\ Elems(poller) \subseteq Fds
  /\ shouldRun \in BOOLEAN
  /\ pc \in {"loop", "now", "poll", "events", "stopped", "crashed"}
  /\ nowList \in Seq(Threads)
  /\ evList \in Seq(Nat)
  /\ cur \in Threads \union {NoThread}
  /\ clock \in 0 .. MaxTime

\* The four descriptions of who waits for what agree whatever is killed,
\* collected, restarted or finalised: a handle of the poller belongs to one
\* thread, which knows it, and fd_count, which decides whether the main loop may
\* stop, counts them.
FdTables ==
  /\ DOMAIN idxToThread = DOMAIN poller
  /\ fdCount = Cardinality(DOMAIN poller)
  /\ \A t \in Threads : fd[t] = NoFd <=> idx[t] = None
  /\ \A t \in Threads : fd[t] # NoFd =>
       idx[t] \in DOMAIN poller /\ idxToThread[idx[t]] = t
  /\ \A i \in DOMAIN idxToThread : idx[idxToThread[i]] = i

\* scheduleAt is never called for a thread that is queued already, which would
\* tie the linked list into a loop or cut its tail; a queued thread is neither
\* running nor in the poller.
QueuedOnce ==
  LET queue == nowList \o atList
  IN /\ \A i, j \in DOMAIN queue : queue[i] = queue[j] => i = j
     /\ \A t \in Listed : t # cur /\ fd[t] = NoFd

\* A queued thread has a date, which the loop compares without a test for nil,
\* and those that can be resumed are in the order of their dates, although kill
\* writes 0 into the entry of a queued thread without moving it.
DatesInOrder ==
  /\ \A t \in Listed : at[t] # None
  /\ \A i, j \in DOMAIN atList :
       i < j /\ co[atList[i]] /\ co[atList[j]] => at[atList[i]] <= at[atList[j]]

\* The loop has collected the events "so that running the threads (and possibly
\* adding new file descriptors) does not alter the list" (Scheduler.lua 173-175):
\* whatever the threads that are served first do, a handle that is still to be
\* served keeps its thread, unless that thread itself is killed or collected.
PendingEventsKeepThread ==
  [][pc = "events" /\ pc' = "events" =>
       \A i \in Elems(evList') \intersect DOMAIN idxToThread :
         \/ i \in DOMAIN idxToThread' /\ idxToThread'[i] = idxToThread[i]
         \/ Kill(idxToThread[i]) \/ Gc(idxToThread[i])]_vars

-----------------------------------------------------------------------------
(* Liveness *)

\* t, which the program still holds, is suspended in u:join() and has not been
\* queued again.
Waits(t, u) == /\ joining[t] = u
               /\ ref[t]
               /\ obj[t] = "live"
               /\ co[t]
               /\ t \notin Listed

\* The joiners of a thread that ended or was killed are resumed ("The scheduler
\* asks this thread to resume other threads on finalization", Thread.lua 74-75).
JoinersResumed ==
  \A t, u \in Threads :
    (Waits(t, u) /\ ~co[u]) ~> (~Waits(t, u) \/ pc = "crashed")

\* A queued thread is reached, even behind a killed one or one that sleeps 0 for
\* ever, unless the scheduler is stopped.
DueThreadsRun ==
  \A t \in Threads : t \in Listed ~> t \notin Listed \/ pc \in {"stopped", "crashed"}

\* Threads that keep adding themselves as due do not keep the loop from polling
\* (Scheduler.lua 146-147).
PassEnds == pc = "now" ~> pc # "now"
==============================================================================
