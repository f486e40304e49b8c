-------------------------------- MODULE Timer --------------------------------
(***************************************************************************)
(* lk.Timer (lk/lib/lk/Timer.lua): a method that is called at regular      *)
(* dates by a thread of its own.                                           *)
(*                                                                         *)
(* The timer is one object; every start or change of interval gives it a   *)
(* new thread, here a ticker, and lets go of the one it had.  start, stop  *)
(* and setInterval may be called by any thread, the tick included.  The    *)
(* scheduler (module Scheduler) is reduced to what a ticker can tell of    *)
(* it: it resumes due threads in the order of their dates, possibly late,  *)
(* and sets sched.now to that date.                                        *)
(***************************************************************************)
EXTENDS Integers, FiniteSets

CONSTANTS
  Tickers,      \* names for the threads; one that is dead is used again
  NoThread,
  Intervals,    \* what start and setInterval are given; 0 stops the timer
  LongWait,     \* a wait of more than this many units (10 s) warns, and fails
  MaxTime       \* bound of the clock

ASSUME TimerAssumption ==
  /\ NoThread \notin Tickers
  /\ Intervals \subseteq Nat
  /\ LongWait \in Nat /\ MaxTime \in Nat

VARIABLES
  thread,       \* self.thread
  interval,     \* self.interval
  tk,           \* each ticker: its next step, thread.co and its date
  cur,          \* the ticker that runs, in tick()
  now,          \* sched.now
  clock,        \* elapsed()
  joined,       \* the ticker for which a caller of join() waits
  last,         \* history: date of the last tick since start, None if it slept
  doubled,      \* history: start was called when the timer had a live thread
  failed        \* history: an error in its tick ended the thread the timer holds

vars == <<thread, interval, tk, cur, now, clock, joined, last, doubled, failed>>

None == -1
Dead == [step |-> "dead", co |-> FALSE, at |-> None]
Alive(k) == tk[k].co
Queued(k) == tk[k].step \notin {"dead", "tick"}
Unused(k) == tk[k] = Dead /\ k \notin {thread, joined}

Init ==
  /\ thread = NoThread
  /\ interval \in Intervals
  /\ tk = [k \in Tickers |-> Dead]
  /\ cur = NoThread
  /\ now = 1
  /\ clock = 1
  /\ joined = NoThread
  /\ last = None
  /\ doubled = FALSE /\ failed = FALSE

-----------------------------------------------------------------------------
(* What a thread may call; n is its sched.now, tks the tickers as it leaves  *)
(* them                                                                      *)

\* lk.Thread(f, date): a new ticker that begins with step f. The timer holds it
\* and lets go of the one it had.
NewThread(tks, f, date) ==
  \E k \in Tickers :
    /\ Unused(k)
    /\ thread' = k
    /\ tk' = [tks EXCEPT ![k] = [step |-> f, co |-> TRUE, at |-> date]]

\* thread:kill(). The scheduler buries it when it comes to it.
Killed(tks) == IF thread = NoThread THEN tks ELSE [tks EXCEPT ![thread].co = FALSE]

\* start() does not ask whether the timer has a thread: a second one ticks beside
\* the first until that is collected.
Start ==
  /\ \E f \in {"run", "delay"} : NewThread(tk, f, 0)
  /\ doubled' = (doubled \/ (thread # NoThread /\ Alive(thread)))
  /\ last' = None
  /\ UNCHANGED interval

Stop ==
  /\ thread # NoThread
  /\ thread' = NoThread
  /\ tk' = Killed(tk)
  /\ last' = None
  /\ UNCHANGED interval

SetIntervalLeavesOld(tks, n, i) ==   \* mutant: does not stop the running thread
  /\ interval' = i
  /\ last' = None
  /\ IF thread # NoThread /\ i > 0 THEN NewThread(tks, "run", n + i - (n % i))
                                  ELSE tk' = tks /\ UNCHANGED thread

SetIntervalForgets(tks, n, i) ==   \* mutant: stops, and starts again only from 0
  /\ interval' = i
  /\ last' = None
  /\ IF thread # NoThread /\ i > 0 /\ interval = 0
     THEN NewThread(Killed(tks), "run", n + i)
     ELSE tk' = Killed(tks) /\ UNCHANGED thread

\* setInterval. The phase is lost: self.thread is nil by the time it is looked
\* for, so dates are multiples of the interval, or start now after interval 0.
SetInterval(tks, n, i) ==
  /\ interval' = i
  /\ last' = None
  /\ \/ /\ thread # NoThread /\ i = 0
        /\ thread' = NoThread
        /\ tk' = Killed(tks)
     \/ /\ thread # NoThread /\ i > 0
        /\ LET from == IF interval > 0 THEN 0 ELSE n
           IN NewThread(Killed(tks), "run", n + i - ((n - from) % i))
     \/ /\ thread = NoThread
        /\ tk' = tks
        /\ UNCHANGED thread

\* setInterval(i, true) of a timer that is stopped.
SetAndStart(i) ==
  /\ thread = NoThread
  /\ interval' = i
  /\ last' = None
  /\ NewThread(tk, "run", 0)

Call(n) ==
  /\ \/ Start
     \/ /\ Stop \/ \E i \in Intervals : SetInterval(tk, n, i) \/ SetAndStart(i)
        /\ UNCHANGED doubled
  /\ failed' = (failed /\ thread' = thread)
  /\ UNCHANGED <<cur, now, clock, joined>>

\* Another thread runs, woken by an event (now) or at a date that has come.
UserCall ==
  /\ cur = NoThread
  /\ \E n \in 1 .. clock :
       /\ n = clock \/ \A k \in Tickers : Queued(k) /\ Alive(k) => tk[k].at >= n
       /\ Call(n)

\* timer:join() by another thread.
Join ==
  /\ cur = NoThread /\ joined = NoThread
  /\ thread # NoThread /\ Alive(thread)
  /\ joined' = thread
  /\ UNCHANGED <<thread, interval, tk, cur, now, clock, last, doubled, failed>>

-----------------------------------------------------------------------------
(* The ticker *)

EndedKeepsStep(tks, k) == [tks EXCEPT ![k].co = FALSE]   \* mutant: step stays

\* The end of a thread resumes who joined it.
Ended(tks, k) == [tks EXCEPT ![k] = Dead]
Release(k) == joined' = IF joined = k THEN NoThread ELSE joined

Queue(k, f, date) ==
  /\ tk' = [tk EXCEPT ![k].step = f, ![k].at = date]
  /\ UNCHANGED joined

WaitFromClock(k, f, n) ==   \* mutant: measured from elapsed(), as sleep does
  Queue(k, f, IF interval = 0 THEN 0 ELSE clock + interval)

\* sched:wait(self.interval). The warning about a long wait formats a variable
\* that does not exist: that raises an error, which ends the thread.
Wait(k, f, n) ==
  \/ /\ interval > LongWait
     /\ tk' = Ended(tk, k)
     /\ Release(k)
  \/ /\ interval <= LongWait
     /\ Queue(k, f, IF interval = 0 THEN 0 ELSE n + interval)

\* The scheduler comes to a thread that was killed, or the collector to one
\* that a second start replaced and nobody references.
Bury(k) ==
  /\ cur = NoThread /\ Queued(k)
  /\ ~Alive(k) \/ k # thread
  /\ tk' = Ended(tk, k)
  /\ Release(k)
  /\ UNCHANGED <<thread, interval, cur, now, clock, last, doubled, failed>>

\* The scheduler resumes the first due thread and sets sched.now.
Resumed(k) ==
  /\ cur = NoThread /\ Queued(k) /\ Alive(k) /\ tk[k].at <= clock
  /\ \A j \in Tickers : Queued(j) /\ Alive(j) => tk[k].at <= tk[j].at
  /\ now' = IF tk[k].at > 0 THEN tk[k].at ELSE clock
  /\ UNCHANGED <<thread, interval, clock, doubled, failed>>

\* start(false): the thread first waits.
Delay(k) ==
  /\ Resumed(k) /\ tk[k].step = "delay"
  /\ Wait(k, "run", now')
  /\ UNCHANGED <<cur, last>>

Tick(k) ==
  /\ Resumed(k) /\ tk[k].step \in {"run", "loop"}
  /\ tk[k].step = "run" => interval > 0
  /\ thread # NoThread
  /\ Queue(k, "tick", None)
  /\ cur' = k
  /\ last' = now'

RunEnds(k) ==
  /\ Resumed(k) /\ tk[k].step \in {"run", "loop"}
  /\ thread = NoThread \/ (tk[k].step = "run" /\ interval = 0)
  /\ tk' = Ended(tk, k)
  /\ Release(k)
  /\ UNCHANGED <<cur, last>>

TickAwakes(k) ==
  /\ Resumed(k) /\ tk[k].step = "sleep"
  /\ Queue(k, "tick", None)
  /\ cur' = k
  /\ last' = None

\* What tick() may do: sleep, call the timer, return nothing or an interval.
TickSleeps ==
  /\ cur # NoThread
  /\ Queue(cur, "sleep", clock + 1)
  /\ cur' = NoThread
  /\ UNCHANGED <<thread, interval, now, clock, last, doubled, failed>>

TickCalls == cur # NoThread /\ Call(now)

TickReturns ==
  /\ cur # NoThread
  /\ Wait(cur, "loop", now)
  /\ cur' = NoThread
  /\ UNCHANGED <<thread, interval, now, clock, last, doubled, failed>>

\* The interval that tick returned is set and the loop is left.
TickReturnsInterval ==
  /\ cur # NoThread
  /\ \E i \in Intervals : SetInterval(Ended(tk, cur), now, i)
  /\ Release(cur)
  /\ cur' = NoThread
  /\ failed' = (failed /\ thread' = thread)
  /\ UNCHANGED <<now, clock, doubled>>

\* An error in tick(), for which the timer has no handler and asks no restart:
\* the scheduler ends the thread, the timer still holds it.
TickRaises ==
  /\ cur # NoThread
  /\ tk' = Ended(tk, cur)
  /\ Release(cur)
  /\ cur' = NoThread
  /\ failed' = (failed \/ cur = thread)
  /\ UNCHANGED <<thread, interval, now, clock, last, doubled>>

Time ==
  /\ cur = NoThread /\ clock < MaxTime
  /\ clock' = clock + 1
  /\ UNCHANGED <<thread, interval, tk, cur, now, joined, last, doubled, failed>>

Next ==
  \/ UserCall \/ Join \/ Time
  \/ \E k \in Tickers : Bury(k) \/ Delay(k) \/ Tick(k) \/ RunEnds(k) \/ TickAwakes(k)
  \/ TickSleeps \/ TickCalls \/ TickReturns \/ TickReturnsInterval \/ TickRaises

Spec == Init /\ [][Next]_vars

-----------------------------------------------------------------------------
(* Properties *)

\* Types; a ticker is in its tick exactly when it is the one that runs.
TypeOK ==
  /\ thread \in Tickers \cup {NoThread}
  /\ interval \in Intervals
  /\ tk \in [Tickers -> [step : {"dead", "run", "delay", "loop", "tick", "sleep"},
                         co : BOOLEAN, at : Int]]
  /\ cur \in Tickers \cup {NoThread}
  /\ now \in Nat /\ clock \in Nat
  /\ joined \in Tickers \cup {NoThread}
  /\ last \in Int /\ {doubled, failed} \subseteq BOOLEAN
  /\ \A k \in Tickers : tk[k].step = "tick" <=> k = cur

\* Whatever tick() and other threads call, in the middle of a tick that sleeps
\* included, at most one thread ticks, the one the timer would stop; unless
\* start was called twice.
OneTicker == ~doubled => \A k \in Tickers : Alive(k) => k = thread

\* A timer that has a thread and an interval of at most LongWait goes on ("continue
\* until 'timer' is gc or stopped", Timer_test.lua): whatever was set and returned
\* in whatever order, its thread has not been killed and has not ended, unless an
\* error in its tick ended it: the timer keeps that thread and ticks no more until
\* it is started again or its interval is set.
KeepsTicking ==
  thread # NoThread /\ interval \in 1 .. LongWait => Alive(thread) \/ failed

\* However late the scheduler resumes the thread, and whatever the tick calls,
\* the dates of two ticks that follow one another are one interval apart.
TicksSpaced ==
  [][\A k \in Tickers : Tick(k) /\ last # None /\ ~doubled => now' = last + interval]_vars
=============================================================================
