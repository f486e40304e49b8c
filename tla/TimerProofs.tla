----------------------------- MODULE TimerProofs -----------------------------
(***************************************************************************)
(* Theorems about Timer, for any set of tickers, any intervals and any     *)
(* limit of a wait.  The types are inductive, and with them OneTicker and  *)
(* KeepsTicking.  TicksSpaced needs to know the date for which the ticker  *)
(* is queued (Spaced) and that a ticker in its loop has an interval to     *)
(* wait for (Positive).                                                    *)
(***************************************************************************)
EXTENDS Timer, TLAPS

Steps == {"dead", "run", "delay", "loop", "tick", "sleep"}
Typed(tks) == tks \in [Tickers -> [step : Steps, co : BOOLEAN, at : Int]]

\* c is the one that is in its tick
InTick(tks, c) == \A k \in Tickers : tks[k].step = "tick" <=> k = c

\* A thread that has entered its loop leaves it before the interval becomes 0.
Positive ==
  ~doubled =>
    \A k \in Tickers : Alive(k) /\ tk[k].step \in {"loop", "tick", "sleep"} => interval > 0

\* Between two ticks the thread is queued for one interval after the last one.
Spaced ==
  ~doubled /\ last # None =>
    /\ last \in Nat /\ interval > 0
    /\ \A k \in Tickers : Alive(k) =>
         /\ tk[k].step \notin {"run", "delay"}
         /\ tk[k].step = "loop" => tk[k].at = last + interval
         /\ tk[k].step = "tick" => now = last

OnlyAlive(tks, t) == \A k \in Tickers : tks[k].co => k = t

\* What start and setInterval leave behind.
ThreadTyped(c) ==
  /\ thread' \in Tickers \cup {NoThread}
  /\ Typed(tk')
  /\ InTick(tk', c)

USE TimerAssumption

-----------------------------------------------------------------------------
(* Lemmas about what a thread may call *)

LEMMA NewThreadTyped ==
  ASSUME NEW tks, NEW f \in Steps \ {"tick"}, NEW date \in Int, NEW c,
         Typed(tks), InTick(tks, c), \A k \in Tickers : Unused(k) => k # c,
         NewThread(tks, f, date)
  PROVE  ThreadTyped(c)
  BY DEF NewThread, ThreadTyped, Typed, InTick, Steps

LEMMA KilledTyped ==
  ASSUME NEW tks, NEW c, Typed(tks), InTick(tks, c), thread \in Tickers \cup {NoThread}
  PROVE  Typed(Killed(tks)) /\ InTick(Killed(tks), c)
  BY DEF Killed, Typed, InTick, Steps

LEMMA QueueTyped ==
  ASSUME NEW k \in Tickers, NEW f \in Steps, NEW date \in Int,
         Typed(tk), InTick(tk, cur), cur \in {k, NoThread}, Queue(k, f, date)
  PROVE  Typed(tk') /\ InTick(tk', IF f = "tick" THEN k ELSE NoThread)
<1>1. /\ tk' \in [Tickers -> [step : Steps, co : BOOLEAN, at : Int]]
      /\ tk'[k].step = f
      /\ \A j \in Tickers \ {k} : tk'[j] = tk[j]
  <2>1. tk \in [Tickers -> [step : Steps, co : BOOLEAN, at : Int]]
    BY DEF Typed
  <2>2. tk' = [tk EXCEPT ![k] = [[tk[k] EXCEPT !.step = f] EXCEPT !.at = date]]
    BY <2>1 DEF Queue
  <2>3. /\ [[tk[k] EXCEPT !.step = f] EXCEPT !.at = date] \in [step : Steps, co : BOOLEAN, at : Int]
        /\ [[tk[k] EXCEPT !.step = f] EXCEPT !.at = date].step = f
    <3>1. tk[k] \in [step : Steps, co : BOOLEAN, at : Int]
      BY <2>1
    <3> QED BY <3>1
  <2> QED BY <2>1, <2>2, <2>3
<1> QED BY <1>1 DEF Typed, InTick

LEMMA EndedTyped ==
  ASSUME NEW tks, NEW k \in Tickers, NEW c, Typed(tks), InTick(tks, c)
  PROVE  Typed(Ended(tks, k)) /\ InTick(Ended(tks, k), IF c = k THEN NoThread ELSE c)
  BY DEF Ended, Dead, None, Typed, InTick, Steps

LEMMA SetIntervalTyped ==
  ASSUME NEW tks, NEW n \in Int, NEW i \in Intervals, NEW c,
         Typed(tks), InTick(tks, c), \A k \in Tickers : Unused(k) => k # c,
         thread \in Tickers \cup {NoThread}, interval \in Intervals,
         SetInterval(tks, n, i)
  PROVE  ThreadTyped(c) /\ interval' \in Intervals /\ last' \in Int
<1>0. interval' \in Intervals /\ last' \in Int
  BY DEF SetInterval, None
<1>k. Typed(Killed(tks)) /\ InTick(Killed(tks), c)
  BY KilledTyped
<1>1. CASE thread # NoThread /\ i = 0
  BY <1>0, <1>1, <1>k DEF SetInterval, ThreadTyped
<1>2. CASE thread # NoThread /\ i > 0
  <2> DEFINE from == IF interval > 0 THEN 0 ELSE n
             date == n + i - ((n - from) % i)
  <2>1. NewThread(Killed(tks), "run", date)
    BY <1>2 DEF SetInterval
  <2>2. date \in Int
    <3>1. from \in Int /\ i \in Nat /\ i > 0
      BY <1>2
    <3>2. (n - from) % i \in Int
      BY <3>1
    <3> QED BY <3>1, <3>2
  <2>3. "run" \in Steps \ {"tick"}
    BY DEF Steps
  <2> HIDE DEF date
  <2>4. ThreadTyped(c)
    BY <1>k, <2>1, <2>2, <2>3, NewThreadTyped
  <2> QED BY <1>0, <2>4
<1>3. CASE thread = NoThread
  BY <1>0, <1>3 DEF SetInterval, ThreadTyped
<1> QED BY <1>1, <1>2, <1>3

LEMMA CallTyped ==
  ASSUME TypeOK, NEW n \in Int, Call(n)
  PROVE  TypeOK'
<1>1. /\ Typed(tk) /\ InTick(tk, cur) /\ \A k \in Tickers : Unused(k) => k # cur
      /\ thread \in Tickers \cup {NoThread} /\ interval \in Intervals
  BY DEF TypeOK, Typed, InTick, Unused, Dead, Steps
<1>0. failed' \in BOOLEAN
  BY DEF Call, TypeOK
<1>2. ThreadTyped(cur) /\ interval' \in Intervals /\ last' \in Int /\ doubled' \in BOOLEAN
  <2>1. CASE Start
    <3>1. PICK f \in {"run", "delay"} : NewThread(tk, f, 0)
      BY <2>1 DEF Start
    <3>2. f \in Steps \ {"tick"} /\ 0 \in Int
      BY DEF Steps
    <3>3. ThreadTyped(cur)
      BY <1>1, <3>1, <3>2, NewThreadTyped
    <3> QED BY <1>1, <2>1, <3>3 DEF Start, None, TypeOK
  <2>2. CASE Stop /\ UNCHANGED doubled
    BY <1>1, <2>2, KilledTyped DEF Stop, ThreadTyped, None, TypeOK
  <2>3. CASE UNCHANGED doubled /\ \E i \in Intervals : SetInterval(tk, n, i)
    BY <1>1, <2>3, SetIntervalTyped DEF TypeOK
  <2>4. CASE UNCHANGED doubled /\ \E i \in Intervals : SetAndStart(i)
    <3>1. NewThread(tk, "run", 0)
      BY <2>4 DEF SetAndStart
    <3>2. "run" \in Steps \ {"tick"} /\ 0 \in Int
      BY DEF Steps
    <3>3. ThreadTyped(cur)
      BY <1>1, <3>1, <3>2, NewThreadTyped
    <3> QED BY <2>4, <3>3 DEF SetAndStart, None, TypeOK
  <2> QED BY <2>1, <2>2, <2>3, <2>4 DEF Call
<1> QED BY <1>0, <1>2 DEF Call, TypeOK, ThreadTyped, Typed, InTick, Steps

LEMMA WaitTyped ==
  ASSUME TypeOK, NEW k \in Tickers, NEW f \in Steps \ {"tick"}, NEW n \in Int,
         cur \in {k, NoThread}, Wait(k, f, n)
  PROVE  Typed(tk') /\ InTick(tk', NoThread) /\ joined' \in Tickers \cup {NoThread}
<1>1. Typed(tk) /\ InTick(tk, cur) /\ interval \in Int
  BY DEF TypeOK, Typed, InTick, Steps
<1>2. CASE tk' = Ended(tk, k) /\ Release(k)
  BY <1>1, <1>2, EndedTyped DEF Release, TypeOK
<1>3. CASE Queue(k, f, IF interval = 0 THEN 0 ELSE n + interval)
  <2>1. (IF interval = 0 THEN 0 ELSE n + interval) \in Int /\ f \in Steps /\ f # "tick"
    BY <1>1
  <2>2. Typed(tk') /\ InTick(tk', NoThread)
    BY <1>1, <1>3, <2>1, QueueTyped
  <2> QED BY <1>3, <2>2 DEF Queue, TypeOK
<1> QED BY <1>2, <1>3 DEF Wait

LEMMA ResumedNow ==
  ASSUME TypeOK, NEW k \in Tickers, Resumed(k)
  PROVE  now' \in Nat /\ UNCHANGED <<thread, interval, clock, doubled, failed>> /\ cur = NoThread
  BY DEF Resumed, TypeOK

-----------------------------------------------------------------------------
(* Types *)

LEMMA StepTyped == TypeOK /\ [Next]_vars => TypeOK'
<1> SUFFICES ASSUME TypeOK, [Next]_vars PROVE TypeOK'
  OBVIOUS
<1>t. Typed(tk) /\ InTick(tk, cur) /\ (cur # NoThread => cur \in Tickers)
  BY DEF TypeOK, Typed, InTick, Steps
<1>n. "run" \in Steps \ {"tick"} /\ "loop" \in Steps \ {"tick"}
  BY DEF Steps
<1>1. CASE UserCall
  <2>1. PICK n \in 1 .. clock : Call(n)
    BY <1>1 DEF UserCall
  <2>2. n \in Int
    BY DEF TypeOK
  <2> QED BY <2>1, <2>2, CallTyped
<1>2. CASE Join
  BY <1>2 DEF Join, TypeOK
<1>3. CASE Time
  BY <1>3 DEF Time, TypeOK
<1>4. ASSUME NEW k \in Tickers, Bury(k) PROVE TypeOK'
  <2>1. Typed(Ended(tk, k)) /\ InTick(Ended(tk, k), NoThread)
    BY <1>t, <1>4, EndedTyped DEF Bury
  <2> QED BY <1>4, <2>1 DEF Bury, Release, TypeOK, Typed, InTick, Steps
<1>5. ASSUME NEW k \in Tickers, Delay(k) PROVE TypeOK'
  <2>1. now' \in Nat /\ UNCHANGED <<thread, interval, clock, doubled, failed, cur, last>> /\ cur = NoThread
    BY <1>5, ResumedNow DEF Delay
  <2>2. Wait(k, "run", now') /\ now' \in Int
    BY <1>5, <2>1 DEF Delay
  <2>3. Typed(tk') /\ InTick(tk', NoThread) /\ joined' \in Tickers \cup {NoThread}
    BY <1>n, <2>1, <2>2, WaitTyped
  <2> QED BY <2>1, <2>3 DEF TypeOK, Typed, InTick, Steps
<1>6. ASSUME NEW k \in Tickers, Tick(k) \/ TickAwakes(k) PROVE TypeOK'
  <2>1. /\ now' \in Nat /\ UNCHANGED <<thread, interval, clock, doubled, failed>> /\ cur = NoThread
        /\ Queue(k, "tick", None) /\ cur' = k /\ last' \in Int
    BY <1>6, ResumedNow DEF Tick, TickAwakes, None
  <2>2. Typed(tk') /\ InTick(tk', k)
    BY <1>t, <2>1, QueueTyped DEF None, Steps
  <2> QED BY <2>1, <2>2 DEF Queue, TypeOK, Typed, InTick, Steps
<1>7. ASSUME NEW k \in Tickers, RunEnds(k) PROVE TypeOK'
  <2>1. now' \in Nat /\ UNCHANGED <<thread, interval, clock, doubled, failed>> /\ cur = NoThread
    BY <1>7, ResumedNow DEF RunEnds
  <2>2. Typed(Ended(tk, k)) /\ InTick(Ended(tk, k), NoThread)
    BY <1>t, <2>1, EndedTyped
  <2> QED BY <1>7, <2>1, <2>2 DEF RunEnds, Release, TypeOK, Typed, InTick, Steps
<1>8. CASE TickSleeps
  <2>1. cur \in Tickers /\ Queue(cur, "sleep", clock + 1) /\ cur' = NoThread /\ clock \in Int
    BY <1>t, <1>8 DEF TickSleeps, TypeOK
  <2>2. Typed(tk') /\ InTick(tk', NoThread)
    BY <1>t, <2>1, QueueTyped DEF Steps
  <2> QED BY <1>8, <2>1, <2>2 DEF TickSleeps, Queue, TypeOK, Typed, InTick, Steps
<1>9. CASE TickCalls
  <2>1. now \in Int /\ Call(now)
    BY <1>9 DEF TickCalls, TypeOK
  <2> QED BY <2>1, CallTyped
<1>10. CASE TickReturns
  <2>1. cur \in Tickers /\ Wait(cur, "loop", now) /\ cur' = NoThread /\ now \in Int
    BY <1>t, <1>10 DEF TickReturns, TypeOK
  <2>2. Typed(tk') /\ InTick(tk', NoThread) /\ joined' \in Tickers \cup {NoThread}
    BY <1>n, <2>1, WaitTyped
  <2> QED BY <1>10, <2>1, <2>2 DEF TickReturns, TypeOK, Typed, InTick, Steps
<1>11. CASE TickReturnsInterval
  <2>1. PICK i \in Intervals : SetInterval(Ended(tk, cur), now, i)
    BY <1>11 DEF TickReturnsInterval
  <2>2. cur \in Tickers /\ now \in Int
    BY <1>t, <1>11 DEF TickReturnsInterval, TypeOK
  <2>3. Typed(Ended(tk, cur)) /\ InTick(Ended(tk, cur), NoThread)
    BY <1>t, <2>2, EndedTyped
  <2>4. ThreadTyped(NoThread) /\ interval' \in Intervals /\ last' \in Int
    BY <2>1, <2>2, <2>3, SetIntervalTyped DEF TypeOK
  <2> QED
    BY <1>11, <2>4 DEF TickReturnsInterval, Release, ThreadTyped, TypeOK, Typed, InTick, Steps
<1>12. CASE TickRaises
  <2>1. cur \in Tickers
    BY <1>t, <1>12 DEF TickRaises
  <2>2. Typed(Ended(tk, cur)) /\ InTick(Ended(tk, cur), NoThread)
    BY <1>t, <2>1, EndedTyped
  <2> QED BY <1>12, <2>2 DEF TickRaises, Release, TypeOK, Typed, InTick, Steps
<1>13. CASE UNCHANGED vars
  BY <1>13 DEF vars, TypeOK
<1> QED
  BY <1>1, <1>2, <1>3, <1>4, <1>5, <1>6, <1>7, <1>8, <1>9, <1>10, <1>11, <1>12, <1>13
     DEF Next

\* The state of a timer keeps its types, and only the thread that runs is in its
\* tick, for any tickers and intervals.
THEOREM TypeCorrect == Spec => []TypeOK
<1>1. Init => TypeOK
  <2> SUFFICES ASSUME Init PROVE TypeOK
    OBVIOUS
  <2>1. tk \in [Tickers -> [step : Steps, co : BOOLEAN, at : Int]]
    BY DEF Init, Dead, None, Steps
  <2>2. \A k \in Tickers : tk[k].step = "dead" /\ k # cur
    BY DEF Init, Dead
  <2>3. thread = NoThread /\ cur = NoThread /\ joined = NoThread
    BY DEF Init
  <2>4. interval \in Intervals /\ now = 1 /\ clock = 1 /\ last = None
    BY DEF Init
  <2>5. doubled \in BOOLEAN /\ failed \in BOOLEAN
    BY DEF Init
  <2> QED BY <2>1, <2>2, <2>3, <2>4, <2>5 DEF TypeOK, Steps, None
<1> QED BY <1>1, StepTyped, PTL DEF Spec

-----------------------------------------------------------------------------
(* One thread ticks *)

LEMMA NewThreadAlone ==
  ASSUME NEW tks, NEW f, NEW date, Typed(tks),
         \A k \in Tickers : ~tks[k].co, NewThread(tks, f, date)
  PROVE  OnlyAlive(tk', thread')
  BY DEF NewThread, OnlyAlive, Typed

LEMMA KilledAlone ==
  ASSUME NEW tks, Typed(tks), OnlyAlive(tks, thread)
  PROVE  \A k \in Tickers : ~Killed(tks)[k].co
  BY DEF Killed, OnlyAlive, Typed

LEMMA SetIntervalAlone ==
  ASSUME NEW tks, NEW n, NEW i, Typed(tks), InTick(tks, NoThread) \/ InTick(tks, cur),
         thread \in Tickers \cup {NoThread}, OnlyAlive(tks, thread), SetInterval(tks, n, i)
  PROVE  OnlyAlive(tk', thread')
<1>1. CASE thread # NoThread /\ i = 0
  BY <1>1, KilledAlone DEF SetInterval, OnlyAlive
<1>2. CASE thread # NoThread /\ i > 0
  <2>1. Typed(Killed(tks)) /\ \A k \in Tickers : ~Killed(tks)[k].co
    BY KilledAlone, KilledTyped
  <2>2. PICK date : NewThread(Killed(tks), "run", date)
    BY <1>2 DEF SetInterval
  <2> QED BY <2>1, <2>2, NewThreadAlone
<1>3. CASE thread = NoThread
  BY <1>3 DEF SetInterval, OnlyAlive
<1> QED BY <1>1, <1>2, <1>3 DEF SetInterval

LEMMA WaitRevivesNobody ==
  ASSUME NEW k \in Tickers, NEW f, NEW n, Typed(tk), Wait(k, f, n)
  PROVE  \A j \in Tickers : tk'[j].co => tk[j].co
  BY DEF Wait, Queue, Ended, Dead, Typed

LEMMA CallAlone ==
  ASSUME TypeOK, OneTicker, NEW n, Call(n)
  PROVE  OneTicker'
<1>1. Typed(tk) /\ InTick(tk, cur) /\ thread \in Tickers \cup {NoThread}
  BY DEF TypeOK, Typed, InTick, Steps
<1> SUFFICES ASSUME ~doubled' PROVE OnlyAlive(tk', thread')
  BY DEF OneTicker, OnlyAlive, Alive
<1>2. ~doubled /\ OnlyAlive(tk, thread)
  <2>1. CASE Start
    BY <2>1 DEF Start, OneTicker, OnlyAlive, Alive
  <2>2. CASE UNCHANGED doubled
    BY <2>2 DEF OneTicker, OnlyAlive, Alive
  <2> QED BY <2>1, <2>2 DEF Call
<1>3. ASSUME NEW f, NewThread(tk, f, 0), thread = NoThread \/ ~Alive(thread)
      PROVE  OnlyAlive(tk', thread')
  <2>1. \A k \in Tickers : ~tk[k].co
    BY <1>2, <1>3 DEF OnlyAlive, Alive
  <2> QED BY <1>1, <1>3, <2>1, NewThreadAlone
<1>4. CASE Start
  BY <1>3, <1>4 DEF Start
<1>5. CASE Stop
  BY <1>1, <1>2, <1>5, KilledAlone DEF Stop, OnlyAlive
<1>6. CASE \E i \in Intervals : SetInterval(tk, n, i)
  BY <1>1, <1>2, <1>6, SetIntervalAlone
<1>7. CASE \E i \in Intervals : SetAndStart(i)
  BY <1>3, <1>7 DEF SetAndStart
<1> QED BY <1>4, <1>5, <1>6, <1>7 DEF Call

LEMMA StepAlone == TypeOK /\ OneTicker /\ [Next]_vars => OneTicker'
<1> SUFFICES ASSUME TypeOK, OneTicker, [Next]_vars PROVE OneTicker'
  OBVIOUS
<1>t. Typed(tk) /\ InTick(tk, cur) /\ (cur # NoThread => cur \in Tickers)
  BY DEF TypeOK, Typed, InTick, Steps
<1>q. ASSUME UNCHANGED <<thread, doubled>>, \A j \in Tickers : tk'[j].co => tk[j].co
      PROVE  OneTicker'
  BY <1>q DEF OneTicker, Alive
<1>1. CASE UserCall \/ TickCalls
  BY <1>1, CallAlone DEF UserCall, TickCalls
<1>2. CASE Join \/ Time \/ UNCHANGED vars
  BY <1>2, <1>q DEF Join, Time, vars
<1>3. ASSUME NEW k \in Tickers, Bury(k) PROVE OneTicker'
  BY <1>t, <1>3, <1>q DEF Bury, Ended, Dead, Typed
<1>4. ASSUME NEW k \in Tickers, Delay(k) PROVE OneTicker'
  BY <1>t, <1>4, <1>q, WaitRevivesNobody DEF Delay, Resumed
<1>5. ASSUME NEW k \in Tickers, Tick(k) \/ TickAwakes(k) PROVE OneTicker'
  BY <1>t, <1>5, <1>q DEF Tick, TickAwakes, Resumed, Queue, Typed
<1>6. ASSUME NEW k \in Tickers, RunEnds(k) PROVE OneTicker'
  BY <1>t, <1>6, <1>q DEF RunEnds, Resumed, Ended, Dead, Typed
<1>7. CASE TickSleeps
  BY <1>t, <1>7, <1>q DEF TickSleeps, Queue, Typed
<1>8. CASE TickReturns
  BY <1>t, <1>8, <1>q, WaitRevivesNobody DEF TickReturns
<1>9. CASE TickReturnsInterval
  <2> SUFFICES ASSUME ~doubled' PROVE OnlyAlive(tk', thread')
    BY DEF OneTicker, OnlyAlive, Alive
  <2>1. cur \in Tickers /\ ~doubled /\ OnlyAlive(tk, thread) /\ thread \in Tickers \cup {NoThread}
    BY <1>t, <1>9 DEF TickReturnsInterval, OneTicker, OnlyAlive, Alive, TypeOK
  <2>2. Typed(Ended(tk, cur)) /\ InTick(Ended(tk, cur), NoThread)
    BY <1>t, <2>1, EndedTyped
  <2>3. OnlyAlive(Ended(tk, cur), thread)
    BY <1>t, <2>1 DEF OnlyAlive, Ended, Dead, Typed
  <2>4. PICK i \in Intervals : SetInterval(Ended(tk, cur), now, i)
    BY <1>9 DEF TickReturnsInterval
  <2> QED BY <2>1, <2>2, <2>3, <2>4, SetIntervalAlone
<1>10. CASE TickRaises
  BY <1>t, <1>10, <1>q DEF TickRaises, Ended, Dead, Typed
<1> QED BY <1>1, <1>2, <1>3, <1>4, <1>5, <1>6, <1>7, <1>8, <1>9, <1>10 DEF Next

\* However start, stop and setInterval are called, in and outside of the tick,
\* only the thread that the timer holds is alive, for any number of threads.
THEOREM OneThreadTicks == Spec => []OneTicker
<1>1. Init => OneTicker
  BY DEF Init, OneTicker, Alive, Dead
<1> QED BY <1>1, StepAlone, TypeCorrect, PTL DEF Spec

-----------------------------------------------------------------------------
(* It goes on ticking *)

LEMMA NewThreadTicks ==
  ASSUME NEW tks, NEW f, NEW date, Typed(tks), NewThread(tks, f, date)
  PROVE  tk'[thread'].co
  BY DEF NewThread, Typed

LEMMA SetIntervalTicks ==
  ASSUME NEW tks, NEW n, NEW i \in Intervals, NEW c, Typed(tks), InTick(tks, c),
         thread \in Tickers \cup {NoThread}, SetInterval(tks, n, i)
  PROVE  thread' # NoThread /\ interval' \in 1 .. LongWait => tk'[thread'].co
<1>1. CASE thread # NoThread /\ i = 0
  BY <1>1 DEF SetInterval
<1>2. CASE thread # NoThread /\ i > 0
  <2>1. PICK date : NewThread(Killed(tks), "run", date)
    BY <1>2 DEF SetInterval
  <2> QED BY <2>1, KilledTyped, NewThreadTicks
<1>3. CASE thread = NoThread
  BY <1>3 DEF SetInterval
<1> QED BY <1>1, <1>2, <1>3 DEF SetInterval

LEMMA CallTicks ==
  ASSUME TypeOK, KeepsTicking, NEW n, Call(n)
  PROVE  KeepsTicking'
<1>1. Typed(tk) /\ InTick(tk, cur) /\ thread \in Tickers \cup {NoThread}
  BY DEF TypeOK, Typed, InTick, Steps
<1>2. CASE Start
  BY <1>1, <1>2, NewThreadTicks DEF Start, KeepsTicking, Alive
<1>3. CASE Stop
  BY <1>3 DEF Stop, KeepsTicking
<1>4. CASE \E i \in Intervals : SetInterval(tk, n, i)
  BY <1>1, <1>4, SetIntervalTicks DEF KeepsTicking, Alive
<1>5. CASE \E i \in Intervals : SetAndStart(i)
  BY <1>1, <1>5, NewThreadTicks DEF SetAndStart, KeepsTicking, Alive
<1> QED BY <1>2, <1>3, <1>4, <1>5 DEF Call

\* A wait ends a thread only if the interval is too long.
LEMMA WaitTicks ==
  ASSUME TypeOK, KeepsTicking, NEW k \in Tickers, NEW f, NEW n, Wait(k, f, n),
         UNCHANGED <<thread, interval, failed>>
  PROVE  KeepsTicking'
<1>1. Typed(tk) /\ interval \in Int /\ thread \in Tickers \cup {NoThread}
  BY DEF TypeOK, Typed, Steps
<1>2. CASE interval > LongWait
  BY <1>1, <1>2 DEF KeepsTicking
<1>3. CASE Queue(k, f, IF interval = 0 THEN 0 ELSE n + interval)
  <2>1. \A j \in Tickers : tk'[j].co = tk[j].co
    BY <1>1, <1>3 DEF Queue, Typed
  <2> QED BY <1>1, <2>1 DEF KeepsTicking, Alive
<1> QED BY <1>2, <1>3 DEF Wait

LEMMA StepTicks == TypeOK /\ KeepsTicking /\ [Next]_vars => KeepsTicking'
<1> SUFFICES ASSUME TypeOK, KeepsTicking, [Next]_vars PROVE KeepsTicking'
  OBVIOUS
<1>t. /\ Typed(tk) /\ InTick(tk, cur) /\ (cur # NoThread => cur \in Tickers)
      /\ thread \in Tickers \cup {NoThread} /\ interval \in Int
  BY DEF TypeOK, Typed, InTick, Steps
<1>q. ASSUME UNCHANGED <<thread, interval>>, failed => failed',
             thread \in Tickers /\ interval \in 1 .. LongWait /\ tk[thread].co
               => tk'[thread].co \/ failed'
      PROVE  KeepsTicking'
  BY <1>t, <1>q DEF KeepsTicking, Alive
<1>1. CASE UserCall \/ TickCalls
  BY <1>1, CallTicks DEF UserCall, TickCalls
<1>2. CASE Join \/ Time \/ UNCHANGED vars
  BY <1>2, <1>q DEF Join, Time, vars
<1>3. ASSUME NEW k \in Tickers, Bury(k) PROVE KeepsTicking'
  BY <1>t, <1>3, <1>q DEF Bury, Alive, Ended, Typed
<1>4. ASSUME NEW k \in Tickers, Delay(k) PROVE KeepsTicking'
  BY <1>4, WaitTicks DEF Delay, Resumed
<1>5. ASSUME NEW k \in Tickers, Tick(k) \/ TickAwakes(k) PROVE KeepsTicking'
  BY <1>t, <1>5, <1>q DEF Tick, TickAwakes, Resumed, Queue, Typed
<1>6. ASSUME NEW k \in Tickers, RunEnds(k) PROVE KeepsTicking'
  <2>1. UNCHANGED <<thread, interval, failed>> /\ tk' = Ended(tk, k) /\ (thread = NoThread \/ interval = 0)
    BY <1>6 DEF RunEnds, Resumed
  <2> QED BY <1>t, <2>1, <1>q
<1>7. CASE TickSleeps
  BY <1>t, <1>7, <1>q DEF TickSleeps, Queue, Typed
<1>8. CASE TickReturns
  BY <1>t, <1>8, WaitTicks DEF TickReturns
<1>9. CASE TickReturnsInterval
  <2>1. cur \in Tickers /\ \E i \in Intervals : SetInterval(Ended(tk, cur), now, i)
    BY <1>t, <1>9 DEF TickReturnsInterval
  <2>2. Typed(Ended(tk, cur)) /\ InTick(Ended(tk, cur), NoThread)
    BY <1>t, <2>1, EndedTyped
  <2> QED BY <1>t, <2>1, <2>2, SetIntervalTicks DEF KeepsTicking, Alive
<1>10. CASE TickRaises
  BY <1>t, <1>10, <1>q DEF TickRaises, Ended, Typed
<1> QED BY <1>1, <1>2, <1>3, <1>4, <1>5, <1>6, <1>7, <1>8, <1>9, <1>10 DEF Next

\* A timer with a thread and an interval that can be waited for goes on: nothing
\* that is called or returned ends or kills that thread; only an error of its tick
\* does (Scheduler.lua 354-373), which the timer does not notice.
THEOREM GoesOn == Spec => []KeepsTicking
<1>1. Init => KeepsTicking
  BY DEF Init, KeepsTicking
<1> QED BY <1>1, StepTicks, TypeCorrect, PTL DEF Spec

-----------------------------------------------------------------------------
(* The dates of its ticks *)

Dated == Positive /\ Spaced

\* A new thread is not in its loop.
LEMMA NewThreadOutside ==
  ASSUME NEW tks, NEW f \in {"run", "delay"}, NEW date, Typed(tks),
         \A k \in Tickers : ~tks[k].co, NewThread(tks, f, date)
  PROVE  \A k \in Tickers : tk'[k].co => tk'[k].step \in {"run", "delay"}
  BY DEF NewThread, Typed

\* An interval is changed when no thread is left in the loop.
LEMMA SetIntervalOutside ==
  ASSUME NEW tks, NEW n, NEW i, NEW c, Typed(tks), InTick(tks, c),
         thread \in Tickers \cup {NoThread}, OnlyAlive(tks, thread), SetInterval(tks, n, i)
  PROVE  \A k \in Tickers : tk'[k].co => tk'[k].step \in {"run", "delay"}
<1>1. CASE thread # NoThread /\ i = 0
  BY <1>1, KilledAlone DEF SetInterval
<1>2. CASE thread # NoThread /\ i > 0
  <2>1. Typed(Killed(tks)) /\ \A k \in Tickers : ~Killed(tks)[k].co
    BY KilledAlone, KilledTyped
  <2>2. PICK date : NewThread(Killed(tks), "run", date)
    BY <1>2 DEF SetInterval
  <2> QED BY <2>1, <2>2, NewThreadOutside
<1>3. CASE thread = NoThread
  BY <1>3 DEF SetInterval, OnlyAlive
<1> QED BY <1>1, <1>2, <1>3 DEF SetInterval

\* Every call forgets the date of the last tick.
LEMMA CallDated ==
  ASSUME TypeOK, OneTicker, Dated, NEW n, Call(n)
  PROVE  Dated'
<1>1. /\ Typed(tk) /\ InTick(tk, cur)
      /\ thread \in Tickers \cup {NoThread} /\ NoThread \notin Tickers
  BY DEF TypeOK, Typed, InTick, Steps
<1>2. last' = None
  BY DEF Call, Start, Stop, SetInterval, SetAndStart
<1>3. Spaced'
  BY <1>2 DEF Spaced
<1>4. Positive'
  <2> SUFFICES ASSUME ~doubled'
               PROVE  \A k \in Tickers : tk'[k].co => tk'[k].step \in {"run", "delay"}
    BY DEF Positive, Alive
  <2>1. ~doubled /\ OnlyAlive(tk, thread)
    <3>1. ~doubled
      <4>1. CASE Start
        BY <4>1 DEF Start
      <4>2. CASE UNCHANGED doubled
        BY <4>2
      <4> QED BY <4>1, <4>2 DEF Call
    <3> QED BY <3>1 DEF OneTicker, OnlyAlive, Alive
  <2>2. thread = NoThread \/ ~Alive(thread) => \A k \in Tickers : ~tk[k].co
    BY <1>1, <2>1 DEF OnlyAlive, Alive
  <2>3. CASE Start
    BY <1>1, <2>2, <2>3, NewThreadOutside DEF Start
  <2>4. CASE Stop
    BY <1>1, <2>1, <2>4, KilledAlone DEF Stop
  <2>5. CASE \E i \in Intervals : SetInterval(tk, n, i)
    BY <1>1, <2>1, <2>5, SetIntervalOutside
  <2>6. CASE \E i \in Intervals : SetAndStart(i)
    BY <1>1, <2>2, <2>6, NewThreadOutside DEF SetAndStart
  <2> QED BY <2>3, <2>4, <2>5, <2>6 DEF Call
<1> QED BY <1>3, <1>4 DEF Dated

\* The date of a ticker that is resumed in its loop is the one it waited for.
LEMMA LoopDate ==
  ASSUME TypeOK, Dated, NEW k \in Tickers, Resumed(k), ~doubled, last # None
  PROVE  tk[k].step = "sleep" \/ (tk[k].step = "loop" /\ now' = last + interval)
<1>1. last \in Nat /\ interval \in Nat /\ interval > 0
  BY DEF Dated, Spaced, TypeOK
<1>2. tk[k].step \in {"loop", "sleep"} /\ (tk[k].step = "loop" => tk[k].at = last + interval)
  <2>1. tk[k].step \in Steps \ {"dead", "tick", "run", "delay"}
    BY DEF Resumed, Queued, Dated, Spaced, TypeOK, Steps
  <2>2. tk[k].step = "loop" => tk[k].at = last + interval
    BY DEF Resumed, Dated, Spaced
  <2> QED BY <2>1, <2>2 DEF Steps
<1> QED BY <1>1, <1>2 DEF Resumed

LEMMA StepDated == TypeOK /\ OneTicker /\ Dated /\ [Next]_vars => Dated'
<1> SUFFICES ASSUME TypeOK, OneTicker, Dated, [Next]_vars PROVE Dated'
  OBVIOUS
<1>t. /\ Typed(tk) /\ InTick(tk, cur) /\ (cur # NoThread => cur \in Tickers)
      /\ thread \in Tickers \cup {NoThread} /\ interval \in Nat
      /\ now \in Nat
  BY DEF TypeOK, Typed, InTick, Steps
\* Nothing changes for the threads that stay alive.
<1>q. ASSUME UNCHANGED <<interval, doubled, last>>, cur = NoThread \/ UNCHANGED now,
             \A j \in Tickers : tk'[j].co => tk'[j] = tk[j]
      PROVE  Dated'
  BY <1>t, <1>q DEF Dated, Positive, Spaced, Alive, InTick
<1>1. CASE UserCall \/ TickCalls
  BY <1>1, CallDated DEF UserCall, TickCalls
<1>2. CASE Join \/ Time \/ UNCHANGED vars
  BY <1>2, <1>q DEF Join, Time, vars
<1>3. ASSUME NEW k \in Tickers, Bury(k) PROVE Dated'
  BY <1>t, <1>3, <1>q DEF Bury, Ended, Dead, Typed
<1>4. ASSUME NEW k \in Tickers, Delay(k) PROVE Dated'
  <2>1. UNCHANGED <<interval, doubled, last>> /\ (doubled \/ last = None)
    BY <1>4, LoopDate DEF Delay, Resumed
  <2>2. \A j \in Tickers : tk'[j].co =>
         tk[j].co /\ (tk'[j].step = tk[j].step \/ tk'[j].step = "run")
    BY <1>t, <1>4 DEF Delay, Wait, Queue, Ended, Dead, Typed
  <2> QED BY <2>1, <2>2 DEF Dated, Positive, Spaced, Alive
<1>5. ASSUME NEW k \in Tickers, Tick(k) PROVE Dated'
  <2> SUFFICES ASSUME ~doubled PROVE Dated'
    BY <1>5 DEF Tick, Resumed, Dated, Positive, Spaced
  <2>1. /\ UNCHANGED <<interval, doubled>> /\ now' \in Nat /\ last' = now'
        /\ tk[k].co
    BY <1>5, ResumedNow DEF Tick, Resumed, Alive
  <2>2. interval > 0
    BY <1>t, <1>5, <2>1 DEF Tick, Dated, Positive, Alive
  <2>3. /\ tk'[k].step = "tick"
        /\ \A j \in Tickers \ {k} : tk'[j] = tk[j]
    BY <1>t, <1>5 DEF Tick, Queue, Typed
  <2>4. \A j \in Tickers \ {k} : ~tk'[j].co
    BY <2>1, <2>3 DEF OneTicker, Alive
  <2> QED BY <2>1, <2>2, <2>3, <2>4 DEF Dated, Positive, Spaced, Alive
<1>6. ASSUME NEW k \in Tickers, TickAwakes(k) PROVE Dated'
  <2>1. UNCHANGED <<interval, doubled>> /\ last' = None /\ tk[k].co /\ tk[k].step = "sleep"
    BY <1>6 DEF TickAwakes, Resumed, Alive
  <2>2. \A j \in Tickers : tk'[j].co => tk[j].co /\ (j # k => tk'[j] = tk[j])
    BY <1>t, <1>6 DEF TickAwakes, Queue, Typed
  <2> QED BY <1>t, <2>1, <2>2 DEF Dated, Positive, Spaced, Alive
<1>7. ASSUME NEW k \in Tickers, RunEnds(k) PROVE Dated'
  BY <1>t, <1>7, <1>q DEF RunEnds, Resumed, Ended, Dead, Typed
<1>8. CASE TickSleeps
  <2>1. UNCHANGED <<interval, doubled, last, now>> /\ cur \in Tickers /\ tk[cur].step = "tick"
    BY <1>t, <1>8 DEF TickSleeps, InTick
  <2>2. /\ tk'[cur].co = tk[cur].co /\ tk'[cur].step = "sleep"
        /\ \A j \in Tickers \ {cur} : tk'[j] = tk[j]
    BY <1>t, <1>8 DEF TickSleeps, Queue, Typed
  <2> QED BY <2>1, <2>2 DEF Dated, Positive, Spaced, Alive
<1>9. CASE TickReturns
  <2>1. UNCHANGED <<interval, doubled, last, now>> /\ cur \in Tickers /\ tk[cur].step = "tick"
    BY <1>t, <1>9 DEF TickReturns, InTick
  <2>2. CASE tk' = Ended(tk, cur)
    BY <1>t, <1>q, <2>1, <2>2 DEF Ended, Dead, Typed
  <2>3. CASE Queue(cur, "loop", IF interval = 0 THEN 0 ELSE now + interval)
    <3>1. /\ tk'[cur].co = tk[cur].co /\ tk'[cur].step = "loop"
          /\ interval > 0 => tk'[cur].at = now + interval
          /\ \A j \in Tickers \ {cur} : tk'[j] = tk[j]
      BY <1>t, <2>1, <2>3 DEF Queue, Typed
    <3>2. Positive'
      BY <2>1, <3>1 DEF Dated, Positive, Alive
    <3>3. Spaced'
      BY <2>1, <3>1 DEF Dated, Spaced, Alive
    <3> QED BY <3>2, <3>3 DEF Dated
  <2> QED BY <1>9, <2>2, <2>3 DEF TickReturns, Wait
<1>10. CASE TickReturnsInterval
  <2>1. PICK i \in Intervals : SetInterval(Ended(tk, cur), now, i)
    BY <1>10 DEF TickReturnsInterval
  <2>2. last' = None /\ UNCHANGED doubled /\ cur \in Tickers
    BY <1>t, <1>10, <2>1 DEF TickReturnsInterval, SetInterval
  <2>3. Typed(Ended(tk, cur)) /\ InTick(Ended(tk, cur), NoThread)
    BY <1>t, <2>2, EndedTyped
  <2>4. ASSUME ~doubled
        PROVE  \A k \in Tickers : tk'[k].co => tk'[k].step \in {"run", "delay"}
    <3>1. OnlyAlive(Ended(tk, cur), thread)
      BY <1>t, <2>2, <2>4 DEF OneTicker, Alive, OnlyAlive, Ended, Dead, Typed
    <3> QED BY <1>t, <2>1, <2>3, <3>1, SetIntervalOutside
  <2> QED BY <2>2, <2>4 DEF Dated, Positive, Spaced, Alive
<1>11. CASE TickRaises
  BY <1>t, <1>11, <1>q DEF TickRaises, Ended, Dead, Typed
<1> QED BY <1>1, <1>2, <1>3, <1>4, <1>5, <1>6, <1>7, <1>8, <1>9, <1>10, <1>11 DEF Next

\* Two ticks that follow one another are one interval apart, however late the
\* scheduler resumes the thread, for any intervals.
THEOREM TicksOneIntervalApart == Spec => TicksSpaced
<1>1. Init => Dated
  BY DEF Init, Dated, Positive, Spaced, Alive, Dead
<1>2. TypeOK /\ Dated /\ [Next]_vars =>
        [\A k \in Tickers : Tick(k) /\ last # None /\ ~doubled => now' = last + interval]_vars
  <2> SUFFICES ASSUME TypeOK, Dated, NEW k \in Tickers, Tick(k), last # None, ~doubled
               PROVE  now' = last + interval
    OBVIOUS
  <2> QED BY LoopDate DEF Tick
<1> QED BY <1>1, <1>2, StepDated, OneThreadTicks, TypeCorrect, PTL DEF Spec, TicksSpaced
=============================================================================
