---------------------------- MODULE SelectCallback ---------------------------
(***************************************************************************)
(* lk.SelectCallback (lk/lib/lk/SelectCallback.lua): how a C++ library     *)
(* (Avahi) has its descriptors and timeouts watched by the scheduler.  The *)
(* library tells which flags it wants; Lua keeps a thread for each flag,   *)
(* which it starts and kills as the flags change, often inside the very    *)
(* callback that one of them is running.                                   *)
(*                                                                         *)
(* The scheduler (module Scheduler) is reduced to what these threads see   *)
(* of it: entries of the poller under the lowest free handle, events that  *)
(* are collected first and served one by one, threads queued by date.      *)
(***************************************************************************)
EXTENDS Integers, FiniteSets

CONSTANT Pool     \* bound: how many threads exist at a time

ASSUME SelectAssumption == Pool \in Nat

Threads == 1 .. Pool
None == 0
Flags == {"read", "write"}
Kinds == Flags \cup {"timeout"}

VARIABLES
  asks,        \* what the sub-class of the object asks for (see Init)
  slot,        \* self.read_thread, write_thread and timeout_thread
  th,          \* each thread: what it does, its flag, thread.co, its handle
  cur,         \* the thread that runs the callback
  ready,       \* what the descriptor is ready for
  events,      \* the handles poller:events() returned, not yet served
  removed,     \* the C++ object is deleted
  crashed,     \* the loop has ended with an error
  want,        \* history: what was last set to true
  timer,       \* history: the thread of the timeout last set, None if over
  strays       \* history: timeouts the object has lost its reference to

vars == <<asks, slot, th, cur, ready, events, removed, crashed, want, timer, strays>>

Dead == [step |-> "dead", kind |-> "read", co |-> FALSE, idx |-> None]
Free(tt) == {k \in Threads : tt[k] = Dead}
Alive(k) == th[k].co
Least(S) == CHOOSE i \in S : \A j \in S : i <= j
FreeHandleFirst == 1   \* mutant: does not look whether it is in use
FreeHandle == Least((1 .. Pool) \ {th[k].idx : k \in Threads})

\* An AvahiWatch sets flags, an AvahiTimeout a timeout (mdns/src/linux/Context.cpp).
Init ==
  /\ asks \in {Flags, {"timeout"}}
  /\ slot = [f \in Kinds |-> None]
  /\ th = [k \in Threads |-> Dead]
  /\ cur = None
  /\ ready = {}
  /\ events = {}
  /\ removed = FALSE
  /\ crashed = FALSE
  /\ want = {}
  /\ timer = None
  /\ strays = {}

Idle == cur = None /\ ~crashed
Resting == Idle /\ events = {}

-----------------------------------------------------------------------------
(* update() and remove().  s has the slots and the threads they leave.       *)

\* lk.Thread(f): queued, to be run as soon as possible.
Started(s, f) ==
  LET k == Least(Free(s.th))
  IN [slot |-> [s.slot EXCEPT ![f] = k],
      th |-> [s.th EXCEPT ![k] = [step |-> "start", kind |-> f, co |-> TRUE, idx |-> None]]]

\* thread:kill() and thread = nil. One that waits in the poller is in no queue
\* then; one that is queued or running is still to be seen by the scheduler.
Stopped(s, f) ==
  LET k == s.slot[f]
  IN IF k = None THEN s
     ELSE [slot |-> [s.slot EXCEPT ![f] = None],
           th |-> [s.th EXCEPT ![k] = IF @.step = "poll" THEN Dead
                                      ELSE [@ EXCEPT !.co = FALSE, !.idx = None]]]

FollowedRestarts(s, f, on) ==   \* mutant: a thread is started for every update
  IF on THEN Started(s, f) ELSE Stopped(s, f)

Followed(s, f, on) ==
  IF ~on THEN Stopped(s, f) ELSE IF s.slot[f] = None THEN Started(s, f) ELSE s

ArmedOnce(s, on) ==   \* mutant: like the flags, only if there is no thread
  Followed(s, "timeout", on)

\* A timeout is always set anew.
Armed(s, on) == IF on THEN Started(Stopped(s, "timeout"), "timeout") ELSE Stopped(s, "timeout")

Now == [slot |-> slot, th |-> th]

Update ==
  /\ ~removed /\ ~crashed
  /\ \E on \in SUBSET asks :
       /\ Cardinality(Free(th)) >= Cardinality({f \in on : slot[f] = None \/ f = "timeout"})
       /\ LET s == Armed(Followed(Followed(Now, "read", "read" \in on), "write", "write" \in on),
                         "timeout" \in on)
          IN slot' = s.slot /\ th' = s.th
       /\ want' = on
       /\ timer' = slot'["timeout"]
  /\ UNCHANGED <<asks, cur, ready, events, removed, crashed, strays>>

\* The destructor of the C++ object: remove() and its finalize(), after which
\* mdns.Context does not hold it either.
Remove ==
  /\ ~removed /\ ~crashed
  /\ LET s == Stopped(Stopped(Stopped(Now, "read"), "write"), "timeout")
     IN slot' = s.slot /\ th' = s.th
  /\ removed' = TRUE
  /\ want' = {}
  /\ timer' = None
  /\ UNCHANGED <<asks, cur, ready, events, crashed, strays>>

-----------------------------------------------------------------------------
(* The threads, and the scheduler that resumes them                          *)

Gone(k) ==
  /\ th' = [th EXCEPT ![k] = Dead]
  /\ strays' = strays \ {k}

\* waitRead or waitWrite: into the poller, or modify() for one that is in it. A
\* thread killed in its callback comes here too: it is in the poller again.
Wait(k) ==
  th' = [th EXCEPT ![k].step = "poll", ![k].idx = IF @ = None THEN FreeHandle ELSE @]

Queued(k) == th[k].step \in {"start", "sleep"}

FirstWait(k) ==
  /\ Resting /\ Queued(k) /\ Alive(k) /\ th[k].kind \in Flags
  /\ Wait(k)
  /\ UNCHANGED <<asks, slot, cur, ready, events, removed, crashed, want, timer, strays>>

Sleep(k) ==
  /\ Resting /\ th[k].step = "start" /\ Alive(k) /\ th[k].kind = "timeout"
  /\ th' = [th EXCEPT ![k].step = "sleep"]
  /\ UNCHANGED <<asks, slot, cur, ready, events, removed, crashed, want, timer, strays>>

\* The timeout is over. The callback of a deleted object fails, which is logged.
Fire(k) ==
  /\ Resting /\ th[k].step = "sleep" /\ Alive(k)
  /\ IF removed THEN Gone(k) /\ UNCHANGED cur
     ELSE /\ cur' = k
          /\ th' = [th EXCEPT ![k].step = "call"]
          /\ UNCHANGED strays
  /\ timer' = IF timer = k THEN None ELSE timer
  /\ UNCHANGED <<asks, slot, ready, events, removed, crashed, want>>

\* runThread of one that was killed while it was queued.
Bury(k) ==
  /\ Resting /\ Queued(k) /\ ~Alive(k)
  /\ Gone(k)
  /\ UNCHANGED <<asks, slot, cur, ready, events, removed, crashed, want, timer>>

\* poller:poll() and poller:events(). The events may be served in any order.
Poll ==
  /\ Resting
  /\ events' = {th[k].idx : k \in {j \in Threads : th[j].step = "poll" /\ th[j].kind \in ready}}
  /\ events' # {}
  /\ UNCHANGED <<asks, slot, th, cur, ready, removed, crashed, want, timer, strays>>

ServedKeepsGhost(k) == th' = th /\ UNCHANGED strays   \* mutant: not taken out of the poller

\* runThread of one that was killed and came back to the poller.
Served(k) == Gone(k)

Event ==
  /\ Idle
  /\ \E h \in events :
       /\ events' = events \ {h}
       /\ \E k \in Threads :
            /\ th[k].idx = h
            /\ IF Alive(k) THEN /\ cur' = k
                                /\ th' = [th EXCEPT ![k].step = "call"]
                                /\ UNCHANGED strays
                           ELSE Served(k) /\ UNCHANGED cur
  /\ UNCHANGED <<asks, slot, ready, removed, crashed, want, timer>>

\* Nobody has the handle of the event any more: error() ends the loop.
EventUnknown ==
  /\ Idle
  /\ \E h \in events : \A k \in Threads : th[k].idx # h
  /\ crashed' = TRUE
  /\ UNCHANGED <<asks, slot, th, cur, ready, events, removed, want, timer, strays>>

\* The callback returns. A timeout forgets the thread of the object, which is
\* another one when the callback has set a new timeout, and ends.
Return ==
  /\ cur # None
  /\ cur' = None
  /\ \/ /\ th[cur].kind \in Flags
        /\ Wait(cur)
        /\ UNCHANGED <<slot, strays>>
     \/ /\ th[cur].kind = "timeout"
        /\ slot' = [slot EXCEPT !["timeout"] = None]
        /\ th' = [th EXCEPT ![cur] = Dead]
        /\ strays' = (strays \cup ({slot["timeout"]} \ {None})) \ {cur}
  /\ UNCHANGED <<asks, ready, events, removed, crashed, want, timer>>

\* The collector: an lk.Thread that is in no slot and does not run. Its finalizer
\* takes it out of the poller; the scheduler finds nothing behind its wrapper.
Gc(k) ==
  /\ ~crashed
  /\ th[k] # Dead /\ k # cur /\ \A f \in Kinds : slot[f] # k
  /\ Gone(k)
  /\ timer' = IF timer = k /\ k \in strays THEN None ELSE timer
  /\ UNCHANGED <<asks, slot, cur, ready, events, removed, crashed, want>>

\* Data arrive, are read by the library, or there is room to write. Only Poll
\* sees it: between its events it makes no difference.
Changes ==
  /\ Resting
  /\ \E f \in Flags : ready' = IF f \in ready THEN ready \ {f} ELSE ready \cup {f}
  /\ UNCHANGED <<asks, slot, th, cur, events, removed, crashed, want, timer, strays>>

Queue(k) == FirstWait(k) \/ Sleep(k) \/ Fire(k) \/ Bury(k)

Next ==
  \/ Update \/ Remove \/ Poll \/ Event \/ EventUnknown \/ Return \/ Changes
  \/ \E k \in Threads : Queue(k) \/ Gc(k)

Spec == Init /\ [][Next]_vars

\* Every pass of the loop runs what is due and then polls (PassEnds of module
\* Scheduler), however often it did something else; callbacks return.
FairSpec ==
  /\ Spec
  /\ WF_vars(Return) /\ WF_vars(Event) /\ WF_vars(EventUnknown) /\ SF_vars(Poll)
  /\ \A k \in Threads : SF_vars(Queue(k))

-----------------------------------------------------------------------------
(* Properties *)

\* Types; who is in the poller has a handle of its own.
TypeOK ==
  /\ asks \in {Flags, {"timeout"}}
  /\ slot \in [Kinds -> Threads \cup {None}]
  /\ th \in [Threads -> [step : {"dead", "start", "poll", "sleep", "call"}, kind : Kinds,
                         co : BOOLEAN, idx : 0 .. Pool]]
  /\ cur \in Threads \cup {None} /\ timer \in Threads \cup {None}
  /\ ready \subseteq Flags /\ events \subseteq 1 .. Pool /\ strays \subseteq Threads
  /\ removed \in BOOLEAN /\ crashed \in BOOLEAN /\ want \subseteq asks
  /\ \A k \in Threads : th[k].step = "poll" => th[k].idx # None
  /\ \A j, k \in Threads : j # k => th[j].idx # th[k].idx \/ th[j].idx = None

\* Whatever is updated inside callbacks, between the events of one poll or after
\* them: who can call back is the one thread that the object keeps for a flag
\* last set to true. Lost timeouts are the exception (see Return).
FlagsFollowed ==
  /\ \A k \in Threads \ strays : Alive(k) => slot[th[k].kind] = k
  /\ \A f \in Flags : IF f \in want THEN slot[f] # None /\ Alive(slot[f]) ELSE slot[f] = None

\* A thread killed in its own callback waits in the poller once more: when the
\* events are served there is at most one such entry for a flag.
OneGhost ==
  events = {} =>
    \A f \in Flags : Cardinality({k \in Threads :
                       th[k].step = "poll" /\ ~Alive(k) /\ th[k].kind = f}) <= 1

\* "lua triggers the callback() virtual when the file descriptor has appropriate
\* events or the timeout event is reached" (SelectCallback.h): while a flag stays
\* set and the descriptor ready, the callback comes again and again; the timeout
\* last set is over at some time, is set anew or removed, unless the object has
\* lost its thread. The loop may die before.
CallbackTriggered ==
  /\ \A f \in Flags :
       []<>((f \in want \cap ready /\ ~crashed) => (cur # None /\ th[cur].kind = f))
  /\ \A k \in Threads : []<>(timer = k => crashed \/ k \in strays)
=============================================================================
