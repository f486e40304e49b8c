-------------------------------- MODULE Morph --------------------------------
(***************************************************************************)
(* How lk.Morph keeps a process of a project running (lk/lib/lk/Morph.lua) *)
(* by asking the stem cell of its machine to spawn and kill it             *)
(* (lk/lib/lk/StemCell.lua). Morph looks at what is on the network only    *)
(* through lk.ProcessWatch. The processes of a project do not depend on    *)
(* each other: the module is about one process name and its machine.       *)
(*                                                                         *)
(* The network reports appearances and disappearances in order (module     *)
(* Discovery is about how) and lets a name be registered once. A message   *)
(* gets to the stem cell or process it was connected to, if that lives.    *)
(* Left out: the end of the morph, and what it does with the files.        *)
(***************************************************************************)
EXTENDS Integers, Sequences

CONSTANTS
  MaxEvents     \* bound: crashes of processes and stem cells, and requests

ASSUME MorphAssumption == MaxEvents \in Nat

VARIABLES
  budget,       \* how many of these may still happen
  stem,         \* the stem cell that runs, None if there is none
  stems,        \* how many there have been
  pid,          \* StemCell.processes[name]
  procs,        \* the processes that have been spawned, by pid
  quits,        \* processes that have been sent quit_url
  toStem,       \* messages to the stem cell
  news,         \* what the watch has not told the morph yet
  wanted,       \* the name is in Morph.processes
  push,         \* the stem cell the proxy is connected to, None if offline
  known,        \* Morph.stem_cells has the proxy
  online,       \* the process the other proxy is connected to
  onStem,       \* process.on_stem
  astray,       \* history: the stem cell may know another pid than the network
  unseen        \* history: a process died before the morph heard of it

morphVars == <<wanted, push, known, online, onStem>>
stemVars == <<stem, stems, pid, toStem>>
vars == <<budget, stemVars, procs, quits, news, morphVars, astray, unseen>>

None == 0
Pids == DOMAIN procs
Living == {i \in Pids : procs[i] # "dead"}
Announced == {i \in Pids : procs[i] = "announced"}
Event(kind, i) == [kind |-> kind, who |-> i]

\* The process may have been left by an earlier morph.
Init ==
  /\ budget = MaxEvents
  /\ stem = None /\ stems = 0 /\ pid = None /\ toStem = <<>>
  /\ quits = {}
  /\ \/ procs = <<>> /\ news = <<>>
     \/ procs = <<"announced">> /\ news = <<Event("up", 1)>>
  /\ wanted = FALSE /\ known = FALSE /\ onStem = FALSE
  /\ push = None /\ online = None
  /\ astray = (procs # <<>>) /\ unseen = FALSE

\* Crashes and requests.
Spend == budget > 0 /\ budget' = budget - 1

-----------------------------------------------------------------------------
(* Processes and stem cells *)

\* A process dies; the network tells of it if it had been announced.
Dies(i) ==
  /\ procs' = [procs EXCEPT ![i] = "dead"]
  /\ news' = IF procs[i] = "announced" THEN Append(news, Event("down", i)) ELSE news
  /\ unseen' = (unseen \/ procs[i] = "starting")

\* registration_callback: the second of a name quits.
Register(i) ==
  /\ procs[i] = "starting"
  /\ IF Announced = {}
     THEN /\ procs' = [procs EXCEPT ![i] = "announced"]
          /\ news' = Append(news, Event("up", i))
     ELSE /\ procs' = [procs EXCEPT ![i] = "dead"]
          /\ UNCHANGED news
  /\ UNCHANGED <<budget, stemVars, quits, morphVars, astray, unseen>>

\* quit_url arrives: sched:quit.
Quit(i) ==
  /\ i \in quits
  /\ quits' = quits \ {i}
  /\ IF i \in Living THEN Dies(i) ELSE UNCHANGED <<procs, news, unseen>>
  /\ UNCHANGED <<budget, stemVars, morphVars, astray>>

Crash(i) ==
  /\ Spend /\ i \in Living
  /\ Dies(i)
  /\ UNCHANGED <<stemVars, quits, morphVars, astray>>

\* A new stem cell knows no process.
StemStart ==
  /\ stem = None
  /\ stems' = stems + 1
  /\ stem' = stems'
  /\ pid' = None
  /\ toStem' = <<>>
  /\ news' = Append(news, Event("stem", stem'))
  /\ astray' = (astray \/ Living # {})
  /\ UNCHANGED <<budget, procs, quits, morphVars, unseen>>

\* Its processes go on.
StemCrash ==
  /\ Spend /\ stem # None
  /\ stem' = None
  /\ toStem' = <<>>
  /\ news' = Append(news, Event("stemDown", stem))
  /\ UNCHANGED <<stems, pid, procs, quits, morphVars, astray, unseen>>

\* mutant: a name that was spawned before keeps its pid
NewPidKeepsOld(i) == IF pid = None THEN i ELSE pid

\* actions.spawn stores the pid.
NewPid(i) == i

Spawn ==
  /\ stem # None /\ toStem # <<>> /\ Head(toStem) = "spawn"
  /\ toStem' = Tail(toStem)
  /\ procs' = Append(procs, "starting")
  /\ pid' = NewPid(Len(procs'))
  /\ astray' = (Living # {} \/ (astray /\ Announced # {}))
  /\ UNCHANGED <<budget, stem, stems, quits, news, morphVars, unseen>>

Kill ==
  /\ stem # None /\ toStem # <<>> /\ Head(toStem) = "kill"
  /\ toStem' = Tail(toStem)
  /\ IF pid \in Living THEN Dies(pid) ELSE UNCHANGED <<procs, news, unseen>>
  /\ UNCHANGED <<budget, stem, stems, pid, quits, morphVars, astray>>

-----------------------------------------------------------------------------
(* The morph *)

\* push:send to the stem cell, lost if that is another one than it knew.
ToStem(m) == toStem' = IF push = stem THEN Append(toStem, m) ELSE toStem

\* process:start; without a stem cell it is for later.
Start == IF known /\ push # None THEN ToStem("spawn") ELSE UNCHANGED toStem

Hear(kind) ==
  /\ news # <<>> /\ Head(news).kind = kind
  /\ news' = Tail(news)

Who == Head(news).who

\* mutant: only who waits for a restart is started
PendingRestart == onStem

\* Processes that are started when their stem cell appears.
Pending == wanted /\ online = None

\* processConnected, of a stem cell: on_stem means the same as a start here.
StemConnected ==
  /\ Hear("stem")
  /\ push' = Who
  /\ known' = TRUE
  /\ IF Pending
     THEN /\ toStem' = IF Who = stem THEN Append(toStem, "spawn") ELSE toStem
          /\ onStem' = FALSE
          /\ unseen' = (unseen /\ Who # stem)
     ELSE UNCHANGED <<toStem, onStem, unseen>>
  /\ UNCHANGED <<budget, stem, stems, pid, procs, quits, wanted, online, astray>>

\* processDisconnected, of a stem cell: its proxy goes offline; it is not found
\* in stem_cells under its name with @ and stays there.
StemDisconnected ==
  /\ Hear("stemDown")
  /\ push' = None
  /\ UNCHANGED <<budget, stemVars, procs, quits, wanted, known, online, onStem, astray, unseen>>

\* mutant: a process that is not in the project is let be
UnwantedStays == {}

\* processConnected: "Invalid process. Kill."
Unwanted == IF wanted THEN {} ELSE {Who}

ProcessConnected ==
  /\ Hear("up")
  /\ online' = Who
  /\ quits' = quits \cup Unwanted
  /\ UNCHANGED <<budget, stemVars, procs, wanted, push, known, onStem, astray, unseen>>

\* mutant: the proxy does not go offline
AfterDownKept == online

\* RemoteProcess.disconnect
AfterDown == None

\* processDisconnected: the process is started again.
ProcessDisconnected ==
  /\ Hear("down")
  /\ online' = AfterDown
  /\ IF wanted THEN Start ELSE UNCHANGED toStem
  /\ unseen' = (unseen /\ ~(wanted /\ known /\ push = stem))
  /\ UNCHANGED <<budget, stem, stems, pid, procs, quits, wanted, push, known, onStem, astray>>

\* process.add starts the process, whether it is online or not.
Create ==
  /\ Spend /\ ~wanted
  /\ wanted' = TRUE
  /\ Start
  /\ unseen' = (unseen /\ ~(known /\ push = stem))
  /\ UNCHANGED <<stem, stems, pid, procs, quits, news, push, known, online, onStem, astray>>

\* removeProcess, for which a process must be online. The watch keeps its table,
\* on_stem included, for the next process of the name.
Remove ==
  /\ Spend /\ wanted /\ online # None
  /\ wanted' = FALSE
  /\ quits' = quits \cup {online}
  /\ UNCHANGED <<stemVars, procs, news, push, known, online, onStem, astray, unseen>>

\* process.restart: with a stem cell that is gone it fails.
Restart ==
  /\ Spend /\ wanted
  /\ IF online = None THEN Start /\ UNCHANGED onStem
     ELSE IF ~known THEN onStem' = TRUE /\ UNCHANGED toStem
     ELSE /\ push # None
          /\ ToStem("kill")
          /\ UNCHANGED onStem
  /\ unseen' = (unseen /\ ~(online = None /\ known /\ push = stem))
  /\ UNCHANGED <<stem, stems, pid, procs, quits, news, wanted, push, known, online, astray>>

Listen == StemConnected \/ StemDisconnected \/ ProcessConnected \/ ProcessDisconnected
Execute == Spawn \/ Kill

Next ==
  \/ \E i \in Pids : Register(i) \/ Quit(i) \/ Crash(i)
  \/ StemStart \/ StemCrash \/ Execute
  \/ Listen
  \/ Create \/ Remove \/ Restart

Spec == Init /\ [][Next]_vars

\* Whoever has a message gets to it, and processes get to their registration.
FairSpec ==
  /\ Spec
  /\ WF_vars(Listen) /\ WF_vars(Execute)
  /\ WF_vars(\E i \in Pids : Register(i)) /\ WF_vars(\E i \in Pids : Quit(i))

-----------------------------------------------------------------------------
(* Properties *)

\* Who the morph and the stem cell have heard of existed, and the morph thinks
\* a process is online only if it is, or the contrary is on its way.
TypeOK ==
  /\ budget \in 0 .. MaxEvents /\ stem \in {None, stems} /\ stems \in Nat
  /\ procs \in Seq({"starting", "announced", "dead"})
  /\ {pid, online} \subseteq Pids \cup {None} /\ quits \subseteq Pids
  /\ toStem \in Seq({"spawn", "kill"}) /\ push \in 0 .. stems
  /\ {wanted, known, onStem, astray, unseen} \subseteq BOOLEAN
  /\ \A k \in DOMAIN news : news[k].kind \in {"up", "down", "stem", "stemDown"}
  /\ online \in Announced \cup {None} \/ Event("down", online) \in {news[k] : k \in DOMAIN news}
  /\ online = None => \A i \in Announced : Event("up", i) \in {news[k] : k \in DOMAIN news}

\* "List of pids in case we must restart a process" (StemCell.lua): the pid the
\* stem cell would kill is the process the morph is connected to, unless it was
\* told to spawn a second one, or is not the stem cell that spawned it.
StemKnowsPid == stem # None /\ online \in Living /\ ~astray => pid = online

\* "Restart process" (Morph.lua, processDisconnected) and "will start as soon
\* as the stem cell appears on the network": if the project keeps a process and
\* its machine a stem cell, it is online in the end, whatever died before,
\* unless it died when nobody had heard of it.
EventuallyOnline ==
  <>[](wanted /\ stem # None) => <>[]unseen \/ <>[](online \in Announced)

\* "Invalid process. Kill.": what has been removed from the project ends, also
\* a second process that registers later.
RemovedEnds == <>[](~wanted) => <>[](Living = {})
=============================================================================
