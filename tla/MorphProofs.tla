----------------------------- MODULE MorphProofs -----------------------------
(***************************************************************************)
(* Theorems about Morph, for any number of crashes and requests.           *)
(*                                                                         *)
(* TypeOK says that what the morph believes is true or that the contrary   *)
(* is on its way, which depends on the order of what is on its way         *)
(* (NewsPart): the end of a process comes after its appearance, and the    *)
(* appearance of the one that lives after every end.  StemKnowsPid holds   *)
(* because a stem cell that is not astray knows of everything that lives.  *)
(*                                                                         *)
(* The last part is the safety half of EventuallyOnline and RemovedEnds:   *)
(* something is always under way for what the project keeps and does not   *)
(* keep (Coming, Leaving), so that a quiet morph has what it wants.        *)
(***************************************************************************)
EXTENDS Morph, TLAPS

USE MorphAssumption

\* The states of a process that has been spawned.
States == {"starting", "announced", "dead"}

\* The processes: at most one of them is announced.
ProcsPart ==
  /\ procs \in Seq(States)
  /\ quits \subseteq Pids /\ pid \in Pids \cup {None}
  /\ \A i, j \in Announced : i = j

\* The morph and the stem cell.
MorphPart ==
  /\ budget \in 0 .. MaxEvents
  /\ stems \in Nat /\ stem \in {None, stems} /\ push \in 0 .. stems
  /\ toStem \in Seq({"spawn", "kill"})
  /\ wanted \in BOOLEAN /\ known \in BOOLEAN /\ onStem \in BOOLEAN
  /\ astray \in BOOLEAN /\ unseen \in BOOLEAN

\* The news, and their order: an appearance is true or is followed by the end, and
\* the appearance of what lives follows every end.
NewsPart ==
  /\ news \in Seq([kind : {"up", "down", "stem", "stemDown"}, who : Nat])
  /\ \A k \in DOMAIN news :
       /\ news[k].kind \in {"up", "down"} => news[k].who \in Pids
       /\ news[k].kind = "stem" => news[k].who \in 0 .. stems
  /\ \A k \in DOMAIN news : news[k].kind = "up" =>
       \/ news[k].who \in Announced
       \/ \E m \in DOMAIN news : m > k /\ news[m] = Event("down", news[k].who)
  /\ \A k \in DOMAIN news : news[k].kind = "down" =>
       \A i \in Announced : \E m \in DOMAIN news : m > k /\ news[m] = Event("up", i)

\* What the morph believes is true or the contrary is on its way.
OnlinePart ==
  /\ online \in Pids \cup {None}
  /\ online # None /\ online \notin Announced =>
       \E k \in DOMAIN news : news[k] = Event("down", online)
  /\ online = None =>
       \A i \in Announced : \E k \in DOMAIN news : news[k] = Event("up", i)

\* A stem cell that is not astray knows of everything that lives.
StemPart == stem # None /\ ~astray => Living \subseteq {pid}

\* The conjunction is inductive; StemPart is so relative to it.
IInv == ProcsPart /\ MorphPart /\ NewsPart /\ OnlinePart

\* The inductive invariants imply the ones that TLC checks.
LEMMA IInvIsEnough == IInv => TypeOK
<1> SUFFICES ASSUME IInv PROVE TypeOK
  OBVIOUS
<1>1. procs \in Seq({"starting", "announced", "dead"})
  BY DEF IInv, ProcsPart, States
<1>2. {pid, online} \subseteq Pids \cup {None} /\ quits \subseteq Pids
  BY DEF IInv, ProcsPart, OnlinePart
<1>3. {wanted, known, onStem, astray, unseen} \subseteq BOOLEAN
  BY DEF IInv, MorphPart
<1>4. ASSUME NEW k \in DOMAIN news PROVE news[k].kind \in {"up", "down", "stem", "stemDown"}
  <2> DEFINE T == [kind : {"up", "down", "stem", "stemDown"}, who : Nat]
  <2>1. news \in Seq(T)
    BY DEF IInv, NewsPart
  <2> HIDE DEF T
  <2>2. news[k] \in T
    BY <2>1
  <2> QED BY <2>2 DEF T
<1>5. /\ online \in Announced \cup {None} \/ Event("down", online) \in {news[k] : k \in DOMAIN news}
      /\ online = None => \A i \in Announced : Event("up", i) \in {news[k] : k \in DOMAIN news}
  BY DEF IInv, OnlinePart
<1> QED BY <1>1, <1>2, <1>3, <1>4, <1>5 DEF IInv, MorphPart, TypeOK

\* What lives is the process the stem cell knows.
LEMMA StemPartIsEnough == StemPart => StemKnowsPid
  BY DEF StemPart, StemKnowsPid

-----------------------------------------------------------------------------
(* Processes *)

\* Process numbers are not the number that stands for no process.
LEMMA PidsAreNumbers ==
  ASSUME procs \in Seq(States)
  PROVE  Pids \subseteq Nat /\ None \notin Pids
  BY DEF Pids, None

\* A process dies: there is one less that lives, and the others are as before.
LEMMA DiesProcs ==
  ASSUME ProcsPart, NEW i \in Living, Dies(i)
  PROVE  /\ procs' \in Seq(States) /\ Pids' = Pids
         /\ Announced' = Announced \ {i} /\ Living' = Living \ {i}
<1>1. procs' = [procs EXCEPT ![i] = "dead"]
  BY DEF Dies
<1>2. procs' \in Seq(States) /\ DOMAIN procs' = DOMAIN procs
  <2>1. Len(procs) \in Nat /\ procs \in [1 .. Len(procs) -> States]
    BY DEF ProcsPart
  <2>2. procs' \in [1 .. Len(procs) -> States]
    BY <1>1, <2>1 DEF States
  <2> QED BY <2>1, <2>2
<1>3. i \in DOMAIN procs /\ procs'[i] = "dead"
      /\ \A j \in DOMAIN procs : j # i => procs'[j] = procs[j]
  BY <1>1 DEF Living, Pids
<1> QED BY <1>2, <1>3 DEF Announced, Living, Pids

\* One event more, at the end.
LEMMA Appended ==
  ASSUME NEW T, NEW s \in Seq(T), NEW e \in T
  PROVE  LET a == Append(s, e)
         IN  /\ a \in Seq(T) /\ Len(s) \in Nat
             /\ DOMAIN s = 1 .. Len(s) /\ DOMAIN a = 1 .. Len(s) + 1
             /\ a[Len(s) + 1] = e /\ \A k \in 1 .. Len(s) : a[k] = s[k]
  OBVIOUS

\* The first event has been heard: the others are one place further on.
LEMMA Heard ==
  ASSUME NEW T, NEW s \in Seq(T), s # <<>>
  PROVE  /\ Tail(s) \in Seq(T) /\ Len(s) \in Nat \ {0} /\ Head(s) = s[1] /\ 1 \in DOMAIN s
         /\ DOMAIN s = 1 .. Len(s) /\ DOMAIN Tail(s) = 1 .. Len(s) - 1
         /\ \A k \in 1 .. Len(s) - 1 : Tail(s)[k] = s[k + 1]
  OBVIOUS

\* A process dies, by whatever cause: if the morph had heard of it, it hears of that.
LEMMA DiesNews ==
  ASSUME IInv, NEW i \in Living, Dies(i), UNCHANGED <<stems, online>>
  PROVE  NewsPart' /\ OnlinePart' /\ unseen' \in BOOLEAN
<1>0. ProcsPart /\ MorphPart /\ NewsPart /\ OnlinePart
  BY DEF IInv
<1>1. /\ procs' \in Seq(States) /\ Pids' = Pids /\ i \in Pids
      /\ Announced' = Announced \ {i} /\ Living' = Living \ {i}
  BY <1>0, DiesProcs DEF Living
<1>3. unseen' \in BOOLEAN
  BY <1>0 DEF Dies, MorphPart
<1>4. CASE procs[i] # "announced"
  <2>1. news' = news /\ Announced' = Announced
    BY <1>1, <1>4 DEF Dies, Announced
  <2>2. NewsPart'
    BY <1>0, <1>1, <2>1 DEF NewsPart
  <2>3. OnlinePart'
    BY <1>0, <1>1, <2>1 DEF OnlinePart
  <2> QED BY <1>3, <2>2, <2>3
<1>5. CASE procs[i] = "announced"
  <2> DEFINE T == [kind : {"up", "down", "stem", "stemDown"}, who : Nat]
             n == Len(news) + 1
  <2>1. news' = Append(news, Event("down", i)) /\ Announced' = {} /\ i \in Announced
    BY <1>0, <1>1, <1>5 DEF Dies, ProcsPart, Announced, Living
  <2>2. Event("down", i) \in T /\ news \in Seq(T)
    BY <1>0, <1>1, PidsAreNumbers DEF Event, NewsPart, ProcsPart
  <2> HIDE DEF T
  <2>3. /\ news' \in Seq(T) /\ DOMAIN news = 1 .. Len(news) /\ DOMAIN news' = 1 .. n
        /\ news'[n] = Event("down", i) /\ \A k \in DOMAIN news : news'[k] = news[k]
        /\ Len(news) \in Nat
    BY <2>1, <2>2, Appended
  <2>4. DOMAIN news' = DOMAIN news \cup {n} /\ n \notin DOMAIN news
        /\ \A k \in DOMAIN news : n > k
    BY <2>3
  <2> HIDE DEF n
  <2>5. Event("down", i).kind = "down" /\ Event("down", i).who = i
    BY DEF Event
  <2>6. ASSUME NEW k \in DOMAIN news'
        PROVE  /\ news'[k].kind \in {"up", "down"} => news'[k].who \in Pids'
               /\ news'[k].kind = "stem" => news'[k].who \in 0 .. stems'
    BY <1>0, <1>1, <2>3, <2>4, <2>5 DEF NewsPart
  <2>7. ASSUME NEW k \in DOMAIN news', news'[k].kind = "up"
        PROVE  \E m \in DOMAIN news' : m > k /\ news'[m] = Event("down", news'[k].who)
    <3>1. k \in DOMAIN news /\ news'[k] = news[k]
      BY <2>3, <2>4, <2>5, <2>7
    <3>2. CASE news[k].who \in Announced
      <4>1. news[k].who = i
        BY <1>0, <2>1, <3>2 DEF ProcsPart
      <4>2. n \in DOMAIN news' /\ n > k /\ news'[n] = Event("down", news'[k].who)
        BY <2>3, <2>4, <3>1, <4>1
      <4> QED BY <4>2
    <3>3. CASE \E m \in DOMAIN news : m > k /\ news[m] = Event("down", news[k].who)
      BY <2>3, <2>4, <3>1, <3>3
    <3> QED BY <1>0, <2>7, <3>1, <3>2, <3>3 DEF NewsPart
  <2>8. NewsPart'
    BY <2>1, <2>3, <2>6, <2>7 DEF NewsPart, T
  <2>9. OnlinePart'
    <3>1. online \in Pids' \cup {None} /\ online' = online
      BY <1>0, <1>1 DEF OnlinePart
    <3>2. ASSUME online # None PROVE \E k \in DOMAIN news' : news'[k] = Event("down", online)
      <4>1. CASE online \in Announced
        BY <1>0, <2>1, <2>3, <2>4, <4>1 DEF ProcsPart
      <4>2. CASE online \notin Announced
        BY <1>0, <2>3, <2>4, <3>2, <4>2 DEF OnlinePart
      <4> QED BY <4>1, <4>2
    <3> QED BY <2>1, <3>1, <3>2 DEF OnlinePart
  <2> QED BY <1>3, <2>8, <2>9
<1> QED BY <1>4, <1>5

\* Something happens to a stem cell, of which the morph will hear.
LEMMA StemNews ==
  ASSUME IInv, NEW e, e \in [kind : {"stem", "stemDown"}, who : 0 .. stems'],
         news' = Append(news, e), stems' \in Nat, stems <= stems', UNCHANGED <<procs, online>>
  PROVE  NewsPart' /\ OnlinePart'
<1>0. ProcsPart /\ MorphPart /\ NewsPart /\ OnlinePart
  BY DEF IInv
<1> DEFINE T == [kind : {"up", "down", "stem", "stemDown"}, who : Nat]
           n == Len(news) + 1
<1>1. e \in T /\ news \in Seq(T) /\ e.kind \in {"stem", "stemDown"} /\ e.who \in 0 .. stems'
  BY <1>0 DEF NewsPart
<1> HIDE DEF T
<1>2. /\ news' \in Seq(T) /\ DOMAIN news = 1 .. Len(news) /\ DOMAIN news' = 1 .. n
      /\ news'[n] = e /\ \A k \in DOMAIN news : news'[k] = news[k]
      /\ Len(news) \in Nat
  BY <1>1, Appended
<1>3. DOMAIN news' = DOMAIN news \cup {n}
  BY <1>2
<1> HIDE DEF n
<1>4. Pids' = Pids /\ Announced' = Announced
  BY DEF Pids, Announced
<1>5. ASSUME NEW k \in DOMAIN news'
      PROVE  /\ news'[k].kind \in {"up", "down"} => news'[k].who \in Pids'
             /\ news'[k].kind = "stem" => news'[k].who \in 0 .. stems'
  <2>1. CASE k = n
    BY <1>1, <1>2, <2>1
  <2>2. CASE k \in DOMAIN news
    <3>1. news[k].kind = "stem" => news[k].who \in 0 .. stems'
      BY <1>0, <2>2 DEF NewsPart, MorphPart
    <3> QED BY <1>0, <1>2, <1>4, <2>2, <3>1 DEF NewsPart
  <2> QED BY <1>3, <2>1, <2>2
<1>6. ASSUME NEW k \in DOMAIN news', news'[k].kind = "up"
      PROVE  \/ news'[k].who \in Announced'
             \/ \E m \in DOMAIN news' : m > k /\ news'[m] = Event("down", news'[k].who)
  <2>1. k \in DOMAIN news /\ news'[k] = news[k]
    BY <1>1, <1>2, <1>3, <1>6
  <2> QED BY <1>0, <1>2, <1>3, <1>4, <1>6, <2>1 DEF NewsPart
<1>7. ASSUME NEW k \in DOMAIN news', news'[k].kind = "down", NEW i \in Announced'
      PROVE  \E m \in DOMAIN news' : m > k /\ news'[m] = Event("up", i)
  <2>1. k \in DOMAIN news /\ news'[k] = news[k]
    BY <1>1, <1>2, <1>3, <1>7
  <2> QED BY <1>0, <1>2, <1>3, <1>4, <1>7, <2>1 DEF NewsPart
<1>8. NewsPart'
  BY <1>2, <1>5, <1>6, <1>7 DEF NewsPart, T
<1>9. OnlinePart'
  BY <1>0, <1>2, <1>3, <1>4 DEF OnlinePart
<1> QED BY <1>8, <1>9

\* The morph hears the first event: the order of the others stays.
LEMMA HearNews ==
  ASSUME IInv, news # <<>>, news' = Tail(news), UNCHANGED <<procs, stems>>
  PROVE  NewsPart'
<1>0. ProcsPart /\ MorphPart /\ NewsPart /\ OnlinePart
  BY DEF IInv
<1> DEFINE T == [kind : {"up", "down", "stem", "stemDown"}, who : Nat]
<1>1. news \in Seq(T)
  BY <1>0 DEF NewsPart
<1> HIDE DEF T
<1>2. /\ news' \in Seq(T) /\ Len(news) \in Nat
      /\ DOMAIN news = 1 .. Len(news) /\ DOMAIN news' = 1 .. Len(news) - 1
      /\ \A k \in 1 .. Len(news) - 1 : news'[k] = news[k + 1]
  BY <1>1, Heard
<1>3. Pids' = Pids /\ Announced' = Announced
  BY DEF Pids, Announced
<1>4. \A k \in DOMAIN news' : k + 1 \in DOMAIN news /\ news'[k] = news[k + 1]
  BY <1>2
\* What follows an event still does.
<1>5. ASSUME NEW k \in DOMAIN news', NEW m \in DOMAIN news, m > k + 1
      PROVE  \E l \in DOMAIN news' : l > k /\ news'[l] = news[m]
  <2>1. m - 1 \in DOMAIN news' /\ m - 1 > k /\ news'[m - 1] = news[m]
    BY <1>2, <1>5
  <2> QED BY <2>1
<1>6. ASSUME NEW k \in DOMAIN news'
      PROVE  /\ news'[k].kind \in {"up", "down"} => news'[k].who \in Pids'
             /\ news'[k].kind = "stem" => news'[k].who \in 0 .. stems'
  BY <1>0, <1>3, <1>4 DEF NewsPart
<1>7. ASSUME NEW k \in DOMAIN news', news'[k].kind = "up"
      PROVE  \/ news'[k].who \in Announced'
             \/ \E m \in DOMAIN news' : m > k /\ news'[m] = Event("down", news'[k].who)
  <2>1. k + 1 \in DOMAIN news /\ news[k + 1].kind = "up" /\ news'[k] = news[k + 1]
    BY <1>4, <1>7
  <2>2. CASE news[k + 1].who \in Announced
    BY <1>3, <2>1, <2>2
  <2>3. CASE \E m \in DOMAIN news : m > k + 1 /\ news[m] = Event("down", news[k + 1].who)
    BY <1>5, <2>1, <2>3
  <2> QED BY <1>0, <2>1, <2>2, <2>3 DEF NewsPart
<1>8. ASSUME NEW k \in DOMAIN news', news'[k].kind = "down", NEW i \in Announced'
      PROVE  \E m \in DOMAIN news' : m > k /\ news'[m] = Event("up", i)
  <2>1. k + 1 \in DOMAIN news /\ news[k + 1].kind = "down"
    BY <1>4, <1>8
  <2>2. PICK m \in DOMAIN news : m > k + 1 /\ news[m] = Event("up", i)
    BY <1>0, <1>3, <2>1 DEF NewsPart
  <2> QED BY <1>5, <2>2
<1> QED BY <1>2, <1>6, <1>7, <1>8 DEF NewsPart, T

\* What is not heard now is heard later.
LEMMA StillToHear ==
  ASSUME IInv, news # <<>>, news' = Tail(news),
         NEW e, e # Head(news), NEW k \in DOMAIN news, news[k] = e
  PROVE  \E l \in DOMAIN news' : news'[l] = e
<1>1. /\ DOMAIN news = 1 .. Len(news) /\ DOMAIN news' = 1 .. Len(news) - 1 /\ Len(news) \in Nat
      /\ \A l \in 1 .. Len(news) - 1 : news'[l] = news[l + 1]
      /\ Head(news) = news[1]
  BY Heard DEF IInv, NewsPart
<1>2. k # 1
  BY <1>1
<1>3. k - 1 \in DOMAIN news' /\ news'[k - 1] = e
  BY <1>1, <1>2
<1> QED BY <1>3

\* Nothing about processes is heard: what the morph believes is as true as before.
LEMMA SameOnline ==
  ASSUME IInv, news # <<>>, news' = Tail(news), Head(news).kind \in {"stem", "stemDown"},
         UNCHANGED online, Pids' = Pids, Announced' = Announced
  PROVE  OnlinePart'
<1>1. \A i : Event("down", i) # Head(news) /\ Event("up", i) # Head(news)
  BY DEF Event
<1>2. \A i : (\E k \in DOMAIN news : news[k] = Event("down", i))
                => \E k \in DOMAIN news' : news'[k] = Event("down", i)
  BY <1>1, StillToHear
<1>3. \A i : (\E k \in DOMAIN news : news[k] = Event("up", i))
                => \E k \in DOMAIN news' : news'[k] = Event("up", i)
  BY <1>1, StillToHear
<1> QED BY <1>2, <1>3 DEF IInv, OnlinePart

-----------------------------------------------------------------------------
(* The steps *)

\* A process left by an earlier morph is announced, and its appearance is on its way.
LEMMA InitIInv == Init => IInv /\ StemPart
<1> SUFFICES ASSUME Init PROVE IInv /\ StemPart
  OBVIOUS
<1>1. MorphPart /\ stem = None
  <2>1. /\ budget = MaxEvents /\ toStem = <<>> /\ stem = None /\ stems = 0 /\ push = None
        /\ wanted = FALSE /\ known = FALSE /\ onStem = FALSE /\ unseen = FALSE
    BY DEF Init
  <2>2. astray \in BOOLEAN
    BY Zenon DEF Init
  <2>3. toStem \in Seq({"spawn", "kill"})
    BY <2>1
  <2>4. /\ budget \in 0 .. MaxEvents
        /\ stems \in Nat /\ stem \in {None, stems} /\ push \in 0 .. stems
    BY <2>1 DEF None
  <2>5. wanted \in BOOLEAN /\ known \in BOOLEAN /\ onStem \in BOOLEAN /\ unseen \in BOOLEAN
    BY <2>1
  <2> QED BY <2>1, <2>2, <2>3, <2>4, <2>5 DEF MorphPart
<1>2. CASE procs = <<>> /\ news = <<>>
  <2>1. Pids = {} /\ Announced = {} /\ DOMAIN news = {}
    BY <1>2 DEF Pids, Announced
  <2>2. news \in Seq([kind : {"up", "down", "stem", "stemDown"}, who : Nat])
    BY <1>2
  <2> QED BY <1>1, <1>2, <2>1, <2>2
          DEF Init, IInv, ProcsPart, NewsPart, OnlinePart, StemPart, None
<1>3. CASE procs = <<"announced">> /\ news = <<Event("up", 1)>>
  <2>1. Pids = {1} /\ Announced = {1} /\ DOMAIN news = {1}
    BY <1>3 DEF Pids, Announced
  <2>2. procs \in Seq(States)
    BY <1>3 DEF States
  <2>3. Event("up", 1) \in [kind : {"up", "down", "stem", "stemDown"}, who : Nat]
        /\ Event("up", 1).kind = "up" /\ Event("up", 1).who = 1
    BY DEF Event
  <2>4. news \in Seq([kind : {"up", "down", "stem", "stemDown"}, who : Nat])
    BY <1>3, <2>3
  <2>5. NewsPart
    BY <1>3, <2>1, <2>3, <2>4 DEF NewsPart
  <2>6. OnlinePart
    BY <1>3, <2>1 DEF Init, OnlinePart
  <2> QED BY <1>1, <2>1, <2>2, <2>5, <2>6 DEF Init, IInv, ProcsPart, StemPart
<1> QED BY <1>2, <1>3 DEF Init

\* registration_callback: when a process gets its name, all those that had it have
\* ended, and the news of that is on its way.
LEMMA RegisterStep ==
  ASSUME IInv, StemPart, NEW i \in Pids, Register(i)
  PROVE  IInv' /\ StemPart'
<1>0. ProcsPart /\ MorphPart /\ NewsPart /\ OnlinePart
  BY DEF IInv
<1>1. procs[i] = "starting" /\ UNCHANGED <<budget, stemVars, quits, morphVars, astray, unseen>>
  BY DEF Register
<1>2. MorphPart'
  BY <1>0, <1>1 DEF MorphPart, stemVars, morphVars
<1>3. /\ i \in DOMAIN procs /\ Len(procs) \in Nat /\ procs \in [1 .. Len(procs) -> States]
      /\ DOMAIN procs = 1 .. Len(procs)
  BY <1>0 DEF ProcsPart, Pids
<1>4. CASE Announced # {}
  <2>1. procs' = [procs EXCEPT ![i] = "dead"] /\ news' = news
    BY <1>4 DEF Register
  <2>2. procs' \in Seq(States) /\ DOMAIN procs' = DOMAIN procs
    <3>1. procs' \in [1 .. Len(procs) -> States]
      BY <1>3, <2>1 DEF States
    <3> QED BY <1>3, <3>1
  <2>3. Pids' = Pids /\ Announced' = Announced /\ Living' \subseteq Living
    BY <1>1, <1>3, <2>1, <2>2 DEF Pids, Announced, Living
  <2>4. ProcsPart' /\ NewsPart' /\ OnlinePart'
    BY <1>0, <1>1, <2>1, <2>2, <2>3
       DEF ProcsPart, NewsPart, OnlinePart, stemVars, morphVars
  <2>5. StemPart'
    BY <1>1, <2>3 DEF StemPart, stemVars
  <2> QED BY <1>2, <2>4, <2>5 DEF IInv
<1>5. CASE Announced = {}
  <2> DEFINE T == [kind : {"up", "down", "stem", "stemDown"}, who : Nat]
             n == Len(news) + 1
  <2>1. procs' = [procs EXCEPT ![i] = "announced"] /\ news' = Append(news, Event("up", i))
    BY <1>5 DEF Register
  <2>2. procs' \in Seq(States) /\ DOMAIN procs' = DOMAIN procs
    <3>1. procs' \in [1 .. Len(procs) -> States]
      BY <1>3, <2>1 DEF States
    <3> QED BY <1>3, <3>1
  <2>3. Pids' = Pids /\ Announced' = {i} /\ Living' = Living
    BY <1>1, <1>3, <1>5, <2>1, <2>2 DEF Pids, Announced, Living
  <2>4. Event("up", i) \in T /\ news \in Seq(T)
        /\ Event("up", i).kind = "up" /\ Event("up", i).who = i
    BY <1>0, PidsAreNumbers DEF Event, NewsPart, ProcsPart
  <2> HIDE DEF T
  <2>5. /\ news' \in Seq(T) /\ DOMAIN news = 1 .. Len(news) /\ DOMAIN news' = 1 .. n
        /\ news'[n] = Event("up", i) /\ \A k \in DOMAIN news : news'[k] = news[k]
        /\ Len(news) \in Nat
    BY <2>1, <2>4, Appended
  <2>6. DOMAIN news' = DOMAIN news \cup {n} /\ \A k \in DOMAIN news : n > k
    BY <2>5
  <2> HIDE DEF n
  <2>7. stems' = stems /\ online' = online /\ pid' = pid /\ quits' = quits
    BY <1>1 DEF stemVars, morphVars
  <2>8. ASSUME NEW k \in DOMAIN news'
        PROVE  /\ news'[k].kind \in {"up", "down"} => news'[k].who \in Pids'
               /\ news'[k].kind = "stem" => news'[k].who \in 0 .. stems'
    BY <1>0, <2>3, <2>4, <2>5, <2>6, <2>7 DEF NewsPart
  <2>9. ASSUME NEW k \in DOMAIN news', news'[k].kind = "up"
        PROVE  \/ news'[k].who \in Announced'
               \/ \E m \in DOMAIN news' : m > k /\ news'[m] = Event("down", news'[k].who)
    <3>1. CASE k = n
      BY <2>3, <2>4, <2>5, <3>1
    <3>2. CASE k \in DOMAIN news
      <4>1. \E m \in DOMAIN news : m > k /\ news[m] = Event("down", news[k].who)
        BY <1>0, <1>5, <2>5, <2>9, <3>2 DEF NewsPart
      <4> QED BY <2>5, <2>6, <3>2, <4>1
    <3> QED BY <2>6, <3>1, <3>2
  <2>10. ASSUME NEW k \in DOMAIN news', news'[k].kind = "down", NEW j \in Announced'
         PROVE  \E m \in DOMAIN news' : m > k /\ news'[m] = Event("up", j)
    <3>1. k \in DOMAIN news /\ j = i
      BY <2>3, <2>4, <2>5, <2>6, <2>10
    <3> QED BY <2>5, <2>6, <3>1
  <2>11. NewsPart'
    BY <2>5, <2>8, <2>9, <2>10 DEF NewsPart, T
  <2>12. OnlinePart'
    <3>1. online \in Pids' \cup {None}
      BY <1>0, <2>3 DEF OnlinePart
    <3>2. ASSUME online # None PROVE \E k \in DOMAIN news' : news'[k] = Event("down", online)
      <4>1. PICK k \in DOMAIN news : news[k] = Event("down", online)
        BY <1>0, <1>5, <3>2 DEF OnlinePart
      <4> QED BY <2>5, <2>6, <4>1
    <3>3. \E k \in DOMAIN news' : news'[k] = Event("up", i)
      BY <2>5, <2>6
    <3> QED BY <2>3, <2>7, <3>1, <3>2, <3>3 DEF OnlinePart
  <2>13. ProcsPart'
    BY <1>0, <2>2, <2>3, <2>7 DEF ProcsPart
  <2>14. StemPart'
    BY <1>1, <2>3 DEF StemPart, stemVars
  <2> QED BY <1>2, <2>11, <2>12, <2>13, <2>14 DEF IInv
<1> QED BY <1>4, <1>5

\* A process ends: it is told to, crashes, or is killed.
LEMMA EndStep ==
  ASSUME IInv, StemPart, NEW i \in Pids, Quit(i) \/ Crash(i)
  PROVE  IInv' /\ StemPart'
<1>0. ProcsPart /\ MorphPart /\ NewsPart /\ OnlinePart
  BY DEF IInv
<1>1. /\ UNCHANGED <<stemVars, morphVars, astray>> /\ quits' \subseteq quits
      /\ budget' \in 0 .. MaxEvents
  BY <1>0 DEF Quit, Crash, Spend, MorphPart
<1>2. CASE i \in Living /\ Dies(i)
  <2>1. quits' \subseteq Pids /\ Pids' = Pids /\ procs' \in Seq(States)
        /\ Announced' = Announced \ {i} /\ Living' \subseteq Living
    BY <1>0, <1>1, <1>2, DiesProcs DEF ProcsPart
  <2>2. NewsPart' /\ OnlinePart' /\ unseen' \in BOOLEAN
    BY <1>1, <1>2, DiesNews DEF stemVars, morphVars
  <2>3. ProcsPart'
    BY <1>0, <1>1, <2>1 DEF ProcsPart, stemVars
  <2>4. MorphPart' /\ StemPart'
    BY <1>0, <1>1, <2>1, <2>2 DEF MorphPart, StemPart, stemVars, morphVars
  <2> QED BY <2>2, <2>3, <2>4 DEF IInv
<1>3. CASE UNCHANGED <<procs, news, unseen>>
  <2>1. Pids' = Pids /\ Announced' = Announced /\ Living' = Living
    BY <1>3 DEF Pids, Announced, Living
  <2>2. ProcsPart' /\ MorphPart' /\ StemPart'
    BY <1>0, <1>1, <1>3, <2>1 DEF ProcsPart, MorphPart, StemPart, stemVars, morphVars
  <2>3. NewsPart' /\ OnlinePart'
    BY <1>0, <1>1, <1>3, <2>1 DEF NewsPart, OnlinePart, stemVars, morphVars
  <2> QED BY <2>2, <2>3 DEF IInv
<1> QED BY <1>2, <1>3 DEF Quit, Crash

\* Stem cells come and go.
LEMMA StemStep ==
  ASSUME IInv, StemPart, StemStart \/ StemCrash
  PROVE  IInv' /\ StemPart'
<1>0. ProcsPart /\ MorphPart /\ NewsPart /\ OnlinePart
  BY DEF IInv
<1>1. UNCHANGED <<procs, quits, morphVars, unseen>>
  BY DEF StemStart, StemCrash
<1>2. Pids' = Pids /\ Announced' = Announced /\ Living' = Living
  BY <1>1 DEF Pids, Announced, Living
<1>3. CASE StemStart
  <2>1. /\ stems' = stems + 1 /\ stem' = stems' /\ pid' = None /\ toStem' = <<>>
        /\ news' = Append(news, Event("stem", stem')) /\ astray' = (astray \/ Living # {})
        /\ budget' = budget
    BY <1>3 DEF StemStart
  <2>2. MorphPart'
    BY <1>0, <1>1, <2>1 DEF MorphPart, morphVars
  <2>3. stems' \in Nat /\ stems <= stems'
        /\ Event("stem", stem') \in [kind : {"stem", "stemDown"}, who : 0 .. stems']
    BY <1>0, <2>1 DEF MorphPart, Event
  <2>4. NewsPart' /\ OnlinePart'
    BY <1>1, <2>1, <2>3, StemNews DEF morphVars
  <2>5. ProcsPart' /\ StemPart'
    BY <1>0, <1>1, <1>2, <2>1 DEF ProcsPart, StemPart
  <2> QED BY <2>2, <2>4, <2>5 DEF IInv
<1>4. CASE StemCrash
  <2>1. /\ stem # None /\ stem' = None /\ toStem' = <<>> /\ UNCHANGED <<stems, pid, astray>>
        /\ news' = Append(news, Event("stemDown", stem)) /\ budget' \in 0 .. MaxEvents
    BY <1>0, <1>4 DEF StemCrash, Spend, MorphPart
  <2>2. MorphPart'
    BY <1>0, <1>1, <2>1 DEF MorphPart, morphVars
  <2>3. stems' \in Nat /\ stems <= stems'
        /\ Event("stemDown", stem) \in [kind : {"stem", "stemDown"}, who : 0 .. stems']
    BY <1>0, <2>1 DEF MorphPart, Event
  <2>4. NewsPart' /\ OnlinePart'
    BY <1>1, <2>1, <2>3, StemNews DEF morphVars
  <2>5. ProcsPart' /\ StemPart'
    BY <1>0, <1>1, <1>2, <2>1 DEF ProcsPart, StemPart
  <2> QED BY <2>2, <2>4, <2>5 DEF IInv
<1> QED BY <1>3, <1>4

\* The stem cell spawns a process, which is not announced yet.
LEMMA SpawnStep ==
  ASSUME IInv, StemPart, Spawn
  PROVE  IInv' /\ StemPart'
<1>0. ProcsPart /\ MorphPart /\ NewsPart /\ OnlinePart
  BY DEF IInv
<1>1. /\ toStem # <<>> /\ toStem' = Tail(toStem) /\ procs' = Append(procs, "starting")
      /\ pid' = Len(procs') /\ astray' = (Living # {} \/ (astray /\ Announced # {}))
      /\ UNCHANGED <<budget, stem, stems, quits, news, morphVars, unseen>>
  BY DEF Spawn, NewPid
<1>2. /\ procs' \in Seq(States) /\ Len(procs) \in Nat /\ Len(procs') = Len(procs) + 1
      /\ DOMAIN procs = 1 .. Len(procs) /\ DOMAIN procs' = 1 .. Len(procs) + 1
      /\ procs'[Len(procs) + 1] = "starting"
      /\ \A i \in 1 .. Len(procs) : procs'[i] = procs[i]
  <2>1. procs \in Seq(States) /\ "starting" \in States
    BY <1>0 DEF ProcsPart, States
  <2>2. Len(Append(procs, "starting")) = Len(procs) + 1
    BY <2>1
  <2> QED BY <1>1, <2>1, <2>2, Appended
<1>3. DOMAIN procs' = DOMAIN procs \cup {Len(procs')} /\ Len(procs') \notin DOMAIN procs
  BY <1>2
<1>4. /\ Pids' = Pids \cup {pid'} /\ Announced' = Announced /\ Living' = Living \cup {pid'}
  BY <1>1, <1>2, <1>3 DEF Pids, Announced, Living
<1>5. ProcsPart'
  BY <1>0, <1>1, <1>2, <1>4 DEF ProcsPart
<1>6. MorphPart'
  BY <1>0, <1>1 DEF MorphPart, morphVars
<1>7. NewsPart'
  BY <1>0, <1>1, <1>4 DEF NewsPart
<1>8. OnlinePart'
  BY <1>0, <1>1, <1>4 DEF OnlinePart, morphVars
<1>9. StemPart'
  <2>1. ~astray' => Living = {}
    BY <1>1
  <2> QED BY <1>4, <2>1 DEF StemPart
<1> QED BY <1>5, <1>6, <1>7, <1>8, <1>9 DEF IInv

\* The stem cell kills the process whose pid it has.
LEMMA KillStep ==
  ASSUME IInv, StemPart, Kill
  PROVE  IInv' /\ StemPart'
<1>0. ProcsPart /\ MorphPart /\ NewsPart /\ OnlinePart
  BY DEF IInv
<1>1. /\ toStem # <<>> /\ toStem' = Tail(toStem)
      /\ UNCHANGED <<budget, stem, stems, pid, quits, morphVars, astray>>
  BY DEF Kill
<1>2. CASE pid \in Living /\ Dies(pid)
  <2>1. Pids' = Pids /\ procs' \in Seq(States)
        /\ Announced' = Announced \ {pid} /\ Living' \subseteq Living
    BY <1>0, <1>2, DiesProcs
  <2>2. NewsPart' /\ OnlinePart' /\ unseen' \in BOOLEAN
    BY <1>1, <1>2, DiesNews DEF morphVars
  <2>3. ProcsPart'
    BY <1>0, <1>1, <2>1 DEF ProcsPart
  <2>4. MorphPart' /\ StemPart'
    BY <1>0, <1>1, <2>1, <2>2 DEF MorphPart, StemPart, morphVars
  <2> QED BY <2>2, <2>3, <2>4 DEF IInv
<1>3. CASE UNCHANGED <<procs, news, unseen>>
  <2>1. Pids' = Pids /\ Announced' = Announced /\ Living' = Living
    BY <1>3 DEF Pids, Announced, Living
  <2>2. ProcsPart' /\ MorphPart' /\ StemPart'
    BY <1>0, <1>1, <1>3, <2>1 DEF ProcsPart, MorphPart, StemPart, morphVars
  <2>3. NewsPart' /\ OnlinePart'
    BY <1>0, <1>1, <1>3, <2>1 DEF NewsPart, OnlinePart, morphVars
  <2> QED BY <2>2, <2>3 DEF IInv
<1> QED BY <1>2, <1>3 DEF Kill

\* A message to the stem cell, or none.
LEMMA MessageType ==
  ASSUME MorphPart, NEW m \in {"spawn", "kill"}, ToStem(m) \/ Start \/ UNCHANGED toStem
  PROVE  toStem' \in Seq({"spawn", "kill"})
<1>1. Append(toStem, m) \in Seq({"spawn", "kill"})
      /\ Append(toStem, "spawn") \in Seq({"spawn", "kill"})
  BY DEF MorphPart
<1> QED BY <1>1 DEF ToStem, Start, MorphPart

\* The morph hears what happened.
LEMMA ListenStep ==
  ASSUME IInv, StemPart, Listen
  PROVE  IInv' /\ StemPart'
<1>0. ProcsPart /\ MorphPart /\ NewsPart /\ OnlinePart
  BY DEF IInv
<1> DEFINE e == Head(news)
<1>1. /\ news # <<>> /\ news' = Tail(news)
      /\ UNCHANGED <<budget, stem, stems, pid, procs, wanted, astray>>
  BY DEF Listen, StemConnected, StemDisconnected, ProcessConnected, ProcessDisconnected, Hear,
         stemVars
<1>2. /\ 1 \in DOMAIN news /\ e = news[1]
      /\ e \in [kind : {"up", "down", "stem", "stemDown"}, who : Nat]
  <2> DEFINE T == [kind : {"up", "down", "stem", "stemDown"}, who : Nat]
  <2>1. news \in Seq(T)
    BY <1>0 DEF NewsPart
  <2> HIDE DEF T
  <2>2. 1 \in DOMAIN news /\ Head(news) = news[1] /\ news[1] \in T
    BY <2>1, <1>1
  <2> QED BY <2>2 DEF T
<1>3. /\ e.kind \in {"up", "down"} => e.who \in Pids
      /\ e.kind = "stem" => e.who \in 0 .. stems
  BY <1>0, <1>2 DEF NewsPart
<1>4. Pids' = Pids /\ Announced' = Announced /\ Living' = Living
  BY <1>1 DEF Pids, Announced, Living
<1>5. NewsPart' /\ StemPart'
  BY <1>1, <1>4, HearNews DEF StemPart
<1>6. e = Event(e.kind, e.who) /\ e.who = Who
  BY <1>2 DEF Event, Who
<1> HIDE DEF e
<1>7. CASE StemConnected
  <2>1. e.kind = "stem" /\ online' = online /\ push' = Who /\ known' = TRUE /\ quits' = quits
    BY <1>7 DEF StemConnected, Hear, e
  <2>2. toStem' \in Seq({"spawn", "kill"})
    <3>1. Append(toStem, "spawn") \in Seq({"spawn", "kill"})
      BY <1>0 DEF MorphPart
    <3> QED BY <1>0, <1>7, <3>1 DEF StemConnected, MorphPart
  <2>3. onStem' \in BOOLEAN /\ unseen' \in BOOLEAN
    BY <1>0, <1>7 DEF StemConnected, MorphPart
  <2>4. MorphPart'
    BY <1>0, <1>1, <1>3, <1>6, <2>1, <2>2, <2>3 DEF MorphPart
  <2>5. OnlinePart'
    BY <1>1, <1>4, <2>1, SameOnline DEF e
  <2>6. ProcsPart'
    BY <1>0, <1>1, <1>4, <2>1 DEF ProcsPart
  <2> QED BY <1>5, <2>4, <2>5, <2>6 DEF IInv
<1>8. CASE StemDisconnected
  <2>1. e.kind = "stemDown" /\ push' = None
        /\ UNCHANGED <<toStem, quits, wanted, known, online, onStem, unseen>>
    BY <1>8 DEF StemDisconnected, Hear, stemVars, e
  <2>2. MorphPart'
    BY <1>0, <1>1, <2>1 DEF MorphPart, None
  <2>3. OnlinePart'
    BY <1>1, <1>4, <2>1, SameOnline DEF e
  <2>4. ProcsPart'
    BY <1>0, <1>1, <1>4, <2>1 DEF ProcsPart
  <2> QED BY <1>5, <2>2, <2>3, <2>4 DEF IInv
<1>9. CASE ProcessConnected
  <2>1. e.kind = "up" /\ online' = Who /\ quits' = quits \cup Unwanted
        /\ UNCHANGED <<toStem, push, known, onStem, unseen>>
    BY <1>9 DEF ProcessConnected, Hear, stemVars, e
  <2>2. Who \in Pids /\ Unwanted \subseteq Pids /\ Who # None
    BY <1>0, <1>3, <1>6, <2>1, PidsAreNumbers DEF Unwanted, ProcsPart
  <2>3. MorphPart'
    BY <1>0, <1>1, <2>1 DEF MorphPart
  <2>4. ProcsPart'
    BY <1>0, <1>1, <1>4, <2>1, <2>2 DEF ProcsPart
  <2>5. Who \notin Announced => \E k \in DOMAIN news' : news'[k] = Event("down", Who)
    <3> SUFFICES ASSUME Who \notin Announced
                 PROVE  \E k \in DOMAIN news' : news'[k] = Event("down", Who)
      OBVIOUS
    <3>1. PICK m \in DOMAIN news : news[m] = Event("down", Who)
      BY <1>0, <1>2, <1>6, <2>1 DEF NewsPart, e
    <3>2. Event("down", Who) # Head(news)
      BY <2>1 DEF Event, e
    <3> QED BY <1>1, <3>1, <3>2, StillToHear
  <2>6. OnlinePart'
    BY <1>4, <2>1, <2>2, <2>5 DEF OnlinePart
  <2> QED BY <1>5, <2>3, <2>4, <2>6 DEF IInv
<1>10. CASE ProcessDisconnected
  <2>1. e.kind = "down" /\ online' = None
        /\ UNCHANGED <<quits, push, known, onStem>>
    BY <1>10 DEF ProcessDisconnected, Hear, AfterDown, e
  <2>2. toStem' \in Seq({"spawn", "kill"}) /\ unseen' \in BOOLEAN
    BY <1>0, <1>10, MessageType DEF ProcessDisconnected, MorphPart
  <2>3. MorphPart'
    BY <1>0, <1>1, <2>1, <2>2 DEF MorphPart
  <2>4. ProcsPart'
    BY <1>0, <1>1, <1>4, <2>1 DEF ProcsPart
  <2>5. ASSUME NEW i \in Announced
        PROVE  \E k \in DOMAIN news' : news'[k] = Event("up", i)
    <3>1. PICK m \in DOMAIN news : news[m] = Event("up", i)
      BY <1>0, <1>2, <2>1 DEF NewsPart, e
    <3>2. Event("up", i) # Head(news)
      BY <2>1 DEF Event, e
    <3> QED BY <1>1, <3>1, <3>2, StillToHear
  <2>6. OnlinePart'
    BY <1>4, <2>1, <2>5 DEF OnlinePart
  <2> QED BY <1>5, <2>3, <2>4, <2>6 DEF IInv
<1> QED BY <1>7, <1>8, <1>9, <1>10 DEF Listen

\* What the user asks of the morph.
LEMMA RequestStep ==
  ASSUME IInv, StemPart, Create \/ Remove \/ Restart
  PROVE  IInv' /\ StemPart'
<1>0. ProcsPart /\ MorphPart /\ NewsPart /\ OnlinePart
  BY DEF IInv
<1>1. UNCHANGED <<stem, stems, pid, procs, news, push, known, online, astray>>
      /\ budget' \in 0 .. MaxEvents
  BY <1>0 DEF Create, Remove, Restart, Spend, stemVars, MorphPart
<1>2. Pids' = Pids /\ Announced' = Announced /\ Living' = Living
  BY <1>1 DEF Pids, Announced, Living
<1>3. toStem' \in Seq({"spawn", "kill"})
  BY <1>0, MessageType DEF Create, Remove, Restart, stemVars
<1>4. wanted' \in BOOLEAN /\ onStem' \in BOOLEAN /\ unseen' \in BOOLEAN
  BY <1>0 DEF Create, Remove, Restart, MorphPart
<1>5. quits' \subseteq Pids
  BY <1>0 DEF Create, Remove, Restart, ProcsPart, OnlinePart
<1>6. MorphPart'
  BY <1>0, <1>1, <1>3, <1>4 DEF MorphPart
<1>7. ProcsPart' /\ NewsPart' /\ OnlinePart'
  BY <1>0, <1>1, <1>2, <1>5 DEF ProcsPart, NewsPart, OnlinePart
<1> QED BY <1>1, <1>2, <1>6, <1>7 DEF IInv, StemPart

\* Every step preserves the invariant.
LEMMA NextIInv == IInv /\ StemPart /\ [Next]_vars => IInv' /\ StemPart'
<1> SUFFICES ASSUME IInv, StemPart, [Next]_vars PROVE IInv' /\ StemPart'
  OBVIOUS
<1>1. CASE UNCHANGED vars
  <2>1. UNCHANGED <<budget, stemVars, procs, quits, news, morphVars, astray, unseen>>
    BY <1>1 DEF vars
  <2>2. Pids' = Pids /\ Announced' = Announced /\ Living' = Living
    BY <2>1 DEF Pids, Announced, Living
  <2>3. ProcsPart' /\ MorphPart' /\ StemPart'
    BY <2>1, <2>2 DEF IInv, ProcsPart, MorphPart, StemPart, stemVars, morphVars
  <2>4. NewsPart' /\ OnlinePart'
    BY <2>1, <2>2 DEF IInv, NewsPart, OnlinePart, stemVars, morphVars
  <2> QED BY <2>3, <2>4 DEF IInv
<1>2. CASE Next
  BY <1>2, RegisterStep, EndStep, StemStep, SpawnStep, KillStep, ListenStep, RequestStep
     DEF Next, Execute
<1> QED BY <1>1, <1>2

-----------------------------------------------------------------------------
\* What the morph and the stem cell have heard of existed, and the morph thinks a
\* process is online only if it is, or the contrary is on its way.
THEOREM TypeCorrect == Spec => []TypeOK
<1>1. Spec => [](IInv /\ StemPart)
  BY InitIInv, NextIInv, PTL DEF Spec
<1> QED BY <1>1, IInvIsEnough, PTL

\* The pid that the stem cell would kill is the process the morph is connected to,
\* unless it was told to spawn a second one or is not the one that spawned it.
THEOREM PidIsKnown == Spec => []StemKnowsPid
<1>1. Spec => [](IInv /\ StemPart)
  BY InitIInv, NextIInv, PTL DEF Spec
<1> QED BY <1>1, StemPartIsEnough, PTL

-----------------------------------------------------------------------------
(* What runs when nothing is under way                                     *)
(*                                                                         *)
(* Of a process that the project keeps something is always under way: it   *)
(* lives, its spawn is on its way, or news at which the morph will ask for *)
(* it.  That rests on what the morph knows of the stem cell (StemHeard):   *)
(* it is connected to the one that runs, or the last news of a stem cell   *)
(* is that this one runs.                                                  *)

StemKinds == {"stem", "stemDown"}

\* An event the morph will hear.
Under(e) == \E k \in DOMAIN news : news[k] = e

\* The morph is connected to the stem cell that runs, or will hear of it last.
StemHeard ==
  stem # None =>
    \/ push = stem /\ known /\ \A k \in DOMAIN news : news[k].kind \notin StemKinds
    \/ \E k \in DOMAIN news :
         /\ news[k] = Event("stem", stem)
         /\ \A m \in DOMAIN news : m > k => news[m].kind \notin StemKinds

\* A process is there, or something at which the morph or the stem cell starts it.
Ahead ==
  \/ Living # {}
  \/ \E k \in DOMAIN toStem : toStem[k] = "spawn"
  \/ Under(Event("stem", stem))
  \/ push = stem /\ \E i : Under(Event("down", i))

\* What the project keeps is there or ahead, unless it died unseen.
Coming == wanted /\ stem # None /\ ~unseen => Ahead

\* What the project does not keep is told to quit, or will be when it is heard of.
Leaving == ~wanted => \A i \in Announced : i \in quits \/ Under(Event("up", i))

\* Nobody has anything to do.
Quiet == news = <<>> /\ toStem = <<>> /\ quits = {} /\ Living = Announced

\* The safety parts of EventuallyOnline and RemovedEnds.
WantedIsOnline == Quiet /\ wanted /\ stem # None /\ ~unseen => online \in Announced
RemovedIsGone == Quiet /\ ~wanted => Living = {}

\* Nothing is ahead of a quiet morph: what it keeps lives, and it has heard of it.
LEMMA QuietIsEnough == IInv /\ Coming /\ Leaving => WantedIsOnline /\ RemovedIsGone
<1> SUFFICES ASSUME IInv, Coming, Leaving, Quiet
             PROVE  /\ wanted /\ stem # None /\ ~unseen => online \in Announced
                    /\ ~wanted => Living = {}
  BY DEF WantedIsOnline, RemovedIsGone
<1>1. DOMAIN news = {} /\ DOMAIN toStem = {} /\ quits = {} /\ Living = Announced
  BY DEF Quiet
<1>2. ASSUME wanted, stem # None, ~unseen PROVE online \in Announced
  <2>1. Announced # {}
    BY <1>1, <1>2 DEF Coming, Ahead, Under
  <2> QED BY <1>1, <2>1 DEF IInv, OnlinePart
<1>3. ASSUME ~wanted PROVE Living = {}
  BY <1>1, <1>3 DEF Leaving, Under
<1> QED BY <1>2, <1>3

\* A process left by an earlier morph will be heard of.
LEMMA InitComing == Init => StemHeard /\ Coming /\ Leaving
<1> SUFFICES ASSUME Init PROVE StemHeard /\ Coming /\ Leaving
  OBVIOUS
<1>1. stem = None
  BY DEF Init
<1>2. CASE procs = <<>>
  BY <1>1, <1>2 DEF StemHeard, Coming, Leaving, Announced, Pids
<1>3. CASE procs = <<"announced">> /\ news = <<Event("up", 1)>>
  <2>1. Pids = {1} /\ 1 \in DOMAIN news /\ news[1] = Event("up", 1)
    BY <1>3 DEF Pids
  <2> QED BY <1>1, <2>1 DEF StemHeard, Coming, Leaving, Announced, Under
<1> QED BY <1>2, <1>3 DEF Init

\* What was under way stays so when something happens, and that is under way too.
LEMMA NewsKept ==
  ASSUME IInv, NEW x \in [kind : {"up", "down", "stem", "stemDown"}, who : Nat],
         news' = Append(news, x)
  PROVE  /\ \A e : Under(e) => Under(e)'
         /\ Under(x)'
         /\ Len(news) \in Nat /\ DOMAIN news = 1 .. Len(news)
         /\ DOMAIN news' = DOMAIN news \cup {Len(news) + 1}
         /\ news'[Len(news) + 1] = x /\ \A k \in DOMAIN news : news'[k] = news[k]
<1> DEFINE T == [kind : {"up", "down", "stem", "stemDown"}, who : Nat]
<1>1. news \in Seq(T) /\ x \in T
  BY DEF IInv, NewsPart
<1> HIDE DEF T
<1>2. /\ DOMAIN news = 1 .. Len(news) /\ DOMAIN news' = 1 .. Len(news) + 1 /\ Len(news) \in Nat
      /\ news'[Len(news) + 1] = x /\ \A k \in 1 .. Len(news) : news'[k] = news[k]
  BY <1>1, Appended
<1>3. DOMAIN news' = DOMAIN news \cup {Len(news) + 1}
  BY <1>2
<1>4. \A e : Under(e) => Under(e)'
  BY <1>2, <1>3 DEF Under
<1>5. Under(x)'
  BY <1>2, <1>3 DEF Under
<1> QED BY <1>2, <1>3, <1>4, <1>5

\* What is not heard now is still under way.
LEMMA UnderKept ==
  ASSUME IInv, news # <<>>, news' = Tail(news)
  PROVE  \A e : e # Head(news) /\ Under(e) => Under(e)'
<1> SUFFICES ASSUME NEW e, e # Head(news), Under(e) PROVE Under(e)'
  OBVIOUS
<1>1. PICK k \in DOMAIN news : news[k] = e
  BY DEF Under
<1>2. \E l \in DOMAIN news' : news'[l] = e
  BY <1>1, StillToHear
<1> QED BY <1>2 DEF Under

\* Kinds and senders tell events apart.
LEMMA EventsDiffer ==
  /\ \A k, i : Event(k, i).kind = k /\ Event(k, i).who = i
  /\ \A k, i, l, j : k # l \/ i # j => Event(k, i) # Event(l, j)
<1>1. \A k, i : Event(k, i).kind = k /\ Event(k, i).who = i
  BY DEF Event
<1> QED BY <1>1

\* A process appears or ends: nothing changes between the morph and the stem cell.
LEMMA ProcessNewsHeard ==
  ASSUME IInv, StemHeard, UNCHANGED <<stem, push, known>>,
         \/ news' = news
         \/ \E k \in {"up", "down"}, i \in Nat : news' = Append(news, Event(k, i))
  PROVE  StemHeard'
<1>1. CASE news' = news
  BY <1>1 DEF StemHeard
<1>2. CASE \E k \in {"up", "down"}, i \in Nat : news' = Append(news, Event(k, i))
  <2>1. PICK k \in {"up", "down"}, i \in Nat : news' = Append(news, Event(k, i))
    BY <1>2
  <2> DEFINE x == Event(k, i)
             n == Len(news) + 1
  <2>2. x \in [kind : {"up", "down", "stem", "stemDown"}, who : Nat] /\ x.kind \notin StemKinds
    BY DEF Event, StemKinds
  <2> HIDE DEF x
  <2>3. /\ DOMAIN news' = DOMAIN news \cup {n} /\ news'[n] = x
        /\ \A m \in DOMAIN news : news'[m] = news[m]
    BY <2>1, <2>2, NewsKept DEF x
  <2> HIDE DEF n
  <2> QED BY <2>2, <2>3 DEF StemHeard
<1> QED BY <1>1, <1>2

\* The morph hears something, of a stem cell or not: the last news of a stem cell is
\* heard or stays the last.
LEMMA HearHeard ==
  ASSUME IInv, StemHeard, news # <<>>, news' = Tail(news), UNCHANGED stem,
         \/ Head(news).kind \notin StemKinds /\ UNCHANGED <<push, known>>
         \/ Head(news) = Event("stemDown", Who)
         \/ Head(news) = Event("stem", Who) /\ push' = Who /\ known' = TRUE
  PROVE  StemHeard'
<1> SUFFICES ASSUME stem # None PROVE StemHeard'
  BY DEF StemHeard
<1>1. /\ DOMAIN news = 1 .. Len(news) /\ DOMAIN news' = 1 .. Len(news) - 1
      /\ Len(news) \in Nat \ {0}
      /\ \A l \in 1 .. Len(news) - 1 : news'[l] = news[l + 1]
      /\ Head(news) = news[1]
  <2> DEFINE T == [kind : {"up", "down", "stem", "stemDown"}, who : Nat]
  <2>1. news \in Seq(T)
    BY DEF IInv, NewsPart
  <2> HIDE DEF T
  <2> QED BY <2>1, Heard
<1>2. CASE push = stem /\ known /\ \A k \in DOMAIN news : news[k].kind \notin StemKinds
  <2>1. \A k \in DOMAIN news' : news'[k].kind \notin StemKinds
    BY <1>1, <1>2
  <2>2. Head(news).kind \notin StemKinds
    BY <1>1, <1>2
  <2>3. Event("stem", Who).kind \in StemKinds /\ Event("stemDown", Who).kind \in StemKinds
    BY EventsDiffer DEF StemKinds
  <2>4. push' = push /\ known' = known
    BY <2>2, <2>3
  <2> QED BY <1>2, <2>1, <2>4 DEF StemHeard
<1>3. ASSUME NEW k \in DOMAIN news, news[k] = Event("stem", stem),
             \A m \in DOMAIN news : m > k => news[m].kind \notin StemKinds
      PROVE  StemHeard'
  <2>1. CASE k = 1
    <3>1. Head(news) = Event("stem", stem)
      BY <1>1, <1>3, <2>1
    <3>2. push' = stem /\ known' = TRUE
      BY <3>1, EventsDiffer DEF StemKinds, Who
    <3>3. \A m \in DOMAIN news' : news'[m].kind \notin StemKinds
      BY <1>1, <1>3, <2>1
    <3> QED BY <3>2, <3>3 DEF StemHeard
  <2>2. CASE k # 1
    <3>1. k - 1 \in DOMAIN news' /\ news'[k - 1] = Event("stem", stem')
      BY <1>1, <1>3, <2>2
    <3>2. \A m \in DOMAIN news' : m > k - 1 => news'[m].kind \notin StemKinds
      BY <1>1, <1>3
    <3> QED BY <3>1, <3>2 DEF StemHeard
  <2> QED BY <2>1, <2>2
<1> QED BY <1>2, <1>3 DEF StemHeard

\* The morph knows how it stands with the stem cell.
LEMMA NextHeard == IInv /\ StemHeard /\ [Next]_vars => StemHeard'
<1> SUFFICES ASSUME IInv, StemHeard, [Next]_vars PROVE StemHeard'
  OBVIOUS
<1>0. Pids \subseteq Nat /\ stems \in Nat
  BY PidsAreNumbers DEF IInv, ProcsPart, MorphPart
<1>1. ASSUME NEW i \in Pids, Dies(i), UNCHANGED <<stem, push, known>> PROVE StemHeard'
  BY <1>0, <1>1, ProcessNewsHeard DEF Dies
<1>2. ASSUME UNCHANGED <<stem, push, known, news>> PROVE StemHeard'
  BY <1>2 DEF StemHeard
<1>3. ASSUME NEW i \in Pids, Register(i) \/ Quit(i) \/ Crash(i) PROVE StemHeard'
  <2>1. UNCHANGED <<stem, push, known>>
    BY <1>3 DEF Register, Quit, Crash, stemVars, morphVars
  <2>2. CASE Register(i)
    BY <1>0, <2>1, <2>2, ProcessNewsHeard DEF Register
  <2>3. CASE Quit(i) \/ Crash(i)
    BY <1>1, <1>2, <2>1, <2>3 DEF Quit, Crash
  <2> QED BY <1>3, <2>2, <2>3
<1>4. CASE StemStart
  <2>1. stem' = stems + 1 /\ news' = Append(news, Event("stem", stem')) /\ stem' \in Nat
    BY <1>0, <1>4 DEF StemStart
  <2>2. Event("stem", stem') \in [kind : {"up", "down", "stem", "stemDown"}, who : Nat]
    BY <2>1 DEF Event
  <2> DEFINE n == Len(news) + 1
  <2>3. n \in DOMAIN news' /\ news'[n] = Event("stem", stem')
        /\ \A m \in DOMAIN news' : ~(m > n)
    BY <2>1, <2>2, NewsKept
  <2> HIDE DEF n
  <2> QED BY <2>3 DEF StemHeard
<1>5. CASE StemCrash
  BY <1>5 DEF StemCrash, StemHeard
<1>6. CASE Execute
  BY <1>0, <1>1, <1>2, <1>6 DEF Execute, Spawn, Kill, Living, morphVars
<1>7. CASE Listen
  <2>1. news # <<>> /\ news' = Tail(news) /\ stem' = stem
    BY <1>7 DEF Listen, StemConnected, StemDisconnected, ProcessConnected, ProcessDisconnected,
                Hear, stemVars
  <2>2. Head(news) = Event(Head(news).kind, Who)
    <3> DEFINE T == [kind : {"up", "down", "stem", "stemDown"}, who : Nat]
    <3>1. news \in Seq(T)
      BY DEF IInv, NewsPart
    <3> HIDE DEF T
    <3>2. Head(news) \in T
      BY <2>1, <3>1
    <3> QED BY <3>2 DEF T, Event, Who
  <2>3. CASE StemConnected
    BY <2>1, <2>2, <2>3, HearHeard DEF StemConnected, Hear
  <2>4. CASE StemDisconnected
    BY <2>1, <2>2, <2>4, HearHeard DEF StemDisconnected, Hear
  <2>5. CASE ProcessConnected \/ ProcessDisconnected
    <3>1. Head(news).kind \notin StemKinds /\ UNCHANGED <<push, known>>
      BY <2>5 DEF ProcessConnected, ProcessDisconnected, Hear, StemKinds
    <3> QED BY <2>1, <3>1, HearHeard
  <2> QED BY <1>7, <2>3, <2>4, <2>5 DEF Listen
<1>8. CASE Create \/ Remove \/ Restart
  BY <1>2, <1>8 DEF Create, Remove, Restart, stemVars
<1>9. CASE UNCHANGED vars
  BY <1>2, <1>9 DEF vars, stemVars, morphVars
<1> QED BY <1>3, <1>4, <1>5, <1>6, <1>7, <1>8, <1>9 DEF Next

\* A process that is there when another ends or appears: who ends unseen is noticed by
\* the history, and the end of the others is news at which the morph starts it again.
LEMMA DiesAhead ==
  ASSUME IInv, StemHeard, NEW i \in Pids, Dies(i), ~unseen', stem # None,
         UNCHANGED <<stem, push>>, i \in Living
  PROVE  Ahead'
<1>1. procs[i] = "announced"
  <2>1. procs[i] \in States
    BY DEF IInv, ProcsPart, Pids
  <2> QED BY <2>1 DEF Dies, Living, States
<1>2. news' = Append(news, Event("down", i))
  BY <1>1 DEF Dies
<1>3. Event("down", i) \in [kind : {"up", "down", "stem", "stemDown"}, who : Nat]
  BY PidsAreNumbers DEF Event, IInv, ProcsPart
<1>4. Under(Event("down", i))' /\ \A e : Under(e) => Under(e)'
  BY <1>2, <1>3, NewsKept
<1>5. push = stem \/ Under(Event("stem", stem))
  BY DEF StemHeard, Under
<1> QED BY <1>4, <1>5 DEF Ahead

\* The stem cell works on a message: a spawn that is not it is still to come.
LEMMA SpawnKept ==
  ASSUME IInv, toStem # <<>>, Head(toStem) # "spawn", toStem' = Tail(toStem),
         NEW k \in DOMAIN toStem, toStem[k] = "spawn"
  PROVE  \E l \in DOMAIN toStem' : toStem'[l] = "spawn"
<1>1. toStem \in Seq({"spawn", "kill"})
  BY DEF IInv, MorphPart
<1>2. /\ DOMAIN toStem = 1 .. Len(toStem) /\ DOMAIN toStem' = 1 .. Len(toStem) - 1
      /\ \A l \in 1 .. Len(toStem) - 1 : toStem'[l] = toStem[l + 1]
      /\ Head(toStem) = toStem[1] /\ Len(toStem) \in Nat
  BY <1>1, Heard
<1>3. k # 1
  BY <1>2
<1>4. k - 1 \in DOMAIN toStem' /\ toStem'[k - 1] = "spawn"
  BY <1>2, <1>3
<1> QED BY <1>4

\* A message more: the spawns are still to come.
LEMMA MessageKept ==
  ASSUME IInv, NEW m \in {"spawn", "kill"}, toStem' = Append(toStem, m)
  PROVE  /\ \A k \in DOMAIN toStem : k \in DOMAIN toStem' /\ toStem'[k] = toStem[k]
         /\ m = "spawn" => \E k \in DOMAIN toStem' : toStem'[k] = "spawn"
<1>1. toStem \in Seq({"spawn", "kill"})
  BY DEF IInv, MorphPart
<1>2. /\ DOMAIN toStem = 1 .. Len(toStem) /\ DOMAIN toStem' = 1 .. Len(toStem) + 1
      /\ Len(toStem) \in Nat /\ toStem'[Len(toStem) + 1] = m
      /\ \A k \in 1 .. Len(toStem) : toStem'[k] = toStem[k]
  BY <1>1, Appended
<1>3. Len(toStem) + 1 \in DOMAIN toStem'
  BY <1>2
<1> QED BY <1>2, <1>3

\* What is ahead stays so when nothing of it is lost.
LEMMA SameAhead ==
  ASSUME Ahead, UNCHANGED <<stem, push>>, Living # {} => Living' # {},
         (\E k \in DOMAIN toStem : toStem[k] = "spawn")
           => \E k \in DOMAIN toStem' : toStem'[k] = "spawn",
         \A e : Under(e) => Under(e)'
  PROVE  Ahead'
  BY DEF Ahead

\* Processes register and end.
LEMMA ProcessComing ==
  ASSUME IInv, StemHeard, Coming, NEW i \in Pids, Register(i) \/ Quit(i) \/ Crash(i)
  PROVE  Coming'
<1> SUFFICES ASSUME wanted', stem' # None, ~unseen' PROVE Ahead'
  BY DEF Coming
<1>1. UNCHANGED <<stem, push, wanted, toStem>>
  BY DEF Register, Quit, Crash, stemVars, morphVars
<1>2. CASE Register(i)
  <2>1. procs[i] = "starting" /\ i \in DOMAIN procs
    BY <1>2 DEF Register, Pids
  <2>2. CASE Announced = {}
    <3>1. procs' = [procs EXCEPT ![i] = "announced"]
      BY <1>2, <2>2 DEF Register
    <3>2. i \in DOMAIN procs' /\ procs'[i] # "dead"
      BY <2>1, <3>1
    <3> QED BY <3>2 DEF Ahead, Living, Pids
  <2>3. CASE Announced # {}
    <3>1. PICK j \in DOMAIN procs : procs[j] = "announced"
      BY <2>3 DEF Announced, Pids
    <3>2. procs' = [procs EXCEPT ![i] = "dead"]
      BY <1>2, <2>3 DEF Register
    <3>3. j \in DOMAIN procs' /\ procs'[j] # "dead"
      BY <2>1, <3>1, <3>2
    <3> QED BY <3>3 DEF Ahead, Living, Pids
  <2> QED BY <2>2, <2>3
<1>3. CASE i \in Living /\ Dies(i)
  BY <1>1, <1>3, DiesAhead
<1>4. CASE UNCHANGED <<procs, news, unseen>>
  <2>1. Ahead
    BY <1>1, <1>4 DEF Coming
  <2> QED BY <1>1, <1>4, <2>1 DEF Ahead, Living, Pids, Under
<1> QED BY <1>2, <1>3, <1>4 DEF Quit, Crash

\* A stem cell comes: the morph will hear of it.
LEMMA StemComing ==
  ASSUME IInv, Coming, StemStart \/ StemCrash
  PROVE  Coming'
<1>1. CASE StemStart
  <2>1. stem' = stems + 1 /\ news' = Append(news, Event("stem", stem')) /\ stem' \in Nat
    BY <1>1 DEF StemStart, IInv, MorphPart
  <2>2. Event("stem", stem') \in [kind : {"up", "down", "stem", "stemDown"}, who : Nat]
    BY <2>1 DEF Event
  <2> DEFINE x == Event("stem", stem')
             n == Len(news) + 1
  <2>3. n \in DOMAIN news' /\ news'[n] = x
    BY <2>1, <2>2, NewsKept
  <2> HIDE DEF n
  <2> QED BY <2>3 DEF Coming, Ahead, Under
<1>2. CASE StemCrash
  BY <1>2 DEF StemCrash, Coming
<1> QED BY <1>1, <1>2

\* The stem cell spawns and kills.
LEMMA ExecuteComing ==
  ASSUME IInv, StemHeard, Coming, Execute
  PROVE  Coming'
<1> SUFFICES ASSUME wanted', stem' # None, ~unseen' PROVE Ahead'
  BY DEF Coming
<1>1. CASE Spawn
  <2>1. procs' = Append(procs, "starting") /\ procs \in Seq(States)
    BY <1>1 DEF Spawn, IInv, ProcsPart
  <2>2. Len(procs) + 1 \in DOMAIN procs' /\ procs'[Len(procs) + 1] = "starting"
    BY <2>1, Appended DEF States
  <2> QED BY <2>2 DEF Ahead, Living, Pids
<1>2. CASE Kill
  <2>1. /\ toStem # <<>> /\ Head(toStem) = "kill" /\ toStem' = Tail(toStem)
        /\ UNCHANGED <<stem, push, wanted>>
    BY <1>2 DEF Kill, morphVars
  <2>2. CASE pid \in Living /\ Dies(pid)
    BY <2>1, <2>2, DiesAhead DEF Living
  <2>3. CASE UNCHANGED <<procs, news, unseen>>
    <3>1. Ahead
      BY <2>1, <2>3 DEF Coming
    <3>2. Living' = Living /\ \A e : Under(e) => Under(e)'
      BY <2>3 DEF Living, Pids, Under
    <3>3. (\E k \in DOMAIN toStem : toStem[k] = "spawn")
            => \E k \in DOMAIN toStem' : toStem'[k] = "spawn"
      BY <2>1, SpawnKept
    <3> QED BY <2>1, <3>1, <3>2, <3>3, SameAhead
  <2> QED BY <1>2, <2>2, <2>3 DEF Kill
<1> QED BY <1>1, <1>2 DEF Execute

\* A message to the stem cell the morph is connected to is a process to come.
LEMMA StartAhead ==
  ASSUME IInv, StemHeard, stem # None, Start, UNCHANGED <<stem, push>>,
         Under(Event("stem", stem)) => Under(Event("stem", stem))'
  PROVE  Ahead'
<1>1. CASE push = stem /\ known
  <2>1. toStem' = Append(toStem, "spawn")
    BY <1>1 DEF Start, ToStem
  <2>2. \E k \in DOMAIN toStem' : toStem'[k] = "spawn"
    BY <2>1, MessageKept
  <2> QED BY <2>2 DEF Ahead
<1>2. CASE Under(Event("stem", stem))
  BY <1>2 DEF Ahead
<1> QED BY <1>1, <1>2 DEF StemHeard, Under

\* The morph hears of processes and stem cells, and asks for what it keeps.
LEMMA ListenComing ==
  ASSUME IInv, StemHeard, Coming, Listen
  PROVE  Coming'
<1> SUFFICES ASSUME wanted', stem' # None, ~unseen' PROVE Ahead'
  BY DEF Coming
<1>1. /\ news # <<>> /\ news' = Tail(news) /\ Living' = Living
      /\ UNCHANGED <<stem, wanted>>
  BY DEF Listen, StemConnected, StemDisconnected, ProcessConnected, ProcessDisconnected, Hear,
         stemVars, Living, Pids
<1>2. \A e : e # Head(news) /\ Under(e) => Under(e)'
  BY <1>1, UnderKept
<1>3. 1 \in DOMAIN news /\ Head(news) = news[1] /\ Head(news) = Event(Head(news).kind, Who)
  <2> DEFINE T == [kind : {"up", "down", "stem", "stemDown"}, who : Nat]
  <2>1. news \in Seq(T)
    BY DEF IInv, NewsPart
  <2> HIDE DEF T
  <2>2. 1 \in DOMAIN news /\ Head(news) = news[1] /\ Head(news) \in T
    BY <1>1, <2>1, Heard
  <2> QED BY <2>2 DEF T, Event, Who
\* News of a stem cell: the morph is not connected to the one that runs, or hears of it.
<1>4. Head(news).kind \in StemKinds => Under(Event("stem", stem))
  BY <1>1, <1>3 DEF StemHeard, Under
<1>5. CASE StemConnected
  <2>1. Head(news) = Event("stem", Who) /\ push' = Who /\ online' = online
    BY <1>3, <1>5 DEF StemConnected, Hear
  <2>2. CASE Pending /\ Who = stem
    <3>1. toStem' = Append(toStem, "spawn")
      BY <1>5, <2>2 DEF StemConnected
    <3>2. \E k \in DOMAIN toStem' : toStem'[k] = "spawn"
      BY <3>1, MessageKept
    <3> QED BY <3>2 DEF Ahead
  <2>3. CASE ~(Pending /\ Who = stem)
    <3>1. toStem' = toStem /\ unseen' = unseen
      BY <1>1, <1>5, <2>3 DEF StemConnected, IInv, MorphPart
    <3>2. Ahead
      BY <1>1, <3>1 DEF Coming
    <3>3. CASE Living # {} \/ \E k \in DOMAIN toStem : toStem[k] = "spawn"
      BY <1>1, <3>1, <3>3 DEF Ahead
    <3>4. CASE Living = {}
      <4>1. Head(news).kind \in StemKinds
        BY <2>1, EventsDiffer DEF StemKinds
      <4>2. Under(Event("stem", stem))
        BY <1>4, <4>1
      <4>3. CASE Who # stem
        BY <1>1, <1>2, <2>1, <4>2, <4>3, EventsDiffer DEF Ahead
      <4>4. CASE Who = stem
        <5>1. online # None /\ online \notin Announced
          BY <1>1, <2>3, <3>4, <4>4 DEF Pending, Announced, Living
        <5>2. Under(Event("down", online))
          BY <5>1 DEF IInv, OnlinePart, Under
        <5>3. Under(Event("down", online))'
          BY <1>2, <2>1, <5>2, EventsDiffer
        <5> QED BY <1>1, <2>1, <4>4, <5>3 DEF Ahead
      <4> QED BY <4>3, <4>4
    <3> QED BY <3>3, <3>4
  <2> QED BY <2>2, <2>3
<1>6. CASE StemDisconnected
  <2>1. Head(news) = Event("stemDown", Who) /\ toStem' = toStem /\ unseen' = unseen
    BY <1>3, <1>6 DEF StemDisconnected, Hear, stemVars
  <2>2. Under(Event("stem", stem))
    BY <1>4, <2>1, EventsDiffer DEF StemKinds
  <2> QED BY <1>1, <1>2, <2>1, <2>2, EventsDiffer DEF Ahead
<1>7. CASE ProcessConnected
  <2>1. Head(news) = Event("up", Who) /\ UNCHANGED <<toStem, push, unseen>>
    BY <1>3, <1>7 DEF ProcessConnected, Hear, stemVars
  <2>2. Ahead
    BY <1>1, <2>1 DEF Coming
  <2>3. Under(Event("stem", stem)) => Under(Event("stem", stem))'
    BY <1>1, <1>2, <2>1, EventsDiffer
  <2>4. \A i : Under(Event("down", i)) => Under(Event("down", i))'
    BY <1>2, <2>1, EventsDiffer
  <2> QED BY <1>1, <2>1, <2>2, <2>3, <2>4 DEF Ahead
<1>8. CASE ProcessDisconnected
  <2>1. Head(news) = Event("down", Who) /\ push' = push /\ Start
    BY <1>1, <1>3, <1>8 DEF ProcessDisconnected, Hear
  <2>2. Under(Event("stem", stem)) => Under(Event("stem", stem))'
    BY <1>1, <1>2, <2>1, EventsDiffer
  <2> QED BY <1>1, <2>1, <2>2, StartAhead
<1> QED BY <1>5, <1>6, <1>7, <1>8 DEF Listen

\* The user asks for a process: it is there or it is ahead.
LEMMA RequestComing ==
  ASSUME IInv, StemHeard, Coming, Create \/ Remove \/ Restart
  PROVE  Coming'
<1> SUFFICES ASSUME wanted', stem' # None, ~unseen' PROVE Ahead'
  BY DEF Coming
<1>1. UNCHANGED <<stem, push, news, procs>>
  BY DEF Create, Remove, Restart, stemVars
<1>2. Living' = Living /\ \A e : Under(e) => Under(e)'
  BY <1>1 DEF Living, Pids, Under
<1>3. CASE Start
  BY <1>1, <1>2, <1>3, StartAhead
<1>4. CASE Restart /\ online # None
  <2>1. (\/ toStem' = toStem \/ toStem' = Append(toStem, "kill")) /\ unseen' = unseen
        /\ wanted' = wanted
    BY <1>4 DEF Restart, ToStem, IInv, MorphPart
  <2>2. Ahead
    BY <1>1, <2>1 DEF Coming
  <2>3. (\E k \in DOMAIN toStem : toStem[k] = "spawn")
          => \E k \in DOMAIN toStem' : toStem'[k] = "spawn"
    BY <2>1, MessageKept
  <2> QED BY <1>1, <1>2, <2>2, <2>3, SameAhead
<1> QED BY <1>3, <1>4 DEF Create, Remove, Restart

\* What the project keeps is there or ahead.
LEMMA NextComing == IInv /\ StemHeard /\ Coming /\ [Next]_vars => Coming'
<1> SUFFICES ASSUME IInv, StemHeard, Coming, [Next]_vars PROVE Coming'
  OBVIOUS
<1>1. CASE UNCHANGED vars
  BY <1>1 DEF vars, stemVars, morphVars, Coming, Ahead, Living, Pids, Under
<1>2. CASE Next
  BY <1>2, ProcessComing, StemComing, ExecuteComing, ListenComing, RequestComing DEF Next
<1> QED BY <1>1, <1>2

\* Whoever is announced while the project does not keep it has been told to quit, or the
\* morph will hear of it and tell it.
LEMMA NextLeaving == IInv /\ Leaving /\ [Next]_vars => Leaving'
<1> SUFFICES ASSUME IInv, Leaving, [Next]_vars, ~wanted', NEW i \in Announced'
             PROVE  i \in quits' \/ Under(Event("up", i))'
  BY DEF Leaving
<1>0. Pids \subseteq Nat /\ stems \in Nat
  BY PidsAreNumbers DEF IInv, ProcsPart, MorphPart
\* Nothing happens that i does not survive or that is heard of it.
<1>1. ASSUME UNCHANGED wanted, Announced' \subseteq Announced,
             i \in quits => i \in quits',
             Under(Event("up", i)) => Under(Event("up", i))'
      PROVE  i \in quits' \/ Under(Event("up", i))'
  BY <1>1 DEF Leaving
<1>2. ASSUME NEW j \in Living, Dies(j), UNCHANGED wanted, quits \ {j} \subseteq quits'
      PROVE  i \in quits' \/ Under(Event("up", i))'
  <2>1. Announced' = Announced \ {j} /\ j \in Nat
    BY <1>0, <1>2, DiesProcs DEF IInv, Living
  <2>2. Event("down", j) \in [kind : {"up", "down", "stem", "stemDown"}, who : Nat]
    BY <2>1 DEF Event
  <2>3. Under(Event("up", i)) => Under(Event("up", i))'
    BY <1>2, <2>2, NewsKept DEF Dies, Under
  <2> QED BY <1>1, <1>2, <2>1, <2>3
<1>3. ASSUME UNCHANGED <<wanted, procs, news>>, quits \subseteq quits'
      PROVE  i \in quits' \/ Under(Event("up", i))'
  BY <1>1, <1>3 DEF Announced, Pids, Under
<1>4. ASSUME NEW j \in Pids, Register(j) PROVE i \in quits' \/ Under(Event("up", i))'
  <2>1. UNCHANGED <<wanted, quits>> /\ procs[j] = "starting" /\ procs \in Seq(States)
    BY <1>4 DEF Register, morphVars, IInv, ProcsPart
  <2>2. i \in DOMAIN procs' /\ procs'[i] = "announced"
    BY DEF Announced, Pids
  <2>3. CASE Announced # {}
    <3>1. procs' = [procs EXCEPT ![j] = "dead"] /\ news' = news
      BY <1>4, <2>3 DEF Register
    <3>2. Announced' \subseteq Announced
      BY <2>1, <3>1 DEF Announced, Pids
    <3> QED BY <1>1, <2>1, <3>1, <3>2 DEF Under
  <2>4. CASE Announced = {}
    <3>1. procs' = [procs EXCEPT ![j] = "announced"] /\ news' = Append(news, Event("up", j))
      BY <1>4, <2>4 DEF Register
    <3>2. i = j
      BY <2>2, <2>4, <3>1 DEF Announced, Pids
    <3>3. Event("up", j) \in [kind : {"up", "down", "stem", "stemDown"}, who : Nat]
      BY <1>0 DEF Event
    <3>4. Under(Event("up", j))'
      <4> DEFINE x == Event("up", j)
                 n == Len(news) + 1
      <4>1. n \in DOMAIN news' /\ news'[n] = x
        BY <3>1, <3>3, NewsKept
      <4> HIDE DEF n
      <4> QED BY <4>1 DEF Under
    <3> QED BY <3>2, <3>4
  <2> QED BY <2>3, <2>4
<1>5. ASSUME NEW j \in Pids, Quit(j) \/ Crash(j) PROVE i \in quits' \/ Under(Event("up", i))'
  <2>1. UNCHANGED wanted /\ quits \ {j} \subseteq quits'
    BY <1>5 DEF Quit, Crash, morphVars
  <2>2. CASE j \in Living /\ Dies(j)
    BY <1>2, <2>1, <2>2
  <2>3. CASE j \notin Living /\ UNCHANGED <<procs, news>>
    <3>1. Announced' = Announced /\ i # j
      BY <2>3 DEF Announced, Living, Pids
    <3> QED BY <1>1, <2>1, <2>3, <3>1 DEF Under
  <2> QED BY <1>5, <2>2, <2>3 DEF Quit, Crash
<1>6. CASE StemStart \/ StemCrash
  <2>1. UNCHANGED <<wanted, procs, quits>>
    BY <1>6 DEF StemStart, StemCrash, morphVars
  <2>2. \E e \in [kind : {"up", "down", "stem", "stemDown"}, who : Nat] :
          news' = Append(news, e)
    BY <1>0, <1>6 DEF StemStart, StemCrash, Event, IInv, MorphPart, None
  <2>3. Under(Event("up", i)) => Under(Event("up", i))'
    BY <2>2, NewsKept DEF Under
  <2> QED BY <1>1, <2>1, <2>3 DEF Announced, Pids
<1>7. CASE Spawn
  <2>1. procs' = Append(procs, "starting") /\ procs \in Seq(States) /\ "starting" \in States
        /\ UNCHANGED <<wanted, quits, news>>
    BY <1>7 DEF Spawn, IInv, ProcsPart, States, morphVars
  <2>2. Announced' \subseteq Announced
    BY <2>1, Appended DEF Announced, Pids
  <2> QED BY <1>1, <2>1, <2>2 DEF Under
<1>8. CASE Kill
  BY <1>2, <1>3, <1>8 DEF Kill, morphVars
<1>9. CASE Listen
  <2>1. news # <<>> /\ news' = Tail(news) /\ UNCHANGED <<wanted, procs>> /\ quits \subseteq quits'
    BY <1>9 DEF Listen, StemConnected, StemDisconnected, ProcessConnected, ProcessDisconnected,
                Hear, stemVars
  <2>2. Event("up", i) # Head(news) => i \in quits' \/ Under(Event("up", i))'
    BY <1>1, <2>1, UnderKept DEF Announced, Pids
  <2>3. CASE ProcessConnected
    <3>1. Event("up", i) = Head(news) => i \in quits'
      BY <2>1, <2>3, EventsDiffer DEF ProcessConnected, Unwanted, Who
    <3> QED BY <2>2, <3>1
  <2>4. CASE ~ProcessConnected
    BY <1>9, <2>2, <2>4, EventsDiffer DEF Listen, StemConnected, StemDisconnected,
       ProcessDisconnected, Hear
  <2> QED BY <2>3, <2>4
<1>10. CASE Remove
  <2>1. UNCHANGED <<procs, news>> /\ quits' = quits \cup {online} /\ online # None
    BY <1>10 DEF Remove
  <2>2. i \in Announced /\ \A j \in Announced : i = j
    BY <2>1 DEF Announced, Pids, IInv, ProcsPart
  <2>3. CASE online \in Announced
    BY <2>1, <2>2, <2>3
  <2>4. CASE online \notin Announced
    <3>1. PICK k \in DOMAIN news : news[k] = Event("down", online)
      BY <2>1, <2>4 DEF IInv, OnlinePart
    <3>2. \E m \in DOMAIN news : m > k /\ news[m] = Event("up", i)
      BY <2>2, <3>1, EventsDiffer DEF IInv, NewsPart
    <3> QED BY <2>1, <3>2 DEF Under
  <2> QED BY <2>3, <2>4
<1>11. CASE Create \/ Restart
  BY <1>11 DEF Create, Restart
<1>12. CASE UNCHANGED vars
  BY <1>3, <1>12 DEF vars, morphVars
<1> QED BY <1>4, <1>5, <1>6, <1>7, <1>8, <1>9, <1>10, <1>11, <1>12 DEF Next, Execute

\* The invariant of what is under way.
LEMMA AlwaysComing == Spec => [](IInv /\ StemHeard /\ Coming /\ Leaving)
<1>1. Init => IInv /\ StemPart /\ StemHeard /\ Coming /\ Leaving
  BY InitIInv, InitComing
<1>2. IInv /\ StemPart /\ StemHeard /\ Coming /\ Leaving /\ [Next]_vars
        => IInv' /\ StemPart' /\ StemHeard' /\ Coming' /\ Leaving'
  BY NextIInv, NextHeard, NextComing, NextLeaving
<1> QED BY <1>1, <1>2, PTL DEF Spec

\* When nothing is under way, a process that the project keeps is online if its machine
\* has a stem cell, whatever died before, unless it died when nobody had heard of it
\* ("Restart process", Morph.lua). It is the part of EventuallyOnline that is not
\* liveness.
THEOREM KeptRuns == Spec => []WantedIsOnline
  BY AlwaysComing, QuietIsEnough, PTL

\* When nothing is under way, nothing lives that the project does not keep: what was
\* removed has been told to quit, also a second process that registered later
\* ("Invalid process. Kill.", Morph.lua). It is the part of RemovedEnds that is not
\* liveness.
THEOREM RemovedIsKilled == Spec => []RemovedIsGone
  BY AlwaysComing, QuietIsEnough, PTL
=============================================================================
