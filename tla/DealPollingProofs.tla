------------------------- MODULE DealPollingProofs -------------------------
(***************************************************************************)
(* Theorems of DealPolling, for any number of deals, of minutes and of     *)
(* gateway objects.                                                        *)
(***************************************************************************)
EXTENDS DealPolling, TLAPS, WellFoundedInduction

\* The gateway objects to come are new, and nothing refers to them.
Untouched ==
  /\ attaching <= active
  /\ detaching.object <= active
  /\ \A g \in Gateways : g > active =>
       /\ gateway[g] = Fresh
       /\ \A d \in Deals : journal[<<g, d>>] = 0 /\ <<g, d>> \notin writing

\* A deal with a row is one its gateway has seen, or the gateway died with a
\* server and polls no more; one being written is seen and has no row yet.
Retired(g) == g < active /\ gateway[g].task = "none" /\ attaching # g

RowsAreSeen ==
  \A g \in Gateways, d \in Deals :
    /\ journal[<<g, d>>] \in {0, 1}
    /\ journal[<<g, d>>] # 0 => d \in gateway[g].seen \/ Retired(g)
    /\ <<g, d>> \in writing => d \in gateway[g].seen /\ journal[<<g, d>>] = 0

\* One request at a time: a poller has a session until it is cancelled, and a
\* session has a poller but while it is opened or closed.
PollersHaveSessions ==
  /\ \A g \in Gateways : gateway[g].task # "none" => gateway[g].attached /\ gateway[g].task # "ended"
  /\ attaching # 0 => detaching = NoDetach /\ gateway[attaching].attached
  /\ detaching.at = "session" => gateway[detaching.object].task = "none"
  /\ gateway[active].attached =>
       Running(active) \/ attaching = active \/ detaching.object = active

-----------------------------------------------------------------------------
(* Types *)

\* A set of naturals that is not empty has a least element, which Min chooses.
LEMMA MinExists ==
  ASSUME NEW S \in SUBSET Nat, S # {}
  PROVE  Min(S) \in S
<1>1. PICK x \in S : \A y \in S : <<y, x>> \notin OpToRel(<, Nat)
  BY WFMin, NatLessThanWellFounded
<1>2. \A y \in S : x =< y
  <2>1. TAKE y \in S
  <2>2. ~(y < x)
    BY <1>1 DEF OpToRel
  <2>3. QED BY <2>2
<1>3. QED BY <1>2 DEF Min

LEMMA FreshType == Fresh \in Object
BY DealAssumption DEF Fresh, Object, Task, Deals

LEMMA SetType ==
  ASSUME TypeOK, NEW g \in Gateways, NEW o \in Object, Set(g, o)
  PROVE  gateway' \in [Gateways -> Object]
BY DEF Set, TypeOK

\* A new object stands where it is set, and nowhere else.
LEMMA SetOne ==
  ASSUME TypeOK, NEW g \in Gateways, NEW o, Set(g, o)
  PROVE  gateway'[g] = o /\ \A h \in Gateways \ {g} : gateway'[h] = gateway[h]
BY DEF Set, TypeOK

\* The deal a report hands over is one of the batch the gateway had not seen.
LEMMA ReportedDeal ==
  ASSUME TypeOK, NEW g \in Gateways, Unseen(g) # {}
  PROVE  Min(Unseen(g)) \in Unseen(g) /\ Unseen(g) \subseteq Deals
<1>1. Unseen(g) \subseteq Deals
  BY DEF TypeOK, Object, Unseen
<1>2. QED BY <1>1, MinExists DEF Deals

LEMMA ReportType ==
  ASSUME TypeOK, NEW g \in Gateways, Report(g)
  PROVE  gateway' \in [Gateways -> Object] /\ writing' \subseteq Gateways \X Deals
<1>0. gateway[g] \in Object /\ Unseen(g) \subseteq Deals
  BY DEF TypeOK, Object, Unseen
<1>1. ASSUME NEW d \in Deals,
             Set(g, [gateway[g] EXCEPT !.task = "reporting", !.current = d,
                                       !.seen = SeenWith(g, d), !.batch = @ \ {d}]),
             writing' = writing \cup {<<g, d>>}
      PROVE  gateway' \in [Gateways -> Object] /\ writing' \subseteq Gateways \X Deals
  <2>1. [gateway[g] EXCEPT !.task = "reporting", !.current = d,
                           !.seen = SeenWith(g, d), !.batch = @ \ {d}] \in Object
    BY <1>0 DEF Object, Task, SeenWith
  <2>2. QED BY <1>1, <2>1, SetType DEF TypeOK
<1>2. ASSUME Set(g, [gateway[g] EXCEPT !.task = "asleep", !.current = 0, !.batch = {},
                                       !.seen = @ \cup Unseen(g)]),
             UNCHANGED writing
      PROVE  gateway' \in [Gateways -> Object] /\ writing' \subseteq Gateways \X Deals
  <2>1. [gateway[g] EXCEPT !.task = "asleep", !.current = 0, !.batch = {},
                           !.seen = @ \cup Unseen(g)] \in Object
    BY <1>0 DEF Object, Task
  <2>2. QED BY <1>2, <2>1, SetType DEF TypeOK
<1>3. QED BY <1>1, <1>2, ReportedDeal DEF Report

LEMMA TypeNext == TypeOK /\ [Next]_vars => TypeOK'
<1> SUFFICES ASSUME TypeOK, [Next]_vars PROVE TypeOK'
  OBVIOUS
<1> USE DealAssumption
<1>0. \A g \in Gateways : gateway[g] \in Object
  BY DEF TypeOK
<1>a. active \in Gateways /\ (attaching # 0 => attaching \in Gateways)
  BY DEF TypeOK
<1>1. CASE Deal
  <2>1. made' \in [Deals -> -1..MaxNow]
    <3>1. PICK d \in Deals : made' = [made EXCEPT ![d] = now]
      BY <1>1 DEF Deal
    <3>2. now \in -1..MaxNow
      BY DEF TypeOK
    <3>3. QED BY <3>1, <3>2 DEF TypeOK
  <2>2. QED BY <1>1, <2>1 DEF Deal, TypeOK, requestVars, resultVars
<1>2. CASE Minute \/ Outage \/ Recover
  <2>1. now' \in 0..MaxNow /\ alive' \in BOOLEAN
    <3>1. CASE Minute
      BY <3>1 DEF Minute, TypeOK
    <3>2. CASE Outage \/ Recover
      BY <3>2 DEF Outage, Recover, TypeOK
    <3>3. QED BY <1>2, <3>1, <3>2
  <2>2. QED BY <1>2, <2>1 DEF Minute, Outage, Recover, TypeOK, requestVars, resultVars
<1>3. CASE Attach
  <2>1. [gateway[active] EXCEPT !.attached = TRUE] \in Object
    BY <1>0, <1>a DEF Object
  <2>2. gateway' \in [Gateways -> Object]
    BY <1>3, <1>a, <2>1, SetType DEF Attach
  <2>3. QED BY <1>3, <1>a, <2>2 DEF Attach, TypeOK, terminalVars, resultVars
<1>4. CASE StartPolling
  <2>1. gateway' \in [Gateways -> Object]
    <3>1. CASE Set(attaching, [gateway[attaching] EXCEPT !.task = "asleep", !.since = Horizon])
      <4>1. Horizon \in -1..MaxNow
        BY DEF Horizon, TypeOK
      <4>2. attaching \in Gateways
        BY <1>4, <1>a DEF StartPolling
      <4>3. [gateway[attaching] EXCEPT !.task = "asleep", !.since = Horizon] \in Object
        BY <1>0, <4>1, <4>2 DEF Object, Task
      <4>4. QED BY <3>1, <4>2, <4>3, SetType
    <3>2. QED BY <1>4, <3>1 DEF StartPolling, TypeOK
  <2>2. QED BY <1>4, <2>1 DEF StartPolling, TypeOK, terminalVars, resultVars
<1>5. CASE Wire \/ Unwire
  <2>1. /\ [gateway[active] EXCEPT !.wired = TRUE] \in Object
        /\ [gateway[active] EXCEPT !.wired = FALSE] \in Object
    BY <1>0, <1>a DEF Object
  <2>2. gateway' \in [Gateways -> Object]
    BY <1>5, <1>a, <2>1, SetType DEF Wire, Unwire
  <2>3. QED BY <1>5, <2>2 DEF Wire, Unwire, TypeOK, terminalVars, requestVars, resultVars
<1>6. CASE Detach
  BY <1>6 DEF Detach, TypeOK, terminalVars, resultVars
<1>7. CASE StopPolling \/ DropSession
  <2>1. detaching \in [object : Gateways, at : {"streams", "session"}]
    BY <1>7 DEF StopPolling, DropSession, TypeOK, NoDetach
  <2>2. /\ detaching.object \in Gateways
        /\ [detaching EXCEPT !.at = "session"] \in [object : Gateways, at : {"streams", "session"}]
    BY <2>1
  <2>3. /\ [gateway[detaching.object] EXCEPT !.task = "none", !.batch = {}, !.current = 0] \in Object
        /\ [gateway[detaching.object] EXCEPT !.attached = FALSE] \in Object
    <3>1. \A o \in Object :
            /\ [o EXCEPT !.task = "none", !.batch = {}, !.current = 0] \in Object
            /\ [o EXCEPT !.attached = FALSE] \in Object
      BY DEF Object, Task
    <3>2. QED BY <1>0, <2>2, <3>1
  <2>4. gateway' \in [Gateways -> Object]
    BY <1>7, <2>2, <2>3, SetType DEF StopPolling, DropSession, Cancel
  <2>5. detaching' \in [object : Gateways, at : {"streams", "session"}] \cup {NoDetach}
    BY <1>7, <2>2 DEF StopPolling, DropSession
  <2>6. QED BY <1>7, <2>4, <2>5 DEF StopPolling, DropSession, TypeOK, terminalVars, resultVars
<1>8. CASE Select
  BY <1>8 DEF Select, TypeOK, Gateways, terminalVars, resultVars
<1>9. CASE Restart
  BY <1>9, FreshType DEF Restart, TypeOK, Gateways, terminalVars, resultVars
<1>10. ASSUME NEW g \in Gateways, Poll(g) PROVE TypeOK'
  <2>1. /\ [gateway[g] EXCEPT !.task = "ended"] \in Object
        /\ [gateway[g] EXCEPT !.task = "reading",
              !.batch = {d \in Deals : made[d] >= gateway[g].since /\ made[d] # -1}] \in Object
    BY <1>0 DEF Object, Task
  <2>2. gateway' \in [Gateways -> Object]
    BY <1>10, <2>1, SetType DEF Poll
  <2>3. QED BY <1>10, <2>2 DEF Poll, TypeOK, terminalVars, requestVars, resultVars
<1>11. ASSUME NEW g \in Gateways, HandOver(g) \/ Resume(g) PROVE TypeOK'
  BY <1>11, ReportType DEF HandOver, Resume, TypeOK, terminalVars, requestVars, resultVars
<1>12. ASSUME NEW x \in writing, RecordTrade(x) \/ RecordFails(x) PROVE TypeOK'
  <2>1. x \in Gateways \X Deals
    BY DEF TypeOK
  <2>2. journal' \in [Gateways \X Deals -> Nat]
    BY <1>12, <2>1 DEF RecordTrade, RecordFails, TypeOK
  <2>3. QED BY <1>12, <2>1, <2>2 DEF RecordTrade, RecordFails, TypeOK, terminalVars, requestVars
<1>13. CASE UNCHANGED vars
  BY <1>13 DEF vars, TypeOK
<1>14. QED
  BY <1>1, <1>2, <1>3, <1>4, <1>5, <1>6, <1>7, <1>8, <1>9, <1>10, <1>11, <1>12, <1>13 DEF Next

\* Every variable keeps its type, under every fault.
THEOREM TypeCorrect == Spec => []TypeOK
<1>1. Init => TypeOK
  BY FreshType, DealAssumption DEF Init, TypeOK, Gateways
<1>2. QED BY <1>1, TypeNext, PTL DEF Spec

-----------------------------------------------------------------------------
(* The objects to come *)

LEMMA References ==
  ASSUME TypeOK
  PROVE  /\ active \in Int /\ 0 < active /\ attaching \in Int /\ detaching.object \in Int
         /\ \A g \in Gateways : g \in Int /\ g # 0
         /\ detaching # NoDetach => detaching.object \in Gateways
         /\ active \in Gateways /\ (attaching # 0 => attaching \in Gateways)
         /\ NoDetach.object = 0 /\ NoDetach.at = "idle"
BY DEF TypeOK, Gateways, NoDetach

LEMMA UntouchedNext ==
  ASSUME TypeOK, Untouched, [Next]_vars
  PROVE  Untouched'
<1> USE References
<1>0. /\ Fresh.task = "none" /\ ~Fresh.wired /\ ~Fresh.attached
      /\ \A g \in Gateways : g > active => ~Running(g)
  BY DEF Fresh, Untouched, Running
\* What is set is the object of a request, the active one or one that runs.
<1>s. ASSUME NEW g \in Gateways, NEW o, Set(g, o), g <= active, active' = active,
             attaching' \in {0, attaching, active},
             detaching'.object \in {0, detaching.object, active},
             journal' = journal,
             writing' = writing \/ \E d : writing' = writing \cup {<<g, d>>}
      PROVE  Untouched'
  <2>1. \A h \in Gateways : h > active => h # g /\ gateway'[h] = gateway[h]
    BY <1>s, SetOne
  <2>2. \A h \in Gateways, d \in Deals : h > active => <<h, d>> \notin writing'
    BY <1>s, <2>1 DEF Untouched
  <2>3. attaching' <= active' /\ detaching'.object <= active'
    BY <1>s DEF Untouched
  <2>4. QED BY <1>s, <2>1, <2>2, <2>3 DEF Untouched
<1>k. ASSUME UNCHANGED <<gateway, active, attaching, journal>>, writing' \subseteq writing,
             detaching'.object \in {0, detaching.object, active}
      PROVE  Untouched'
  <2>1. attaching' <= active' /\ detaching'.object <= active'
    BY <1>k DEF Untouched
  <2>2. QED BY <1>k, <2>1 DEF Untouched
<1>1. CASE Deal \/ Minute \/ Outage \/ Recover \/ UNCHANGED vars
  BY <1>1, <1>k DEF Deal, Minute, Outage, Recover, vars, requestVars, resultVars
<1>2. CASE Attach
  BY <1>2, <1>s DEF Attach, resultVars
<1>3. CASE StartPolling
  <2>1. attaching \in Gateways /\ attaching <= active
    BY <1>3 DEF StartPolling, Untouched
  <2>2. CASE Set(attaching, [gateway[attaching] EXCEPT !.task = "asleep", !.since = Horizon])
    BY <1>3, <1>s, <2>1, <2>2 DEF StartPolling, resultVars
  <2>3. CASE UNCHANGED gateway
    <3>1. UNCHANGED <<gateway, active, detaching, journal, writing>> /\ attaching' = 0
      BY <1>3, <2>3 DEF StartPolling, resultVars
    <3>2. attaching' <= active'
      BY <3>1
    <3>3. QED BY <3>1, <3>2 DEF Untouched
  <2>4. QED BY <1>3, <2>2, <2>3 DEF StartPolling
<1>4. CASE Wire \/ Unwire
  BY <1>4, <1>s DEF Wire, Unwire, requestVars, resultVars
<1>5. CASE Detach
  <2>1. detaching'.object = active
    BY <1>5 DEF Detach
  <2>2. QED BY <1>5, <1>k, <2>1 DEF Detach, resultVars
<1>6. CASE StopPolling
  <2>1. detaching \in [object : Gateways, at : {"streams", "session"}]
    BY <1>6 DEF StopPolling, TypeOK
  <2>2. detaching.object \in Gateways /\ detaching.object <= active
    BY <2>1 DEF Untouched
  <2>3. detaching'.object = detaching.object
    BY <1>6, <2>1 DEF StopPolling
  <2>4. QED BY <1>6, <1>s, <2>2, <2>3 DEF StopPolling, Cancel, resultVars
<1>7. CASE DropSession
  <2>1. detaching.object \in Gateways /\ detaching.object <= active
    BY <1>7 DEF DropSession, Untouched
  <2>2. QED BY <1>7, <1>s, <2>1 DEF DropSession, resultVars
<1>8. CASE Select
  BY <1>8 DEF Select, Untouched, resultVars
<1>9. CASE Restart
  <2>1. /\ active' = active + 1 /\ gateway' = [g \in Gateways |-> Fresh] /\ attaching' = 0
        /\ detaching' = NoDetach /\ writing' = {} /\ journal' = journal
    BY <1>9 DEF Restart, resultVars
  <2>2. attaching' <= active' /\ detaching'.object <= active'
    BY <2>1
  <2>3. \A g \in Gateways : g > active' => g > active
    BY <2>1
  <2>4. QED BY <2>1, <2>2, <2>3 DEF Untouched
<1>10. ASSUME NEW g \in Gateways, Poll(g) PROVE Untouched'
  <2>1. g <= active
    BY <1>0, <1>10 DEF Poll, Running
  <2>2. \E o : Set(g, o)
    BY <1>10 DEF Poll
  <2>3. QED BY <1>10, <1>s, <2>1, <2>2 DEF Poll, requestVars, resultVars
<1>11. ASSUME NEW g \in Gateways, HandOver(g) \/ Resume(g) PROVE Untouched'
  <2>1. g <= active
    BY <1>0, <1>11 DEF HandOver, Resume, Running
  <2>2. /\ \E o : Set(g, o)
        /\ writing' = writing \/ \E d : writing' = writing \cup {<<g, d>>}
    BY <1>11 DEF HandOver, Resume, Report
  <2>3. QED BY <1>11, <1>s, <2>1, <2>2 DEF HandOver, Resume, requestVars, resultVars
<1>12. ASSUME NEW x \in writing, RecordTrade(x) PROVE Untouched'
  <2>1. PICK h \in Gateways, e \in Deals : x = <<h, e>>
    BY DEF TypeOK
  <2>2. h <= active
    BY <2>1 DEF Untouched
  <2>3. \A g \in Gateways, d \in Deals : g > active => journal'[<<g, d>>] = journal[<<g, d>>]
    BY <1>12, <2>1, <2>2 DEF RecordTrade, TypeOK
  <2>4. QED BY <1>12, <2>3 DEF RecordTrade, Untouched, requestVars
<1>13. ASSUME NEW x, RecordFails(x) PROVE Untouched'
  BY <1>13, <1>k DEF RecordFails, requestVars
<1>14. QED
  BY <1>1, <1>2, <1>3, <1>4, <1>5, <1>6, <1>7, <1>8, <1>9, <1>10, <1>11, <1>12, <1>13 DEF Next

-----------------------------------------------------------------------------
(* Rows and what a gateway has seen *)

\* A step that writes no row and forgets nothing seen.
LEMMA RowsKept ==
  ASSUME RowsAreSeen, journal' = journal, writing' \subseteq writing,
         \A g \in Gateways : /\ gateway[g].seen \subseteq gateway'[g].seen
                             /\ Retired(g) => Retired(g)'
  PROVE  RowsAreSeen'
BY DEF RowsAreSeen

LEMMA ReportRows ==
  ASSUME TypeOK, RowsAreSeen, NEW g \in Gateways, Running(g), Report(g),
         UNCHANGED <<journal, active, attaching>>
  PROVE  RowsAreSeen'
<1>0. gateway[g] \in Object /\ ~Retired(g)
  BY DEF TypeOK, Retired, Running
<1>1. \A h \in Gateways \ {g} : gateway'[h] = gateway[h]
  BY SetOne DEF Report
<1>2. ASSUME NEW d \in Deals, d \notin gateway[g].seen,
             Set(g, [gateway[g] EXCEPT !.task = "reporting", !.current = d,
                                       !.seen = SeenWith(g, d), !.batch = @ \ {d}]),
             writing' = writing \cup {<<g, d>>}
      PROVE  RowsAreSeen'
  <2>1. gateway'[g] = [gateway[g] EXCEPT !.task = "reporting", !.current = d,
                                         !.seen = SeenWith(g, d), !.batch = @ \ {d}]
    BY <1>2, SetOne
  <2>2. gateway'[g].seen = gateway[g].seen \cup {d}
    BY <1>0, <2>1 DEF Object, SeenWith
  <2>3. journal[<<g, d>>] = 0
    BY <1>0, <1>2 DEF RowsAreSeen
  <2>4. ASSUME NEW h \in Gateways, NEW e \in Deals
        PROVE  /\ journal'[<<h, e>>] \in {0, 1}
               /\ journal'[<<h, e>>] # 0 => e \in gateway'[h].seen \/ Retired(h)'
               /\ <<h, e>> \in writing' => e \in gateway'[h].seen /\ journal'[<<h, e>>] = 0
    <3>1. /\ journal[<<h, e>>] \in {0, 1}
          /\ journal[<<h, e>>] # 0 => e \in gateway[h].seen \/ Retired(h)
          /\ <<h, e>> \in writing => e \in gateway[h].seen /\ journal[<<h, e>>] = 0
      BY DEF RowsAreSeen
    <3>2. gateway[h].seen \subseteq gateway'[h].seen /\ (Retired(h) => Retired(h)')
      BY <1>0, <1>1, <2>2 DEF Retired
    <3>3. <<h, e>> \in writing' => <<h, e>> \in writing \/ (h = g /\ e = d)
      BY <1>2
    <3>4. QED BY <2>2, <2>3, <3>1, <3>2, <3>3
  <2>5. QED BY <2>4 DEF RowsAreSeen
<1>3. ASSUME Set(g, [gateway[g] EXCEPT !.task = "asleep", !.current = 0, !.batch = {},
                                       !.seen = @ \cup Unseen(g)]),
             UNCHANGED writing
      PROVE  RowsAreSeen'
  <2>1. gateway'[g] = [gateway[g] EXCEPT !.task = "asleep", !.current = 0, !.batch = {},
                                         !.seen = @ \cup Unseen(g)]
    BY <1>3, SetOne
  <2>2. gateway[g].seen \subseteq gateway'[g].seen
    BY <1>0, <2>1 DEF Object
  <2>3. QED BY <1>0, <1>1, <1>3, <2>2, RowsKept DEF Retired
<1>4. Unseen(g) # {} => Min(Unseen(g)) \in Deals /\ Min(Unseen(g)) \notin gateway[g].seen
  BY ReportedDeal DEF Unseen
<1>5. QED BY <1>2, <1>3, <1>4 DEF Report

LEMMA RowsNext ==
  ASSUME TypeOK, Untouched, RowsAreSeen, [Next]_vars
  PROVE  RowsAreSeen'
<1> USE References
<1>0. \A g \in Gateways : gateway[g] \in Object
  BY DEF TypeOK
\* An object set elsewhere than in what it has seen, by a request or its poller.
<1>s. ASSUME NEW g \in Gateways, NEW o, Set(g, o), o.seen = gateway[g].seen,
             UNCHANGED <<active, journal, writing>>,
             attaching' \in {0, attaching, active},
             Retired(g) => o.task = "none"
      PROVE  RowsAreSeen'
  <2>1. gateway'[g] = o /\ \A h \in Gateways \ {g} : gateway'[h] = gateway[h]
    BY <1>s, SetOne
  <2>2. \A h \in Gateways : Retired(h) => Retired(h)'
    BY <1>s, <2>1 DEF Retired
  <2>3. QED BY <1>s, <2>1, <2>2, RowsKept
<1>k. ASSUME UNCHANGED <<gateway, active, attaching, journal>>, writing' \subseteq writing
      PROVE  RowsAreSeen'
  BY <1>k, RowsKept DEF Retired
<1>1. CASE Deal \/ Minute \/ Outage \/ Recover \/ Detach \/ UNCHANGED vars
  BY <1>1, <1>k DEF Deal, Minute, Outage, Recover, Detach, vars, requestVars, resultVars
<1>2. CASE Attach
  <2>1. /\ [gateway[active] EXCEPT !.attached = TRUE].seen = gateway[active].seen
        /\ ~Retired(active)
    BY <1>0 DEF Object, Retired
  <2>2. QED BY <1>2, <1>s, <2>1 DEF Attach, resultVars
<1>3. CASE StartPolling
  <2>1. attaching \in Gateways /\ ~Retired(attaching)
    BY <1>3 DEF StartPolling, Retired
  <2>2. CASE Set(attaching, [gateway[attaching] EXCEPT !.task = "asleep", !.since = Horizon])
    <3>1. [gateway[attaching] EXCEPT !.task = "asleep", !.since = Horizon].seen
            = gateway[attaching].seen
      BY <1>0, <2>1 DEF Object
    <3>2. QED BY <1>3, <1>s, <2>1, <2>2, <3>1 DEF StartPolling, resultVars
  <2>3. CASE UNCHANGED gateway
    <3>1. \A g \in Gateways : Retired(g) => Retired(g)'
      BY <1>3, <2>3 DEF StartPolling, Retired
    <3>2. QED BY <1>3, <2>3, <3>1, RowsKept DEF StartPolling, resultVars
  <2>4. QED BY <1>3, <2>2, <2>3 DEF StartPolling
<1>4. CASE Wire \/ Unwire
  <2>1. /\ [gateway[active] EXCEPT !.wired = TRUE].seen = gateway[active].seen
        /\ [gateway[active] EXCEPT !.wired = FALSE].seen = gateway[active].seen
        /\ ~Retired(active)
    BY <1>0 DEF Object, Retired
  <2>2. QED BY <1>4, <1>s, <2>1 DEF Wire, Unwire, requestVars, resultVars
<1>5. CASE StopPolling \/ DropSession
  <2>1. detaching.object \in Gateways
    BY <1>5 DEF StopPolling, DropSession
  <2>2. PICK g \in Gateways : g = detaching.object
    BY <2>1
  <2>3. /\ [gateway[g] EXCEPT !.task = "none", !.batch = {}, !.current = 0].seen = gateway[g].seen
        /\ [gateway[g] EXCEPT !.task = "none", !.batch = {}, !.current = 0].task = "none"
        /\ [gateway[g] EXCEPT !.attached = FALSE].seen = gateway[g].seen
        /\ [gateway[g] EXCEPT !.attached = FALSE].task = gateway[g].task
    BY <1>0 DEF Object
  <2>4. QED BY <1>5, <1>s, <2>2, <2>3 DEF StopPolling, DropSession, Cancel, Retired, resultVars
<1>6. CASE Select
  <2>1. \A g \in Gateways : Retired(g) => Retired(g)'
    BY <1>6 DEF Select, Retired
  <2>2. QED BY <1>6, <2>1, RowsKept DEF Select, resultVars
\* A restart forgets what was seen and retires every object there was.
<1>7. CASE Restart
  <2>1. \A g \in Gateways : g <= active => Retired(g)'
    BY <1>7 DEF Restart, Retired, Fresh
  <2>2. \A g \in Gateways, d \in Deals : journal'[<<g, d>>] # 0 => g <= active
    BY <1>7 DEF Restart, Untouched, resultVars
  <2>3. QED BY <1>7, <2>1, <2>2 DEF Restart, RowsAreSeen, resultVars
<1>8. ASSUME NEW g \in Gateways, Poll(g) PROVE RowsAreSeen'
  <2>1. /\ [gateway[g] EXCEPT !.task = "ended"].seen = gateway[g].seen
        /\ \A b : [gateway[g] EXCEPT !.task = "reading", !.batch = b].seen = gateway[g].seen
        /\ ~Retired(g)
    BY <1>0, <1>8 DEF Object, Retired, Poll
  <2>2. \E o : Set(g, o) /\ o.seen = gateway[g].seen
    BY <1>8, <2>1 DEF Poll
  <2>3. QED BY <1>8, <1>s, <2>1, <2>2 DEF Poll, requestVars, resultVars
<1>9. ASSUME NEW g \in Gateways, HandOver(g) \/ Resume(g) PROVE RowsAreSeen'
  BY <1>9, ReportRows DEF HandOver, Resume, Running, requestVars, resultVars
<1>10. ASSUME NEW x \in writing, RecordTrade(x) PROVE RowsAreSeen'
  <2>1. PICK h \in Gateways, e \in Deals : x = <<h, e>>
    BY DEF TypeOK
  <2>2. journal[x] = 0 /\ e \in gateway[h].seen
    BY <2>1 DEF RowsAreSeen
  <2>3. /\ journal' = [journal EXCEPT ![x] = 1]
        /\ writing' = writing \ {x}
        /\ UNCHANGED <<gateway, active, attaching>>
    BY <1>10, <2>2 DEF RecordTrade, requestVars
  <2>4. \A g \in Gateways, d \in Deals :
          journal'[<<g, d>>] = IF <<g, d>> = x THEN 1 ELSE journal[<<g, d>>]
    BY <2>3 DEF TypeOK
  <2>5. ASSUME NEW g \in Gateways, NEW d \in Deals
        PROVE  /\ journal'[<<g, d>>] \in {0, 1}
               /\ journal'[<<g, d>>] # 0 => d \in gateway'[g].seen \/ Retired(g)'
               /\ <<g, d>> \in writing' => d \in gateway'[g].seen /\ journal'[<<g, d>>] = 0
    <3>1. /\ journal[<<g, d>>] \in {0, 1}
          /\ journal[<<g, d>>] # 0 => d \in gateway[g].seen \/ Retired(g)
          /\ <<g, d>> \in writing => d \in gateway[g].seen /\ journal[<<g, d>>] = 0
      BY DEF RowsAreSeen
    <3>2. Retired(g)' = Retired(g) /\ gateway'[g] = gateway[g]
      BY <2>3 DEF Retired
    <3>3. <<g, d>> = x => d \in gateway[g].seen
      BY <2>1, <2>2
    <3>4. QED BY <2>3, <2>4, <3>1, <3>2, <3>3
  <2>6. QED BY <2>5 DEF RowsAreSeen
<1>11. ASSUME NEW x, RecordFails(x) PROVE RowsAreSeen'
  BY <1>11, <1>k DEF RecordFails, requestVars
<1>12. QED
  BY <1>1, <1>2, <1>3, <1>4, <1>5, <1>6, <1>7, <1>8, <1>9, <1>10, <1>11 DEF Next

-----------------------------------------------------------------------------
(* Sessions and their pollers *)

LEMMA PollersNext ==
  ASSUME TypeOK, Untouched, PollersHaveSessions, "overlap" \notin Faults, [Next]_vars
  PROVE  PollersHaveSessions'
<1> USE References
<1>0. \A g \in Gateways : gateway[g] \in Object
  BY DEF TypeOK
<1>a. active \in Gateways /\ 0 \notin Gateways
  BY DEF TypeOK, Gateways
<1>p. ASSUME NEW g \in Gateways
      PROVE  /\ gateway[g].task # "none" => gateway[g].attached /\ gateway[g].task # "ended"
             /\ gateway[g].task \in Task
  BY <1>0 DEF PollersHaveSessions, Object
\* A poller that goes on: its object keeps its session, the others are as they were.
<1>r. ASSUME NEW g \in Gateways, NEW o, Set(g, o), Running(g),
             o.task \in {"asleep", "reading", "reporting"}, o.attached = gateway[g].attached,
             UNCHANGED <<active, attaching, detaching>>
      PROVE  PollersHaveSessions'
  <2>1. gateway'[g] = o /\ \A h \in Gateways \ {g} : gateway'[h] = gateway[h]
    BY <1>r, SetOne
  <2>2. \A h \in Gateways : /\ gateway'[h].attached = gateway[h].attached
                            /\ Running(h) => Running(h)'
                            /\ gateway[h].task = "none" => gateway'[h].task = "none"
                            /\ gateway'[h].task # "none" => gateway[h].task # "none" /\ gateway'[h].task # "ended"
    BY <1>p, <1>r, <2>1 DEF Running
  <2>3. detaching.at = "session" => detaching.object \in Gateways
    BY DEF TypeOK, NoDetach
  <2>4. QED BY <1>r, <2>2, <2>3 DEF PollersHaveSessions
<1>k. ASSUME UNCHANGED <<gateway, active, attaching, detaching>> PROVE PollersHaveSessions'
  BY <1>k DEF PollersHaveSessions, Running
<1>1. CASE Deal \/ Minute \/ Outage \/ Recover \/ UNCHANGED vars
  BY <1>1, <1>k DEF Deal, Minute, Outage, Recover, vars, requestVars
<1>2. CASE Attach
  <2>1. /\ gateway'[active] = [gateway[active] EXCEPT !.attached = TRUE]
        /\ \A h \in Gateways \ {active} : gateway'[h] = gateway[h]
    BY <1>2, SetOne DEF Attach
  <2>2. gateway'[active].attached /\ gateway'[active].task = gateway[active].task
    BY <1>0, <2>1 DEF Object
  <2>3. UNCHANGED <<active, detaching>> /\ attaching' = active /\ detaching = NoDetach
    BY <1>2 DEF Attach, MayOverlap
  <2>4. QED BY <2>1, <2>2, <2>3 DEF PollersHaveSessions
<1>3. CASE StartPolling
  <2>1. /\ attaching \in Gateways /\ gateway[attaching].attached /\ detaching = NoDetach
        /\ attaching' = 0 /\ UNCHANGED <<active, detaching>>
    BY <1>3 DEF StartPolling, PollersHaveSessions
  <2>2. PICK g \in Gateways : g = attaching
    BY <2>1
  <2>3. CASE Set(g, [gateway[g] EXCEPT !.task = "asleep", !.since = Horizon])
    <3>1. /\ gateway'[g] = [gateway[g] EXCEPT !.task = "asleep", !.since = Horizon]
          /\ \A h \in Gateways \ {g} : gateway'[h] = gateway[h]
      BY <2>3, SetOne
    <3>2. gateway'[g].attached = gateway[g].attached /\ gateway'[g].task = "asleep"
      BY <1>0, <3>1 DEF Object
    <3>3. ASSUME NEW h \in Gateways
          PROVE  /\ gateway'[h].task # "none" => gateway'[h].attached /\ gateway'[h].task # "ended"
                 /\ gateway'[h].attached = gateway[h].attached
      <4>1. CASE h = g
        BY <2>1, <2>2, <3>2, <4>1
      <4>2. CASE h # g
        <5>1. gateway'[h] = gateway[h]
          BY <3>1, <4>2
        <5>2. QED BY <1>p, <5>1
      <4>3. QED BY <4>1, <4>2
    <3>4. detaching'.at # "session"
      BY <2>1 DEF NoDetach
    <3>5. gateway'[active].attached => gateway'[active].task \in {"asleep", "reading", "reporting"}
      <4>1. CASE active = g
        BY <3>2, <4>1
      <4>2. CASE active # g
        <5>1. gateway'[active] = gateway[active] /\ detaching.object = 0 /\ active \in Gateways
          BY <2>1, <3>1, <4>2, <1>a DEF NoDetach
        <5>2. QED BY <2>1, <2>2, <4>2, <5>1, <1>a DEF PollersHaveSessions, Running
      <4>3. QED BY <4>1, <4>2
    <3>6. QED BY <2>1, <3>3, <3>4, <3>5 DEF PollersHaveSessions, Running
  <2>4. CASE gateway[g].task # "none" /\ UNCHANGED gateway
    <3>1. Running(g)
      BY <1>p, <2>4 DEF Running, Task
    <3>2. QED BY <2>1, <2>2, <2>4, <3>1 DEF PollersHaveSessions, Running
  <2>5. QED BY <1>3, <2>2, <2>3, <2>4 DEF StartPolling
<1>4. CASE Wire \/ Unwire
  <2>1. /\ \A h \in Gateways \ {active} : gateway'[h] = gateway[h]
        /\ \/ gateway'[active] = [gateway[active] EXCEPT !.wired = TRUE]
           \/ gateway'[active] = [gateway[active] EXCEPT !.wired = FALSE]
    BY <1>4, SetOne DEF Wire, Unwire
  <2>2. /\ gateway'[active].attached = gateway[active].attached
        /\ gateway'[active].task = gateway[active].task
    BY <1>0, <2>1 DEF Object
  <2>3. \A h \in Gateways : gateway'[h].attached = gateway[h].attached /\ gateway'[h].task = gateway[h].task
    BY <2>1, <2>2
  <2>4. UNCHANGED <<active, attaching, detaching>>
    BY <1>4 DEF Wire, Unwire, requestVars
  <2>5. detaching.at = "session" => detaching.object \in Gateways
    BY DEF TypeOK, NoDetach
  <2>6. QED BY <2>3, <2>4, <2>5 DEF PollersHaveSessions, Running
<1>5. CASE Detach
  <2>1. /\ UNCHANGED <<active, gateway, attaching>> /\ attaching = 0
        /\ detaching' = [object |-> active, at |-> "streams"]
    BY <1>5 DEF Detach, MayOverlap
  <2>2. detaching'.object = active /\ detaching'.at = "streams"
    BY <2>1
  <2>3. QED BY <2>1, <2>2 DEF PollersHaveSessions, Running
<1>6. CASE StopPolling
  <2>1. detaching \in [object : Gateways, at : {"streams", "session"}]
    BY <1>6 DEF StopPolling, TypeOK
  <2>2. PICK g \in Gateways : g = detaching.object
    BY <2>1
  <2>3. /\ gateway'[g] = [gateway[g] EXCEPT !.task = "none", !.batch = {}, !.current = 0]
        /\ \A h \in Gateways \ {g} : gateway'[h] = gateway[h]
    BY <1>6, <2>2, SetOne DEF StopPolling, Cancel
  <2>4. gateway'[g].task = "none" /\ gateway'[g].attached = gateway[g].attached
    BY <1>0, <2>3 DEF Object
  <2>5. /\ detaching'.object = g /\ detaching # NoDetach
        /\ UNCHANGED <<active, attaching>> /\ attaching = 0
    BY <1>6, <2>1, <2>2 DEF StopPolling, PollersHaveSessions, NoDetach
  <2>6. QED BY <2>2, <2>3, <2>4, <2>5 DEF PollersHaveSessions, Running
<1>7. CASE DropSession
  <2>1. PICK g \in Gateways : g = detaching.object
    BY <1>7 DEF DropSession
  <2>2. /\ gateway'[g] = [gateway[g] EXCEPT !.attached = FALSE]
        /\ \A h \in Gateways \ {g} : gateway'[h] = gateway[h]
    BY <1>7, <2>1, SetOne DEF DropSession
  <2>3. gateway[g].task = "none" /\ attaching = 0
    BY <1>7, <2>1 DEF DropSession, PollersHaveSessions
  <2>4. gateway'[g].task = "none" /\ ~gateway'[g].attached
    BY <1>0, <2>2, <2>3 DEF Object
  <2>5. UNCHANGED <<active, attaching>> /\ detaching' = NoDetach
    BY <1>7 DEF DropSession
  <2>6. QED BY <2>1, <2>2, <2>3, <2>4, <2>5 DEF PollersHaveSessions, Running
<1>8. CASE Select
  <2>1. active' \in Gateways /\ active' > active /\ UNCHANGED <<gateway, attaching, detaching>>
    <3>1. active \in 1..MaxGateways /\ MaxGateways \in Nat
      BY <1>a, DealAssumption DEF Gateways
    <3>2. QED BY <1>8, <3>1 DEF Select, Gateways
  <2>2. ~gateway[active'].attached
    BY <2>1 DEF Untouched, Fresh
  <2>3. QED BY <2>1, <2>2 DEF PollersHaveSessions
<1>9. CASE Restart
  <2>1. /\ active' \in Gateways /\ gateway' = [g \in Gateways |-> Fresh]
        /\ attaching' = 0 /\ detaching' = NoDetach
    <3>1. active \in 1..MaxGateways /\ MaxGateways \in Nat
      BY <1>a, DealAssumption DEF Gateways
    <3>2. QED BY <1>9, <3>1 DEF Restart, Gateways
  <2>2. \A g \in Gateways : gateway'[g].task = "none" /\ ~gateway'[g].attached
    BY <2>1 DEF Fresh
  <2>3. detaching'.at # "session"
    BY <2>1 DEF NoDetach
  <2>4. QED BY <2>1, <2>2, <2>3 DEF PollersHaveSessions
<1>10. ASSUME NEW g \in Gateways, Poll(g) PROVE PollersHaveSessions'
  <2>1. PICK b : Set(g, [gateway[g] EXCEPT !.task = "reading", !.batch = b])
    BY <1>10, <1>p DEF Poll
  <2>2. /\ [gateway[g] EXCEPT !.task = "reading", !.batch = b].task = "reading"
        /\ [gateway[g] EXCEPT !.task = "reading", !.batch = b].attached = gateway[g].attached
    BY <1>0 DEF Object
  <2>3. QED BY <1>10, <1>r, <2>1, <2>2 DEF Poll, Running, requestVars
<1>11. ASSUME NEW g \in Gateways, HandOver(g) \/ Resume(g) PROVE PollersHaveSessions'
  <2>1. \E o : /\ Set(g, o) /\ o.task \in {"asleep", "reporting"}
               /\ o.attached = gateway[g].attached
    <3>1. \A d, x, y :
            LET o == [gateway[g] EXCEPT !.task = "reporting", !.current = d, !.seen = x, !.batch = y]
            IN  o.task = "reporting" /\ o.attached = gateway[g].attached
      BY <1>0 DEF Object
    <3>2. \A x :
            LET o == [gateway[g] EXCEPT !.task = "asleep", !.current = 0, !.batch = {}, !.seen = x]
            IN  o.task = "asleep" /\ o.attached = gateway[g].attached
      BY <1>0 DEF Object
    <3>3. Report(g)
      BY <1>11 DEF HandOver, Resume
    <3>4. CASE \E d, x, y : Set(g, [gateway[g] EXCEPT !.task = "reporting", !.current = d,
                                                     !.seen = x, !.batch = y])
      <4>1. PICK d, x, y : Set(g, [gateway[g] EXCEPT !.task = "reporting", !.current = d,
                                                     !.seen = x, !.batch = y])
        BY <3>4
      <4> DEFINE o == [gateway[g] EXCEPT !.task = "reporting", !.current = d,
                                         !.seen = x, !.batch = y]
      <4>2. Set(g, o) /\ o.task = "reporting" /\ o.attached = gateway[g].attached
        BY <3>1, <4>1
      <4> HIDE DEF o
      <4>3. QED BY <4>2
    <3>5. CASE \E x : Set(g, [gateway[g] EXCEPT !.task = "asleep", !.current = 0,
                                               !.batch = {}, !.seen = x])
      BY <3>2, <3>5
    <3>6. QED BY <3>3, <3>4, <3>5 DEF Report
  <2>2. QED BY <1>11, <1>r, <2>1 DEF HandOver, Resume, Running, requestVars
<1>12. ASSUME NEW x, RecordTrade(x) \/ RecordFails(x) PROVE PollersHaveSessions'
  BY <1>12, <1>k DEF RecordTrade, RecordFails, requestVars
<1>13. QED
  BY <1>1, <1>2, <1>3, <1>4, <1>5, <1>6, <1>7, <1>8, <1>9, <1>10, <1>11, <1>12 DEF Next

-----------------------------------------------------------------------------
(* The theorems *)

\* A gateway object journals no deal twice, whatever is cancelled, reconnected,
\* selected or restarted, requests that overlap included.
THEOREM OncePerGatewayHolds == Spec => []OncePerGateway
<1>1. Init => Untouched /\ RowsAreSeen
  BY DealAssumption DEF Init, Untouched, RowsAreSeen, NoDetach
<1>2. TypeOK /\ Untouched /\ RowsAreSeen /\ [Next]_vars => Untouched' /\ RowsAreSeen'
  BY UntouchedNext, RowsNext
<1>3. TypeOK /\ RowsAreSeen => OncePerGateway
  <2> SUFFICES ASSUME RowsAreSeen, NEW x \in Gateways \X Deals PROVE journal[x] <= 1
    BY DEF OncePerGateway
  <2>1. PICK g \in Gateways, d \in Deals : x = <<g, d>>
    OBVIOUS
  <2>2. journal[<<g, d>>] \in {0, 1}
    BY DEF RowsAreSeen
  <2>3. QED BY <2>1, <2>2
<1>4. QED BY <1>1, <1>2, <1>3, TypeCorrect, PTL DEF Spec

\* A connected MetaTrader gateway has its poller, as long as the requests that
\* open and close sessions come one at a time.
THEOREM PollerAtWorkHolds ==
  ASSUME "overlap" \notin Faults
  PROVE  Spec => []PollerAtWork
<1>1. Init => Untouched /\ PollersHaveSessions
  BY DealAssumption DEF Init, Untouched, PollersHaveSessions, NoDetach, Fresh, Gateways
<1>2. TypeOK /\ Untouched /\ PollersHaveSessions /\ [Next]_vars
        => Untouched' /\ PollersHaveSessions'
  BY UntouchedNext, PollersNext
<1>3. TypeOK /\ PollersHaveSessions => PollerAtWork
  BY References DEF PollersHaveSessions, PollerAtWork, Connected
<1>4. QED BY <1>1, <1>2, <1>3, TypeCorrect, PTL DEF Spec
=============================================================================
