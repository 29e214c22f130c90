---------------------------- MODULE DealPolling ----------------------------
(***************************************************************************)
(* pyea/brokers/broker_metatrader.py: MetaTrader has no execution          *)
(* callback, so a task of the gateway polls the terminal's deal history    *)
(* and hands every deal it has not seen to the engine, which journals it   *)
(* in a thread.  BrokerRuntime holds the active gateway object: choosing   *)
(* another broker and coming back makes a new object, and so does a        *)
(* restart of the server; the deals stay in the terminal.                  *)
(*                                                                         *)
(*   none       _deals_task is None                                        *)
(*   asleep     the task sleeps until its next round                       *)
(*   reading    history_deals_get has answered, the task has not resumed   *)
(*   reporting  the task awaits the thread that journals `current`         *)
(*   ended      the task has returned, _deals_task still refers to it      *)
(*                                                                         *)
(* Abstractions.  Only PyEA's own deals, each an execution, are modelled.  *)
(* Time counts minutes.  live_runtime is the switch `wired` of the active  *)
(* gateway.  is_connected is read without its two-second cache.            *)
(***************************************************************************)
EXTENDS Integers, FiniteSets, FiniteSetsExt

CONSTANTS
  MaxDeals,      \* bound: deals the account makes
  MaxNow,        \* bound: minutes 0..MaxNow
  MaxGateways,   \* bound: gateway objects built
  Faults         \* what may happen besides one connection with its deals

Deals    == 1..MaxDeals
Gateways == 1..MaxGateways
FaultKinds == {"outage", "disconnect", "overlap", "select", "restart", "lostWrite"}

ASSUME DealAssumption ==
  /\ MaxDeals \in Nat
  /\ MaxNow \in Nat
  /\ MaxGateways \in Nat \ {0}
  /\ Faults \subseteq FaultKinds

VARIABLES
  now,         \* minutes elapsed
  made,        \* terminal: the minute of each deal, -1 when not made
  alive,       \* does the terminal answer?
  active,      \* BrokerRuntime._gateway
  gateway,     \* the gateway objects
  attaching,   \* the object whose connect awaits account_info, 0 when none
  detaching,   \* the object whose disconnect is in progress, and how far it is
  writing,     \* record_trade in threads: <<gateway, deal>>
  journal,     \* table trades: rows written for a deal through a gateway
  lost         \* history: the writes that raised

vars == <<now, made, alive, active, gateway, attaching, detaching, writing, journal,
          lost>>
terminalVars == <<now, made, alive>>
resultVars   == <<journal, lost>>
requestVars  == <<active, attaching, detaching>>

Task == {"none", "asleep", "reading", "reporting", "ended"}
Object ==
  [attached : BOOLEAN, wired : BOOLEAN, task : Task, since : -1..MaxNow,
   seen : SUBSET Deals, batch : SUBSET Deals, current : Deals \cup {0}]
Fresh == [attached |-> FALSE, wired |-> FALSE, task |-> "none", since |-> 0,
          seen |-> {}, batch |-> {}, current |-> 0]
NoDetach == [object |-> 0, at |-> "idle"]

Init ==
  /\ now = 0
  /\ made = [d \in Deals |-> -1]
  /\ alive = TRUE
  /\ active = 1
  /\ gateway = [g \in Gateways |-> Fresh]
  /\ attaching = 0
  /\ detaching = NoDetach
  /\ writing = {}
  /\ journal = [x \in Gateways \X Deals |-> 0]
  /\ lost = {}

Connected   == gateway[active].attached /\ alive
Running(g)  == gateway[g].task \in {"asleep", "reading", "reporting"}
Set(g, o)   == gateway' = [gateway EXCEPT ![g] = o]

-----------------------------------------------------------------------------
(* The terminal *)

\* The account executes an order of PyEA, or a stop attached to one.
Deal ==
  /\ \E d \in Deals :
       /\ made[d] = -1
       /\ \A e \in 1..(d - 1) : made[e] # -1
       /\ made' = [made EXCEPT ![d] = now]
  /\ UNCHANGED <<now, alive, gateway, requestVars, writing, resultVars>>

Minute ==
  /\ now < MaxNow
  /\ now' = now + 1
  /\ UNCHANGED <<made, alive, gateway, requestVars, writing, resultVars>>

Outage ==
  /\ "outage" \in Faults
  /\ alive
  /\ alive' = FALSE
  /\ UNCHANGED <<now, made, gateway, requestVars, writing, resultVars>>

Recover ==
  /\ ~alive
  /\ alive' = TRUE
  /\ UNCHANGED <<now, made, gateway, requestVars, writing, resultVars>>

-----------------------------------------------------------------------------
(* connect, disconnect, select *)

MayOverlap(other) == other \/ "overlap" \in Faults

\* connect: initialize has succeeded.
Attach ==
  /\ alive
  /\ attaching = 0
  /\ MayOverlap(detaching = NoDetach)
  /\ attaching' = active
  /\ Set(active, [gateway[active] EXCEPT !.attached = TRUE])
  /\ UNCHANGED <<terminalVars, active, detaching, writing, resultVars>>

\* How far back a new poller looks: a minute before its connection.
Horizon == now - 1

\* _start_deal_polling, at the end of connect: a poller is started unless
\* _deals_task refers to one already.
StartPolling ==
  LET g == attaching IN
  /\ g # 0
  /\ attaching' = 0
  /\ \/ /\ gateway[g].task = "none"
        /\ Set(g, [gateway[g] EXCEPT !.task = "asleep", !.since = Horizon])
     \/ /\ gateway[g].task # "none"
        /\ UNCHANGED gateway
  /\ UNCHANGED <<terminalVars, active, detaching, writing, resultVars>>

\* live_runtime.start wires the engine to the gateway, live_runtime.stop unwires
\* it before the gateway is disconnected.
Wire ==
  /\ Connected
  /\ attaching = 0
  /\ ~gateway[active].wired
  /\ Set(active, [gateway[active] EXCEPT !.wired = TRUE])
  /\ UNCHANGED <<terminalVars, requestVars, writing, resultVars>>

Unwire ==
  /\ "disconnect" \in Faults
  /\ gateway[active].wired
  /\ Set(active, [gateway[active] EXCEPT !.wired = FALSE])
  /\ UNCHANGED <<terminalVars, requestVars, writing, resultVars>>

\* disconnect, while it cancels the price streams.
Detach ==
  /\ "disconnect" \in Faults
  /\ Connected
  /\ detaching = NoDetach
  /\ MayOverlap(attaching = 0)
  /\ detaching' = [object |-> active, at |-> "streams"]
  /\ UNCHANGED <<terminalVars, active, gateway, attaching, writing, resultVars>>

\* _stop_deal_polling: the poller is cancelled where it is suspended; a thread
\* it awaits goes on.
LeaveTask(g) == Set(g, [gateway[g] EXCEPT !.task = "ended", !.batch = {}])   \* mutant
Cancel(g)    == Set(g, [gateway[g] EXCEPT !.task = "none", !.batch = {}, !.current = 0])

StopPolling ==
  /\ detaching.at = "streams"
  /\ detaching' = [detaching EXCEPT !.at = "session"]
  /\ Cancel(detaching.object)
  /\ UNCHANGED <<terminalVars, active, attaching, writing, resultVars>>

\* disconnect, once the cancelled poller is over: the session goes.
DropSession ==
  /\ detaching.at = "session"
  /\ detaching' = NoDetach
  /\ Set(detaching.object, [gateway[detaching.object] EXCEPT !.attached = FALSE])
  /\ UNCHANGED <<terminalVars, active, attaching, writing, resultVars>>

\* BrokerRuntime.select of another broker and back: allowed when not connected,
\* whatever the abandoned object still runs.
Select ==
  /\ "select" \in Faults
  /\ ~Connected
  /\ active < MaxGateways
  /\ active' = active + 1
  /\ UNCHANGED <<terminalVars, gateway, attaching, detaching, writing, resultVars>>

\* The server dies and starts again; its objects, tasks and threads are gone.
Restart ==
  /\ "restart" \in Faults
  /\ active < MaxGateways
  /\ active' = active + 1
  /\ gateway' = [g \in Gateways |-> Fresh]
  /\ attaching' = 0
  /\ detaching' = NoDetach
  /\ writing' = {}
  /\ UNCHANGED <<terminalVars, resultVars>>

-----------------------------------------------------------------------------
(* _poll_deals, _report_new_deals *)

\* A round begins: a poller without session returns, a terminal that does not
\* answer leaves it asleep, another answers with the deals since the horizon.
Poll(g) ==
  /\ gateway[g].task = "asleep"
  /\ \/ /\ ~gateway[g].attached
        /\ Set(g, [gateway[g] EXCEPT !.task = "ended"])
     \/ /\ gateway[g].attached /\ alive
        /\ Set(g, [gateway[g] EXCEPT !.task = "reading",
                     !.batch = {d \in Deals : made[d] >= gateway[g].since /\ made[d] # -1}])
  /\ UNCHANGED <<terminalVars, requestVars, writing, resultVars>>

\* The deals of a batch the gateway has not seen.
Whole(g)  == gateway[g].batch                 \* mutant: reported at every round
Unseen(g) == gateway[g].batch \ gateway[g].seen

\* What is seen once deal d is handed over.
AllSeen(g, d) == gateway[g].seen \cup gateway[g].batch      \* mutant
SeenWith(g, d) == gateway[g].seen \cup {d}

\* The loop over the batch up to its next suspension: the next unseen deal is
\* handed to the engine, whose thread is awaited; without an engine the rest of
\* the batch is seen and dropped.
Report(g) ==
  \/ /\ Unseen(g) # {}
     /\ gateway[g].wired
     /\ LET d == Min(Unseen(g)) IN
          /\ Set(g, [gateway[g] EXCEPT !.task = "reporting", !.current = d,
                                       !.seen = SeenWith(g, d), !.batch = @ \ {d}])
          /\ writing' = writing \cup {<<g, d>>}
  \/ /\ Unseen(g) = {} \/ ~gateway[g].wired
     /\ Set(g, [gateway[g] EXCEPT !.task = "asleep", !.current = 0, !.batch = {},
                                  !.seen = @ \cup Unseen(g)])
     /\ UNCHANGED writing

HandOver(g) ==
  /\ gateway[g].task = "reading"
  /\ Report(g)
  /\ UNCHANGED <<terminalVars, requestVars, resultVars>>

\* The thread is over: on_execution returns, and the loop takes the next deal.
Resume(g) ==
  /\ gateway[g].task = "reporting"
  /\ <<g, gateway[g].current>> \notin writing
  /\ Report(g)
  /\ UNCHANGED <<terminalVars, requestVars, resultVars>>

\* record_trade commits its row.
RecordTrade(x) ==
  /\ x \in writing
  /\ writing' = writing \ {x}
  /\ journal' = [journal EXCEPT ![x] = @ + 1]
  /\ UNCHANGED <<terminalVars, gateway, requestVars, lost>>

\* record_trade raises; _emit_execution logs it and goes on.
RecordFails(x) ==
  /\ "lostWrite" \in Faults
  /\ x \in writing
  /\ writing' = writing \ {x}
  /\ lost' = lost \cup {x}
  /\ UNCHANGED <<terminalVars, gateway, requestVars, journal>>

Next ==
  \/ Deal \/ Minute \/ Outage \/ Recover
  \/ Attach \/ StartPolling \/ Wire \/ Unwire
  \/ Detach \/ StopPolling \/ DropSession \/ Select \/ Restart
  \/ \E g \in Gateways : Poll(g) \/ HandOver(g) \/ Resume(g)
  \/ \E x \in writing : RecordTrade(x) \/ RecordFails(x)

Spec == Init /\ [][Next]_vars

\* A sleep ends, an answer and a thread come back.
Fairness ==
  /\ \A g \in Gateways : WF_vars(Poll(g)) /\ WF_vars(HandOver(g)) /\ WF_vars(Resume(g))
  /\ \A x \in Gateways \X Deals : WF_vars(RecordTrade(x))

FairSpec == Spec /\ Fairness

-----------------------------------------------------------------------------
(* Properties *)

\* Type invariant.
TypeOK ==
  /\ now \in 0..MaxNow
  /\ made \in [Deals -> -1..MaxNow]
  /\ alive \in BOOLEAN
  /\ active \in Gateways
  /\ gateway \in [Gateways -> Object]
  /\ attaching \in Gateways \cup {0}
  /\ detaching \in [object : Gateways, at : {"streams", "session"}] \cup {NoDetach}
  /\ writing \subseteq Gateways \X Deals
  /\ journal \in [Gateways \X Deals -> Nat]
  /\ lost \subseteq Gateways \X Deals

\* A gateway object journals a deal at most once, whatever is cancelled,
\* reconnected or polled again while an abandoned thread still writes.
OncePerGateway == \A x \in Gateways \X Deals : journal[x] <= 1

\* "Deja journalisees" (_poll_deals): a deal of an earlier session is not
\* journalled again by the next one.
JournalOnce ==
  \A d \in Deals : \A g, h \in Gateways :
    journal[<<g, d>>] > 0 /\ journal[<<h, d>>] > 0 => g = h

\* "On rapporte ceux [...] qu'on n'a pas encore vus" (_start_deal_polling): a deal
\* the gateway marks as seen has been reported: its row is written or on its way.
SeenIsReported ==
  \A g \in Gateways : \A d \in gateway[g].seen :
    <<g, d>> \in writing \/ journal[<<g, d>>] > 0

\* "On relit donc periodiquement l'historique des deals" (_start_deal_polling): a
\* connected gateway has a poller at work.
PollerAtWork ==
  Connected /\ attaching = 0 /\ detaching = NoDetach => Running(active)

\* If the terminal comes back for good, a deal within the horizon of a poller
\* that is wired to the engine ends in the journal, unless the poller is stopped,
\* the engine unwired or the write raises meanwhile.
Pending(g, d) ==
  /\ Running(g) /\ gateway[g].wired
  /\ made[d] # -1 /\ made[d] >= gateway[g].since
  /\ d \notin gateway[g].seen

Settled(g, d) ==
  \/ journal[<<g, d>>] > 0
  \/ ~Running(g) \/ ~gateway[g].wired
  \/ <<g, d>> \in lost

DealsJournalled ==
  <>[]alive => \A g \in Gateways, d \in Deals : Pending(g, d) ~> Settled(g, d)
=============================================================================
