------------------------- MODULE LiveRuntimeProofs -------------------------
(***************************************************************************)
(* Theorems of LiveRuntime, for any number of requests, of instruments, of *)
(* starts and of sessions.                                                 *)
(***************************************************************************)
EXTENDS LiveRuntime, TLAPS, WellFoundedInduction

MT == gateway = "metatrader5"
IB == gateway = "interactive_brokers"

\* A request that waits for a contract is on an instrument, for a start.
Resolving ==
  \A r \in Requests : At(r, "resolving") =>
    request[r].run # 0 /\ request[r].at \in 1..Len(Instruments)

\* What a start builds, complete but for the callback and the subscriptions; and
\* what a stop leaves, or a start that raised: perhaps an engine, never a listener.
Built ==
  /\ engine # 0 /\ feed = engine /\ listeners = {engine}
  /\ \A n \in Runs : n # engine => fed[n] = {}
Bare ==
  /\ feed = 0 /\ listeners = {} /\ callback = 0
  /\ \A n \in Runs : fed[n] = {}

\* One request at a time, and what each finds where it is.
Alone == \A r, q \in Requests : r = q \/ At(r, "idle") \/ At(q, "idle")
Stage(r) ==
  /\ At(r, "attached") => MT /\ session # 0
  /\ At(r, "resolving") =>
       /\ ~running /\ Built /\ callback = engine /\ request[r].run = engine
       /\ session # 0 /\ md[Instruments[request[r].at]] = 0
  /\ At(r, "stopping") => MT /\ running /\ request[r].run = engine /\ callback = 0
  /\ At(r, "detaching") => MT /\ ~running /\ \A s \in Symbols \ request[r].left : md[s] = 0
Stages == \A r \in Requests : Stage(r)
Assembly ==
  /\ running => Built /\ session # 0
  /\ running => callback = engine \/ \E r \in Requests : At(r, "stopping")
  /\ running \/ Bare \/ \E r \in Requests : At(r, "resolving")

\* A price stream is the one its gateway notes, in the session it was opened in.
Noted ==
  /\ \A x \in streams : MT \/ x.session = session => md[x.symbol] = x.run
  /\ MT => /\ session \in {0, 1}
           /\ \A x \in streams : x.session = 1
           /\ \A s \in Symbols : md[s] # 0 => \E x \in streams : x.symbol = s
           /\ session = 0 => \A s \in Symbols : md[s] = 0
  /\ IB => session <= sessions /\ \A x \in streams : x.session <= sessions
FedHeld ==
  MT => \/ \E r \in Requests : At(r, "stopping")
        \/ \A n \in Runs : \A s \in fed[n] : md[s] # 0

Orderly == Alone /\ Stages /\ Assembly /\ FedHeld
RuntimeInv == ~overlapped => Orderly /\ Noted

-----------------------------------------------------------------------------
(* Types, and what the operators do *)

LEMMA InstrumentFacts ==
  /\ Len(Instruments) \in Nat /\ Done = Len(Instruments) + 1 /\ Done \in Nat
  /\ \A j \in 1..Len(Instruments) : Instruments[j] \in Symbols
BY RuntimeAssumption DEF Done, Symbols

LEMMA Types ==
  ASSUME TypeOK
  PROVE  /\ \A r \in Requests : request[r] \in Request
         /\ 0 \notin Runs /\ 0 \notin Sessions
         /\ MT \/ IB
BY RuntimeAssumption DEF TypeOK, Runs, Sessions, MT, IB

LEMMA GotoOne ==
  ASSUME TypeOK, NEW r \in Requests, NEW q, Goto(r, q)
  PROVE  /\ request'[r] = q
         /\ \A p \in Requests \ {r} : request'[p] = request[p]
         /\ q \in Request => request' \in [Requests -> Request]
BY DEF Goto, TypeOK

\* The records the requests go on with.
Resumed(n, j) == [NoRequest EXCEPT !.pc = "resolving", !.run = n, !.at = j]

LEMMA Records ==
  /\ NoRequest \in Request
  /\ \A label \in {"connecting", "attached"} :
       [NoRequest EXCEPT !.pc = label] \in Request /\ [NoRequest EXCEPT !.pc = label].pc = label
  /\ \A n \in Runs \cup {0}, left \in SUBSET Symbols :
       LET q == [NoRequest EXCEPT !.pc = "stopping", !.run = n, !.left = left]
       IN  q \in Request /\ q.pc = "stopping" /\ q.run = n /\ q.left = left
  /\ \A left \in SUBSET Symbols :
       LET q == [NoRequest EXCEPT !.pc = "detaching", !.left = left]
       IN  q \in Request /\ q.pc = "detaching" /\ q.left = left
<1>1. Done \in Nat /\ 0 \in 0..Done /\ \A j \in 1..Len(Instruments) : j \in 0..Done
  BY InstrumentFacts
<1>2. NoRequest \in Request
  BY <1>1 DEF NoRequest, Request
<1>3. QED BY <1>1, <1>2 DEF NoRequest, Request

LEMMA WithoutSymbol ==
  ASSUME NEW q \in Request, NEW s
  PROVE  LET p == [q EXCEPT !.left = @ \ {s}]
         IN  p \in Request /\ p.pc = q.pc /\ p.run = q.run /\ p.left = q.left \ {s}
BY DEF Request

LEMMA ResumedIs ==
  ASSUME NEW n \in Runs, NEW j \in 1..Len(Instruments)
  PROVE  /\ Resumed(n, j) \in Request
         /\ Resumed(n, j).pc = "resolving" /\ Resumed(n, j).run = n /\ Resumed(n, j).at = j
<1>1. Done \in Nat /\ 0 \in 0..Done /\ j \in 0..Done
  BY InstrumentFacts
<1>2. QED BY <1>1 DEF NoRequest, Request, Resumed

\* What NextToResolve chooses: the next instrument to wait for, all before it noted.
LEMMA NextIs ==
  ASSUME NEW k \in 1..Done
  PROVE  /\ NextToResolve(k) \in k..Done
         /\ NextToResolve(k) # Done => Connected' /\ md'[Instruments[NextToResolve(k)]] = 0
         /\ Connected' => \A i \in k..(NextToResolve(k) - 1) : md'[Instruments[i]] # 0
<1> USE InstrumentFacts
<1>1. CASE ~Connected'
  BY <1>1 DEF NextToResolve
<1>2. CASE Connected'
  <2> DEFINE S == {j \in k..Done : j = Done \/ md'[Instruments[j]] = 0}
             P(j) == /\ j = Done \/ md'[Instruments[j]] = 0
                     /\ \A i \in k..(j - 1) : md'[Instruments[i]] # 0
  <2>1. Done \in S /\ S \in SUBSET Nat
    OBVIOUS
  <2>2. PICK j \in S : \A i \in S : <<i, j>> \notin OpToRel(<, Nat)
    <3> HIDE DEF S
    <3> QED BY <2>1, WFMin, NatLessThanWellFounded
  <2>3. \A i \in k..(j - 1) : md'[Instruments[i]] # 0
    <3>1. TAKE i \in k..(j - 1)
    <3>2. i \in Nat /\ j \in Nat /\ i < j /\ i \in k..Done
      <4>1. j \in k..Done /\ k \in Nat
        OBVIOUS
      <4> HIDE DEF S
      <4>2. QED BY <4>1
    <3>3. i \notin S
      BY <2>1, <2>2, <3>2 DEF OpToRel
    <3>4. QED BY <3>2, <3>3
  <2>4. j \in k..Done /\ P(j)
    BY <2>2, <2>3
  <2>5. NextToResolve(k) = CHOOSE i \in k..Done : P(i)
    BY <1>2 DEF NextToResolve
  <2>6. NextToResolve(k) \in k..Done /\ P(NextToResolve(k))
    <3> HIDE DEF P
    <3> QED BY <2>4, <2>5
  <2>7. QED BY <1>2, <2>6
<1>3. QED BY <1>1, <1>2

\* feed.start goes on: it waits for a contract, or start is done.
LEMMA SubscribingIs ==
  ASSUME TypeOK, NEW r \in Requests, NEW n \in Runs, NEW k \in 1..Done,
         NEW got \in SUBSET Symbols, Subscribing(r, n, k, got)
  PROVE  \E more \in SUBSET Symbols :
           /\ fed' = [fed EXCEPT ![n] = @ \cup got \cup more]
           /\ \A s \in more : md'[s] # 0
           /\ \/ Return(r) /\ running' = TRUE
              \/ \E j \in 1..Len(Instruments) :
                   /\ Goto(r, Resumed(n, j)) /\ running' = running
                   /\ Connected' /\ md'[Instruments[j]] = 0
<1> USE InstrumentFacts
<1> DEFINE j == NextToResolve(k)
           more == IF Connected' THEN {Instruments[i] : i \in k..(j - 1)} ELSE {}
<1>1. /\ j \in k..Done
      /\ j # Done => Connected' /\ md'[Instruments[j]] = 0
      /\ Connected' => \A i \in k..(j - 1) : md'[Instruments[i]] # 0
  BY NextIs
<1>2. /\ fed' = [fed EXCEPT ![n] = @ \cup got \cup more]
      /\ j = Done => Return(r) /\ running' = TRUE
      /\ j # Done => Goto(r, Resumed(n, j)) /\ running' = running
  BY DEF Subscribing, Resumed
<1> HIDE DEF j
<1>3. more \in SUBSET Symbols /\ \A s \in more : md'[s] # 0
  <2>1. \A i \in k..(j - 1) : i \in 1..Len(Instruments)
    BY <1>1
  <2>2. QED BY <1>1, <2>1
<1>4. j # Done => j \in 1..Len(Instruments)
  BY <1>1
<1> HIDE DEF more
<1>5. QED BY <1>1, <1>2, <1>3, <1>4

LEMMA SubscribingType ==
  ASSUME TypeOK, NEW r \in Requests, NEW n \in Runs, NEW k \in 1..Done,
         NEW got \in SUBSET Symbols, Subscribing(r, n, k, got), Resolving
  PROVE  /\ request' \in [Requests -> Request] /\ running' \in BOOLEAN
         /\ fed' \in [Runs -> SUBSET Symbols]
         /\ Resolving'
<1>1. PICK more \in SUBSET Symbols :
        /\ fed' = [fed EXCEPT ![n] = @ \cup got \cup more]
        /\ \A s \in more : md'[s] # 0
        /\ \/ Return(r) /\ running' = TRUE
           \/ \E j \in 1..Len(Instruments) :
                /\ Goto(r, Resumed(n, j)) /\ running' = running
                /\ Connected' /\ md'[Instruments[j]] = 0
  BY SubscribingIs
<1>2. fed' \in [Runs -> SUBSET Symbols]
  BY <1>1 DEF TypeOK
<1>3. CASE Return(r) /\ running' = TRUE
  <2>1. NoRequest.pc = "idle" /\ NoRequest \in Request
    BY Records DEF NoRequest
  <2>2. /\ request'[r] = NoRequest /\ request' \in [Requests -> Request]
        /\ \A p \in Requests \ {r} : request'[p] = request[p]
    BY <1>3, <2>1, GotoOne DEF Return
  <2>3. Resolving'
    BY <2>1, <2>2 DEF Resolving, At
  <2>4. QED BY <1>2, <1>3, <2>2, <2>3
<1>4. CASE \E j \in 1..Len(Instruments) : Goto(r, Resumed(n, j)) /\ running' = running
  <2>1. PICK j \in 1..Len(Instruments) : Goto(r, Resumed(n, j)) /\ running' = running
    BY <1>4
  <2>2. /\ Resumed(n, j) \in Request /\ Resumed(n, j).run = n /\ Resumed(n, j).at = j
        /\ n # 0
    <3>1. n # 0
      BY DEF Runs
    <3>2. QED BY <3>1, ResumedIs
  <2>3. /\ request'[r] = Resumed(n, j) /\ request' \in [Requests -> Request]
        /\ \A p \in Requests \ {r} : request'[p] = request[p]
    BY <2>1, <2>2, GotoOne
  <2>4. Resolving'
    BY <2>2, <2>3 DEF Resolving, At
  <2>5. QED BY <1>2, <2>1, <2>3, <2>4 DEF TypeOK
<1>5. QED BY <1>1, <1>3, <1>4

-----------------------------------------------------------------------------
(* Types are kept *)

\* A request that is not resumed on an instrument.
LEMMA GotoElse ==
  ASSUME TypeOK, Resolving, NEW r \in Requests, NEW q \in Request, Goto(r, q),
         q.pc # "resolving"
  PROVE  request' \in [Requests -> Request] /\ Resolving'
BY GotoOne DEF Resolving, At

LEMMA IdleType ==
  ASSUME TypeOK, Resolving, NEW r \in Requests, Return(r)
  PROVE  request' \in [Requests -> Request] /\ Resolving'
<1>1. NoRequest \in Request /\ NoRequest.pc # "resolving"
  BY Records DEF NoRequest
<1>2. QED BY <1>1, GotoElse DEF Return

LEMMA UnsubscribeType ==
  ASSUME TypeOK, NEW s \in Symbols, Unsubscribe(s)
  PROVE  md' \in [Symbols -> Runs \cup {0}] /\ streams' \subseteq Stream
BY DEF TypeOK, Unsubscribe

LEMMA EndStopType ==
  ASSUME TypeOK, NEW f, EndStop(f)
  PROVE  /\ fed' \in [Runs -> SUBSET Symbols] /\ feed' = 0 /\ engine' = 0
         /\ listeners' \subseteq Runs /\ running' = FALSE
BY DEF TypeOK, EndStop

LEMMA DetachType ==
  ASSUME TypeOK, Resolving, NEW r \in Requests, Detach(r)
  PROVE  /\ request' \in [Requests -> Request] /\ Resolving'
         /\ md' \in [Symbols -> Runs \cup {0}] /\ streams' \subseteq Stream
         /\ session' \in Sessions \cup {0}
<1>1. CASE Return(r) /\ UNCHANGED <<md, streams, session>>
  BY <1>1, IdleType DEF TypeOK
<1>2. CASE CloseSession /\ Return(r)
  BY <1>2, IdleType DEF TypeOK, CloseSession
<1>3. CASE /\ Goto(r, [NoRequest EXCEPT !.pc = "detaching", !.left = Held(Symbols)])
           /\ UNCHANGED <<md, streams, session>>
  <2>1. Held(Symbols) \in SUBSET Symbols
    BY DEF Held
  <2>2. /\ [NoRequest EXCEPT !.pc = "detaching", !.left = Held(Symbols)] \in Request
        /\ [NoRequest EXCEPT !.pc = "detaching", !.left = Held(Symbols)].pc # "resolving"
    BY <2>1, Records
  <2>3. QED BY <1>3, <2>2, GotoElse DEF TypeOK
<1>4. QED BY <1>1, <1>2, <1>3 DEF Detach

LEMMA StartType ==
  ASSUME TypeOK, Resolving, NEW r \in Requests, Start(r)
  PROVE  /\ request' \in [Requests -> Request] /\ Resolving'
         /\ running' \in BOOLEAN /\ engine' \in Runs \cup {0} /\ feed' \in Runs \cup {0}
         /\ fed' \in [Runs -> SUBSET Symbols] /\ listeners' \subseteq Runs
         /\ callback' \in Runs \cup {0} /\ md' \in [Symbols -> Runs \cup {0}]
         /\ streams' \subseteq Stream /\ starts' \in 0..MaxStarts
<1>1. CASE Return(r) /\ UNCHANGED flow
  BY <1>1, IdleType DEF TypeOK, flow
<1>2. CASE /\ starts \in 0..(MaxStarts - 1) /\ starts' = starts + 1
           /\ engine' = starts' /\ listeners' = listeners \cup {starts'}
           /\ callback' = starts' /\ feed' = starts' /\ UNCHANGED <<md, streams>>
           /\ Subscribing(r, starts', 1, {})
  <2>1. starts' \in Runs /\ starts' \in 0..MaxStarts /\ 1 \in 1..Done
    BY <1>2, RuntimeAssumption, InstrumentFacts DEF Runs
  <2>2. /\ request' \in [Requests -> Request] /\ running' \in BOOLEAN
        /\ fed' \in [Runs -> SUBSET Symbols] /\ Resolving'
    BY <1>2, <2>1, SubscribingType
  <2>3. QED BY <1>2, <2>1, <2>2 DEF TypeOK
<1>3. CASE StartRaises(r)
  <2>1. starts' \in Runs /\ starts' \in 0..MaxStarts
    BY <1>3, RuntimeAssumption DEF StartRaises, Runs
  <2>2. QED BY <1>3, <2>1, IdleType DEF StartRaises, TypeOK
<1>4. QED BY <1>1, <1>2, <1>3 DEF Start

LEMMA RequestType ==
  ASSUME TypeOK, Resolving, NEW r \in Requests,
         \/ Connect(r) \/ ConnectFails(r) \/ Attach(r) \/ StartAttached(r)
         \/ Subscribe(r) \/ SkipSymbol(r)
         \/ Disconnect(r) \/ StopSymbol(r) \/ Stopped(r) \/ DetachSymbol(r) \/ Detached(r)
  PROVE  TypeOK' /\ Resolving'
<1> USE DEF kept
<1>0. request[r] \in Request /\ MaxSessions \in Nat \ {0}
  BY Types, RuntimeAssumption
<1>1. CASE Connect(r)
  <2>1. /\ [NoRequest EXCEPT !.pc = "connecting"] \in Request
        /\ [NoRequest EXCEPT !.pc = "connecting"].pc # "resolving"
    BY Records
  <2>2. request' \in [Requests -> Request] /\ Resolving'
    BY <1>1, <2>1, GotoElse DEF Connect
  <2>3. QED BY <1>1, <2>2 DEF Connect, TypeOK, flow, Quiet, At
<1>2. CASE ConnectFails(r)
  <2>1. request' \in [Requests -> Request] /\ Resolving'
    BY <1>2, IdleType DEF ConnectFails
  <2>2. QED BY <1>2, <2>1 DEF ConnectFails, TypeOK, flow
<1>3. CASE Attach(r)
  <2>1. CASE gateway = "metatrader5" /\ Goto(r, [NoRequest EXCEPT !.pc = "attached"])
             /\ session' = 1 /\ UNCHANGED <<flow, sessions>>
    <3>1. /\ [NoRequest EXCEPT !.pc = "attached"] \in Request
          /\ [NoRequest EXCEPT !.pc = "attached"].pc # "resolving"
      BY Records
    <3>2. request' \in [Requests -> Request] /\ Resolving'
      BY <2>1, <3>1, GotoElse
    <3>3. session' \in Sessions
      BY <1>0, <2>1 DEF Sessions
    <3>4. QED BY <1>3, <2>1, <3>2, <3>3 DEF Attach, TypeOK, flow
  <2>2. CASE sessions < MaxSessions /\ sessions' = sessions + 1 /\ session' = sessions' /\ Start(r)
    <3>1. session' \in Sessions /\ sessions' \in 0..MaxSessions
      BY <1>0, <2>2 DEF Sessions, TypeOK
    <3>2. QED BY <1>3, <2>2, <3>1, StartType DEF Attach, TypeOK
  <2>3. QED BY <1>3, <2>1, <2>2 DEF Attach
<1>4. CASE StartAttached(r)
  BY <1>4, StartType DEF StartAttached, TypeOK
<1>5. CASE Subscribe(r)
  <2> DEFINE n == request[r].run
             s == Instruments[request[r].at]
  <2>1. /\ n \in Runs /\ request[r].at \in 1..Len(Instruments)
        /\ request[r].at + 1 \in 1..Done /\ s \in Symbols
    BY <1>0, <1>5, InstrumentFacts DEF Subscribe, Resolving, Request
  <2>2. session \in Sessions
    BY <1>5 DEF Subscribe, Connected, TypeOK
  <2>3. /\ md' = [md EXCEPT ![s] = n]
        /\ streams' = streams \cup {[symbol |-> s, run |-> n, session |-> session]}
        /\ Subscribing(r, n, request[r].at + 1, {s})
        /\ UNCHANGED <<session, alive, sessions, kept, engine, feed, listeners, callback, starts>>
    BY <1>5 DEF Subscribe
  <2>4. md' \in [Symbols -> Runs \cup {0}] /\ streams' \subseteq Stream
    <3> HIDE DEF n, s
    <3> QED BY <2>1, <2>2, <2>3 DEF TypeOK, Stream
  <2>5. /\ request' \in [Requests -> Request] /\ running' \in BOOLEAN
        /\ fed' \in [Runs -> SUBSET Symbols] /\ Resolving'
    BY <2>1, <2>3, SubscribingType
  <2>6. QED BY <2>3, <2>4, <2>5 DEF TypeOK
<1>6. CASE SkipSymbol(r)
  <2>1. request[r].run \in Runs /\ request[r].at + 1 \in 1..Done
    BY <1>0, <1>6, InstrumentFacts DEF SkipSymbol, Resolving, Request
  <2>2. /\ request' \in [Requests -> Request] /\ running' \in BOOLEAN
        /\ fed' \in [Runs -> SUBSET Symbols] /\ Resolving'
    BY <1>6, <2>1, SubscribingType DEF SkipSymbol
  <2>3. QED BY <1>6, <2>2 DEF SkipSymbol, TypeOK
<1>7. CASE Disconnect(r)
  <2>1. FedNow \in SUBSET Symbols
    BY DEF FedNow, TypeOK
  <2>2. overlapped' \in BOOLEAN /\ UNCHANGED <<alive, starts, sessions, gateway>>
    BY <1>7 DEF Disconnect, TypeOK, Quiet, At
  <2>3. CASE Detach(r) /\ UNCHANGED <<running, engine, feed, fed, listeners, callback>>
    BY <2>2, <2>3, DetachType DEF TypeOK
  <2>4. CASE /\ Goto(r, [NoRequest EXCEPT !.pc = "stopping", !.run = feed, !.left = FedNow])
             /\ callback' = 0
             /\ UNCHANGED <<running, engine, feed, fed, listeners, md, streams, session>>
    <3>1. feed \in Runs \cup {0}
      BY DEF TypeOK
    <3>2. LET q == [NoRequest EXCEPT !.pc = "stopping", !.run = feed, !.left = FedNow]
          IN  q \in Request /\ q.pc # "resolving"
      BY <2>1, <3>1, Records
    <3>3. request' \in [Requests -> Request] /\ Resolving'
      BY <2>4, <3>2, GotoElse
    <3>4. QED BY <2>2, <2>4, <3>3 DEF TypeOK
  <2>5. CASE callback' = 0 /\ EndStop(feed) /\ Detach(r)
    BY <2>2, <2>5, EndStopType, DetachType DEF TypeOK
  <2>6. CASE /\ callback' = 0 /\ EndStop(feed) /\ Return(r)
             /\ IF Connected THEN CloseSession
                ELSE /\ md' = [s \in Symbols |-> IF s \in FedNow THEN 0 ELSE md[s]]
                     /\ streams' = {x \in streams : x.symbol \notin Held(FedNow)}
                     /\ UNCHANGED session
    <3>1. /\ md' \in [Symbols -> Runs \cup {0}] /\ streams' \subseteq Stream
          /\ session' \in Sessions \cup {0}
      BY <2>6 DEF CloseSession, TypeOK
    <3>2. QED BY <2>2, <2>6, <3>1, EndStopType, IdleType DEF TypeOK
  <2>7. QED BY <1>7, <2>3, <2>4, <2>5, <2>6 DEF Disconnect
<1>8. CASE StopSymbol(r) \/ DetachSymbol(r)
  <2>1. PICK s \in Symbols : Unsubscribe(s) /\ Goto(r, [request[r] EXCEPT !.left = @ \ {s}])
    BY <1>0, <1>8 DEF StopSymbol, DetachSymbol, Held, Request
  <2>2. /\ [request[r] EXCEPT !.left = @ \ {s}] \in Request
        /\ [request[r] EXCEPT !.left = @ \ {s}].pc # "resolving"
    <3>1. request[r].pc # "resolving"
      BY <1>8 DEF StopSymbol, DetachSymbol, At
    <3>2. QED BY <1>0, <3>1, WithoutSymbol
  <2>3. request' \in [Requests -> Request] /\ Resolving'
    BY <2>1, <2>2, GotoElse
  <2>4. QED BY <1>8, <2>1, <2>3, UnsubscribeType DEF StopSymbol, DetachSymbol, TypeOK
<1>9. CASE Stopped(r)
  BY <1>9, EndStopType, DetachType DEF Stopped, TypeOK
<1>10. CASE Detached(r)
  BY <1>10, IdleType DEF Detached, TypeOK, flow
<1>11. QED BY <1>1, <1>2, <1>3, <1>4, <1>5, <1>6, <1>7, <1>8, <1>9, <1>10

LEMMA TypeNext == TypeOK /\ Resolving /\ [Next]_vars => TypeOK' /\ Resolving'
<1> SUFFICES ASSUME TypeOK, Resolving, [Next]_vars PROVE TypeOK' /\ Resolving'
  OBVIOUS
<1>1. CASE Lose \/ Recover
  BY <1>1 DEF Lose, Recover, TypeOK, Resolving, At, flow, kept
<1>2. CASE StreamEnds
  BY <1>2 DEF StreamEnds, TypeOK, Resolving, At, kept
<1>3. CASE UNCHANGED vars
  BY <1>3 DEF vars, TypeOK, Resolving, At
<1>4. QED BY <1>1, <1>2, <1>3, RequestType DEF Next

LEMMA TypeInit == Init => TypeOK /\ Resolving
<1> SUFFICES ASSUME Init PROVE TypeOK /\ Resolving
  OBVIOUS
<1>1. NoRequest \in Request /\ NoRequest.pc = "idle"
  BY Records DEF NoRequest
<1>2. starts \in 0..MaxStarts /\ sessions \in 0..MaxSessions
  BY RuntimeAssumption DEF Init
<1>3. request \in [Requests -> Request] /\ Resolving
  BY <1>1 DEF Init, Resolving, At
<1>4. QED BY <1>2, <1>3 DEF Init, TypeOK

\* Every variable keeps its type, however many requests overlap.
THEOREM TypeCorrect == Spec => []TypeOK
BY TypeInit, TypeNext, PTL DEF Spec

-----------------------------------------------------------------------------
(* Requests that do not overlap *)

\* The only request in progress goes on.
LEMMA OnlyOne ==
  ASSUME TypeOK, NEW r \in Requests, NEW q, Goto(r, q),
         \A p \in Requests \ {r} : At(p, "idle")
  PROVE  /\ request'[r] = q
         /\ Alone'
         /\ Stage(r)' => Stages'
         /\ (\E p \in Requests : At(p, "stopping")') <=> q.pc = "stopping"
         /\ (\E p \in Requests : At(p, "resolving")') <=> q.pc = "resolving"
<1>1. /\ request'[r] = q
      /\ \A p \in Requests \ {r} : request'[p].pc = "idle"
  BY GotoOne DEF At
<1>2. Alone'
  BY <1>1 DEF Alone, At
<1>3. \A p \in Requests \ {r} : Stage(p)'
  BY <1>1 DEF Stage, At
<1>4. QED BY <1>1, <1>2, <1>3 DEF Stages, At

LEMMA DetachKeeps ==
  ASSUME TypeOK, NEW r \in Requests, \A p \in Requests \ {r} : At(p, "idle"),
         Noted, ~running', Bare', UNCHANGED <<gateway, sessions>>, Detach(r)
  PROVE  Orderly' /\ Noted'
<1>1. FedHeld'
  BY DEF FedHeld, Bare
<1>2. Assembly'
  BY DEF Assembly
<1>3. CASE Return(r) /\ UNCHANGED <<md, streams, session>>
  <2>1. Alone' /\ Stages'
    BY <1>3, OnlyOne DEF Return, NoRequest, Stage, At
  <2>2. Noted'
    BY <1>3 DEF Noted, MT, IB
  <2>3. QED BY <1>1, <1>2, <2>1, <2>2 DEF Orderly
<1>4. CASE IB /\ CloseSession /\ Return(r)
  <2>1. Alone' /\ Stages'
    BY <1>4, OnlyOne DEF Return, NoRequest, Stage, At
  <2>2. sessions \in Nat /\ ~MT'
    BY <1>4, RuntimeAssumption DEF TypeOK, MT, IB
  <2>3. Noted'
    BY <1>4, <2>2 DEF Noted, IB, CloseSession
  <2>4. QED BY <1>1, <1>2, <2>1, <2>3 DEF Orderly
<1>5. CASE /\ MT /\ Goto(r, [NoRequest EXCEPT !.pc = "detaching", !.left = Held(Symbols)])
           /\ UNCHANGED <<md, streams, session>>
  <2> DEFINE q == [NoRequest EXCEPT !.pc = "detaching", !.left = Held(Symbols)]
  <2>1. q.pc = "detaching" /\ q.left = Held(Symbols)
    BY Records DEF Held
  <2>2. Goto(r, q)
    BY <1>5
  <2> HIDE DEF q
  <2>3. request'[r] = q
    BY <2>2, OnlyOne
  <2>4. Stage(r)'
    BY <1>5, <2>1, <2>3 DEF Stage, At, Held, MT
  <2>5. Alone' /\ Stages'
    BY <2>2, <2>4, OnlyOne
  <2>6. Noted'
    BY <1>5 DEF Noted, MT, IB
  <2>7. QED BY <1>1, <1>2, <2>5, <2>6 DEF Orderly
<1>6. QED BY <1>3, <1>4, <1>5 DEF Detach, IB, MT

LEMMA SubscribingKeeps ==
  ASSUME TypeOK, NEW r \in Requests, \A p \in Requests \ {r} : At(p, "idle"),
         NEW n \in Runs, NEW k \in 1..Done, NEW got \in SUBSET Symbols,
         Subscribing(r, n, k, got),
         ~running, engine' = n, feed' = n, listeners' = {n}, callback' = n,
         \A m \in Runs : m # n => fed[m] = {},
         session' # 0, \A s \in fed[n] \cup got : MT' => md'[s] # 0
  PROVE  Orderly'
<1>1. PICK more \in SUBSET Symbols :
        /\ fed' = [fed EXCEPT ![n] = @ \cup got \cup more]
        /\ \A s \in more : md'[s] # 0
        /\ \/ Return(r) /\ running' = TRUE
           \/ \E j \in 1..Len(Instruments) :
                /\ Goto(r, Resumed(n, j)) /\ running' = running
                /\ Connected' /\ md'[Instruments[j]] = 0
  BY SubscribingIs
<1>2. /\ fed'[n] = fed[n] \cup got \cup more
      /\ \A m \in Runs : m # n => fed'[m] = {}
  BY <1>1 DEF TypeOK
<1>3. Built' /\ n # 0
  BY <1>2, Types DEF Built
<1>4. FedHeld'
  BY <1>1, <1>2 DEF FedHeld
<1>5. CASE Return(r) /\ running' = TRUE
  <2>1. Alone' /\ Stages'
    BY <1>5, OnlyOne DEF Return, NoRequest, Stage, At
  <2>2. Assembly'
    BY <1>3, <1>5 DEF Assembly
  <2>3. QED BY <1>4, <2>1, <2>2 DEF Orderly
<1>6. ASSUME NEW j \in 1..Len(Instruments), Goto(r, Resumed(n, j)), running' = running,
             md'[Instruments[j]] = 0
      PROVE  Orderly'
  <2>1. request'[r] = Resumed(n, j)
    BY <1>6, OnlyOne
  <2>2. /\ request'[r].pc = "resolving" /\ request'[r].run = n /\ request'[r].at = j
    BY <2>1, ResumedIs
  <2>3. Stage(r)'
    BY <1>3, <1>6, <2>2 DEF Stage, At
  <2>4. Alone' /\ Stages'
    BY <1>6, <2>3, OnlyOne
  <2>5. Assembly'
    BY <1>6, <2>2 DEF Assembly, At
  <2>6. QED BY <1>4, <2>4, <2>5 DEF Orderly
<1>7. QED BY <1>1, <1>5, <1>6

LEMMA StartKeeps ==
  ASSUME TypeOK, Orderly, NEW r \in Requests, \A p \in Requests \ {r} : At(p, "idle"),
         ~At(r, "resolving"), ~At(r, "stopping"),
         gateway' = gateway, session' # 0, Start(r)
  PROVE  Orderly' /\ UNCHANGED <<md, streams>>
<1>1. /\ ~\E p \in Requests : At(p, "stopping")
      /\ ~\E p \in Requests : At(p, "resolving")
  BY DEF At
<1>2. CASE Return(r) /\ UNCHANGED flow
  <2>1. Alone' /\ Stages'
    BY <1>2, OnlyOne DEF Return, NoRequest, Stage, At
  <2>2. Assembly'
    BY <1>1, <1>2 DEF Orderly, Assembly, flow, Built, Bare
  <2>3. FedHeld'
    BY <1>1, <1>2 DEF Orderly, FedHeld, flow, MT
  <2>4. QED BY <1>2, <2>1, <2>2, <2>3 DEF Orderly, flow
<1>3. CASE /\ ~running
           /\ starts \in 0..(MaxStarts - 1) /\ starts' = starts + 1
           /\ engine' = starts' /\ listeners' = listeners \cup {starts'}
           /\ callback' = starts' /\ feed' = starts' /\ UNCHANGED <<md, streams>>
           /\ Subscribing(r, starts', 1, {})
  <2>1. Bare
    BY <1>1, <1>3 DEF Orderly, Assembly
  <2>2. starts' \in Runs /\ 1 \in 1..Done /\ listeners' = {starts'}
    BY <1>3, <2>1, RuntimeAssumption, InstrumentFacts DEF Runs, Bare
  <2>3. /\ \A m \in Runs : m # starts' => fed[m] = {}
        /\ \A s \in fed[starts'] \cup {} : MT' => md'[s] # 0
    BY <2>1, <2>2 DEF Bare
  <2>4. Orderly'
    BY <1>3, <2>2, <2>3, SubscribingKeeps
  <2>5. QED BY <1>3, <2>4
<1>4. CASE StartRaises(r)
  <2>1. Alone' /\ Stages'
    BY <1>4, OnlyOne DEF StartRaises, Return, NoRequest, Stage, At
  <2>2. Bare'
    BY <1>1, <1>4 DEF StartRaises, Orderly, Assembly, Bare
  <2>3. FedHeld'
    BY <2>2 DEF FedHeld, Bare
  <2>4. QED BY <1>4, <2>1, <2>2, <2>3 DEF StartRaises, Assembly, Orderly
<1>5. QED BY <1>2, <1>3, <1>4 DEF Start

LEMMA UnsubscribeKeeps ==
  ASSUME TypeOK, Noted, MT, NEW s \in Symbols, Unsubscribe(s),
         UNCHANGED <<gateway, session, sessions>>
  PROVE  Noted' /\ \A t \in Symbols : md'[t] # 0 => t # s /\ md[t] # 0
<1>1. /\ md'[s] = 0 /\ \A t \in Symbols \ {s} : md'[t] = md[t]
      /\ streams' = {x \in streams : ~(x.symbol = s /\ x.run = md[s])}
  BY DEF Unsubscribe, TypeOK
<1>2. \A x \in streams' : x \in streams /\ x.symbol \in Symbols \ {s}
  BY <1>1 DEF Noted, TypeOK, Stream
<1>3. MT' /\ ~IB'
  BY DEF MT, IB
<1>4. \A x \in streams' : md'[x.symbol] = x.run /\ x.session = 1
  BY <1>1, <1>2 DEF Noted
<1>5. \A t \in Symbols : md'[t] # 0 => \E x \in streams' : x.symbol = t
  BY <1>1 DEF Noted
<1>6. session' \in {0, 1} /\ (session' = 0 => \A t \in Symbols : md'[t] = 0)
  BY <1>1 DEF Noted
<1>7. QED BY <1>1, <1>3, <1>4, <1>5, <1>6 DEF Noted

\* A session that opens: MetaTrader's is the one there was, another is new.
LEMMA AttachNotes ==
  ASSUME TypeOK, Noted, UNCHANGED <<gateway, md, streams>>,
         \/ MT /\ session' = 1
         \/ IB /\ sessions' = sessions + 1 /\ session' = sessions'
  PROVE  Noted'
<1>1. sessions \in Nat /\ \A x \in streams : x.session \in Nat
  BY RuntimeAssumption DEF TypeOK, Stream, Sessions
<1>2. CASE MT /\ session' = 1
  BY <1>2 DEF Noted, MT, IB
<1>3. CASE IB /\ sessions' = sessions + 1 /\ session' = sessions'
  <2>1. ~MT' /\ IB'
    BY <1>3 DEF MT, IB
  <2>2. \A x \in streams : x.session <= sessions' /\ x.session # session'
    BY <1>1, <1>3 DEF Noted
  <2>3. session' <= sessions'
    BY <1>1, <1>3
  <2>4. QED BY <2>1, <2>2, <2>3 DEF Noted
<1>4. QED BY <1>2, <1>3

\* A stream that opens for a symbol which has none.
LEMMA SubscribeNotes ==
  ASSUME TypeOK, Noted, UNCHANGED <<gateway, session, sessions>>, session # 0,
         NEW s \in Symbols, NEW n \in Runs, md[s] = 0,
         md' = [md EXCEPT ![s] = n],
         streams' = streams \cup {[symbol |-> s, run |-> n, session |-> session]}
  PROVE  Noted'
<1> DEFINE new == [symbol |-> s, run |-> n, session |-> session]
<1>1. new.symbol = s /\ new.run = n /\ new.session = session
  OBVIOUS
<1>2. md'[s] = n /\ \A t \in Symbols \ {s} : md'[t] = md[t]
  BY DEF TypeOK
<1>3. \A x \in streams : x.symbol \in Symbols /\ x.run # 0
  BY DEF TypeOK, Stream, Runs
<1>4. streams' = streams \cup {new}
  OBVIOUS
<1> HIDE DEF new
<1>5. \A x \in streams' : MT' \/ x.session = session' => md'[x.symbol] = x.run
  BY <1>1, <1>2, <1>3, <1>4 DEF Noted, MT
<1>6. MT' => /\ session' \in {0, 1} /\ session' # 0
             /\ \A x \in streams' : x.session = 1
             /\ \A t \in Symbols : md'[t] # 0 => \E x \in streams' : x.symbol = t
  BY <1>1, <1>2, <1>4 DEF Noted, MT
<1>7. IB' => session' <= sessions' /\ \A x \in streams' : x.session <= sessions'
  BY <1>1, <1>4 DEF Noted, IB
<1>8. QED BY <1>5, <1>6, <1>7 DEF Noted

\* Once EndStop has cleared the engine of a runtime that runs, nothing is left.
LEMMA EndStopBares ==
  ASSUME TypeOK, Orderly, running, EndStop(engine), callback' = 0
  PROVE  ~running' /\ Bare'
BY DEF Orderly, Assembly, Built, Bare, EndStop

LEMMA DisconnectKeeps ==
  ASSUME TypeOK, Orderly, Noted, NEW r \in Requests, Disconnect(r), Quiet
  PROVE  Orderly' /\ Noted'
<1>1. /\ \A p \in Requests \ {r} : At(p, "idle")
      /\ ~\E p \in Requests : At(p, "stopping")
      /\ ~\E p \in Requests : At(p, "resolving")
  BY DEF Quiet, At
<1>2. UNCHANGED <<alive, starts, sessions, gateway>>
  BY DEF Disconnect
<1>3. running => engine = feed /\ Built /\ session # 0
  BY DEF Orderly, Assembly, Built
<1>4. CASE ~running /\ Detach(r) /\ UNCHANGED <<running, engine, feed, fed, listeners, callback>>
  <2>1. Bare' /\ ~running'
    BY <1>1, <1>4 DEF Orderly, Assembly, Bare
  <2>2. QED BY <1>1, <1>2, <1>4, <2>1, DetachKeeps
<1>5. CASE /\ running /\ MT
           /\ Goto(r, [NoRequest EXCEPT !.pc = "stopping", !.run = feed, !.left = FedNow])
           /\ callback' = 0
           /\ UNCHANGED <<running, engine, feed, fed, listeners, md, streams, session>>
  <2> DEFINE q == [NoRequest EXCEPT !.pc = "stopping", !.run = feed, !.left = FedNow]
  <2>1. q.pc = "stopping" /\ q.run = feed
    BY DEF NoRequest
  <2>2. Goto(r, q)
    BY <1>5
  <2> HIDE DEF q
  <2>3. request'[r] = q /\ \E p \in Requests : At(p, "stopping")'
    BY <1>1, <2>1, <2>2, OnlyOne
  <2>4. Stage(r)'
    BY <1>2, <1>3, <1>5, <2>1, <2>3 DEF Stage, At, MT
  <2>5. Alone' /\ Stages'
    BY <1>1, <2>2, <2>4, OnlyOne
  <2>6. Assembly' /\ FedHeld'
    BY <1>3, <1>5, <2>3 DEF Assembly, FedHeld, Built
  <2>7. Noted'
    BY <1>2, <1>5 DEF Noted, MT, IB
  <2>8. QED BY <2>5, <2>6, <2>7 DEF Orderly
<1>6. CASE running /\ callback' = 0 /\ EndStop(feed) /\ Detach(r)
  <2>1. Bare' /\ ~running'
    BY <1>3, <1>6, EndStopBares
  <2>2. QED BY <1>1, <1>2, <1>6, <2>1, DetachKeeps
<1>7. CASE /\ running /\ IB /\ callback' = 0 /\ EndStop(feed) /\ Return(r)
           /\ IF Connected THEN CloseSession
              ELSE /\ md' = [s \in Symbols |-> IF s \in FedNow THEN 0 ELSE md[s]]
                   /\ streams' = {x \in streams : x.symbol \notin Held(FedNow)}
                   /\ UNCHANGED session
  <2>1. Bare' /\ ~running'
    BY <1>3, <1>7, EndStopBares
  <2>2. Assembly' /\ FedHeld'
    BY <2>1 DEF Assembly, FedHeld, Bare
  <2>3. Alone' /\ Stages'
    BY <1>1, <1>7, OnlyOne DEF Return, NoRequest, Stage, At
  <2>4. ~MT' /\ IB' /\ sessions \in Nat
    BY <1>2, <1>7, RuntimeAssumption DEF MT, IB, TypeOK
  <2>5. CASE CloseSession
    <3>1. session' = 0 /\ streams' = {} /\ sessions' = sessions /\ 0 <= sessions
      BY <1>2, <2>4, <2>5, <1>7 DEF CloseSession, IB
    <3>2. Noted'
      BY <2>4, <3>1 DEF Noted
    <3>3. QED BY <2>2, <2>3, <3>2 DEF Orderly
  <2>6. CASE /\ md' = [s \in Symbols |-> IF s \in FedNow THEN 0 ELSE md[s]]
             /\ streams' = {x \in streams : x.symbol \notin Held(FedNow)}
             /\ UNCHANGED session
    <3>1. \A x \in streams : x.symbol \in Symbols
      BY DEF TypeOK, Stream
    <3>2. \A x \in streams' : x.session = session => md'[x.symbol] = x.run
      BY <2>6, <3>1 DEF Noted, Held
    <3>3. Noted'
      BY <1>2, <1>7, <2>4, <2>6, <3>2 DEF Noted
    <3>4. QED BY <2>2, <2>3, <3>3 DEF Orderly
  <2>7. QED BY <1>7, <2>2, <2>3, <2>5, <2>6 DEF Orderly
<1>8. QED BY <1>4, <1>5, <1>6, <1>7 DEF Disconnect, IB, MT

LEMMA RequestKeeps ==
  ASSUME TypeOK, Resolving, Orderly, Noted, NEW r \in Requests,
         \A p \in Requests \ {r} : At(p, "idle"),
         \/ (Connect(r) /\ Quiet) \/ ConnectFails(r) \/ Attach(r) \/ StartAttached(r)
         \/ Subscribe(r) \/ SkipSymbol(r)
         \/ StopSymbol(r) \/ Stopped(r) \/ DetachSymbol(r) \/ Detached(r)
  PROVE  Orderly' /\ Noted'
<1> USE DEF kept
<1>0. Stage(r) /\ request[r] \in Request
  BY Types DEF Orderly, Stages
<1>1. CASE (Connect(r) /\ Quiet) \/ ConnectFails(r)
  <2>1. PICK q \in {NoRequest, [NoRequest EXCEPT !.pc = "connecting"]} : Goto(r, q)
    BY <1>1 DEF Connect, ConnectFails, Return
  <2>2. q.pc \in {"idle", "connecting"}
    BY <2>1 DEF NoRequest
  <2>3. Alone' /\ Stages'
    <3>1. Stage(r)'
      BY <2>1, <2>2, OnlyOne DEF Stage, At
    <3>2. QED BY <2>1, <3>1, OnlyOne
  <2>4. /\ ~\E p \in Requests : At(p, "stopping")
        /\ ~\E p \in Requests : At(p, "resolving")
    BY <1>1 DEF ConnectFails, At, Quiet
  <2>5. UNCHANGED <<flow, session, sessions, gateway>>
    BY <1>1 DEF Connect, ConnectFails
  <2>6. Assembly' /\ FedHeld'
    BY <2>4, <2>5 DEF Orderly, Assembly, FedHeld, flow, Built, Bare, MT
  <2>7. Noted'
    BY <2>5 DEF Noted, flow, MT, IB
  <2>8. QED BY <2>3, <2>6, <2>7 DEF Orderly
<1>2. CASE Attach(r)
  <2>1. ~At(r, "resolving") /\ ~At(r, "stopping") /\ UNCHANGED gateway
    BY <1>2 DEF Attach, At
  <2>2. CASE MT /\ Goto(r, [NoRequest EXCEPT !.pc = "attached"])
             /\ session' = 1 /\ UNCHANGED <<flow, sessions>>
    <3>1. [NoRequest EXCEPT !.pc = "attached"].pc = "attached"
      BY DEF NoRequest
    <3>2. Alone' /\ Stages'
      <4>1. Stage(r)'
        <5>1. request'[r].pc = "attached"
          BY <2>2, <3>1, OnlyOne
        <5>2. QED BY <2>1, <2>2, <5>1 DEF Stage, At, MT
      <4>2. QED BY <2>2, <4>1, OnlyOne
    <3>3. /\ ~\E p \in Requests : At(p, "stopping")
          /\ ~\E p \in Requests : At(p, "resolving")
      BY <2>1 DEF At
    <3>4. Assembly' /\ FedHeld'
      BY <2>1, <2>2, <3>3 DEF Orderly, Assembly, FedHeld, flow, Built, Bare, MT
    <3>5. Noted'
      BY <2>1, <2>2, AttachNotes DEF flow
    <3>6. QED BY <3>2, <3>4, <3>5 DEF Orderly
  <2>3. CASE IB /\ sessions' = sessions + 1 /\ session' = sessions' /\ Start(r)
    <3>1. session' # 0
      BY <2>3, RuntimeAssumption DEF TypeOK
    <3>2. Orderly' /\ UNCHANGED <<md, streams>>
      BY <2>1, <2>3, <3>1, StartKeeps
    <3>3. QED BY <2>1, <2>3, <3>2, AttachNotes
  <2>4. QED BY <1>2, <2>2, <2>3 DEF Attach, MT, IB
<1>3. CASE StartAttached(r)
  <2>1. ~At(r, "resolving") /\ ~At(r, "stopping") /\ session' # 0
    BY <1>0, <1>3 DEF StartAttached, At, Stage
  <2>2. Orderly' /\ UNCHANGED <<md, streams>>
    BY <1>3, <2>1, StartKeeps DEF StartAttached
  <2>3. QED BY <1>3, <2>2 DEF StartAttached, Noted, MT, IB
<1>4. CASE Subscribe(r) \/ SkipSymbol(r)
  <2> DEFINE n == request[r].run
             s == Instruments[request[r].at]
  <2>1. /\ n \in Runs /\ request[r].at \in 1..Len(Instruments)
        /\ request[r].at + 1 \in 1..Done /\ s \in Symbols
    BY <1>0, <1>4, InstrumentFacts DEF Subscribe, SkipSymbol, Resolving, Request
  <2>2. /\ ~running /\ Built /\ callback = engine /\ n = engine
        /\ session # 0 /\ md[s] = 0
    BY <1>0, <1>4 DEF Subscribe, SkipSymbol, Stage
  <2>3. MT => \A t \in fed[n] : md[t] # 0
    BY <1>4, <2>1 DEF Subscribe, SkipSymbol, Orderly, FedHeld, At
  <2>4. UNCHANGED <<engine, feed, listeners, callback, session, sessions, gateway>>
    BY <1>4 DEF Subscribe, SkipSymbol
  <2>5. /\ engine' = n /\ feed' = n /\ listeners' = {n} /\ callback' = n
        /\ \A m \in Runs : m # n => fed[m] = {}
    BY <2>2, <2>4 DEF Built
  <2>6. CASE Subscribe(r)
    <3>1. /\ md' = [md EXCEPT ![s] = n]
          /\ streams' = streams \cup {[symbol |-> s, run |-> n, session |-> session]}
          /\ Subscribing(r, n, request[r].at + 1, {s})
      BY <2>6 DEF Subscribe
    <3>2. Noted'
      <4> HIDE DEF s, n
      <4> QED BY <2>1, <2>2, <2>4, <3>1, SubscribeNotes
    <3>3. \A t \in fed[n] \cup {s} : MT' => md'[t] # 0
      <4>1. n # 0 /\ \A t \in Symbols : md'[t] = IF t = s THEN n ELSE md[t]
        <5> HIDE DEF s, n
        <5> QED BY <2>1, <3>1, Types DEF TypeOK
      <4>2. fed[n] \subseteq Symbols
        BY <2>1 DEF TypeOK
      <4>3. QED BY <2>1, <2>3, <2>4, <4>1, <4>2 DEF MT
    <3>4. Orderly'
      BY <2>1, <2>2, <2>4, <2>5, <3>1, <3>3, SubscribingKeeps
    <3>5. QED BY <3>2, <3>4
  <2>7. CASE SkipSymbol(r)
    <3>1. Subscribing(r, n, request[r].at + 1, {}) /\ UNCHANGED <<md, streams>>
      BY <2>7 DEF SkipSymbol
    <3>2. \A t \in fed[n] \cup {} : MT' => md'[t] # 0
      BY <2>3, <2>4, <3>1 DEF MT
    <3>3. Orderly'
      BY <2>1, <2>2, <2>4, <2>5, <3>1, <3>2, SubscribingKeeps
    <3>4. Noted'
      BY <2>4, <3>1 DEF Noted, MT, IB
    <3>5. QED BY <3>3, <3>4
  <2>8. QED BY <1>4, <2>6, <2>7
<1>5. CASE StopSymbol(r)
  <2>1. PICK s \in Symbols : Unsubscribe(s) /\ Goto(r, [request[r] EXCEPT !.left = @ \ {s}])
    BY <1>0, <1>5 DEF StopSymbol, Held, Request
  <2> DEFINE q == [request[r] EXCEPT !.left = @ \ {s}]
  <2>2. q.pc = "stopping" /\ q.run = request[r].run
    BY <1>0, <1>5, WithoutSymbol DEF StopSymbol, At
  <2>3. Goto(r, q)
    BY <2>1
  <2> HIDE DEF q
  <2>4. request'[r] = q /\ \E p \in Requests : At(p, "stopping")'
    BY <2>2, <2>3, OnlyOne
  <2>5. /\ UNCHANGED <<running, engine, feed, fed, listeners, callback, session, sessions, gateway>>
        /\ MT /\ running /\ request[r].run = engine /\ callback = 0
    BY <1>0, <1>5 DEF StopSymbol, Stage
  <2>6. Stage(r)'
    BY <2>2, <2>4, <2>5 DEF Stage, At, MT
  <2>7. Alone' /\ Stages'
    BY <2>3, <2>6, OnlyOne
  <2>8. Assembly' /\ FedHeld'
    BY <2>4, <2>5 DEF Orderly, Assembly, FedHeld, Built
  <2>9. QED BY <2>1, <2>5, <2>7, <2>8, UnsubscribeKeeps DEF Orderly
<1>6. CASE Stopped(r)
  <2>1. running /\ request[r].run = engine /\ callback = 0
    BY <1>0, <1>6 DEF Stopped, Stage
  <2>2. Bare' /\ ~running'
    BY <1>6, <2>1, EndStopBares DEF Stopped
  <2>3. QED BY <1>6, <2>2, DetachKeeps DEF Stopped
<1>7. CASE DetachSymbol(r)
  <2>1. PICK s \in Symbols : Unsubscribe(s) /\ Goto(r, [request[r] EXCEPT !.left = @ \ {s}])
    BY <1>0, <1>7 DEF DetachSymbol, Held, Request
  <2> DEFINE q == [request[r] EXCEPT !.left = @ \ {s}]
  <2>2. q.pc = "detaching" /\ q.left = request[r].left \ {s}
    BY <1>0, <1>7, WithoutSymbol DEF DetachSymbol, At
  <2>3. Goto(r, q)
    BY <2>1
  <2> HIDE DEF q
  <2>4. request'[r] = q
    BY <2>3, OnlyOne
  <2>5. /\ UNCHANGED <<running, engine, feed, fed, listeners, callback, session, sessions, gateway>>
        /\ MT /\ ~running /\ \A t \in Symbols \ request[r].left : md[t] = 0
    BY <1>0, <1>7 DEF DetachSymbol, Stage
  <2>6. Noted' /\ \A t \in Symbols : md'[t] # 0 => t # s /\ md[t] # 0
    BY <2>1, <2>5, UnsubscribeKeeps
  <2>7. Stage(r)'
    BY <2>2, <2>4, <2>5, <2>6 DEF Stage, At, MT
  <2>8. Alone' /\ Stages'
    BY <2>3, <2>7, OnlyOne
  <2>9. Bare'
    BY <1>7, <2>5 DEF DetachSymbol, Orderly, Assembly, Bare, At
  <2>10. Assembly' /\ FedHeld'
    BY <2>5, <2>9 DEF Assembly, FedHeld, Bare
  <2>11. QED BY <2>6, <2>8, <2>10 DEF Orderly
<1>8. CASE Detached(r)
  <2>1. MT /\ ~running /\ \A t \in Symbols \ request[r].left : md[t] = 0
    BY <1>0, <1>8 DEF Detached, Stage
  <2>2. \A t \in Symbols : md[t] = 0
    BY <1>8, <2>1 DEF Detached, Held
  <2>3. Alone' /\ Stages'
    BY <1>8, OnlyOne DEF Detached, Return, NoRequest, Stage, At
  <2>4. Bare' /\ ~running'
    BY <1>8, <2>1 DEF Detached, flow, Orderly, Assembly, Bare, At
  <2>5. Assembly' /\ FedHeld'
    BY <2>4 DEF Assembly, FedHeld, Bare
  <2>6. Noted'
    BY <1>8, <2>1, <2>2 DEF Detached, flow, Noted, MT, IB
  <2>7. QED BY <2>3, <2>5, <2>6 DEF Orderly
<1>9. QED BY <1>1, <1>2, <1>3, <1>4, <1>5, <1>6, <1>7, <1>8

LEMMA RuntimeNext ==
  TypeOK /\ Resolving /\ RuntimeInv /\ [Next]_vars => RuntimeInv'
<1> SUFFICES ASSUME TypeOK, Resolving, RuntimeInv, [Next]_vars, ~overlapped'
             PROVE  Orderly' /\ Noted'
  BY DEF RuntimeInv
<1>1. ASSUME NEW r \in Requests, Connect(r) \/ Disconnect(r)
      PROVE  Orderly' /\ Noted'
  <2>1. Quiet /\ ~overlapped
    BY <1>1 DEF Connect, Disconnect
  <2>2. \A p \in Requests \ {r} : At(p, "idle")
    BY <2>1 DEF Quiet
  <2>3. QED BY <1>1, <2>1, <2>2, DisconnectKeeps, RequestKeeps DEF RuntimeInv
<1>2. ASSUME NEW r \in Requests,
             \/ ConnectFails(r) \/ Attach(r) \/ StartAttached(r)
             \/ Subscribe(r) \/ SkipSymbol(r)
             \/ StopSymbol(r) \/ Stopped(r) \/ DetachSymbol(r) \/ Detached(r)
      PROVE  Orderly' /\ Noted'
  <2>1. ~overlapped /\ ~At(r, "idle")
    BY <1>2 DEF ConnectFails, Attach, StartAttached, Subscribe, SkipSymbol, StopSymbol,
                Stopped, DetachSymbol, Detached, kept, At
  <2>2. \A p \in Requests \ {r} : At(p, "idle")
    BY <2>1 DEF RuntimeInv, Orderly, Alone
  <2>3. QED BY <1>2, <2>1, <2>2, RequestKeeps DEF RuntimeInv
<1>3. CASE Lose \/ Recover \/ UNCHANGED vars
  <2>1. UNCHANGED <<request, flow, session, sessions, gateway, overlapped>>
    BY <1>3 DEF Lose, Recover, vars, flow, kept
  <2>2. Orderly /\ Noted
    BY <2>1 DEF RuntimeInv
  <2>3. Noted' /\ FedHeld'
    BY <2>1, <2>2 DEF Orderly, Noted, FedHeld, flow, MT, IB, At
  <2>4. Alone' /\ Assembly'
    BY <2>1, <2>2 DEF Orderly, Alone, Assembly, flow, Built, Bare, At
  <2>5. Stages'
    BY <2>1, <2>2 DEF Orderly, Stages, Stage, flow, Built, MT, At
  <2>6. QED BY <2>3, <2>4, <2>5 DEF Orderly
\* A gateway that lost its session has cancelled every polling task.
<1>4. CASE StreamEnds
  <2>1. ~overlapped /\ MT /\ session = 0 /\ streams # {}
    BY <1>4 DEF StreamEnds, kept, MT
  <2>2. \A x \in streams : x.symbol \in Symbols /\ x.run # 0
    BY DEF TypeOK, Stream, Runs
  <2>3. QED BY <2>1, <2>2 DEF RuntimeInv, Noted
<1>5. QED BY <1>1, <1>2, <1>3, <1>4 DEF Next

LEMMA RuntimeInit == Init => RuntimeInv
<1> SUFFICES ASSUME Init PROVE Orderly /\ Noted
  BY DEF RuntimeInv
<1>1. \A r \in Requests : request[r].pc = "idle"
  BY DEF Init, NoRequest
<1>2. Alone /\ Stages
  BY <1>1 DEF Alone, Stages, Stage, At
<1>3. Assembly /\ FedHeld /\ Noted
  BY DEF Init, Assembly, Bare, FedHeld, Noted
<1>4. QED BY <1>2, <1>3 DEF Orderly

\* The assembly of an engine and a feed, as requests that do not overlap find it.
LEMMA RuntimeHolds == Spec => [](TypeOK /\ RuntimeInv)
<1>1. TypeOK /\ Resolving /\ RuntimeInv /\ [Next]_vars => (TypeOK /\ Resolving /\ RuntimeInv)'
  BY TypeNext, RuntimeNext
<1>2. QED BY <1>1, TypeInit, RuntimeInit, PTL DEF Spec

\* start and stop leave nothing at work: between requests that never overlapped,
\* the engine, the feed, the bus and the callback are all of one start while the
\* runtime runs; when it does not, because it was stopped or because a start
\* raised half-way, no engine is on the bus or called back and there is no feed;
\* it never runs without a session.
THEOREM NothingRunsDetachedHolds == Spec => []NothingRunsDetached
<1>1. TypeOK /\ RuntimeInv => NothingRunsDetached
  <2> SUFFICES ASSUME TypeOK, RuntimeInv, Quiet, ~overlapped
               PROVE  /\ session = 0 => ~running
                      /\ IF running
                         THEN listeners = {engine} /\ callback = engine /\ feed = engine /\ engine # 0
                         ELSE listeners = {} /\ callback = 0 /\ feed = 0
    BY DEF NothingRunsDetached, Settled
  <2>1. Assembly /\ ~\E r \in Requests : At(r, "stopping") \/ At(r, "resolving")
    BY DEF RuntimeInv, Orderly, Quiet, At
  <2>2. QED BY <2>1 DEF Assembly, Built, Bare
<1>2. QED BY <1>1, RuntimeHolds, PTL

\* On MetaTrader every symbol of a running feed keeps a stream that delivers,
\* through every loss and return of the terminal.
THEOREM TerminalFlowAliveHolds == Spec => []TerminalFlowAlive
<1>1. TypeOK /\ RuntimeInv => TerminalFlowAlive
  <2> SUFFICES ASSUME TypeOK, RuntimeInv, MT, Quiet, ~overlapped, running, Connected,
                      NEW s \in fed[feed]
               PROVE  \E x \in streams : x.symbol = s /\ Delivers(x)
    BY DEF TerminalFlowAlive, FlowAlive, Settled, MT
  <2>1. feed \in Runs
    BY Types DEF RuntimeInv, Orderly, Assembly, Built, TypeOK
  <2>2. s \in Symbols /\ md[s] # 0
    BY <2>1 DEF RuntimeInv, Orderly, FedHeld, Quiet, At, TypeOK
  <2>3. QED BY <2>2 DEF RuntimeInv, Noted, Delivers, MT
<1>2. QED BY <1>1, RuntimeHolds, PTL

\* No symbol's price reaches the bus twice, while a request is in progress included.
THEOREM OneStreamHolds == Spec => []OneStream
<1>1. TypeOK /\ RuntimeInv => OneStream
  <2> SUFFICES ASSUME TypeOK, RuntimeInv, ~overlapped, NEW x \in streams, NEW y \in streams,
                      Delivers(x), Delivers(y), x.symbol = y.symbol
               PROVE  x = y
    BY DEF OneStream
  <2>1. x.run = y.run /\ x.session = y.session
    BY DEF RuntimeInv, Noted, Delivers, MT
  <2>2. x \in Stream /\ y \in Stream
    BY DEF TypeOK
  <2>3. QED BY <2>1, <2>2 DEF Stream
<1>2. QED BY <1>1, RuntimeHolds, PTL
=============================================================================
