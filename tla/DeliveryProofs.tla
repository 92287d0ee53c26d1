--------------------------- MODULE DeliveryProofs ---------------------------
(***************************************************************************)
(* What is proved of the parts around the delivery of a message: notices,  *)
(* advisories, the chain of hops, the listener's connections, what status  *)
(* says of a bridge, and what a bridge believes of its session.            *)
(***************************************************************************)
EXTENDS Notices, Advisory, Relay, Connections, Status, Lifecycle, FiniteSetTheorems, TLAPS

-----------------------------------------------------------------------------
(* Notices *)

\* While the listener is between its look and its write, the map it has looked at still
\* has every notice that nobody has taken.
NoticesInv ==
  /\ NoticesTypeOK
  /\ NoticesAreKept
  /\ keeper.notice # {} => \A s \in Senders : unshown[s] # 0 => keeper.copy[s] = unshown[s]

LEMMA NoticesInitInv == NoticesInit => NoticesInv
BY NoticesAssumption
DEF NoticesInit, NoticesInv, NoticesTypeOK, NoticesAreKept, NotKeeping, NoNotices, NoticeMaps

LEMMA NoticesStep == ASSUME NoticesInv, [NoticesNext]_noticesVars PROVE NoticesInv'
<1> USE NoticesAssumption
    DEF NoticesInv, NoticesTypeOK, NoticesAreKept, NoticeMaps, NoNotices, NotKeeping
<1>1. ASSUME NEW s \in Senders, SenderAdvises(s) PROVE NoticesInv'
  BY <1>1 DEF SenderAdvises
<1>2. CASE KeeperReads
  BY <1>2 DEF KeeperReads
<1>3. CASE KeeperWrites
  <2>1. PICK n \in keeper.notice :
          /\ notices' = [keeper.copy EXCEPT ![n[1]] = n[2]]
          /\ unshown' = [unshown EXCEPT ![n[1]] = n[2]]
          /\ keeper' = NotKeeping
          /\ UNCHANGED <<written, coming>>
    BY <1>3 DEF KeeperWrites
  <2>2. n[1] \in Senders /\ n[2] \in 0..MaxNotice
    OBVIOUS
  <2>3. NoticesTypeOK'
    BY <2>1, <2>2
  <2>4. \A s \in Senders : unshown'[s] # 0 => notices'[s] = unshown'[s]
    BY <2>1, <2>2
  <2> QED
    BY <2>1, <2>3, <2>4
<1>4. CASE KeeperDies
  BY <1>4 DEF KeeperDies
<1>5. CASE HookTakesNotices
  BY <1>5 DEF HookTakesNotices
<1>6. CASE UNCHANGED noticesVars
  BY <1>6 DEF noticesVars
<1> QED
  BY <1>1, <1>2, <1>3, <1>4, <1>5, <1>6 DEF NoticesNext

\* A hook that takes the notices while the listener is about to store one may bring one
\* back, but none is lost (store_notice, take_notices).
THEOREM NoticesAreKeptAlways == NoticesSpec => []NoticesAreKept
<1>1. NoticesInv => NoticesAreKept
  BY DEF NoticesInv
<1> QED
  BY NoticesInitInv, NoticesStep, <1>1, PTL DEF NoticesSpec

-----------------------------------------------------------------------------
(* Advisories *)

\* A message is marked before it is written of, and what the worker holds in its hands has
\* not been written of.
AdvisedInv ==
  /\ AdvisoryTypeOK
  /\ adviser.toMark \subseteq adviser.ids
  /\ \A m \in Messages :
       /\ attempts[m] <= 1
       /\ m \notin marked => attempts[m] = 0
       /\ adviser.pc \in {"mark", "write"} /\ m \in adviser.ids => attempts[m] = 0
       /\ adviser.pc \in {"mark", "write"} /\ m \in adviser.ids \ adviser.toMark => m \in marked
       /\ adviser.pc = "write" => m \notin adviser.toMark

LEMMA AdvisedInitInv == AdvisoryInit => AdvisedInv
BY AdvisoryAssumption DEF AdvisoryInit, AdvisedInv, AdvisoryTypeOK, Looking

LEMMA AdvisedStep == ASSUME AdvisedInv, [AdvisoryNext]_advisoryVars PROVE AdvisedInv'
<1> USE AdvisoryAssumption DEF AdvisedInv, AdvisoryTypeOK
<1>1. ASSUME UNCHANGED <<adviser, marked, attempts>>, AdvisoryTypeOK' PROVE AdvisedInv'
  BY <1>1
<1>2. CASE WorkerLooksAtDelivery
  BY <1>2 DEF WorkerLooksAtDelivery
<1>3. CASE WorkerSelects
  <2> DEFINE ids == Oldest(Eligible(adviser.delivery), Batch)
  <2>1. ids \subseteq Messages \ marked
    BY DEF Oldest, Eligible, Blocked, Waiting
  <2>2. CASE ids = {}
    BY <1>3, <2>2 DEF WorkerSelects, Looking
  <2>3. CASE ids # {}
    <3>1. adviser' = [adviser EXCEPT !.pc = "mark", !.ids = ids, !.toMark = ids]
          /\ UNCHANGED <<row, fresh, delivery, marked, listenerCrashes, attempts>>
      BY <1>3, <2>3 DEF WorkerSelects
    <3>2. adviser'.pc = "mark" /\ adviser'.ids = ids /\ adviser'.toMark = ids
      BY <3>1
    <3>3. AdvisoryTypeOK'
      BY <2>1, <3>1
    <3> QED
      BY <2>1, <3>1, <3>2, <3>3
  <2> QED
    BY <2>2, <2>3
<1>4. CASE WorkerMarks
  <2>1. PICK m \in adviser.toMark :
          /\ adviser.pc = "mark"
          /\ marked' = marked \cup {m}
          /\ adviser' = [adviser EXCEPT !.toMark = @ \ {m},
                                        !.pc = IF adviser.toMark = {m} THEN "write" ELSE "mark"]
          /\ UNCHANGED <<row, fresh, delivery, listenerCrashes, attempts>>
    BY <1>4 DEF WorkerMarks
  <2>2. /\ adviser'.toMark = adviser.toMark \ {m} /\ adviser'.ids = adviser.ids
        /\ adviser'.pc = IF adviser.toMark = {m} THEN "write" ELSE "mark"
    BY <2>1
  <2>3. AdvisoryTypeOK'
    BY <2>1
  <2> QED
    BY <2>1, <2>2, <2>3
<1>5. CASE WorkerAdvises
  BY <1>5 DEF WorkerAdvises, Looking
<1>6. CASE ListenerDies
  BY <1>6 DEF ListenerDies, Looking
<1>7. CASE \E m \in Messages :
             MessageArrives(m) \/ MessageAges(m) \/ MessageHeld(m) \/ MessageGoes(m)
  BY <1>1, <1>7 DEF MessageArrives, MessageAges, MessageHeld, MessageGoes
<1>8. CASE \E d \in {"reachable", "startup", "blocked"} : DeliveryChanges(d)
  BY <1>1, <1>8 DEF DeliveryChanges
<1>9. CASE UNCHANGED advisoryVars
  BY <1>1, <1>9 DEF advisoryVars
<1> QED
  BY <1>2, <1>3, <1>4, <1>5, <1>6, <1>7, <1>8, <1>9 DEF AdvisoryNext, AdviserStep

\* However many messages one advisory names, and wherever the listener dies: "never retry
\* an ambiguous notice" (notify).
THEOREM AdvisedOnceAlways == AdvisorySpec => []AdvisedOnce
<1>1. AdvisedInv => AdvisedOnce
  BY DEF AdvisedInv, AdvisedOnce
<1> QED
  BY AdvisedInitInv, AdvisedStep, <1>1, PTL DEF AdvisorySpec

-----------------------------------------------------------------------------
(* The chain of hops *)

Underway == {"note", "queue", "queued"}

RelayTypes ==
  /\ sending \in [Sends -> [pc : {"free", "note", "queue", "queued", "done"},
                            from : {{}} \cup {{b} : b \in Bridges},
                            to : {{}} \cup {{b} : b \in Bridges}, answers : 0..MaxSends]]
  /\ replyTo \in [Sends -> 0..MaxSends] /\ chain \in [Sends -> Nat]
  /\ arrived \in [Sends -> [status : {"none", "received", "offered", "held"}, hops : Seq(Bridges)]]

\* What a message answers has arrived, and came from the peer the answer goes to.
Answering(m) ==
  LET n == sending[m].answers IN
  IF n = 0 THEN chain[m] = 1
  ELSE chain[m] = chain[n] + 1 /\ arrived[n].status # "none" /\ sending[n].from = sending[m].to

\* The hops that arrive with a message are as many as the messages of its chain of answers,
\* for what it answers is on record before its row can be dispatched.
Chained(m) ==
  /\ arrived[m].status # "none" => sending[m].pc = "done" /\ Len(arrived[m].hops) = chain[m]
  /\ arrived[m].status = "offered" => Len(arrived[m].hops) < HopLimit
  /\ sending[m].pc # "free" => sending[m].from # {} /\ sending[m].to # {}
  /\ sending[m].pc \in Underway => Answering(m)
  /\ sending[m].pc \in {"queue", "queued"} => replyTo[m] = sending[m].answers
  /\ sending[m].pc \in {"free", "note"} => replyTo[m] = 0

ChainInv == RelayTypes /\ \A m \in Sends : Chained(m)

LEMMA ChainInitInv == RelayInit => ChainInv
BY RelayAssumption
DEF RelayInit, ChainInv, RelayTypes, Chained, NotSent, NotArrived, Underway, Sends

LEMMA OwnHop ==
  ASSUME NEW hops \in Seq(Bridges), NEW from \in {{b} : b \in Bridges}
  PROVE  WithOwnHop(hops, from) \in Seq(Bridges) /\ Len(WithOwnHop(hops, from)) = Len(hops) + 1
<1>1. PICK b \in Bridges : from = {b}
  OBVIOUS
<1>2. (CHOOSE c \in from : TRUE) = b
  BY <1>1
<1> QED
  BY <1>1, <1>2 DEF WithOwnHop

\* A step on message m leaves the others as they are: what they answer stays what it was.
LEMMA OthersChained ==
  ASSUME ChainInv, NEW m \in Sends, NEW k \in Sends \ {m},
         sending'[k] = sending[k], replyTo'[k] = replyTo[k], chain'[k] = chain[k],
         arrived'[k] = arrived[k],
         \A n \in Sends : arrived[n].status # "none" =>
           arrived'[n].status # "none" /\ sending'[n].from = sending[n].from
           /\ chain'[n] = chain[n]
  PROVE  Chained(k)'
<1>1. sending[k].pc \in Underway => Answering(k)'
  <2> SUFFICES ASSUME sending[k].pc \in Underway PROVE Answering(k)'
    OBVIOUS
  <2>1. Answering(k) /\ sending[k].answers \in 0..MaxSends
    BY DEF ChainInv, RelayTypes, Chained
  <2> QED
    BY <2>1, RelayAssumption DEF Answering, Sends
<1> QED
  BY <1>1 DEF ChainInv, Chained

LEMMA ChainStep == ASSUME ChainInv, [RelayNext]_relayVars PROVE ChainInv'
<1> DEFINE Commands == [pc : {"free", "note", "queue", "queued", "done"},
                        from : {{}} \cup {{b} : b \in Bridges},
                        to : {{}} \cup {{b} : b \in Bridges}, answers : 0..MaxSends]
<1>0. MaxSends \in Nat
  BY RelayAssumption
<1> USE RelayAssumption, <1>0
<1>1. ASSUME NEW m \in Sends, NEW a \in Bridges, NEW b \in Bridges, SendsNew(m, a, b)
      PROVE  ChainInv'
  <2>1. /\ sending' = [sending EXCEPT ![m] = [pc |-> "queue", from |-> {a}, to |-> {b},
                                              answers |-> 0]]
        /\ chain' = [chain EXCEPT ![m] = 1]
        /\ UNCHANGED <<replyTo, arrived>> /\ sending[m].pc = "free"
    BY <1>1 DEF SendsNew, IsNext
  <2>2. RelayTypes'
    <3>1. [pc |-> "queue", from |-> {a}, to |-> {b}, answers |-> 0] \in Commands
      OBVIOUS
    <3> HIDE DEF Commands
    <3>2. sending' \in [Sends -> Commands]
      <4>1. sending \in [Sends -> Commands]
        BY DEF ChainInv, RelayTypes, Commands
      <4> QED
        BY <2>1, <3>1, <4>1
    <3> QED
      BY <2>1, <3>2 DEF ChainInv, RelayTypes, Commands
  <2>3. arrived[m].status = "none" /\ replyTo[m] = 0
    BY <2>1 DEF ChainInv, Chained
  <2>4. Chained(m)'
    BY <2>1, <2>3 DEF ChainInv, RelayTypes, Chained, Answering
  <2>5. ASSUME NEW k \in Sends \ {m} PROVE Chained(k)'
    BY <2>1, <2>3, OthersChained DEF ChainInv, RelayTypes
  <2> QED
    BY <2>2, <2>4, <2>5 DEF ChainInv
<1>2. ASSUME NEW m \in Sends, NEW n \in Sends, Answers(m, n) PROVE ChainInv'
  <2>1. /\ sending' = [sending EXCEPT ![m] = [pc |-> "note", from |-> sending[n].to,
                                              to |-> sending[n].from, answers |-> n]]
        /\ chain' = [chain EXCEPT ![m] = chain[n] + 1]
        /\ UNCHANGED <<replyTo, arrived>> /\ sending[m].pc = "free"
        /\ arrived[n].status = "offered"
    BY <1>2 DEF Answers, IsNext
  <2>2. RelayTypes'
    <3>0. /\ sending \in [Sends -> Commands] /\ chain \in [Sends -> Nat]
          /\ n \in 0..MaxSends
      <4>1. sending \in [Sends -> Commands] /\ chain \in [Sends -> Nat]
        BY DEF ChainInv, RelayTypes
      <4>2. n \in 0..MaxSends
        BY DEF Sends
      <4> QED
        BY <4>1, <4>2
    <3>1. [pc |-> "note", from |-> sending[n].to, to |-> sending[n].from, answers |-> n]
            \in Commands
      BY <3>0
    <3> HIDE DEF Commands
    <3>2. sending' \in [Sends -> Commands]
      BY <2>1, <3>0, <3>1
    <3>3. chain' \in [Sends -> Nat]
      BY <2>1, <3>0
    <3> QED
      BY <2>1, <3>2, <3>3 DEF ChainInv, RelayTypes, Commands
  <2>3. arrived[m].status = "none" /\ replyTo[m] = 0 /\ m # n
    BY <2>1 DEF ChainInv, Chained
  <2>4. sending[n].to # {} /\ sending[n].from # {}
    BY <2>1 DEF ChainInv, Chained
  <2>5. Chained(m)'
    <3>1. n # 0 /\ m \in Sends /\ n \in Sends
      BY DEF Sends
    <3>2. /\ sending'[m].pc = "note" /\ sending'[m].answers = n
          /\ sending'[m].from = sending[n].to /\ sending'[m].to = sending[n].from
          /\ chain'[m] = chain[n] + 1
      BY <2>1 DEF ChainInv, RelayTypes
    <3>3. /\ arrived'[m].status = "none" /\ replyTo'[m] = 0
          /\ arrived'[n].status = "offered" /\ chain'[n] = chain[n]
          /\ sending'[n].from = sending[n].from
      BY <2>1, <2>3 DEF ChainInv, RelayTypes
    <3>4. Answering(m)'
      BY <3>1, <3>2, <3>3 DEF Answering
    <3> QED
      BY <2>4, <3>2, <3>3, <3>4 DEF Chained
  <2>6. ASSUME NEW k \in Sends \ {m} PROVE Chained(k)'
    BY <2>1, <2>3, OthersChained DEF ChainInv, RelayTypes
  <2> QED
    BY <2>2, <2>5, <2>6 DEF ChainInv
<1>3. ASSUME NEW m \in Sends, Notes(m) PROVE ChainInv'
  <2>1. /\ sending' = [sending EXCEPT ![m].pc = "queue"] /\ sending[m].pc = "note"
        /\ replyTo' = [replyTo EXCEPT ![m] = sending[m].answers]
        /\ UNCHANGED <<arrived, chain>>
    BY <1>3 DEF Notes
  <2>2. RelayTypes'
    BY <2>1 DEF ChainInv, RelayTypes
  <2>3. arrived[m].status = "none" /\ sending[m].from # {} /\ sending[m].to # {} /\ Answering(m)
    BY <2>1 DEF ChainInv, Chained, Underway
  <2>4. Chained(m)'
    BY <2>1, <2>3 DEF ChainInv, RelayTypes, Chained, Answering, Sends
  <2>5. ASSUME NEW k \in Sends \ {m} PROVE Chained(k)'
    BY <2>1, <2>3, OthersChained DEF ChainInv, RelayTypes
  <2> QED
    BY <2>2, <2>4, <2>5 DEF ChainInv
<1>4. ASSUME NEW m \in Sends, Queues(m) PROVE ChainInv'
  <2>1. /\ sending' = [sending EXCEPT ![m].pc = "queued"] /\ sending[m].pc = "queue"
        /\ UNCHANGED <<replyTo, arrived, chain>>
    BY <1>4 DEF Queues
  <2>2. RelayTypes'
    BY <2>1 DEF ChainInv, RelayTypes
  <2>3. /\ arrived[m].status = "none" /\ sending[m].from # {} /\ sending[m].to # {}
        /\ Answering(m) /\ replyTo[m] = sending[m].answers
    BY <2>1 DEF ChainInv, Chained, Underway
  <2>4. Chained(m)'
    BY <2>1, <2>3 DEF ChainInv, RelayTypes, Chained, Answering, Sends
  <2>5. ASSUME NEW k \in Sends \ {m} PROVE Chained(k)'
    BY <2>1, <2>3, OthersChained DEF ChainInv, RelayTypes
  <2> QED
    BY <2>2, <2>4, <2>5 DEF ChainInv
<1>5. ASSUME NEW m \in Sends, SendFails(m) PROVE ChainInv'
  <2>1. /\ sending' = [sending EXCEPT ![m].pc = "done"] /\ sending[m].pc \in {"note", "queue"}
        /\ UNCHANGED <<replyTo, arrived, chain>>
    BY <1>5 DEF SendFails
  <2>2. RelayTypes'
    BY <2>1 DEF ChainInv, RelayTypes
  <2>3. arrived[m].status = "none" /\ sending[m].from # {} /\ sending[m].to # {}
    BY <2>1 DEF ChainInv, Chained
  <2>4. Chained(m)'
    BY <2>1, <2>3 DEF ChainInv, RelayTypes, Chained, Underway
  <2>5. ASSUME NEW k \in Sends \ {m} PROVE Chained(k)'
    BY <2>1, <2>3, OthersChained DEF ChainInv, RelayTypes
  <2> QED
    BY <2>2, <2>4, <2>5 DEF ChainInv
<1>6. ASSUME NEW m \in Sends, NEW arrives \in BOOLEAN, Dispatches(m, arrives) PROVE ChainInv'
  <2> DEFINE n == sending[m].answers
             hops == WithOwnHop(PriorHops(m), sending[m].from)
  <2>1. /\ sending[m].pc = "queued" /\ replyTo[m] = n /\ arrived[m].status = "none"
        /\ sending[m].from \in {{b} : b \in Bridges} /\ sending[m].to # {} /\ Answering(m)
    BY <1>6 DEF Dispatches, ChainInv, RelayTypes, Chained, Underway
  <2>2. PriorHops(m) \in Seq(Bridges) /\ Len(PriorHops(m)) + 1 = chain[m]
    <3>1. CASE n = 0
      BY <2>1, <3>1 DEF PriorHops, Answering
    <3>2. CASE n # 0
      <4>1. n \in Sends
        <5>1. n \in 0..MaxSends
          BY DEF ChainInv, RelayTypes
        <5> QED
          BY <3>2, <5>1 DEF Sends
      <4>2. PriorHops(m) = arrived[n].hops
        BY <2>1, <3>2 DEF PriorHops, Answering
      <4> QED
        BY <2>1, <3>2, <4>1, <4>2 DEF Answering, ChainInv, RelayTypes, Chained
    <3> QED
      BY <3>1, <3>2
  <2>3. hops \in Seq(Bridges) /\ Len(hops) = chain[m]
    BY <2>1, <2>2, OwnHop
  <2>4. /\ sending' = [sending EXCEPT ![m].pc = "done"]
        /\ arrived' = IF arrives /\ Len(hops) <= ChainLimit
                        THEN [arrived EXCEPT ![m] = [status |-> "received", hops |-> hops]]
                        ELSE arrived
        /\ UNCHANGED <<replyTo, chain>>
    BY <1>6 DEF Dispatches
  <2> HIDE DEF hops
  <2>5. RelayTypes'
    BY <2>3, <2>4 DEF ChainInv, RelayTypes
  <2>6. Chained(m)'
    BY <2>1, <2>3, <2>4 DEF ChainInv, RelayTypes, Chained, Underway
  <2>7. ASSUME NEW k \in Sends \ {m} PROVE Chained(k)'
    <3>1. /\ sending'[k] = sending[k] /\ arrived'[k] = arrived[k]
          /\ \A i \in Sends : sending'[i].from = sending[i].from
          /\ \A i \in Sends : arrived[i].status # "none" => arrived'[i].status # "none"
      BY <2>1, <2>4 DEF ChainInv, RelayTypes
    <3> QED
      BY <2>4, <3>1, OthersChained
  <2> QED
    BY <2>5, <2>6, <2>7 DEF ChainInv
<1>7. ASSUME NEW m \in Sends, Guarded(m) PROVE ChainInv'
  <2> DEFINE s == IF Len(arrived[m].hops) >= HopLimit THEN "held" ELSE "offered"
  <2>1. /\ arrived[m].status = "received" /\ arrived' = [arrived EXCEPT ![m].status = s]
        /\ UNCHANGED <<sending, replyTo, chain>>
    BY <1>7 DEF Guarded
  <2>2. RelayTypes'
    BY <2>1 DEF ChainInv, RelayTypes
  <2>3. /\ arrived'[m].status = s /\ arrived'[m].hops = arrived[m].hops
        /\ \A i \in Sends \ {m} : arrived'[i] = arrived[i]
    BY <2>1 DEF ChainInv, RelayTypes
  <2>4. Chained(m)'
    BY <2>1, <2>3 DEF ChainInv, RelayTypes, Chained, Underway
  <2>5. ASSUME NEW k \in Sends \ {m} PROVE Chained(k)'
    <3>1. \A i \in Sends : arrived[i].status # "none" => arrived'[i].status # "none"
      BY <2>1, <2>3
    <3> QED
      BY <2>1, <2>3, <3>1, OthersChained
  <2> QED
    BY <2>2, <2>4, <2>5 DEF ChainInv
<1>8. CASE UNCHANGED relayVars
  BY <1>8 DEF relayVars, ChainInv, RelayTypes, Chained, Answering
<1> QED
  BY <1>1, <1>2, <1>3, <1>4, <1>5, <1>6, <1>7, <1>8 DEF RelayNext

\* A conversation of agents that answer at once ends, for any limits, any number of
\* bridges and any number of answers to one message (outbound, with_own_hop, the guard of
\* hooks and worker).
THEOREM LoopsEndAlways == RelaySpec => []LoopsEnd
<1>1. ChainInv => LoopsEnd
  BY DEF ChainInv, Chained, LoopsEnd
<1> QED
  BY ChainInitInv, ChainStep, <1>1, PTL DEF RelaySpec

-----------------------------------------------------------------------------
(* The listener's connections *)

ConnectionTypes ==
  /\ process \in [Pids -> Processes \cup {Nobody}] /\ started \in Nat
  /\ endpoint \in [ChatPeers -> [pid : {{i} : i \in Pids}, number : 1..MaxProcess]
                                  \cup {NoEndpoint}]
  /\ known \subseteq ChatPeers /\ enrolled \subseteq ChatPeers
  /\ senderKeys \in [Pids -> SUBSET ChatPeers]
  /\ \A c \in backlog : c.pid \in Pids
  /\ IsFiniteSet(clients)

\* The number of a process tells whose process it is, and the endpoint that carries it is
\* that peer's, also when the process has ended and its pid belongs to another one.
NumbersTell ==
  /\ \A i \in Pids : process[i].number <= started
  /\ \A p \in ChatPeers : endpoint[p].number <= started
  /\ \A i, j \in Pids : process[i].number # 0 /\ process[i].number = process[j].number => i = j
  /\ \A i \in Pids, p \in ChatPeers :
       process[i].number # 0 /\ process[i].number = endpoint[p].number => process[i].who = {p}

ConnectionsInv == ConnectionTypes /\ NumbersTell

LEMMA ConnectionsInitInv == ConnectionsInit => ConnectionsInv
BY FS_EmptySet DEF ConnectionsInit, ConnectionsInv, ConnectionTypes, NumbersTell, Nobody, NoEndpoint

LEMMA FoundIsOne ==
  ASSUME ConnectionsInv, NEW S \in SUBSET ChatPeers, Cardinality(S) = 1
  PROVE  \E p \in ChatPeers : S = {p}
<1>1. IsFiniteSet(S)
  BY ConnectionsAssumption, FS_Subset
<1> QED
  BY <1>1, FS_Singleton

LEMMA ConnectionsStep ==
  ASSUME ConnectionsInv, [ConnectionsNext]_connectionsVars PROVE ConnectionsInv'
<1> USE ConnectionsAssumption DEF ConnectionsInv
<1>0. MaxProcess \in Nat
  OBVIOUS
<1>1. ASSUME NEW p \in ChatPeers, NEW i \in Pids, Spawns(p, i) PROVE ConnectionsInv'
  <2>1. /\ process' = [process EXCEPT ![i] = [who |-> {p}, number |-> started + 1]]
        /\ started' = started + 1 /\ started < MaxProcess
        /\ UNCHANGED <<endpoint, enrolled, backlog, serverVars>>
    BY <1>1 DEF Spawns
  <2>2. [who |-> {p}, number |-> started + 1] \in Processes
    BY <1>0, <2>1 DEF Processes, ConnectionTypes
  <2>3. ConnectionTypes'
    BY <2>1, <2>2 DEF ConnectionTypes, serverVars
  <2>4. NumbersTell'
    BY <2>1, <2>2 DEF ConnectionTypes, NumbersTell, Processes, Nobody, NoEndpoint
  <2> QED
    BY <2>3, <2>4
<1>2. ASSUME NEW p \in ChatPeers, NEW i \in Pids, Publishes(p, i) PROVE ConnectionsInv'
  <2>1. /\ process[i].who = {p}
        /\ endpoint' = [endpoint EXCEPT ![p] = [pid |-> {i}, number |-> process[i].number]]
        /\ UNCHANGED <<process, started, enrolled, backlog, serverVars>>
    BY <1>2 DEF Publishes
  <2>2. process[i] \in Processes
    <3>1. p \in process[i].who
      BY <2>1
    <3>2. p \notin Nobody.who
      BY DEF Nobody
    <3> QED
      BY <3>1, <3>2 DEF ConnectionTypes
  <2>3. [pid |-> {i}, number |-> process[i].number] \in [pid : {{j} : j \in Pids}, number : 1..MaxProcess]
    BY <2>2 DEF Processes
  <2>4. ConnectionTypes'
    BY <2>1, <2>3 DEF ConnectionTypes, serverVars
  <2>5. NumbersTell'
    BY <2>1, <2>2 DEF ConnectionTypes, NumbersTell, Processes, Nobody, NoEndpoint
  <2> QED
    BY <2>4, <2>5
<1>3. ASSUME NEW i \in Pids, NEW retracts \in BOOLEAN, Exits(i, retracts) PROVE ConnectionsInv'
  <2>1. PICK p \in process[i].who :
          /\ process' = [process EXCEPT ![i] = Nobody]
          /\ endpoint' = IF retracts THEN [endpoint EXCEPT ![p] = NoEndpoint] ELSE endpoint
          /\ UNCHANGED <<started, enrolled, backlog, serverVars>>
    BY <1>3 DEF Exits
  <2>2. ConnectionTypes'
    BY <2>1 DEF ConnectionTypes, serverVars
  <2>3. NumbersTell'
    BY <2>1 DEF ConnectionTypes, NumbersTell, Processes, Nobody, NoEndpoint
  <2> QED
    BY <2>2, <2>3
<1>4. ASSUME NEW p \in ChatPeers, Enrolls(p) PROVE ConnectionsInv'
  BY <1>4 DEF Enrolls, ConnectionTypes, NumbersTell, serverVars
<1>5. ASSUME NEW i \in Pids, ConnectsFrom(i) PROVE ConnectionsInv'
  <2>1. PICK p \in process[i].who :
          /\ connects < MaxConnects
          /\ backlog' = backlog \cup {[pid |-> i, by |-> p, number |-> process[i].number,
                                       id |-> connects + 1]}
          /\ UNCHANGED <<machineVars, serverVars>>
    BY <1>5 DEF ConnectsFrom
  <2> QED
    BY <2>1 DEF ConnectionTypes, NumbersTell, machineVars, serverVars
<1>6. ASSUME NEW c \in backlog, Accepts(c) PROVE ConnectionsInv'
  <2> DEFINE found == Matches(c.pid)
  <2>1. c.pid \in Pids
    BY DEF ConnectionTypes
  <2>2. found \in SUBSET ChatPeers
    BY DEF Matches, ConnectionTypes
  <2>3. Hints \in [Pids -> SUBSET ChatPeers]
    BY DEF Hints, ConnectionTypes
  <2>4. backlog' \subseteq backlog /\ UNCHANGED <<machineVars, known>>
    BY <1>6 DEF Accepts, HasRoom, ConnectionTypes
  <2>5. senderKeys' \in [Pids -> SUBSET ChatPeers]
    BY <1>6, <2>1, <2>2, <2>3 DEF Accepts, HasRoom, ConnectionTypes
  <2>6. IsFiniteSet(clients')
    <3>1. CASE Cardinality(clients) < MaxClients /\ Cardinality(found) = 1
      <4>1. PICK p \in ChatPeers : found = {p}
        BY <2>2, <3>1, FoundIsOne
      <4>2. clients' = clients \cup {[connect |-> c, key |-> p, old |-> FALSE]}
        BY <1>6, <3>1, <4>1 DEF Accepts, HasRoom
      <4> QED
        BY <4>2, FS_AddElement DEF ConnectionTypes
    <3>2. CASE ~(Cardinality(clients) < MaxClients /\ Cardinality(found) = 1)
      BY <1>6, <3>2 DEF Accepts, HasRoom, ConnectionTypes
    <3> QED
      BY <3>1, <3>2
  <2> QED
    BY <2>4, <2>5, <2>6 DEF ConnectionTypes, NumbersTell, machineVars
<1>7. ASSUME UNCHANGED <<machineVars, backlog, senderKeys>>, IsFiniteSet(clients'),
             known' \subseteq ChatPeers
      PROVE  ConnectionsInv'
  BY <1>7 DEF ConnectionTypes, NumbersTell, machineVars
<1>8. ASSUME NEW c \in clients, Closes(c) PROVE ConnectionsInv'
  <2>1. IsFiniteSet(clients')
    BY <1>8, FS_RemoveElement DEF Closes, ConnectionTypes
  <2> QED
    BY <1>7, <1>8, <2>1 DEF Closes, ConnectionTypes
<1>9. CASE TimePasses
  <2>1. PICK c \in clients : GrowsOld(c)
    BY <1>9 DEF TimePasses
  <2>2. IsFiniteSet(clients')
    BY <2>1, FS_RemoveElement, FS_AddElement DEF GrowsOld, ConnectionTypes
  <2> QED
    BY <1>7, <2>1, <2>2 DEF GrowsOld, ConnectionTypes
<1>10. CASE ClosesOld
  <2>1. IsFiniteSet(clients')
    BY <1>10, FS_Subset DEF ClosesOld, ConnectionTypes
  <2> QED
    BY <1>7, <1>10, <2>1 DEF ClosesOld, ConnectionTypes
<1>11. CASE RoundBegins
  BY <1>7, <1>11 DEF RoundBegins, ConnectionTypes
<1>12. CASE UNCHANGED connectionsVars
  BY <1>7, <1>12 DEF connectionsVars, machineVars, ConnectionTypes
<1> QED
  BY <1>1, <1>2, <1>3, <1>4, <1>5, <1>6, <1>8, <1>9, <1>10, <1>11, <1>12 DEF ConnectionsNext

\* The peer that is alive and on record is the only one the listener finds for its pid,
\* whether or not it remembers another one.
LEMMA OwnerIsFound ==
  ASSUME ConnectionsInv, NEW p \in known, NEW i \in Pids, Verified(p, i)
  PROVE  Matches(i) = {p}
<1>1. process[i].number # 0
  BY DEF ConnectionsInv, ConnectionTypes, Verified, NoEndpoint
<1>2. ASSUME NEW q \in known, Verified(q, i) PROVE q = p
  <2>1. p \in ChatPeers /\ q \in ChatPeers
    BY DEF ConnectionsInv, ConnectionTypes
  <2>2. process[i].who = {p}
    BY <1>1, <2>1 DEF ConnectionsInv, NumbersTell, Verified
  <2>3. process[i].who = {q}
    BY <1>1, <1>2, <2>1 DEF ConnectionsInv, NumbersTell, Verified
  <2> QED
    BY <2>2, <2>3, Zenon
<1> QED
  BY <1>2 DEF Matches

\* For any number of peers, pids, connections and processes: a live and enrolled peer is
\* not refused for what sender_keys says of its pid (serve, resolve_peer, verify_peer).
THEOREM PeersAreRecognisedAlways == ConnectionsSpec => PeersAreRecognised
<1> DEFINE Recognised ==
      \A c \in backlog \ backlog' :
        c.by \in known /\ endpoint[c.by] = [pid |-> {c.pid}, number |-> c.number]
          /\ process[c.pid].number = c.number
        => \/ Cardinality(clients) >= MaxClients
           \/ \E d \in clients' : d.connect = c /\ Decodes(d)
<1>1. ConnectionsInv /\ [ConnectionsNext]_connectionsVars => [Recognised]_connectionsVars
  <2> SUFFICES ASSUME ConnectionsInv, ConnectionsNext, NEW c \in backlog \ backlog',
                      c.by \in known, endpoint[c.by] = [pid |-> {c.pid}, number |-> c.number],
                      process[c.pid].number = c.number, ~(Cardinality(clients) >= MaxClients)
               PROVE  \E d \in clients' : d.connect = c /\ Decodes(d)
    OBVIOUS
  <2>1. PICK d \in backlog : Accepts(d)
    BY DEF ConnectionsNext, Spawns, Publishes, Exits, Enrolls, ConnectsFrom, Closes,
           RoundBegins, TimePasses, GrowsOld, ClosesOld
  <2>2. Accepts(c)
    BY <2>1 DEF Accepts, HasRoom
  <2>3. c.pid \in Pids /\ Verified(c.by, c.pid)
    BY DEF ConnectionsInv, ConnectionTypes, Verified
  <2>4. Matches(c.pid) = {c.by}
    BY <2>3, OwnerIsFound
  <2>5. Cardinality(clients) \in Nat /\ MaxClients \in Nat
    BY ConnectionsAssumption, FS_CardinalityType DEF ConnectionsInv, ConnectionTypes
  <2>7. Cardinality(Matches(c.pid)) = 1
    BY <2>4, FS_Singleton
  <2>6. clients' = clients \cup {[connect |-> c, key |-> p, old |-> FALSE] : p \in {c.by}}
    BY <2>2, <2>4, <2>5, <2>7 DEF Accepts, HasRoom
  <2>8. [connect |-> c, key |-> c.by, old |-> FALSE] \in clients'
    BY <2>6
  <2> QED
    BY <2>8 DEF Decodes
<1>2. ConnectionsSpec => []ConnectionsInv
  BY ConnectionsInitInv, ConnectionsStep, PTL DEF ConnectionsSpec
<1>3. ConnectionsSpec => [][ConnectionsNext]_connectionsVars
  BY PTL DEF ConnectionsSpec
<1> QED
  BY <1>1, <1>2, <1>3, PTL DEF PeersAreRecognised

-----------------------------------------------------------------------------
(* Status *)

LEMMA StatusInitType == StatusInit => StatusTypeOK
BY DEF StatusInit, StatusTypeOK, NoListener, Listeners, Allowance, NoWakeYet

LEMMA StatusTypeStep == ASSUME StatusTypeOK, [StatusNext]_statusVars PROVE StatusTypeOK'
<1> USE StatusAssumption, UnlimitedAssumption DEF StatusTypeOK
<1>0. \A left \in Allowance : Spend(left) \in Allowance
  BY DEF Spend, SpendAll, Allowance
<1>1. ASSUME NEW mode \in {"inbox", "live", "auto", "queue"}, SetsMode(mode)
      PROVE  StatusTypeOK'
  BY <1>1 DEF SetsMode
<1>2. ASSUME NEW mode \in {"inbox", "live", "auto", "queue"}, NEW b \in Given,
             SetsDelivery(mode, b)
      PROVE  StatusTypeOK'
  BY <1>2 DEF SetsDelivery
<1>3. CASE SpendsOne
  BY <1>3, <1>0 DEF SpendsOne
<1>4. ASSUME NEW shows \in {"active", "idle"}, HookShows(shows) PROVE StatusTypeOK'
  <2>1. /\ belief' = [phase |-> shows, seen |-> TRUE] /\ ended' = "none"
        /\ UNCHANGED <<delivers, listener, ownerLives, chosen>>
    BY <1>4 DEF HookShows
  <2>2. wake' \in [pending : BOOLEAN, claimed : BOOLEAN]
    BY <1>4 DEF HookShows
  <2> QED
    BY <2>1, <2>2
<1>5. ASSUME NEW shows \in {"active", "idle", "unknown"}, PhaseSeeded(shows) PROVE StatusTypeOK'
  BY <1>5 DEF PhaseSeeded
<1>6. ASSUME NEW shows \in {"idle", "interrupted"}, TurnEndShows(shows) PROVE StatusTypeOK'
  BY <1>6 DEF TurnEndShows
<1>7. CASE OwnerEnds
  BY <1>7 DEF OwnerEnds
<1>8. CASE Starts
  <2>1. wake' \in [pending : BOOLEAN, claimed : BOOLEAN]
    BY <1>8 DEF Starts
  <2>2. listener' \in Listeners
    BY <1>8 DEF Starts, Listeners
  <2>3. /\ delivers' \in [mode : {"inbox", "live", "auto", "queue"}, remaining : Allowance,
                           wakes : SUBSET Allowance]
        /\ belief' \in [phase : {"unknown", "active", "idle", "interrupted"}, seen : BOOLEAN]
    BY <1>8 DEF Starts, Allowance
  <2>4. /\ chosen' \in [configured : BOOLEAN, stop : BOOLEAN, supervision : BOOLEAN]
        /\ ownerLives' \in BOOLEAN /\ UNCHANGED ended
    BY <1>8 DEF Starts
  <2> QED
    BY <2>1, <2>2, <2>3, <2>4
<1>9. CASE Stops
  <2>1. chosen' \in [configured : BOOLEAN, stop : BOOLEAN, supervision : BOOLEAN]
    BY <1>9 DEF Stops
  <2>2. UNCHANGED <<delivers, belief, ended, listener, ownerLives, wake>>
    BY <1>9 DEF Stops
  <2> QED
    BY <2>1, <2>2
<1>10. ASSUME NEW new \in Listeners, ListenerChanges(new) PROVE StatusTypeOK'
  <2>1. wake' \in [pending : BOOLEAN, claimed : BOOLEAN]
    BY <1>10 DEF ListenerChanges
  <2>2. chosen' \in [configured : BOOLEAN, stop : BOOLEAN, supervision : BOOLEAN]
    BY <1>10 DEF ListenerChanges
  <2>3. listener' \in Listeners /\ UNCHANGED <<delivers, belief, ended, ownerLives>>
    BY <1>10 DEF ListenerChanges
  <2> QED
    BY <2>1, <2>2, <2>3
<1>11. CASE WakeIsClaimed
  <2>1. WakeWindow \subseteq Allowance
    BY DEF WakeWindow
  <2>2. delivers' \in [mode : {"inbox", "live", "auto", "queue"}, remaining : Allowance,
                       wakes : SUBSET Allowance]
    BY <1>11, <1>0, <2>1 DEF WakeIsClaimed
  <2>3. /\ wake' \in [pending : BOOLEAN, claimed : BOOLEAN]
        /\ UNCHANGED <<belief, ended, listener, ownerLives, chosen>>
    BY <1>11 DEF WakeIsClaimed
  <2> QED
    BY <2>2, <2>3
<1>12. CASE WakeIsRecorded
  <2>0. PICK pending \in {wake.pending, TRUE} : wake' = [pending |-> pending, claimed |-> FALSE]
    BY <1>12 DEF WakeIsRecorded
  <2>1. wake' \in [pending : BOOLEAN, claimed : BOOLEAN]
    <3>1. wake.pending \in BOOLEAN
      OBVIOUS
    <3>2. pending \in BOOLEAN
      BY <3>1
    <3> HIDE DEF StatusTypeOK
    <3> QED
      BY <2>0, <3>2
  <2>2. UNCHANGED <<delivers, belief, ended, listener, ownerLives, chosen>>
    BY <1>12 DEF WakeIsRecorded
  <2> QED
    BY <2>1, <2>2
<1>13. CASE WakeIsConsumed
  <2>1. wake' \in [pending : BOOLEAN, claimed : BOOLEAN]
    BY <1>13 DEF WakeIsConsumed
  <2>2. UNCHANGED <<delivers, belief, ended, listener, ownerLives, chosen>>
    BY <1>13 DEF WakeIsConsumed
  <2> QED
    BY <2>1, <2>2
<1>14. CASE UNCHANGED statusVars
  BY <1>14 DEF statusVars
<1> QED
  BY <1>1, <1>2, <1>3, <1>4, <1>5, <1>6, <1>7, <1>8, <1>9, <1>10, <1>11, <1>12, <1>13, <1>14
  DEF StatusNext

LEMMA StatusTypeAlways == StatusSpec => []StatusTypeOK
BY StatusInitType, StatusTypeStep, PTL DEF StatusSpec

\* For allowances of any size, "reachable" promises what the guards of hooks and worker
\* keep, but for a wake that nobody has decided, which the row then shows (snapshot, deliver,
\* dispatch, wake_idle, reconcile).
THEOREM ReachableIsDeliveredAlways == StatusSpec => []ReachableIsDelivered
<1>1. StatusTypeOK => ReachableIsDelivered
  <2> SUFFICES ASSUME StatusTypeOK, Reachable, chosen.supervision, ~listener.failed
               PROVE  \/ DeliveryState = "active_hooks" /\ HooksDeliver
                      \/ DeliveryState = "idle_wake_enabled" /\ (WorkerWakes \/ ShowsWake)
    BY DEF ReachableIsDelivered
  <2>1. chosen.configured /\ ~chosen.stop /\ ownerLives /\ listener.state = "serving"
    BY DEF Reachable, RuntimeState
  <2>2. CASE DeliveryState = "active_hooks"
    <3>1. Configured(ShownPhase) = "active_hooks"
      BY <2>1, <2>2 DEF DeliveryState, RuntimeState
    <3> QED
      BY <2>1, <2>2, <3>1 DEF Configured, ShownPhase, RuntimeState, HooksDeliver, StatusTypeOK
  <2>3. CASE DeliveryState = "idle_wake_enabled"
    <3>1. Configured(ShownPhase) = "idle_wake_enabled"
      BY <2>1, <2>3 DEF DeliveryState, RuntimeState
    <3>2. WorkerWakes \/ wake.pending
      BY <2>1, <2>3, <3>1 DEF Configured, ShownPhase, RuntimeState, WorkerWakes, PhaseInStore,
                              Reconciles, DeliveryState, StatusTypeOK, Listeners
    <3> QED
      BY <2>3, <3>2 DEF ShowsWake
  <2> QED
    BY <2>2, <2>3 DEF Reachable
<1> QED
  BY StatusTypeAlways, <1>1, PTL

\* Whatever keeps a waiting message from the model, status has a warning, or shows the
\* undecided wake of an idle session that the message waits behind (_warning, snapshot).
THEOREM NoSilentBlockAlways == StatusSpec => []NoSilentBlock
<1>1. StatusTypeOK /\ ReachableIsDelivered => NoSilentBlock
  <2> SUFFICES ASSUME StatusTypeOK, ReachableIsDelivered, ~Warns, ~Delivered
               PROVE  ShowsWake /\ DeliveryState = "idle_wake_enabled"
    BY DEF NoSilentBlock
  <2>1. Reachable /\ chosen.supervision /\ ~listener.failed
    BY DEF Warns, Reachable
  <2>2. chosen.configured /\ ownerLives
    BY <2>1 DEF Reachable, RuntimeState
  <2>3. ~HooksDeliver /\ ~WorkerWakes
    BY <2>2 DEF Delivered
  <2> QED
    BY <2>1, <2>3 DEF ReachableIsDelivered
<1> QED
  BY StatusTypeAlways, ReachableIsDeliveredAlways, <1>1, PTL

-----------------------------------------------------------------------------
(* The lifecycle.  As long as the last hook has shown something, its own record, or the   *)
(* one it has left beside it, is what the bridge has seen; a start that has made it       *)
(* forget that has looked at the same record, and no stamp it has looked at is newer.     *)

\* What the last hook has recorded: a hook that has left its record, or one that has shown
\* something.
HasRecorded == hook.pc \in {"see", "phase"} \/ (hook.pc = "none" /\ shown # "none")
HasSeen == hook.pc = "phase" \/ (hook.pc = "none" /\ shown # "none")
LastPhase == IF hook.pc = "none" THEN shown ELSE PhaseOf(hook.event)

\* Stamps and processes only grow.
Bounded ==
  /\ hook.pc # "none" => hooks >= 1 /\ hook.event # "none"
  /\ recorded.at <= 2 * hooks /\ (hook.pc = "record" => recorded.at <= 2 * hooks - 2)
  /\ starter.record.at <= recorded.at
  /\ seen.by <= owner /\ configOwner <= owner /\ starter.owner <= owner
  /\ open => tail.turn < turn
  /\ tail.turn <= turn

\* The start that is under way, and the worker that has looked.
TurnIsUnderway ==
  /\ starter.pc \in {"wipe", "save"} => starter.owner # 0
  /\ starter.pc \in {"look", "seed"} => configOwner # 0
  /\ starter.record # NoHook => starter.pc = "seed" /\ starter.record.by = configOwner
  /\ reconciler.pc = "write" => reconciler.evidence # NoEvidence

OfTheLastHook(r) ==
  r.by = owner /\ r.turn = turn /\ r.at \in {2 * hooks - 1, 2 * hooks} /\ PhaseOf(r.event) = LastPhase

Recorded == HasRecorded => OfTheLastHook(recorded) /\ recorded.at = 2 * hooks - 1
Seen == HasSeen /\ ~wiped => OfTheLastHook(seen)

\* What is forgotten has not come back, but for a start that was meant for an earlier process.
Forgotten ==
  /\ configOwner = 0 => seen = NoHook
  /\ wiped => seen.by # owner
  /\ wiped /\ configOwner = owner => seen = NoHook
  /\ wiped /\ starter.pc = "save" /\ starter.owner = owner => seen = NoHook
  /\ starter.pc = "wipe" /\ ~starter.wipes /\ starter.owner = owner => seen.by = owner
  /\ HasSeen /\ wiped /\ starter.pc = "seed" /\ configOwner = owner => starter.record = recorded

LifecycleInv ==
  LifecycleTypeOK /\ Bounded /\ TurnIsUnderway /\ Recorded /\ Seen /\ Forgotten /\ PhaseFollowsHooks

\* The empty records have their types, and an event of a hook means one of two phases.
LEMMA PhaseTypes ==
  /\ NoHook \in HookRecords /\ NoEvidence \in EvidenceRecords
  /\ \A e \in IdleEvents \cup ActiveEvents : PhaseOf(e) \in {"idle", "active"}
BY LifecycleAssumption DEF NoHook, NoEvidence, HookRecords, EvidenceRecords, PhaseOf, IdleEvents, ActiveEvents

\* What the assumption says, in the form that arithmetic needs.
LEMMA BoundsAreNumbers == /\ MaxTurn \in Nat /\ MaxHooks \in Nat /\ MaxStarts \in Nat
                          /\ MaxOwner \in Nat /\ MaxOwner >= 1
BY LifecycleAssumption

\* Before the first hook nothing has been shown.
LEMMA LifecycleInitInv == LifecycleInit => LifecycleInv
<1> SUFFICES ASSUME LifecycleInit PROVE LifecycleInv
  OBVIOUS
<1> USE DEF LifecycleInit
<1>1. LifecycleTypeOK
  <2>1. /\ tail \in [turn : 0..MaxTurn, event : {"task_complete", "turn_aborted", "none"}, at : Nat]
        /\ hook \in [pc : {"none", "record", "see", "phase"},
                     event : IdleEvents \cup ActiveEvents \cup {"none"}]
    BY LifecycleAssumption DEF NotEnded
  <2>2. NotLooking \in [pc : {"look", "write"}, phase : {"none", "idle", "active"},
                        seen : HookRecords, evidence : EvidenceRecords]
    BY PhaseTypes DEF NotLooking
  <2>3. NotStarting \in [pc : {"none", "wipe", "save", "look", "seed"}, owner : 0..MaxOwner,
                         wipes : BOOLEAN, record : HookRecords]
    BY LifecycleAssumption, PhaseTypes DEF NotStarting
  <2>4. /\ hooks \in 0..MaxHooks /\ starts \in 0..MaxStarts
        /\ owner \in 1..MaxOwner /\ turn \in 0..MaxTurn /\ configOwner \in 0..MaxOwner
    BY BoundsAreNumbers
  <2>5. open \in BOOLEAN
    OBVIOUS
  <2> QED
    BY <2>1, <2>2, <2>3, <2>4, <2>5, PhaseTypes DEF LifecycleTypeOK
<1>2. Bounded /\ TurnIsUnderway
  BY LifecycleAssumption DEF Bounded, TurnIsUnderway, NotEnded, NotLooking, NotStarting, NoHook
<1>3. Recorded /\ Seen /\ Forgotten /\ PhaseFollowsHooks
  BY DEF Recorded, Seen, Forgotten, PhaseFollowsHooks, HasRecorded, HasSeen, NotStarting
<1> QED
  BY <1>1, <1>2, <1>3 DEF LifecycleInv

\* The stamps of the hook that runs: first that of its record, then that of what it sees.
LEMMA ClockTypes ==
  ASSUME LifecycleInv
  PROVE  /\ Clock \in Nat
         /\ hook.pc = "record" => Clock + 1 = 2 * hooks - 1
         /\ hook.pc = "see" => Clock + 1 = 2 * hooks
         /\ hook.pc # "none" => HookRecord \in HookRecords
BY DEF LifecycleInv, LifecycleTypeOK, Bounded, Clock, HookRecord, HookRecords

\* turn_end_evidence returns evidence or none.
LEMMA EvidenceTypes ==
  ASSUME LifecycleInv
  PROVE  Evidence(seen) \in EvidenceRecords
BY PhaseTypes DEF LifecycleInv, LifecycleTypeOK, Evidence, EvidenceRecords, HookRecords

-----------------------------------------------------------------------------
\* What Codex does: a new turn or process forgets what was shown.
LEMMA SessionStep ==
  ASSUME LifecycleInv,
         TurnBegins \/ TurnWrites \/ Resume \/ \E e \in TurnEndings : TurnEnds(e)
  PROVE  LifecycleInv'
<1> USE LifecycleAssumption, ClockTypes
<1>1. CASE TurnBegins
  <2>1. LifecycleTypeOK' /\ Bounded' /\ TurnIsUnderway'
    BY <1>1 DEF TurnBegins, LifecycleInv, LifecycleTypeOK, Bounded, TurnIsUnderway
  <2>2. Recorded' /\ Seen' /\ Forgotten' /\ PhaseFollowsHooks'
    BY <1>1 DEF TurnBegins, LifecycleInv, Recorded, Seen, Forgotten, PhaseFollowsHooks,
       HasRecorded, HasSeen
  <2> QED
    BY <2>1, <2>2 DEF LifecycleInv
<1>2. CASE TurnWrites
  <2>1. LifecycleTypeOK' /\ Bounded' /\ TurnIsUnderway'
    BY <1>2 DEF TurnWrites, NotEnded, LifecycleInv, LifecycleTypeOK, Bounded, TurnIsUnderway
  <2>2. Recorded' /\ Seen' /\ Forgotten' /\ PhaseFollowsHooks'
    BY <1>2 DEF TurnWrites, LifecycleInv, Recorded, Seen, Forgotten, PhaseFollowsHooks,
       HasRecorded, HasSeen, OfTheLastHook, LastPhase
  <2> QED
    BY <2>1, <2>2 DEF LifecycleInv
<1>3. ASSUME NEW e \in TurnEndings, TurnEnds(e) PROVE LifecycleInv'
  <2>1. e \in {"task_complete", "turn_aborted"} /\ Clock \in Nat
    OBVIOUS
  <2>2. LifecycleTypeOK'
    <3>1. tail' \in [turn : 0..MaxTurn, event : {"task_complete", "turn_aborted", "none"}, at : Nat]
      BY <1>3, <2>1 DEF TurnEnds, LifecycleInv, LifecycleTypeOK
    <3>2. /\ open' \in BOOLEAN
          /\ UNCHANGED <<owner, turn, hook, hooks, recorded, configOwner, seen, phase,
                         reconciled, reconciler, starter, starts, shown, wiped>>
      BY <1>3 DEF TurnEnds
    <3> QED
      BY <3>1, <3>2 DEF LifecycleInv, LifecycleTypeOK
  <2>3. Bounded' /\ TurnIsUnderway'
    BY <1>3 DEF TurnEnds, LifecycleInv, LifecycleTypeOK, Bounded, TurnIsUnderway
  <2>4. Recorded' /\ Seen' /\ Forgotten' /\ PhaseFollowsHooks'
    BY <1>3 DEF TurnEnds, LifecycleInv, Recorded, Seen, Forgotten, PhaseFollowsHooks,
       HasRecorded, HasSeen, OfTheLastHook, LastPhase
  <2> QED
    BY <2>2, <2>3, <2>4 DEF LifecycleInv
<1>4. CASE Resume
  <2>1. LifecycleTypeOK' /\ Bounded' /\ TurnIsUnderway'
    <3>1. LifecycleTypeOK'
      <4>1. /\ owner' \in 1..MaxOwner
            /\ hook' \in [pc : {"none", "record", "see", "phase"},
                          event : IdleEvents \cup ActiveEvents \cup {"none"}]
        BY <1>4 DEF Resume, LifecycleInv, LifecycleTypeOK
      <4> QED
        BY <1>4, <4>1 DEF Resume, LifecycleInv, LifecycleTypeOK
    <3>2. Bounded' /\ TurnIsUnderway'
      BY <1>4 DEF Resume, LifecycleInv, LifecycleTypeOK, Bounded, TurnIsUnderway, HookRecords
    <3> QED
      BY <3>1, <3>2
  <2>2. Recorded' /\ Seen' /\ PhaseFollowsHooks'
    BY <1>4 DEF Resume, Recorded, Seen, PhaseFollowsHooks, HasRecorded, HasSeen
  <2>3. Forgotten'
    BY <1>4 DEF Resume, LifecycleInv, LifecycleTypeOK, Bounded, Forgotten, HasSeen, HookRecords
  <2> QED
    BY <2>1, <2>2, <2>3 DEF LifecycleInv
<1> QED
  BY <1>1, <1>2, <1>3, <1>4

\* The three writes of a hook, and its end at any of them.
LEMMA HookStep ==
  ASSUME LifecycleInv,
         \/ \E e \in HookEvents : HookBegins(e)
         \/ HookLeavesRecord \/ HookSees \/ HookPhase \/ HookFails
  PROVE  LifecycleInv'
<1> USE LifecycleAssumption
<1>1. ASSUME NEW e \in HookEvents, HookBegins(e) PROVE LifecycleInv'
  <2>9. e \in IdleEvents \cup ActiveEvents /\ e # "none"
    BY DEF IdleEvents, ActiveEvents
  <2>1. LifecycleTypeOK' /\ Bounded' /\ TurnIsUnderway'
    <3>1. /\ hooks' \in 0..MaxHooks
          /\ hook' \in [pc : {"none", "record", "see", "phase"},
                        event : IdleEvents \cup ActiveEvents \cup {"none"}]
      BY <1>1, <2>9 DEF HookBegins, LifecycleInv, LifecycleTypeOK
    <3>2. LifecycleTypeOK'
      BY <1>1, <3>1 DEF HookBegins, lifecycleSession, lifecycleHistory, LifecycleInv, LifecycleTypeOK
    <3>3. Bounded' /\ TurnIsUnderway'
      BY <1>1, <2>9 DEF HookBegins, lifecycleSession, lifecycleHistory, LifecycleInv, LifecycleTypeOK,
         Bounded, TurnIsUnderway, HookRecords
    <3> QED
      BY <3>2, <3>3
  <2>2. Recorded' /\ Seen' /\ Forgotten' /\ PhaseFollowsHooks'
    BY <1>1 DEF HookBegins, lifecycleSession, lifecycleHistory, LifecycleInv, Recorded, Seen,
       Forgotten, PhaseFollowsHooks, HasRecorded, HasSeen
  <2> QED
    BY <2>1, <2>2 DEF LifecycleInv
<1>2. CASE HookLeavesRecord
  <2>1. hook'.pc = "see" /\ hook'.event = hook.event /\ recorded' = HookRecord
        /\ HookRecord.at = 2 * hooks - 1 /\ HookRecord \in HookRecords
    BY <1>2, ClockTypes DEF HookLeavesRecord, LifecycleInv, LifecycleTypeOK, HookRecord
  <2>2. LifecycleTypeOK'
    BY <1>2, <2>1 DEF HookLeavesRecord, lifecycleSession, lifecycleHistory, LifecycleInv, LifecycleTypeOK
  <2>3. Bounded' /\ TurnIsUnderway'
    BY <1>2, <2>1 DEF HookLeavesRecord, lifecycleSession, lifecycleHistory, LifecycleInv, LifecycleTypeOK,
       Bounded, TurnIsUnderway, HookRecords
  <2>4. Recorded' /\ Seen' /\ Forgotten' /\ PhaseFollowsHooks'
    BY <1>2, <2>1 DEF HookLeavesRecord, lifecycleSession, lifecycleHistory, LifecycleInv, Recorded, Seen,
       Forgotten, PhaseFollowsHooks, HasRecorded, HasSeen, OfTheLastHook, LastPhase, HookRecord
  <2> QED
    BY <2>2, <2>3, <2>4 DEF LifecycleInv
<1>3. CASE HookSees
  <2> USE DEF HookSees, lifecycleSession
  <2>1. /\ HookRecord.at = 2 * hooks /\ HookRecord \in HookRecords
        /\ hook.event \in IdleEvents \cup ActiveEvents
        /\ HookRecord.by = owner /\ HookRecord.event = hook.event /\ HookRecord.turn = turn
    BY <1>3, ClockTypes DEF LifecycleInv, LifecycleTypeOK, Bounded, HookRecord
  <2>2. CASE configOwner = 0
    <3>1. LifecycleTypeOK' /\ Bounded' /\ TurnIsUnderway'
      BY <1>3, <2>1, <2>2, PhaseTypes DEF LifecycleInv, LifecycleTypeOK, Bounded, TurnIsUnderway
    <3>2. Recorded' /\ Seen' /\ Forgotten' /\ PhaseFollowsHooks'
      BY <1>3, <2>1, <2>2, PhaseTypes DEF LifecycleInv, LifecycleTypeOK, TurnIsUnderway, Recorded, Seen,
         Forgotten, PhaseFollowsHooks, HasRecorded, HasSeen, OfTheLastHook, LastPhase, NoHook
    <3> QED
      BY <3>1, <3>2 DEF LifecycleInv
  <2>3. CASE configOwner # 0
    <3>1. LifecycleTypeOK' /\ Bounded' /\ TurnIsUnderway'
      <4>1. hook' = [hook EXCEPT !.pc = "phase"] /\ seen' = HookRecord /\ wiped' = FALSE
            /\ shown' = shown
        BY <1>3, <2>3
      <4>2. LifecycleTypeOK'
        <5>1. hook' \in [pc : {"none", "record", "see", "phase"},
                         event : IdleEvents \cup ActiveEvents \cup {"none"}]
          BY <4>1 DEF LifecycleInv, LifecycleTypeOK
        <5>2. UNCHANGED <<owner, turn, open, tail, hooks, recorded, configOwner, phase,
                          reconciled, reconciler, starter, starts>>
          BY <1>3
        <5>3. seen' \in HookRecords /\ wiped' \in BOOLEAN /\ UNCHANGED shown
          BY <2>1, <4>1
        <5> QED
          BY <5>1, <5>2, <5>3 DEF LifecycleInv, LifecycleTypeOK
      <4>3. Bounded' /\ TurnIsUnderway'
        BY <1>3, <2>1, <4>1 DEF LifecycleInv, LifecycleTypeOK, Bounded, TurnIsUnderway
      <4> QED
        BY <4>2, <4>3
    <3>2. Recorded' /\ Seen' /\ Forgotten' /\ PhaseFollowsHooks'
      BY <1>3, <2>1, <2>3 DEF LifecycleInv, LifecycleTypeOK, TurnIsUnderway, Recorded, Seen,
         Forgotten, PhaseFollowsHooks, HasRecorded, HasSeen, OfTheLastHook, LastPhase
    <3> QED
      BY <3>1, <3>2 DEF LifecycleInv
  <2> QED
    BY <2>2, <2>3
<1>4. CASE HookPhase
  <2> USE DEF HookPhase, lifecycleSession
  <2>1. hook.event \in IdleEvents \cup ActiveEvents
    BY <1>4 DEF LifecycleInv, LifecycleTypeOK, Bounded
  <2>2. LifecycleTypeOK' /\ Bounded' /\ TurnIsUnderway'
    BY <1>4, <2>1, PhaseTypes DEF LifecycleInv, LifecycleTypeOK, Bounded, TurnIsUnderway
  <2>3. Recorded' /\ Seen' /\ Forgotten' /\ PhaseFollowsHooks'
    BY <1>4, <2>1, PhaseTypes DEF LifecycleInv, Recorded, Seen, Forgotten, PhaseFollowsHooks,
       HasRecorded, HasSeen, OfTheLastHook, LastPhase
  <2> QED
    BY <2>2, <2>3 DEF LifecycleInv
<1>5. CASE HookFails
  <2>1. LifecycleTypeOK' /\ Bounded' /\ TurnIsUnderway'
    BY <1>5 DEF HookFails, lifecycleSession, LifecycleInv, LifecycleTypeOK, Bounded, TurnIsUnderway
  <2>2. Recorded' /\ Seen' /\ Forgotten' /\ PhaseFollowsHooks'
    BY <1>5 DEF HookFails, lifecycleSession, LifecycleInv, Recorded, Seen, Forgotten,
       PhaseFollowsHooks, HasRecorded, HasSeen
  <2> QED
    BY <2>1, <2>2 DEF LifecycleInv
<1> QED
  BY <1>1, <1>2, <1>3, <1>4, <1>5

-----------------------------------------------------------------------------
\* reconcile: evidence of a turn's end is none of the turn that runs.
LEMMA WorkerStep ==
  ASSUME LifecycleInv, WorkerLooks \/ WorkerWrites
  PROVE  LifecycleInv'
<1>1. CASE WorkerLooks
  <2> USE DEF WorkerLooks, lifecycleSession, lifecycleHistory
  <2>1. reconciler' \in [pc : {"look", "write"}, phase : {"none", "idle", "active"},
                         seen : HookRecords, evidence : EvidenceRecords]
    BY <1>1, EvidenceTypes DEF LifecycleInv, LifecycleTypeOK
  <2>2. LifecycleTypeOK'
    BY <1>1, <2>1 DEF LifecycleInv, LifecycleTypeOK
  <2>3. Bounded' /\ TurnIsUnderway'
    BY <1>1 DEF LifecycleInv, Bounded, TurnIsUnderway
  <2>4. Recorded' /\ Seen' /\ Forgotten' /\ PhaseFollowsHooks'
    BY <1>1 DEF LifecycleInv, Recorded, Seen, Forgotten, PhaseFollowsHooks,
       HasRecorded, HasSeen, OfTheLastHook, LastPhase
  <2> QED
    BY <2>2, <2>3, <2>4 DEF LifecycleInv
<1>2. CASE WorkerWrites
  <2> USE DEF WorkerWrites, lifecycleSession, lifecycleHistory
  <2>1. /\ phase' \in {"absent", "unknown", "idle", "active", "interrupted"}
        /\ reconciled' \in EvidenceRecords
    BY <1>2 DEF LifecycleInv, LifecycleTypeOK, EndPhase
  <2>2. LifecycleTypeOK'
    <3>1. reconciler' \in [pc : {"look", "write"}, phase : {"none", "idle", "active"},
                           seen : HookRecords, evidence : EvidenceRecords]
      BY <1>2, PhaseTypes DEF NotLooking
    <3> QED
      BY <1>2, <2>1, <3>1 DEF LifecycleInv, LifecycleTypeOK
  <2>3. Bounded' /\ TurnIsUnderway'
    BY <1>2 DEF LifecycleInv, Bounded, TurnIsUnderway, NotLooking
  <2>4. Recorded' /\ Seen' /\ Forgotten'
    BY <1>2 DEF LifecycleInv, Recorded, Seen, Forgotten, HasRecorded, HasSeen,
       OfTheLastHook, LastPhase
  <2>5. PhaseFollowsHooks'
    <3>1. CASE ~StillHolds
      BY <1>2, <3>1 DEF LifecycleInv, PhaseFollowsHooks
    <3>2. CASE StillHolds
      <4>1. Evidence(seen) # NoEvidence
        BY <1>2, <3>2 DEF StillHolds, LifecycleInv, TurnIsUnderway
      <4>2. seen.event \in ActiveEvents /\ tail.turn = seen.turn
        BY <4>1 DEF Evidence
      <4>3. PhaseOf(seen.event) = "active"
        BY <4>2 DEF PhaseOf, ActiveEvents, IdleEvents
      <4>4. hook.pc = "none" /\ ~wiped /\ shown # "none" => shown = "active" /\ ~open /\ seen.by = owner
        BY <4>2, <4>3 DEF LifecycleInv, LifecycleTypeOK, Bounded, Seen, HasSeen, OfTheLastHook, LastPhase
      <4> QED
        BY <1>2, <4>4 DEF PhaseFollowsHooks
    <3> QED
      BY <3>1, <3>2
  <2> QED
    BY <2>2, <2>3, <2>4, <2>5 DEF LifecycleInv
<1> QED
  BY <1>1, <1>2

\* What a start has read and where it is.
Starters == [pc : {"none", "wipe", "save", "look", "seed"}, owner : 0..MaxOwner,
             wipes : BOOLEAN, record : HookRecords]

\* A start's own state keeps its type.
LEMMA StarterTypes ==
  ASSUME LifecycleInv, StartBegins \/ StartWipes \/ StartSavesOwner \/ SeedLooks \/ SeedWrites \/ StartFailed
  PROVE  starter' \in Starters
<1>1. /\ NotStarting = [pc |-> "none", owner |-> 0, wipes |-> FALSE, record |-> NoHook]
      /\ NoHook \in HookRecords /\ 0 \in 0..MaxOwner /\ owner \in 0..MaxOwner
      /\ starter \in Starters /\ recorded \in HookRecords
  BY BoundsAreNumbers, PhaseTypes DEF LifecycleInv, LifecycleTypeOK, NotStarting, Starters
<1>2. CASE StartBegins
  <2>1. (configOwner \notin {0, owner} /\ seen.by # owner) \in BOOLEAN
    OBVIOUS
  <2>2. (IF configOwner \in {0, owner} THEN "save" ELSE "wipe") \in {"save", "wipe"}
    OBVIOUS
  <2>3. ASSUME NEW pc \in {"save", "wipe"}, NEW b \in BOOLEAN
        PROVE  [NotStarting EXCEPT !.pc = pc, !.owner = owner, !.wipes = b] \in Starters
    BY <1>1 DEF Starters
  <2>4. starter' = [NotStarting EXCEPT !.pc = IF configOwner \in {0, owner} THEN "save" ELSE "wipe",
                                       !.owner = owner,
                                       !.wipes = configOwner \notin {0, owner} /\ seen.by # owner]
    BY <1>2 DEF StartBegins
  <2> QED
    BY <2>1, <2>2, <2>3, <2>4, Zenon
<1>3. CASE StartWipes
  <2>1. starter' = [starter EXCEPT !.pc = "save", !.wipes = FALSE]
    BY <1>3 DEF StartWipes
  <2> QED
    BY <1>1, <2>1 DEF Starters
<1>4. CASE StartSavesOwner
  <2>1. starter' = [starter EXCEPT !.pc = "look", !.owner = 0]
    BY <1>4 DEF StartSavesOwner
  <2> QED
    BY <1>1, <2>1 DEF Starters
<1>5. CASE SeedLooks
  <2>1. \E r \in {recorded, NoHook} : starter' = [starter EXCEPT !.pc = "seed", !.record = r]
    BY <1>5 DEF SeedLooks
  <2> QED
    BY <1>1, <2>1 DEF Starters
<1>6. CASE SeedWrites \/ StartFailed
  <2>1. starter' = NotStarting
    BY <1>6 DEF SeedWrites, StartFailed
  <2> QED
    BY <1>1, <2>1 DEF Starters
<1> QED
  BY <1>2, <1>3, <1>4, <1>5, <1>6

\* A start up to its look at the record, and the phase that connect seeds.
LEMMA StartStep ==
  ASSUME LifecycleInv,
         \/ StartBegins \/ StartWipes \/ StartSavesOwner \/ SeedLooks \/ StartFailed
         \/ \E p \in {"idle", "active", "unknown"} : SeedPhase(p)
  PROVE  LifecycleInv'
<1> USE DEF lifecycleSession, lifecycleHistory
<1>1. CASE StartBegins
  <2>1. /\ starter'.pc = (IF configOwner \in {0, owner} THEN "save" ELSE "wipe")
        /\ starter'.owner = owner /\ starter'.record = NoHook
        /\ starter'.wipes <=> (configOwner \notin {0, owner} /\ seen.by # owner)
        /\ starts' = starts + 1 /\ starts < MaxStarts
        /\ UNCHANGED <<owner, turn, open, tail, hook, hooks, recorded, configOwner, seen,
                       phase, reconciled, reconciler, shown, wiped>>
    BY <1>1 DEF StartBegins, NotStarting
  <2>2. LifecycleTypeOK'
    BY <1>1, <2>1, StarterTypes, BoundsAreNumbers DEF Starters, LifecycleInv, LifecycleTypeOK
  <2>3. Bounded' /\ TurnIsUnderway'
    BY <2>1 DEF LifecycleInv, LifecycleTypeOK, Bounded, TurnIsUnderway, NoHook, HookRecords
  <2>4. Recorded' /\ Seen' /\ PhaseFollowsHooks'
    BY <2>1 DEF LifecycleInv, Recorded, Seen, PhaseFollowsHooks, HasRecorded, HasSeen,
       OfTheLastHook, LastPhase
  <2>5. Forgotten'
    BY <2>1 DEF LifecycleInv, Forgotten, HasSeen
  <2> QED
    BY <2>2, <2>3, <2>4, <2>5 DEF LifecycleInv
<1>2. CASE StartWipes
  <2>1. /\ starter.pc = "wipe" /\ starter'.pc = "save" /\ starter'.owner = starter.owner
        /\ starter'.record = starter.record
        /\ UNCHANGED <<owner, turn, open, tail, hook, hooks, recorded, configOwner,
                       reconciled, reconciler, starts, shown>>
    BY <1>2 DEF StartWipes, LifecycleInv, LifecycleTypeOK
  <2>2. \/ starter.wipes /\ phase' = "unknown" /\ seen' = NoHook /\ wiped' = TRUE
        \/ ~starter.wipes /\ UNCHANGED <<phase, seen, wiped>>
    BY <1>2 DEF StartWipes
  <2>3. LifecycleTypeOK'
    <3>1. /\ phase' \in {"absent", "unknown", "idle", "active", "interrupted"}
          /\ seen' \in HookRecords
      BY <2>2, PhaseTypes DEF LifecycleInv, LifecycleTypeOK
    <3>2. wiped' \in BOOLEAN
      BY <2>2 DEF LifecycleInv, LifecycleTypeOK
    <3> QED
      BY <1>2, <2>1, <3>1, <3>2, StarterTypes DEF Starters, LifecycleInv, LifecycleTypeOK
  <2>4. Bounded' /\ TurnIsUnderway'
    BY <2>1, <2>2 DEF LifecycleInv, LifecycleTypeOK, Bounded, TurnIsUnderway, NoHook
  <2>5. Recorded' /\ Seen' /\ PhaseFollowsHooks'
    BY <2>1, <2>2 DEF LifecycleInv, Recorded, Seen, PhaseFollowsHooks, HasRecorded, HasSeen,
       OfTheLastHook, LastPhase
  <2>6. Forgotten'
    BY <2>1, <2>2 DEF LifecycleInv, LifecycleTypeOK, Forgotten, HasSeen, NoHook
  <2> QED
    BY <2>3, <2>4, <2>5, <2>6 DEF LifecycleInv
<1>3. CASE StartSavesOwner
  <2>1. /\ starter.pc = "save" /\ starter'.pc = "look" /\ starter'.owner = 0
        /\ starter'.record = starter.record /\ configOwner' = starter.owner
        /\ UNCHANGED <<owner, turn, open, tail, hook, hooks, recorded, seen, phase,
                       reconciled, reconciler, starts, shown, wiped>>
    BY <1>3 DEF StartSavesOwner, LifecycleInv, LifecycleTypeOK
  <2>2. LifecycleTypeOK'
    <3>1. configOwner' \in 0..MaxOwner
      BY <2>1 DEF LifecycleInv, LifecycleTypeOK
    <3> QED
      BY <1>3, <2>1, <3>1, StarterTypes DEF Starters, LifecycleInv, LifecycleTypeOK
  <2>3. Bounded' /\ TurnIsUnderway'
    BY <2>1 DEF LifecycleInv, LifecycleTypeOK, Bounded, TurnIsUnderway
  <2>4. Recorded' /\ Seen' /\ PhaseFollowsHooks'
    BY <2>1 DEF LifecycleInv, Recorded, Seen, PhaseFollowsHooks, HasRecorded, HasSeen,
       OfTheLastHook, LastPhase
  <2>5. Forgotten'
    BY <2>1 DEF LifecycleInv, TurnIsUnderway, Forgotten, HasSeen
  <2> QED
    BY <2>2, <2>3, <2>4, <2>5 DEF LifecycleInv
<1>4. CASE SeedLooks
  <2>1. /\ starter.pc = "look" /\ starter'.pc = "seed"
        /\ starter'.owner = starter.owner
        /\ starter'.record = IF recorded.by = configOwner /\ configOwner = owner
                             THEN recorded ELSE NoHook
        /\ UNCHANGED <<owner, turn, open, tail, hook, hooks, recorded, configOwner, seen,
                       phase, reconciled, reconciler, starts, shown, wiped>>
    BY <1>4 DEF SeedLooks, LifecycleInv, LifecycleTypeOK
  <2>2. LifecycleTypeOK'
    BY <1>4, <2>1, StarterTypes DEF Starters, LifecycleInv, LifecycleTypeOK
  <2>3. Bounded' /\ TurnIsUnderway'
    BY <2>1 DEF LifecycleInv, LifecycleTypeOK, Bounded, TurnIsUnderway, NoHook, HookRecords
  <2>4. Recorded' /\ Seen' /\ PhaseFollowsHooks'
    BY <2>1 DEF LifecycleInv, Recorded, Seen, PhaseFollowsHooks, HasRecorded, HasSeen,
       OfTheLastHook, LastPhase
  <2>5. Forgotten'
    BY <2>1 DEF LifecycleInv, Forgotten, Recorded, HasRecorded, HasSeen, OfTheLastHook
  <2> QED
    BY <2>2, <2>3, <2>4, <2>5 DEF LifecycleInv
<1>5. CASE StartFailed
  <2>1. /\ starter'.pc = "none" /\ starter'.owner = 0 /\ starter'.record = NoHook
        /\ UNCHANGED <<owner, turn, open, tail, hook, hooks, recorded, configOwner, seen,
                       phase, reconciled, reconciler, starts, shown, wiped>>
    BY <1>5 DEF StartFailed, NotStarting
  <2>2. LifecycleTypeOK'
    BY <1>5, <2>1, StarterTypes DEF Starters, LifecycleInv, LifecycleTypeOK
  <2>3. Bounded' /\ TurnIsUnderway'
    BY <2>1 DEF LifecycleInv, LifecycleTypeOK, Bounded, TurnIsUnderway, NoHook, HookRecords
  <2>4. Recorded' /\ Seen' /\ Forgotten' /\ PhaseFollowsHooks'
    BY <2>1 DEF LifecycleInv, Recorded, Seen, Forgotten, PhaseFollowsHooks, HasRecorded, HasSeen,
       OfTheLastHook, LastPhase
  <2> QED
    BY <2>2, <2>3, <2>4 DEF LifecycleInv
<1>6. ASSUME NEW p \in {"idle", "active", "unknown"}, SeedPhase(p) PROVE LifecycleInv'
  <2>1. LifecycleTypeOK' /\ Bounded' /\ TurnIsUnderway'
    BY <1>6 DEF SeedPhase, LifecycleInv, LifecycleTypeOK, Bounded, TurnIsUnderway
  <2>2. Recorded' /\ Seen' /\ Forgotten' /\ PhaseFollowsHooks'
    BY <1>6 DEF SeedPhase, LifecycleInv, LifecycleTypeOK, Recorded, Seen, Forgotten,
       PhaseFollowsHooks, HasRecorded, HasSeen, OfTheLastHook, LastPhase
  <2> QED
    BY <2>1, <2>2 DEF LifecycleInv
<1> QED
  BY <1>1, <1>2, <1>3, <1>4, <1>5, <1>6

\* What the start writes of a hook's record: that of the last hook, or nothing.
LEMMA SeedStep ==
  ASSUME LifecycleInv, SeedWrites
  PROVE  LifecycleInv'
<1> DEFINE r == starter.record
<1>1. /\ starter.pc = "seed" /\ configOwner # 0
      /\ starter'.pc = "none" /\ starter'.owner = 0 /\ starter'.record = NoHook
      /\ UNCHANGED <<owner, turn, open, tail, hook, hooks, recorded, configOwner, reconciled,
                     reconciler, starts, shown>>
  BY DEF SeedWrites, NotStarting, lifecycleSession, LifecycleInv, TurnIsUnderway
<1>2. \/ SeedIsNew(r) /\ seen' = r /\ phase' = PhaseOf(r.event)
      \/ ~SeedIsNew(r) /\ UNCHANGED <<seen, phase>>
  BY DEF SeedWrites
<1>3. wiped' = (wiped /\ configOwner # owner)
  BY DEF SeedWrites
<1>4. r # NoHook => r.by = configOwner
  BY DEF LifecycleInv, TurnIsUnderway
<1>5. LifecycleTypeOK'
  <2>1. SeedIsNew(r) => r.event \in IdleEvents \cup ActiveEvents \cup {"none"}
    BY DEF LifecycleInv, LifecycleTypeOK, HookRecords
  <2>2. PhaseOf(r.event) \in {"idle", "active"}
    BY DEF PhaseOf
  <2>3. phase' \in {"absent", "unknown", "idle", "active", "interrupted"} /\ seen' \in HookRecords
    BY <1>2, <2>2 DEF LifecycleInv, LifecycleTypeOK
  <2>4. wiped' \in BOOLEAN
    BY <1>3
  <2> QED
    BY <1>1, <2>3, <2>4, StarterTypes DEF Starters, LifecycleInv, LifecycleTypeOK
<1>6. Bounded' /\ TurnIsUnderway'
  BY <1>1, <1>2, <1>4 DEF LifecycleInv, LifecycleTypeOK, Bounded, TurnIsUnderway, NoHook, HookRecords
<1>7. Recorded'
  BY <1>1 DEF LifecycleInv, Recorded, HasRecorded, OfTheLastHook, LastPhase
\* A record that was looked at is no newer than what the last hook has shown.
<1>8. HasSeen /\ ~wiped => UNCHANGED <<seen, phase>>
  BY <1>2 DEF LifecycleInv, LifecycleTypeOK, Bounded, Recorded, Seen, HasRecorded, HasSeen,
     OfTheLastHook, SeedIsNew, NoHook, HookRecords
<1>9. HasSeen /\ wiped /\ ~wiped' => seen' = recorded /\ phase' = PhaseOf(recorded.event)
  <2> SUFFICES ASSUME HasSeen, wiped, configOwner = owner
               PROVE  seen' = recorded /\ phase' = PhaseOf(recorded.event)
    BY <1>3
  <2>1. r = recorded /\ seen = NoHook
    BY <1>1 DEF LifecycleInv, Forgotten
  <2>2. recorded.by = owner
    BY DEF LifecycleInv, Recorded, HasRecorded, HasSeen, OfTheLastHook
  <2>3. recorded # NoHook
    BY <2>2 DEF LifecycleInv, LifecycleTypeOK, NoHook
  <2> QED
    BY <1>2, <2>1, <2>3 DEF SeedIsNew
<1>10. Seen' /\ PhaseFollowsHooks'
  <2>1. HasSeen => OfTheLastHook(recorded)
    BY DEF LifecycleInv, Recorded, HasRecorded, HasSeen
  <2>2. Seen'
    BY <1>1, <1>3, <1>8, <1>9, <2>1 DEF LifecycleInv, Seen, HasSeen, OfTheLastHook, LastPhase
  <2>3. PhaseFollowsHooks'
    BY <1>1, <1>3, <1>8, <1>9, <2>1, <2>2
    DEF LifecycleInv, LifecycleTypeOK, PhaseFollowsHooks, Seen, HasSeen, OfTheLastHook, LastPhase
  <2> QED
    BY <2>2, <2>3
<1>11. Forgotten'
  <2>1. configOwner' # 0 /\ starter'.pc = "none"
    BY <1>1
  <2>2. wiped' => wiped /\ configOwner # owner
    BY <1>3
  <2>3. wiped' => seen'.by # owner
    <3>1. SeedIsNew(r) => r.by = configOwner
      BY <1>4 DEF SeedIsNew
    <3> QED
      BY <1>2, <2>2, <3>1 DEF LifecycleInv, Forgotten
  <2> QED
    BY <1>1, <2>1, <2>2, <2>3 DEF Forgotten
<1> QED
  BY <1>5, <1>6, <1>7, <1>10, <1>11 DEF LifecycleInv

LEMMA LifecycleStep ==
  ASSUME LifecycleInv, [LifecycleNext]_lifecycleVars PROVE LifecycleInv'
<1>1. CASE LifecycleNext
  BY <1>1, SessionStep, HookStep, WorkerStep, StartStep, SeedStep DEF LifecycleNext
<1>2. CASE UNCHANGED lifecycleVars
  BY <1>2 DEF lifecycleVars, LifecycleInv, LifecycleTypeOK, Bounded, TurnIsUnderway, Recorded, Seen,
     Forgotten, PhaseFollowsHooks, HasRecorded, HasSeen, OfTheLastHook, LastPhase
<1> QED
  BY <1>1, <1>2

\* The inductive invariant of the lifecycle.
LEMMA LifecycleIsInv == LifecycleSpec => []LifecycleInv
BY LifecycleInitInv, LifecycleStep, PTL DEF LifecycleSpec

\* For any number of turns, hooks, processes and starts: the phase is what the last hook
\* of the turn has shown (deliver, remember_hook, seed_lifecycle, reconcile).
THEOREM PhaseFollowsHooksAlways == LifecycleSpec => []PhaseFollowsHooks
<1>1. LifecycleInv => PhaseFollowsHooks
  BY DEF LifecycleInv
<1> QED
  BY <1>1, LifecycleIsInv, PTL
-----------------------------------------------------------------------------
(* The end of a turn is noticed.  What the worker has looked at may be stale by the time  *)
(* it writes, and then it looks again; but while a turn's end goes unnoticed what is seen *)
(* changes twice at most: a hook that comes now is newer than the end, and of the records *)
(* left before it a start may take over the one it holds and the last one.                *)

Missed == phase = "active" /\ Evidence(seen) # NoEvidence

\* No turn's end is stamped with a time to come.
Stamped ==
  /\ tail.at <= 2 * hooks
  /\ hook.pc = "record" => tail.at <= 2 * hooks - 2
  /\ hook.pc = "see" => tail.at <= 2 * hooks - 1

\* Stamps of hooks to come are newer than the end.
LEMMA StampedStep ==
  ASSUME LifecycleInv, Stamped, [LifecycleNext]_lifecycleVars PROVE Stamped'
<1> USE DEF Stamped
<1>0. tail.at \in Nat /\ hooks \in Nat /\ "pc" \in DOMAIN hook
  BY BoundsAreNumbers DEF LifecycleInv, LifecycleTypeOK
<1>1. CASE TurnWrites
  BY <1>0, <1>1 DEF TurnWrites, NotEnded
<1>2. CASE \E e \in TurnEndings : TurnEnds(e)
  BY <1>0, <1>2 DEF TurnEnds, Clock
<1>3. CASE \E e \in HookEvents : HookBegins(e)
  BY <1>0, <1>3 DEF HookBegins, lifecycleSession
<1>4. CASE Resume \/ HookLeavesRecord \/ HookSees \/ HookPhase \/ HookFails
  BY <1>0, <1>4 DEF Resume, HookLeavesRecord, HookSees, HookPhase, HookFails, lifecycleSession
<1>5. CASE \/ TurnBegins \/ WorkerLooks \/ WorkerWrites
           \/ StartBegins \/ StartWipes \/ StartSavesOwner \/ SeedLooks \/ SeedWrites \/ StartFailed
           \/ \E p \in {"idle", "active", "unknown"} : SeedPhase(p)
           \/ UNCHANGED lifecycleVars
  <2>1. UNCHANGED <<tail, hook, hooks>>
    BY <1>5 DEF TurnBegins, WorkerLooks, WorkerWrites, StartBegins, StartWipes, StartSavesOwner,
       SeedLooks, SeedWrites, StartFailed, SeedPhase, lifecycleSession, lifecycleVars
  <2> QED
    BY <2>1
<1> QED
  BY <1>1, <1>2, <1>3, <1>4, <1>5 DEF LifecycleNext

\* What evidence says, without the record that it is.
Unnoticed ==
  /\ seen.event \in ActiveEvents
  /\ seen.by = configOwner /\ configOwner = owner
  /\ tail # NotEnded /\ tail.turn = seen.turn /\ seen.at <= tail.at

LEMMA MissedIsUnnoticed == Missed => Unnoticed
BY DEF Missed, Unnoticed, Evidence

\* A record that a start can still put in the place of what is seen, and the end be missed.
Fits(r) == seen.at < r.at /\ r.at <= tail.at

\* A step while the end is missed leaves the end alone, and changes at most one of the
\* three records: what is seen to the one a start holds, which it gives up; the one left
\* by hooks to one newer than the end; and the one a start holds to that, or to none.
LEMMA MissedStep ==
  ASSUME LifecycleInv, Stamped, Unnoticed, Unnoticed', [LifecycleNext]_lifecycleVars
  PROVE  /\ tail' = tail
         /\ \/ seen' = seen /\ recorded' = recorded /\ starter'.record = starter.record
            \/ /\ seen' = starter.record /\ Fits(starter.record)
               /\ recorded' = recorded /\ starter'.record = NoHook
            \/ /\ seen' = seen /\ starter'.record = starter.record
               /\ recorded'.at \in Nat /\ ~Fits(recorded')
            \/ /\ seen' = seen /\ recorded' = recorded
               /\ starter.record = NoHook /\ starter'.record = recorded
            \/ seen' = seen /\ recorded' = recorded /\ starter'.record = NoHook
<1>0. /\ tail.at \in Nat /\ hooks \in Nat /\ turn \in Nat /\ owner \in Nat /\ owner >= 1
      /\ configOwner \in Nat /\ seen \in HookRecords /\ recorded \in HookRecords
      /\ starter.record \in HookRecords /\ "pc" \in DOMAIN hook
      /\ tail.turn \in Nat /\ "record" \in DOMAIN starter
  BY BoundsAreNumbers DEF LifecycleInv, LifecycleTypeOK
<1>1. CASE TurnWrites
  BY <1>1 DEF TurnWrites, Unnoticed
<1>2. CASE Resume
  BY <1>0, <1>2 DEF Resume, Unnoticed
<1>3. CASE \E e \in TurnEndings : TurnEnds(e)
  BY <1>0, <1>3 DEF TurnEnds, Unnoticed, LifecycleInv, Bounded
<1>4. CASE HookLeavesRecord
  <2>1. recorded'.at = 2 * hooks - 1 /\ tail.at <= 2 * hooks - 2
    BY <1>0, <1>4, ClockTypes DEF HookLeavesRecord, HookRecord, Stamped
  <2> QED
    BY <1>0, <1>4, <2>1 DEF HookLeavesRecord, Fits, lifecycleSession
<1>5. CASE HookSees
  <2>1. configOwner # 0
    BY <1>0 DEF Unnoticed
  <2>2. seen'.at = 2 * hooks /\ tail.at <= 2 * hooks - 1 /\ tail' = tail
    BY <1>0, <1>5, <2>1, ClockTypes DEF HookSees, HookRecord, Stamped, lifecycleSession
  <2> QED
    BY <1>0, <2>2 DEF Unnoticed
<1>6. CASE StartWipes
  <2>1. starter'.record = starter.record /\ tail' = tail /\ recorded' = recorded
    BY <1>0, <1>6 DEF StartWipes, lifecycleSession
  <2>2. seen' \in {seen, NoHook}
    BY <1>6 DEF StartWipes
  <2>3. NoHook.event \notin ActiveEvents
    BY DEF NoHook, ActiveEvents
  <2> QED
    BY <2>1, <2>2, <2>3 DEF Unnoticed
<1>7. CASE SeedWrites
  <2>1. tail' = tail /\ recorded' = recorded /\ starter'.record = NoHook
    BY <1>7 DEF SeedWrites, NotStarting, lifecycleSession
  <2>2. seen' = seen \/ (seen' = starter.record /\ SeedIsNew(starter.record))
    BY <1>7 DEF SeedWrites
  <2>3. SeedIsNew(starter.record) => seen.at < starter.record.at
    BY DEF SeedIsNew, Unnoticed, NoHook, ActiveEvents
  <2>4. seen'.at <= tail.at
    BY <2>1 DEF Unnoticed
  <2> QED
    BY <2>1, <2>2, <2>3, <2>4 DEF Fits
<1>8. CASE SeedLooks
  <2>1. starter'.record \in {recorded, NoHook} /\ starter.pc = "look"
    BY <1>0, <1>8 DEF SeedLooks
  <2>2. starter.record = NoHook
    BY <2>1 DEF LifecycleInv, TurnIsUnderway
  <2> QED
    BY <1>8, <2>1, <2>2 DEF SeedLooks, lifecycleSession
<1>9. CASE StartBegins \/ StartFailed
  <2>1. starter'.record = NoHook
    <3>1. \A p, o, w : [NotStarting EXCEPT !.pc = p, !.owner = o, !.wipes = w].record = NoHook
      BY DEF NotStarting
    <3>2. CASE StartBegins
      BY <3>1, <3>2 DEF StartBegins
    <3>3. CASE StartFailed
      BY <3>1, <3>3 DEF StartFailed, NotStarting
    <3> QED
      BY <1>9, <3>2, <3>3
  <2>2. tail' = tail /\ seen' = seen /\ recorded' = recorded
    BY <1>9 DEF StartBegins, StartFailed, lifecycleSession
  <2> QED
    BY <2>1, <2>2
<1>10. CASE \/ TurnBegins \/ \E e \in HookEvents : HookBegins(e)
            \/ HookPhase \/ HookFails \/ WorkerLooks \/ WorkerWrites \/ StartSavesOwner
            \/ \E p \in {"idle", "active", "unknown"} : SeedPhase(p)
            \/ UNCHANGED lifecycleVars
  BY <1>0, <1>10 DEF TurnBegins, HookBegins, HookPhase, HookFails, WorkerLooks, WorkerWrites,
     StartSavesOwner, SeedPhase, lifecycleSession, lifecycleVars
<1> QED
  BY <1>1, <1>2, <1>3, <1>4, <1>5, <1>6, <1>7, <1>8, <1>9, <1>10 DEF LifecycleNext
\* How many records a start can still put there: two different ones, none, or one.
TwoFit == Fits(starter.record) /\ Fits(recorded) /\ starter.record.at # recorded.at
NoneFits == ~Fits(starter.record) /\ ~Fits(recorded)
OneFits == ~TwoFit /\ ~NoneFits

\* What is seen changes only when there is one less of them.
LEMMA FewerFit ==
  ASSUME LifecycleInv, Stamped, Unnoticed, Unnoticed', [LifecycleNext]_lifecycleVars
  PROVE  /\ TwoFit => (TwoFit' /\ seen' = seen) \/ OneFits' \/ NoneFits'
         /\ OneFits => (OneFits' /\ seen' = seen) \/ NoneFits'
         /\ NoneFits => NoneFits' /\ seen' = seen
         /\ tail' = tail
<1> USE DEF Fits, TwoFit, OneFits, NoneFits
<1>0. /\ tail.at \in Nat /\ seen.at \in Nat /\ recorded.at \in Nat /\ starter.record.at \in Nat
      /\ NoHook.at = 0
  BY DEF LifecycleInv, LifecycleTypeOK, HookRecords, NoHook
<1>1. tail' = tail
  BY MissedStep
<1>2. CASE seen' = seen /\ recorded' = recorded /\ starter'.record = starter.record
  BY <1>1, <1>2
<1>3. CASE /\ seen' = starter.record /\ Fits(starter.record)
           /\ recorded' = recorded /\ starter'.record = NoHook
  BY <1>0, <1>1, <1>3
<1>4. CASE /\ seen' = seen /\ starter'.record = starter.record
           /\ recorded'.at \in Nat /\ ~Fits(recorded')
  BY <1>0, <1>1, <1>4
<1>5. CASE /\ seen' = seen /\ recorded' = recorded
           /\ starter.record = NoHook /\ starter'.record = recorded
  BY <1>0, <1>1, <1>5
<1>6. CASE seen' = seen /\ recorded' = recorded /\ starter'.record = NoHook
  BY <1>0, <1>1, <1>6
<1> QED
  BY <1>1, <1>2, <1>3, <1>4, <1>5, <1>6, MissedStep

\* The worker looks; what it has looked at is what there is, or is not any more.
Looks == reconciler.pc = "look"
Holds ==
  /\ reconciler.pc = "write"
  /\ reconciler.phase = phase /\ reconciler.seen = seen /\ reconciler.evidence = Evidence(seen)

\* As long as the end is missed and the same is seen, what holds goes on to hold.
LEMMA LookHolds ==
  ASSUME LifecycleInv, Stamped, Missed, Missed', seen' = seen, [LifecycleNext]_lifecycleVars
  PROVE  /\ Looks => Looks' \/ Holds'
         /\ Holds => Holds'
         /\ <<WorkerLooks>>_lifecycleVars => Holds'
         /\ ~<<WorkerWrites>>_lifecycleVars \/ ~Holds
<1>1. phase = "active" /\ phase' = "active" /\ Evidence(seen) # NoEvidence
  BY DEF Missed
<1>2. Unnoticed /\ Unnoticed'
  BY MissedIsUnnoticed DEF Missed, Unnoticed, Evidence
<1>3. tail' = tail
  BY <1>2, MissedStep
<1>4. (Evidence(seen))' = Evidence(seen)
  BY <1>2, <1>3 DEF Unnoticed, Evidence
<1>5. CASE WorkerLooks
  <2>1. reconciler' = [pc |-> "write", phase |-> phase, seen |-> seen, evidence |-> Evidence(seen)]
        /\ Looks
    BY <1>5 DEF WorkerLooks, Looks
  <2>2. Holds'
    BY <1>1, <1>4, <2>1 DEF Holds
  <2> QED
    BY <2>1, <2>2, <1>5 DEF Looks, Holds, WorkerWrites
<1>6. CASE WorkerWrites
  <2>1. ASSUME Holds PROVE FALSE
    <3>1. phase' = EndPhase(reconciler.evidence)
      BY <1>1, <1>6, <2>1 DEF WorkerWrites, Holds, StillHolds
    <3> QED
      BY <1>1, <3>1 DEF EndPhase
  <2> QED
    BY <1>6, <2>1 DEF Looks, WorkerWrites, WorkerLooks
<1>7. CASE ~WorkerLooks /\ ~WorkerWrites
  <2>1. reconciler' = reconciler
    BY <1>7 DEF LifecycleNext, TurnBegins, TurnWrites, TurnEnds, Resume, HookBegins, HookLeavesRecord,
       HookSees, HookPhase, HookFails, StartBegins, StartWipes, StartSavesOwner, SeedLooks,
       SeedWrites, StartFailed, SeedPhase, lifecycleVars
  <2> QED
    BY <1>1, <1>4, <1>7, <2>1 DEF Looks, Holds
<1> QED
  BY <1>5, <1>6, <1>7

\* The worker notices a missed end, for any number of turns, hooks, processes and starts,
\* however its look and the hooks overlap (reconcile).  That each of its two steps can be
\* taken when it is due is a hypothesis.
THEOREM EndIsNoticedByFairness ==
  /\ [](Missed /\ Looks => ENABLED <<WorkerLooks>>_lifecycleVars)
  /\ [](~Looks => ENABLED <<WorkerWrites>>_lifecycleVars)
  /\ LifecycleSpec
  => EndIsNoticed
<1> DEFINE Same == seen' = seen
<1>1. LifecycleInv /\ Stamped /\ Missed /\ Missed' /\ [LifecycleNext]_lifecycleVars =>
        /\ TwoFit => (TwoFit' /\ Same) \/ OneFits' \/ NoneFits'
        /\ OneFits => (OneFits' /\ Same) \/ NoneFits'
        /\ NoneFits => NoneFits' /\ Same
  <2>1. Missed' => Unnoticed'
    BY DEF Missed, Unnoticed, Evidence
  <2> QED
    BY <2>1, FewerFit, MissedIsUnnoticed
<1>2. LifecycleInv /\ Stamped /\ Missed /\ Missed' /\ Same /\ [LifecycleNext]_lifecycleVars =>
        /\ Looks => Looks' \/ Holds'
        /\ Holds => Holds'
        /\ <<WorkerLooks>>_lifecycleVars => Holds'
        /\ ~<<WorkerWrites>>_lifecycleVars \/ ~Holds
  BY LookHolds
<1>3. Holds => ~Looks
  BY DEF Holds, Looks
<1>4. <<WorkerLooks>>_lifecycleVars => ~Looks'
  BY DEF WorkerLooks, Looks
<1>5. <<WorkerWrites>>_lifecycleVars => Looks'
  BY DEF WorkerWrites, Looks, NotLooking
<1>6. TwoFit \/ OneFits \/ NoneFits
  BY DEF OneFits
<1>7. LifecycleInit => Stamped
  BY DEF LifecycleInit, Stamped, NotEnded
<1>8. LifecycleInv /\ Stamped /\ [LifecycleNext]_lifecycleVars => Stamped'
  BY StampedStep
<1>9. LifecycleInv /\ [LifecycleNext]_lifecycleVars => LifecycleInv'
  BY LifecycleStep
<1> HIDE DEF Same
<1>10. (/\ [](Missed /\ Looks => ENABLED <<WorkerLooks>>_lifecycleVars)
        /\ [](~Looks => ENABLED <<WorkerWrites>>_lifecycleVars)
        /\ LifecycleSpec) => (Missed ~> ~Missed)
  BY <1>1, <1>2, <1>3, <1>4, <1>5, <1>6, <1>7, <1>8, LifecycleIsInv, PTL DEF LifecycleSpec
<1>11. EndIsNoticed <=> (Missed ~> ~Missed)
  <2>1. ~Missed <=> phase # "active" \/ Evidence(seen) = NoEvidence
    BY DEF Missed
  <2> QED
    BY <2>1, PTL DEF EndIsNoticed, Missed
<1> QED
  BY <1>10, <1>11
=============================================================================
