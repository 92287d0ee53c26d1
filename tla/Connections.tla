---------------------------- MODULE Connections ----------------------------
(***************************************************************************)
(* The listener's socket: whose connection is it?  The kernel tells the    *)
(* pid of the process that connected; the listener finds the enrolled peer *)
(* whose endpoint that process is, with a cache of the answers, while      *)
(* processes end, pids are used again and peers are enrolled.              *)
(***************************************************************************)
EXTENDS Naturals, FiniteSets

CONSTANTS
  ChatPeers,    \* who may be enrolled: the process of each of them can connect
  Pids,
  MaxProcess,   \* processes started: the identity of a process is its number
  MaxClients,   \* MAX_CLIENTS
  MaxConnects   \* connections made

ASSUME ConnectionsAssumption ==
  /\ {MaxProcess, MaxClients, MaxConnects} \subseteq Nat
  /\ MaxClients > 0
  /\ IsFiniteSet(ChatPeers)

VARIABLES
  process,      \* pid -> the process that has it (its number and whose it is)
  started,      \* processes started
  endpoint,     \* peer -> pid and process of the endpoint that is on record
  enrolled,     \* the peers in the configuration
  known,        \* these, as the listener has read them before it waits for connections
  backlog,      \* connections not yet accepted
  connects,     \* connections made
  clients,      \* accepted connections
  senderKeys,   \* sender_keys: pid -> the peer it was last
  snapshotOf    \* enrollment_snapshot

connectionsVars == <<process, started, endpoint, enrolled, known, backlog, connects,
                     clients, senderKeys, snapshotOf>>
machineVars == <<process, started, endpoint, enrolled>>
serverVars == <<known, clients, senderKeys, snapshotOf>>

Nobody == [who |-> {}, number |-> 0]
NoEndpoint == [pid |-> {}, number |-> 0]
Processes == [who : {{p} : p \in ChatPeers}, number : 1..MaxProcess]
Connects == [pid : Pids, by : ChatPeers, number : 1..MaxProcess, id : 1..MaxConnects]

ConnectionsTypeOK ==
  /\ process \in [Pids -> Processes \cup {Nobody}] /\ started \in 0..MaxProcess
  /\ endpoint \in [ChatPeers -> [pid : {{i} : i \in Pids}, number : 1..MaxProcess]
                                  \cup {NoEndpoint}]
  /\ enrolled \subseteq ChatPeers /\ known \subseteq ChatPeers /\ snapshotOf \subseteq ChatPeers
  /\ connects \in 0..MaxConnects
  /\ backlog \subseteq Connects
  /\ \A c \in clients : c.connect \in Connects /\ c.key \in ChatPeers /\ c.old \in BOOLEAN
  /\ Cardinality(clients) <= MaxClients
  /\ senderKeys \in [Pids -> {{p} : p \in ChatPeers} \cup {{}}]

ConnectionsInit ==
  /\ process = [i \in Pids |-> Nobody] /\ started = 0
  /\ endpoint = [p \in ChatPeers |-> NoEndpoint]
  /\ enrolled \in {{p} : p \in ChatPeers} /\ known = enrolled
  /\ backlog = {} /\ connects = 0 /\ clients = {}
  /\ senderKeys = [i \in Pids |-> {}] /\ snapshotOf = {}

-----------------------------------------------------------------------------
(* The machine: processes, their endpoints, enrollment *)

Spawns(p, i) ==
  /\ process[i] = Nobody /\ started < MaxProcess
  /\ \A j \in Pids : process[j].who # {p}
  /\ started' = started + 1
  /\ process' = [process EXCEPT ![i] = [who |-> {p}, number |-> started + 1]]
  /\ UNCHANGED <<endpoint, enrolled, backlog, connects, serverVars>>

\* A listener writes its runtime record; a Claude session is enrolled with its process.
Publishes(p, i) ==
  /\ process[i].who = {p}
  /\ endpoint' = [endpoint EXCEPT ![p] = [pid |-> {i}, number |-> process[i].number]]
  /\ UNCHANGED <<process, started, enrolled, backlog, connects, serverVars>>

\* Its record may stay behind.
Exits(i, retracts) ==
  \E p \in process[i].who :
    /\ process' = [process EXCEPT ![i] = Nobody]
    /\ endpoint' = IF retracts THEN [endpoint EXCEPT ![p] = NoEndpoint] ELSE endpoint
    /\ UNCHANGED <<started, enrolled, backlog, connects, serverVars>>

Enrolls(p) ==
  /\ p \notin enrolled
  /\ enrolled' = enrolled \cup {p}
  /\ UNCHANGED <<process, started, endpoint, backlog, connects, serverVars>>

\* The kernel keeps the pid, also when the process does not wait for the answer.
ConnectsFrom(i) ==
  \E p \in process[i].who :
    /\ connects < MaxConnects
    /\ connects' = connects + 1
    /\ backlog' = backlog \cup {[pid |-> i, by |-> p, number |-> process[i].number,
                                 id |-> connects + 1]}
    /\ UNCHANGED <<machineVars, serverVars>>

-----------------------------------------------------------------------------
(* serve: accept *)

\* Each round reads the configuration, then waits for a connection to come.
RoundBegins ==
  /\ known # enrolled
  /\ known' = enrolled
  /\ UNCHANGED <<machineVars, backlog, connects, clients, senderKeys, snapshotOf>>

\* resolve_peer and verify_peer: the recorded endpoint is that pid, and its process lives.
Verified(p, i) == endpoint[p].pid = {i} /\ process[i].number = endpoint[p].number

Hints == IF snapshotOf = known THEN senderKeys ELSE [i \in Pids |-> {}]

\* Mistaken variant: a cached answer that is no longer true is the end of it.
MatchesHintOnly(i) ==
  LET hinted == Hints[i] \cap known IN
  IF hinted # {} THEN {p \in hinted : Verified(p, i)}
  ELSE {p \in known : Verified(p, i)}

\* The cached answer if it is still true, else every peer that the process may be.
Matches(i) ==
  LET hinted == {p \in Hints[i] \cap known : Verified(p, i)} IN
  IF hinted # {} THEN hinted ELSE {p \in known : Verified(p, i)}

\* Mistaken variant: one connection too many.
HasRoomForOne == Cardinality(clients) <= MaxClients

HasRoom == Cardinality(clients) < MaxClients

Accepts(c) ==
  LET found == Matches(c.pid) IN
  /\ c \in backlog
  /\ backlog' = backlog \ {c}
  /\ snapshotOf' = IF HasRoom THEN known ELSE snapshotOf
  /\ IF HasRoom /\ Cardinality(found) = 1
       THEN /\ clients' = clients \cup {[connect |-> c, key |-> p, old |-> FALSE] : p \in found}
            /\ senderKeys' = [Hints EXCEPT ![c.pid] = found]
       ELSE /\ senderKeys' = IF HasRoom
                               THEN [Hints EXCEPT ![c.pid] = {}] ELSE senderKeys
            /\ UNCHANGED clients
  /\ UNCHANGED <<machineVars, known, connects>>

-----------------------------------------------------------------------------
(* serve: the connections *)

\* decode_frame takes a frame only if the sender it names is the endpoint that the
\* connection was accepted for (what becomes of it then is Inbox, Outgoing, Notices).
Decodes(c) == c.connect.by = c.key

\* The end of the data, or a frame over the limit.
Closes(c) ==
  /\ c \in clients
  /\ clients' = clients \ {c}
  /\ UNCHANGED <<machineVars, known, backlog, connects, senderKeys, snapshotOf>>

\* CONNECTION_TTL has gone by.
GrowsOld(c) ==
  /\ c \in clients /\ ~c.old
  /\ clients' = (clients \ {c}) \cup {[c EXCEPT !.old = TRUE]}
  /\ UNCHANGED <<machineVars, known, backlog, connects, senderKeys, snapshotOf>>

\* Mistaken variant: it is looked at when somebody connects.
ClosesOldOnConnect ==
  /\ \E c \in clients : c.old
  /\ backlog # {}
  /\ clients' = {c \in clients : ~c.old}
  /\ UNCHANGED <<machineVars, known, backlog, connects, senderKeys, snapshotOf>>

\* The end of each round of the loop, after the reads.
ClosesOld ==
  /\ \E c \in clients : c.old
  /\ clients' = {c \in clients : ~c.old}
  /\ UNCHANGED <<machineVars, known, backlog, connects, senderKeys, snapshotOf>>

TimePasses == \E c \in clients : GrowsOld(c)

ConnectionsNext ==
  \/ \E p \in ChatPeers, i \in Pids : Spawns(p, i) \/ Publishes(p, i)
  \/ \E i \in Pids : ConnectsFrom(i) \/ \E retracts \in BOOLEAN : Exits(i, retracts)
  \/ \E p \in ChatPeers : Enrolls(p)
  \/ \E c \in backlog : Accepts(c)
  \/ \E c \in clients : Closes(c)
  \/ RoundBegins \/ TimePasses \/ ClosesOld

ConnectionsSpec ==
  /\ ConnectionsInit /\ [][ConnectionsNext]_connectionsVars
  /\ WF_connectionsVars(TimePasses) /\ WF_connectionsVars(ClosesOld)

-----------------------------------------------------------------------------
\* A peer that is on record and alive when its connection is accepted, and enrolled when
\* the round began, is heard: neither refused for what the listener remembers of its pid,
\* nor taken for a peer whose process had that pid before; only for want of room.
PeersAreRecognised ==
  [][\A c \in backlog \ backlog' :
       c.by \in known /\ endpoint[c.by] = [pid |-> {c.pid}, number |-> c.number]
         /\ process[c.pid].number = c.number
       => \/ Cardinality(clients) >= MaxClients
          \/ \E d \in clients' : d.connect = c /\ Decodes(d)]_connectionsVars

\* A listener that has no place left does not stay so: a connection that says nothing, or
\* never ends what it says, has its place for CONNECTION_TTL only.
PlacesComeFree == Cardinality(clients) >= MaxClients ~> Cardinality(clients) < MaxClients
=============================================================================
