-------------------------- MODULE EnrollmentProofs --------------------------
(***************************************************************************)
(* Who knows whom: proofs about Enrollment, for any number of threads,     *)
(* Claude sessions and commands, and about Registry, for any number of     *)
(* threads and processes.                                                  *)
(*                                                                         *)
(* Enrollment: no start takes an enrollment away, and a connection that    *)
(* connect has reported is known on both sides.  A start that has the lock *)
(* holds a copy that knows every peer the stored configuration knows,      *)
(* because nobody else adds one meanwhile; a stop holds a copy that knows  *)
(* no more than what is stored, because nothing takes one away.  Each of   *)
(* the two needs the other.                                                *)
(*                                                                         *)
(* Registry: a tab that is open while the list is made is in it, once.  Of *)
(* the processes that run, only those that have or had a thread are on     *)
(* record for it; so whatever the list has of a steady thread is true, and *)
(* its lock, which was there from the first step, is kept for the end.     *)
(***************************************************************************)
EXTENDS Enrollment, Registry, TLAPS

\* Where a command holds startup.lock.
Starting == {"read", "save", "enroll", "default", "finish"}

\* What a command is while it is there.
Shaped(d) ==
  LET k == cmd[d] IN
  /\ k.pc \in Starting \cup {"lock"} => k.at \in Threads
  /\ k.pc \in Starting => startup[k.at] = d
  /\ k.pc \in {"look", "stop"} => k.self \in Threads
  /\ k.pc = "choose" => k.kind = "connect" /\ k.self \in Threads
  /\ k.pc = "connected" => k.kind = "connect"
  /\ k.pc \in Starting \cup {"lock"} => k.kind \in {"start", "connect"}
  /\ k.kind = "connect" =>
       /\ k.self # k.peer /\ k.self \in Peers /\ k.peer \in Peers
       /\ k.self \in Threads => \/ k.at = k.self /\ k.other = k.peer
                                \/ k.at = k.peer /\ k.other = k.self
       /\ k.self \notin Threads => k.at = k.peer /\ k.other = k.self

\* The copies: a start's knows all that is stored, a stop's no more than that.
Copied(d) ==
  LET k == cmd[d] IN
  /\ k.pc \in Starting \ {"read"} =>
       config[k.at].peers \subseteq k.copy.peers \/ k.at \in clobbered
  /\ k.pc = "stop" => k.copy.peers \subseteq config[k.self].peers \/ k.self \in clobbered

Knows(t, p) == t \in Threads \ clobbered => p \in config[t].peers
KnowsStill(t, p) == t \in Threads \ clobbered' => p \in config'[t].peers

\* How far a connection has come.
Connected(d) ==
  LET k == cmd[d] IN
  k.kind = "connect" =>
    /\ k.pc \in {"default", "finish"} => Knows(k.at, k.other)
    /\ k.at # k.self \/ k.pc \in {"choose", "connected"} => Knows(k.self, k.peer)
    /\ k.pc \in {"choose", "connected"} => Knows(k.peer, k.self)

CommandInv(d) == Shaped(d) /\ Copied(d) /\ Connected(d)

EnrollmentInv == EnrollmentTypeOK /\ \A d \in CommandIds : CommandInv(d)

-----------------------------------------------------------------------------
(* Types *)

LEMMA RecordTypes ==
  /\ NoConfig \in Configs
  /\ NotGiven \in CommandStates /\ Done \in CommandStates
  /\ \A p \in Peers : OldConfig(p) \in Configs
BY DEF NoConfig, Configs, NotGiven, Done, CommandStates, OldConfig

LEMMA AtThread ==
  ASSUME EnrollmentInv, NEW c \in CommandIds
  PROVE  /\ cmd[c] \in CommandStates
         /\ cmd[c].pc \in Starting \cup {"lock"} => cmd[c].at \in Threads
         /\ cmd[c].pc \in Starting => startup[cmd[c].at] = c
         /\ cmd[c].pc \in {"look", "stop", "choose"} => cmd[c].self \in Threads
BY DEF EnrollmentInv, EnrollmentTypeOK, CommandInv, Shaped

LEMMA EnrollmentInitInv == EnrollmentInit => EnrollmentInv
<1> SUFFICES ASSUME EnrollmentInit PROVE EnrollmentInv
  OBVIOUS
<1>1. EnrollmentTypeOK
  <2>1. config \in [Threads -> Configs]
    BY RecordTypes DEF EnrollmentInit, Peers
  <2>2. \A t \in Threads : config[t].saved \in BOOLEAN
    BY <2>1 DEF Configs
  <2>3. listening \in [Threads -> BOOLEAN] /\ halted \in [Threads -> BOOLEAN]
    BY <2>2 DEF EnrollmentInit
  <2>4. startup \in [Threads -> CommandIds \cup {NoCommand}] /\ clobbered \subseteq Threads
    BY DEF EnrollmentInit
  <2>5. cmd \in [CommandIds -> CommandStates]
    BY RecordTypes DEF EnrollmentInit
  <2> QED
    BY <2>1, <2>3, <2>4, <2>5 DEF EnrollmentTypeOK
<1>2. ASSUME NEW d \in CommandIds PROVE CommandInv(d)
  <2>1. cmd[d] = NotGiven
    BY DEF EnrollmentInit
  <2> QED
    BY <2>1 DEF NotGiven, CommandInv, Shaped, Copied, Connected, Starting
<1> QED
  BY <1>1, <1>2 DEF EnrollmentInv

\* A configuration that is stored or copied with other peers, another default, or another
\* supervision is one.
LEMMA ConfigTypes ==
  ASSUME NEW g \in Configs
  PROVE  /\ g.peers \subseteq Peers /\ g.default \in Peers \cup {NoPeer}
         /\ \A b \in BOOLEAN : [g EXCEPT !.supervised = b] \in Configs
         /\ [g EXCEPT !.saved = TRUE, !.supervised = TRUE] \in Configs
         /\ \A S \in SUBSET Peers : [g EXCEPT !.peers = S] \in Configs
         /\ \A p \in Peers : [g EXCEPT !.default = p] \in Configs
BY DEF Configs

LEMMA CommandTypes ==
  ASSUME NEW k \in CommandStates
  PROVE  /\ k.copy \in Configs /\ k.other \in Peers \cup {NoPeer}
         /\ k.self \in Peers \cup {NoPeer} /\ k.peer \in Peers \cup {NoPeer}
         /\ \A g \in Configs, s \in {"save", "enroll", "default", "finish", "stop"} :
              [k EXCEPT !.copy = g, !.pc = s] \in CommandStates
         /\ \A s \in {"read", "finish", "connected"} : [k EXCEPT !.pc = s] \in CommandStates
BY DEF CommandStates

LEMMA AfterStartTypes ==
  ASSUME NEW k \in CommandStates PROVE AfterStart(k) \in CommandStates
<1> DEFINE at(pc) == [k EXCEPT !.pc = pc, !.copy = NoConfig]
<1>1. at("connected") \in CommandStates /\ at("choose") \in CommandStates
      /\ at("lock") \in CommandStates
  BY RecordTypes DEF CommandStates
<1>2. k.peer \in Threads => [at("lock") EXCEPT !.at = k.peer, !.other = k.self] \in CommandStates
  BY RecordTypes DEF CommandStates
<1> QED
  BY <1>1, <1>2, RecordTypes DEF AfterStart

\* What each action does to the configurations and the commands, with its types.
LEMMA EnrollmentTypeStep ==
  ASSUME EnrollmentInv, [EnrollmentNext]_enrollmentVars PROVE EnrollmentTypeOK'
<1> USE RecordTypes
<1>0. EnrollmentTypeOK
  BY DEF EnrollmentInv
<1>1. ASSUME NEW c \in CommandIds, NEW k \in CommandStates, cmd' = [cmd EXCEPT ![c] = k],
             UNCHANGED <<config, halted, listening, startup, clobbered>>
      PROVE  EnrollmentTypeOK'
  BY <1>0, <1>1 DEF EnrollmentTypeOK
<1>2. ASSUME NEW c \in CommandIds, EnrollmentStep(c) PROVE EnrollmentTypeOK'
  <2> DEFINE k == cmd[c]
  <2>0. /\ k \in CommandStates
        /\ k.pc \in Starting \cup {"lock"} => k.at \in Threads
        /\ k.pc \in {"look", "stop", "choose"} => k.self \in Threads
    BY AtThread
  <2>1. ASSUME NEW t \in Threads, NEW p \in Peers, ConnectFromCodex(c, t, p)
        PROVE  EnrollmentTypeOK'
    BY <1>1, <2>1 DEF ConnectFromCodex, CommandStates, Peers
  <2>2. ASSUME NEW t \in Threads, NEW p \in Claudes, ConnectFromClaude(c, p, t)
        PROVE  EnrollmentTypeOK'
    BY <1>1, <2>2 DEF ConnectFromClaude, CommandStates, Peers
  <2>3. ASSUME NEW t \in Threads, NEW p \in Peers \cup {NoPeer}, GiveStart(c, t, p)
        PROVE  EnrollmentTypeOK'
    BY <1>1, <2>3 DEF GiveStart, CommandStates, Peers
  <2>4. ASSUME NEW t \in Threads, GiveStop(c, t) PROVE EnrollmentTypeOK'
    BY <1>1, <2>4 DEF GiveStop, NotGiven, CommandStates, Peers
  <2>5. CASE TakeStartupLock(c)
    BY <1>0, <2>0, <2>5, CommandTypes DEF TakeStartupLock, Goto, EnrollmentTypeOK
  <2>6. CASE StartReads(c)
    <3>1. config[k.at] \in Configs
      BY <1>0, <2>0, <2>6 DEF StartReads, Starting, EnrollmentTypeOK
    <3>2. cmd' = [cmd EXCEPT ![c] = [k EXCEPT !.copy = config[k.at], !.pc = "save"]]
      BY <1>0, <2>6 DEF StartReads, EnrollmentTypeOK
    <3>3. [k EXCEPT !.copy = config[k.at], !.pc = "save"] \in CommandStates
      BY <2>0, <3>1, CommandTypes
    <3> QED
      BY <1>1, <2>6, <3>2, <3>3 DEF StartReads
  <2>7. CASE StartSaves(c)
    <3> DEFINE new == [k.copy EXCEPT !.saved = TRUE, !.supervised = TRUE]
    <3>1. new \in Configs
      BY <2>0, CommandTypes, ConfigTypes
    <3> QED
      BY <1>0, <2>0, <2>7, <3>1, CommandTypes DEF StartSaves, Starting, EnrollmentTypeOK
  <2>8. CASE StartEnrolls(c)
    <3> DEFINE new == IF k.other = NoPeer THEN k.copy
                      ELSE [config[k.at] EXCEPT !.peers = @ \cup {k.other}]
    <3>1. k.at \in Threads /\ config[k.at] \in Configs
      BY <1>0, <2>0, <2>8 DEF StartEnrolls, Starting, EnrollmentTypeOK
    <3>2. new \in Configs
      BY <2>0, <3>1, CommandTypes, ConfigTypes
    <3> QED
      BY <1>0, <2>0, <2>8, <3>1, <3>2, CommandTypes DEF StartEnrolls, EnrollmentTypeOK
  <2>9. CASE StartDefaults(c)
    <3>1. CASE k.copy.default # NoPeer
      BY <1>1, <2>0, <2>9, <3>1, CommandTypes DEF StartDefaults, Goto
    <3>2. CASE k.copy.default = NoPeer
      <4>1. PICK p \in k.copy.peers :
              /\ config' = [config EXCEPT ![k.at] = [k.copy EXCEPT !.default = p]]
              /\ cmd' = [cmd EXCEPT ![c].copy = [k.copy EXCEPT !.default = p],
                                    ![c].pc = "finish"]
        BY <2>9, <3>2 DEF StartDefaults
      <4>2. [k.copy EXCEPT !.default = p] \in Configs
        BY <2>0, CommandTypes, ConfigTypes
      <4> QED
        BY <1>0, <2>0, <2>9, <4>1, <4>2, CommandTypes
        DEF StartDefaults, Starting, EnrollmentTypeOK
    <3> QED
      BY <3>1, <3>2
  <2>10. CASE StartFinishes(c)
    <3>1. AfterStart(k) \in CommandStates
      BY <2>0, AfterStartTypes
    <3> QED
      BY <1>0, <2>0, <2>10, <3>1 DEF StartFinishes, Starting, EnrollmentTypeOK, NoCommand
  <2>11. CASE StartFails(c)
    BY <1>0, <2>0, <2>11 DEF StartFails, Starting, EnrollmentTypeOK, NoCommand
  <2>12. CASE ConnectChooses(c)
    <3>1. k.self \in Threads /\ k.peer \in Peers
      BY <2>0, <2>12 DEF ConnectChooses, EnrollmentInv, CommandInv, Shaped
    <3>2. [config[k.self] EXCEPT !.default = k.peer] \in Configs
      BY <1>0, <3>1, ConfigTypes DEF EnrollmentTypeOK
    <3> QED
      BY <1>0, <2>0, <2>12, <3>1, <3>2, CommandTypes
      DEF ConnectChooses, Goto, EnrollmentTypeOK
  <2>13. CASE StopReads(c)
    <3>1. config[k.self] \in Configs
      BY <1>0, <2>0, <2>13 DEF StopReads, EnrollmentTypeOK
    <3>2. cmd' = [cmd EXCEPT ![c] = [k EXCEPT !.copy = config[k.self], !.pc = "stop"]]
      BY <1>0, <2>13 DEF StopReads, EnrollmentTypeOK
    <3>3. [k EXCEPT !.copy = config[k.self], !.pc = "stop"] \in CommandStates
      BY <2>0, <3>1, CommandTypes
    <3> QED
      BY <1>1, <2>13, <3>2, <3>3 DEF StopReads
  <2>14. CASE StopWrites(c)
    <3>1. [k.copy EXCEPT !.supervised = FALSE] \in Configs
      BY <2>0, CommandTypes, ConfigTypes
    <3> QED
      BY <1>0, <2>0, <2>14, <3>1 DEF StopWrites, EnrollmentTypeOK
  <2> QED
    BY <1>2, <2>1, <2>2, <2>3, <2>4, <2>5, <2>6, <2>7, <2>8, <2>9, <2>10, <2>11, <2>12,
       <2>13, <2>14 DEF EnrollmentStep
<1>3. ASSUME NEW t \in Threads, EnableSupervision(t) PROVE EnrollmentTypeOK'
  BY <1>0, <1>3, ConfigTypes DEF EnableSupervision, EnrollmentTypeOK
<1>4. ASSUME NEW t \in Threads, ListenerEnds(t) PROVE EnrollmentTypeOK'
  BY <1>0, <1>4 DEF ListenerEnds, EnrollmentTypeOK
<1>5. CASE UNCHANGED enrollmentVars
  BY <1>0, <1>5 DEF enrollmentVars, EnrollmentTypeOK
<1> QED
  BY <1>2, <1>3, <1>4, <1>5 DEF EnrollmentNext

-----------------------------------------------------------------------------
(* No start takes an enrollment away *)

Survives(t) == config[t].peers \subseteq config'[t].peers \/ t \in clobbered'

\* The command that has the lock of its thread, and what that means for another one.
LEMMA OneStarts ==
  ASSUME EnrollmentInv, NEW c \in CommandIds, NEW d \in CommandIds, d # c,
         cmd[c].pc \in Starting, cmd[d].pc \in Starting
  PROVE  cmd[c].at # cmd[d].at
BY AtThread

\* What a start writes knows every peer that is stored.
LEMMA StartKeeps ==
  ASSUME EnrollmentInv, NEW c \in CommandIds, StartSaves(c) \/ StartEnrolls(c) \/ StartDefaults(c)
  PROVE  /\ cmd[c].at \in Threads /\ cmd[c].pc \in Starting
         /\ \A t \in Threads \ {cmd[c].at} : config'[t] = config[t]
         /\ Survives(cmd[c].at)
         /\ UNCHANGED <<startup, clobbered>>
<1> DEFINE k == cmd[c]
<1>1. k.pc \in {"save", "enroll", "default"}
  BY DEF StartSaves, StartEnrolls, StartDefaults
<1>2. k.at \in Threads /\ config \in [Threads -> Configs] /\ k \in CommandStates
  BY <1>1, AtThread DEF Starting, EnrollmentInv, EnrollmentTypeOK
<1>3. config[k.at].peers \subseteq k.copy.peers \/ k.at \in clobbered
  BY <1>1 DEF EnrollmentInv, CommandInv, Copied, Starting
<1>4. k.copy \in Configs /\ config[k.at] \in Configs
  BY <1>2, CommandTypes
<1>5. CASE StartSaves(c)
  BY <1>1, <1>2, <1>3, <1>4, <1>5 DEF StartSaves, Survives, Configs, Starting
<1>6. CASE StartEnrolls(c)
  BY <1>1, <1>2, <1>3, <1>4, <1>6 DEF StartEnrolls, Survives, Configs, Starting
<1>7. CASE StartDefaults(c)
  <2>1. UNCHANGED <<startup, clobbered>>
    BY <1>7 DEF StartDefaults
  <2>2. CASE k.copy.default # NoPeer
    BY <1>1, <1>2, <1>7, <2>1, <2>2 DEF StartDefaults, Survives, Starting
  <2>3. CASE k.copy.default = NoPeer
    <3>1. PICK p \in k.copy.peers :
            config' = [config EXCEPT ![k.at] = [k.copy EXCEPT !.default = p]]
      BY <1>7, <2>3 DEF StartDefaults
    <3>2. [k.copy EXCEPT !.default = p].peers = k.copy.peers
      BY <1>4 DEF Configs
    <3> QED
      BY <1>1, <1>2, <1>3, <2>1, <3>1, <3>2 DEF Survives, Starting
  <2> QED
    BY <2>2, <2>3
<1> QED
  BY <1>5, <1>6, <1>7

\* What a stop writes knows no peer that is not stored.
LEMMA StopShrinks ==
  ASSUME EnrollmentInv, NEW c \in CommandIds, StopWrites(c)
  PROVE  /\ \A t \in Threads : Survives(t)
         /\ \A t \in Threads : config'[t].peers \subseteq config[t].peers \/ t \in clobbered'
         /\ clobbered \subseteq clobbered'
<1> DEFINE k == cmd[c]
<1>1. k.self \in Threads /\ config \in [Threads -> Configs] /\ k \in CommandStates
  BY AtThread DEF StopWrites, EnrollmentInv, EnrollmentTypeOK
<1>2. k.copy.peers \subseteq config[k.self].peers \/ k.self \in clobbered
  BY DEF StopWrites, EnrollmentInv, CommandInv, Copied
<1>3. k.copy \in Configs
  BY <1>1, CommandTypes
<1>4. \A t \in Threads \ {k.self} : config'[t] = config[t]
  BY <1>1 DEF StopWrites
<1>5. config'[k.self].peers \in {k.copy.peers, config[k.self].peers}
  BY <1>1, <1>3 DEF StopWrites, Configs
<1>6. clobbered' = IF config[k.self].peers \subseteq config'[k.self].peers THEN clobbered
                   ELSE clobbered \cup {k.self}
  BY DEF StopWrites
<1> QED
  BY <1>1, <1>2, <1>4, <1>5, <1>6 DEF Survives

\* The default and the supervision of a configuration say nothing of its peers.
LEMMA PeersUntouched ==
  ASSUME EnrollmentInv,
         (\E c \in CommandIds : ConnectChooses(c)) \/ (\E t \in Threads : EnableSupervision(t))
  PROVE  /\ \A t \in Threads : config'[t].peers = config[t].peers
         /\ UNCHANGED <<startup, clobbered>>
<1>1. config \in [Threads -> Configs]
  BY DEF EnrollmentInv, EnrollmentTypeOK
<1>2. ASSUME NEW c \in CommandIds, ConnectChooses(c)
      PROVE  \A t \in Threads : config'[t].peers = config[t].peers
  BY <1>1, <1>2, AtThread DEF ConnectChooses, Configs
<1>3. ASSUME NEW t \in Threads, EnableSupervision(t)
      PROVE  \A u \in Threads : config'[u].peers = config[u].peers
  BY <1>1, <1>3 DEF EnableSupervision, Configs
<1> QED
  BY <1>2, <1>3 DEF ConnectChooses, EnableSupervision

\* The actions that leave the configurations alone.
LEMMA ConfigUntouched ==
  ASSUME NEW c \in CommandIds, EnrollmentStep(c), ~StartSaves(c), ~StartEnrolls(c),
         ~StartDefaults(c), ~ConnectChooses(c), ~StopWrites(c)
  PROVE  UNCHANGED <<config, clobbered>>
BY DEF EnrollmentStep, ConnectFromCodex, ConnectFromClaude, GiveStart, GiveStop,
       TakeStartupLock, StartReads, StartFinishes, StartFails, StopReads

LEMMA PeersSurvive ==
  ASSUME EnrollmentInv, [EnrollmentNext]_enrollmentVars
  PROVE  (\A t \in Threads : Survives(t)) /\ clobbered \subseteq clobbered'
<1>1. ASSUME NEW c \in CommandIds, EnrollmentStep(c)
      PROVE  (\A t \in Threads : Survives(t)) /\ clobbered \subseteq clobbered'
  <2>1. CASE StartSaves(c) \/ StartEnrolls(c) \/ StartDefaults(c)
    BY <2>1, StartKeeps DEF Survives
  <2>2. CASE ConnectChooses(c)
    BY <2>2, PeersUntouched DEF Survives
  <2>3. CASE StopWrites(c)
    BY <2>3, StopShrinks
  <2> QED
    BY <1>1, <2>1, <2>2, <2>3, ConfigUntouched DEF Survives
<1>2. ASSUME NEW t \in Threads, EnableSupervision(t)
      PROVE  (\A u \in Threads : Survives(u)) /\ clobbered \subseteq clobbered'
  BY <1>2, PeersUntouched DEF Survives
<1>3. ASSUME (\E t \in Threads : ListenerEnds(t)) \/ UNCHANGED enrollmentVars
      PROVE  (\A u \in Threads : Survives(u)) /\ clobbered \subseteq clobbered'
  BY <1>3 DEF ListenerEnds, enrollmentVars, Survives
<1> QED
  BY <1>1, <1>2, <1>3 DEF EnrollmentNext

LEMMA KnownStaysKnown ==
  ASSUME EnrollmentInv, [EnrollmentNext]_enrollmentVars, NEW t, NEW p, Knows(t, p)
  PROVE  KnowsStill(t, p)
BY PeersSurvive DEF Knows, KnowsStill, Survives

-----------------------------------------------------------------------------
(* The commands that do not take the step *)

\* Nobody but the start that has the lock adds a peer, or takes the lock.
LEMMA OthersAddNothing ==
  ASSUME EnrollmentInv, NEW c \in CommandIds, NEW d \in CommandIds, d # c,
         EnrollmentStep(c), cmd[d].pc \in Starting
  PROVE  /\ startup'[cmd[d].at] = d
         /\ \/ config'[cmd[d].at].peers \subseteq config[cmd[d].at].peers
            \/ cmd[d].at \in clobbered'
<1> DEFINE t == cmd[d].at
<1>1. t \in Threads /\ startup[t] = d /\ startup \in [Threads -> CommandIds \cup {NoCommand}]
  BY AtThread DEF EnrollmentInv, EnrollmentTypeOK
<1>2. d # NoCommand
  BY EnrollmentAssumption DEF CommandIds, NoCommand
<1>3. CASE StartSaves(c) \/ StartEnrolls(c) \/ StartDefaults(c)
  BY <1>1, <1>3, StartKeeps, OneStarts
<1>4. CASE ConnectChooses(c)
  BY <1>1, <1>4, PeersUntouched
<1>5. CASE StopWrites(c)
  BY <1>1, <1>5, StopShrinks DEF StopWrites
<1>6. CASE TakeStartupLock(c)
  BY <1>1, <1>2, <1>6 DEF TakeStartupLock
<1>7. CASE StartFinishes(c) \/ StartFails(c)
  <2>1. cmd[c].pc \in Starting
    BY <1>7 DEF StartFinishes, StartFails, Starting
  <2>2. cmd[c].at # t
    BY <2>1, OneStarts
  <2> QED
    BY <1>1, <1>7, <2>2 DEF StartFinishes, StartFails
<1>8. CASE \/ StartReads(c) \/ StopReads(c)
           \/ \E u \in Threads, p \in Peers : ConnectFromCodex(c, u, p)
           \/ \E u \in Threads, p \in Claudes : ConnectFromClaude(c, p, u)
           \/ \E u \in Threads, p \in Peers \cup {NoPeer} : GiveStart(c, u, p)
           \/ \E u \in Threads : GiveStop(c, u)
  BY <1>1, <1>8 DEF StartReads, StopReads, ConnectFromCodex, ConnectFromClaude, GiveStart, GiveStop
<1> QED
  BY <1>3, <1>4, <1>5, <1>6, <1>7, <1>8 DEF EnrollmentStep

\* A command that does not move keeps what it knows.
LEMMA StandingStill ==
  ASSUME EnrollmentInv, [EnrollmentNext]_enrollmentVars, NEW d \in CommandIds, cmd'[d] = cmd[d],
         cmd[d].pc \in Starting =>
           /\ startup'[cmd[d].at] = d
           /\ \/ config'[cmd[d].at].peers \subseteq config[cmd[d].at].peers
              \/ cmd[d].at \in clobbered'
  PROVE  CommandInv(d)'
<1> DEFINE k == cmd[d]
<1>1. Shaped(d) /\ Copied(d) /\ Connected(d)
  BY DEF EnrollmentInv, CommandInv
<1>2. Shaped(d)'
  BY <1>1 DEF Shaped
<1>3. Copied(d)'
  <2>1. ASSUME k.pc \in Starting \ {"read"}
        PROVE  config'[k.at].peers \subseteq k.copy.peers \/ k.at \in clobbered'
    BY <1>1, <2>1, PeersSurvive DEF Copied
  <2>2. ASSUME k.pc = "stop"
        PROVE  k.copy.peers \subseteq config'[k.self].peers \/ k.self \in clobbered'
    BY <1>1, <2>2, PeersSurvive, AtThread DEF Copied, Survives
  <2> QED
    BY <2>1, <2>2 DEF Copied
<1>4. Connected(d)'
  <2>1. \A t, p : Knows(t, p) => KnowsStill(t, p)
    BY KnownStaysKnown
  <2>2. k.kind = "connect" =>
          /\ k.pc \in {"default", "finish"} => KnowsStill(k.at, k.other)
          /\ k.at # k.self \/ k.pc \in {"choose", "connected"} => KnowsStill(k.self, k.peer)
          /\ k.pc \in {"choose", "connected"} => KnowsStill(k.peer, k.self)
    BY <1>1, <2>1 DEF Connected
  <2> QED
    BY <2>2 DEF Connected, Knows, KnowsStill
<1> QED
  BY <1>2, <1>3, <1>4 DEF CommandInv
-----------------------------------------------------------------------------
(* The command that takes the step *)

LEMMA GivenStands ==
  ASSUME EnrollmentInv, NEW c \in CommandIds,
         \/ \E t \in Threads, p \in Peers : ConnectFromCodex(c, t, p)
         \/ \E t \in Threads, p \in Claudes : ConnectFromClaude(c, p, t)
         \/ \E t \in Threads, p \in Peers \cup {NoPeer} : GiveStart(c, t, p)
         \/ \E t \in Threads : GiveStop(c, t)
  PROVE  CommandInv(c)'
<1> USE DEF CommandInv, Shaped, Copied, Connected, Starting
<1>0. cmd \in [CommandIds -> CommandStates]
  BY DEF EnrollmentInv, EnrollmentTypeOK
<1>1. ASSUME NEW t \in Threads, NEW p \in Peers, ConnectFromCodex(c, t, p)
      PROVE  CommandInv(c)'
  BY <1>0, <1>1 DEF ConnectFromCodex, Peers
<1>2. ASSUME NEW t \in Threads, NEW p \in Claudes, ConnectFromClaude(c, p, t)
      PROVE  CommandInv(c)'
  <2>1. cmd'[c] = [kind |-> "connect", self |-> p, peer |-> t,
                   at |-> t, other |-> p, pc |-> "lock", copy |-> NoConfig]
    BY <1>0, <1>2 DEF ConnectFromClaude
  <2>2. p \notin Threads /\ p # t
    BY EnrollmentAssumption
  <2> QED
    BY <2>1, <2>2 DEF Peers, Knows
<1>3. ASSUME NEW t \in Threads, NEW p \in Peers \cup {NoPeer}, GiveStart(c, t, p)
      PROVE  CommandInv(c)'
  BY <1>0, <1>3 DEF GiveStart
<1>4. ASSUME NEW t \in Threads, GiveStop(c, t) PROVE CommandInv(c)'
  BY <1>0, <1>4 DEF GiveStop, NotGiven
<1> QED
  BY <1>1, <1>2, <1>3, <1>4

\* A command that is done has nothing left to keep.
LEMMA DoneStands ==
  ASSUME NEW c \in CommandIds, cmd'[c] = Done PROVE CommandInv(c)'
BY DEF Done, NotGiven, CommandInv, Shaped, Copied, Connected, Starting

LEMMA StartStands ==
  ASSUME EnrollmentInv, EnrollmentNext, NEW c \in CommandIds,
         TakeStartupLock(c) \/ StartReads(c) \/ StartSaves(c)
  PROVE  CommandInv(c)'
<1> DEFINE k == cmd[c]
<1>0. /\ cmd \in [CommandIds -> CommandStates] /\ config \in [Threads -> Configs]
      /\ startup \in [Threads -> CommandIds \cup {NoCommand}]
      /\ Shaped(c) /\ Copied(c) /\ Connected(c)
  BY DEF EnrollmentInv, EnrollmentTypeOK, CommandInv
<1>1. k \in CommandStates /\ k.copy \in Configs
  BY <1>0, CommandTypes
<1>2. k.at \in Threads
  BY <1>0 DEF TakeStartupLock, StartReads, StartSaves, Shaped, Starting
<1>3. Knows(k.self, k.peer) => KnowsStill(k.self, k.peer)
  BY KnownStaysKnown
<1>4. CASE TakeStartupLock(c)
  <2>1. cmd'[c] = [k EXCEPT !.pc = "read"] /\ startup'[k.at] = c
    BY <1>0, <1>2, <1>4 DEF TakeStartupLock, Goto
  <2> QED
    BY <1>0, <1>1, <1>2, <1>3, <1>4, <2>1
    DEF TakeStartupLock, CommandInv, Shaped, Copied, Connected, Starting, CommandStates, Knows, KnowsStill
<1>5. CASE StartReads(c)
  <2>1. cmd'[c] = [k EXCEPT !.copy = config[k.at], !.pc = "save"]
        /\ UNCHANGED <<startup, config>>
    BY <1>0, <1>5 DEF StartReads
  <2> QED
    BY <1>0, <1>1, <1>2, <1>3, <1>5, <2>1
    DEF StartReads, CommandInv, Shaped, Copied, Connected, Starting, CommandStates, Knows, KnowsStill
<1>6. CASE StartSaves(c)
  <2> DEFINE new == [k.copy EXCEPT !.saved = TRUE, !.supervised = TRUE]
  <2>1. cmd'[c] = [k EXCEPT !.copy = new, !.pc = "enroll"] /\ config'[k.at] = new
        /\ UNCHANGED startup
    BY <1>0, <1>2, <1>6 DEF StartSaves
  <2> QED
    BY <1>0, <1>1, <1>2, <1>3, <1>6, <2>1
    DEF StartSaves, CommandInv, Shaped, Copied, Connected, Starting, CommandStates, Knows, KnowsStill
<1> QED
  BY <1>4, <1>5, <1>6

LEMMA EnrollStands ==
  ASSUME EnrollmentInv, EnrollmentNext, NEW c \in CommandIds, StartEnrolls(c)
  PROVE  CommandInv(c)'
<1> DEFINE k == cmd[c]
           new == IF k.other = NoPeer THEN k.copy
                  ELSE [config[k.at] EXCEPT !.peers = @ \cup {k.other}]
<1>0. /\ cmd \in [CommandIds -> CommandStates] /\ config \in [Threads -> Configs]
      /\ Shaped(c) /\ Copied(c) /\ Connected(c)
  BY DEF EnrollmentInv, EnrollmentTypeOK, CommandInv
<1>1. k \in CommandStates /\ k.pc = "enroll" /\ k.at \in Threads /\ startup[k.at] = c
  BY <1>0 DEF StartEnrolls, Shaped, Starting
<1>2. cmd'[c] = [k EXCEPT !.copy = new, !.pc = "default"] /\ config'[k.at] = new
      /\ UNCHANGED <<startup, clobbered>>
  BY <1>0, <1>1 DEF StartEnrolls
<1>3. k.kind = "connect" => k.other # NoPeer
  BY <1>0, EnrollmentAssumption DEF Shaped, Peers
<1>4. k.kind = "connect" => KnowsStill(k.at, k.other)
  BY <1>0, <1>1, <1>2, <1>3 DEF KnowsStill, Configs
<1>5. Knows(k.self, k.peer) => KnowsStill(k.self, k.peer)
  BY KnownStaysKnown
<1> QED
  BY <1>0, <1>1, <1>2, <1>4, <1>5
  DEF CommandInv, Shaped, Copied, Connected, Starting, CommandStates, Knows, KnowsStill

LEMMA DefaultStands ==
  ASSUME EnrollmentInv, EnrollmentNext, NEW c \in CommandIds, StartDefaults(c)
  PROVE  CommandInv(c)'
<1> DEFINE k == cmd[c]
<1>0. /\ cmd \in [CommandIds -> CommandStates] /\ config \in [Threads -> Configs]
      /\ Shaped(c) /\ Copied(c) /\ Connected(c)
  BY DEF EnrollmentInv, EnrollmentTypeOK, CommandInv
<1>1. /\ k \in CommandStates /\ k.pc = "default" /\ k.at \in Threads /\ startup[k.at] = c
      /\ UNCHANGED <<startup, clobbered>>
  BY <1>0 DEF StartDefaults, Shaped, Starting
<1>2. PICK g \in Configs : /\ cmd'[c] = [k EXCEPT !.copy = g, !.pc = "finish"]
                           /\ config'[k.at].peers \subseteq g.peers \/ k.at \in clobbered
  <2>1. CASE k.copy.default # NoPeer
    <3>1. cmd'[c] = [k EXCEPT !.pc = "finish"] /\ UNCHANGED config
      BY <1>0, <2>1 DEF StartDefaults, Goto
    <3>2. [k EXCEPT !.pc = "finish"] = [k EXCEPT !.copy = k.copy, !.pc = "finish"]
      BY <1>1 DEF CommandStates
    <3> QED
      BY <1>0, <1>1, <3>1, <3>2, CommandTypes DEF Copied, Starting
  <2>2. CASE k.copy.default = NoPeer
    <3>1. PICK p \in k.copy.peers :
            /\ config' = [config EXCEPT ![k.at] = [k.copy EXCEPT !.default = p]]
            /\ cmd' = [cmd EXCEPT ![c].copy = [k.copy EXCEPT !.default = p],
                                  ![c].pc = "finish"]
      BY <2>2 DEF StartDefaults
    <3>2. [k.copy EXCEPT !.default = p] \in Configs
      BY <1>1, CommandTypes, ConfigTypes
    <3> QED
      BY <1>0, <1>1, <3>1, <3>2
  <2> QED
    BY <2>1, <2>2
<1>3. Knows(k.self, k.peer) => KnowsStill(k.self, k.peer)
  BY KnownStaysKnown
<1>4. Knows(k.at, k.other) => KnowsStill(k.at, k.other)
  BY KnownStaysKnown
<1> QED
  BY <1>0, <1>1, <1>2, <1>3, <1>4
  DEF CommandInv, Shaped, Copied, Connected, Starting, CommandStates, Knows, KnowsStill

LEMMA FinishStands ==
  ASSUME EnrollmentInv, EnrollmentNext, NEW c \in CommandIds, StartFinishes(c)
  PROVE  CommandInv(c)'
<1> DEFINE k == cmd[c]
           at(pc) == [k EXCEPT !.pc = pc, !.copy = NoConfig]
<1>0. /\ cmd \in [CommandIds -> CommandStates]
      /\ Shaped(c) /\ Connected(c)
  BY DEF EnrollmentInv, EnrollmentTypeOK, CommandInv
<1>1. k \in CommandStates /\ k.pc = "finish" /\ cmd'[c] = AfterStart(k)
  BY <1>0 DEF StartFinishes
<1>2. k.kind \in {"start", "connect"}
  BY <1>0, <1>1 DEF Shaped, Starting
<1>3. k.kind = "connect" => Knows(k.at, k.other) /\ (k.at # k.self => Knows(k.self, k.peer))
  BY <1>0, <1>1 DEF Connected
<1>4. /\ Knows(k.at, k.other) => KnowsStill(k.at, k.other)
      /\ Knows(k.self, k.peer) => KnowsStill(k.self, k.peer)
  BY KnownStaysKnown
<1>5. CASE k.kind = "start"
  BY <1>1, <1>5, DoneStands DEF AfterStart
<1>6. CASE k.kind = "connect" /\ k.self \notin Threads
  <2>1. cmd'[c] = at("connected")
    BY <1>1, <1>6 DEF AfterStart
  <2> QED
    BY <1>0, <1>1, <1>3, <1>4, <1>6, <2>1
    DEF CommandInv, Shaped, Copied, Connected, Starting, CommandStates, Knows, KnowsStill
<1>7. CASE k.kind = "connect" /\ k.self \in Threads /\ k.at = k.self /\ k.peer \in Threads
  <2>1. cmd'[c] = [at("lock") EXCEPT !.at = k.peer, !.other = k.self]
    BY <1>1, <1>7 DEF AfterStart
  <2> QED
    BY <1>0, <1>1, <1>3, <1>4, <1>7, <2>1
    DEF CommandInv, Shaped, Copied, Connected, Starting, CommandStates, Knows, KnowsStill
<1>8. CASE k.kind = "connect" /\ k.self \in Threads /\ ~(k.at = k.self /\ k.peer \in Threads)
  <2>1. cmd'[c] = at("choose")
    BY <1>1, <1>8 DEF AfterStart
  <2> QED
    BY <1>0, <1>1, <1>3, <1>4, <1>8, <2>1
    DEF CommandInv, Shaped, Copied, Connected, Starting, CommandStates, Knows, KnowsStill
<1> QED
  BY <1>2, <1>5, <1>6, <1>7, <1>8

LEMMA ChoiceStands ==
  ASSUME EnrollmentInv, EnrollmentNext, NEW c \in CommandIds, ConnectChooses(c) \/ StopReads(c)
  PROVE  CommandInv(c)'
<1> DEFINE k == cmd[c]
<1>0. /\ cmd \in [CommandIds -> CommandStates] /\ config \in [Threads -> Configs]
      /\ Shaped(c) /\ Connected(c)
  BY DEF EnrollmentInv, EnrollmentTypeOK, CommandInv
<1>1. k \in CommandStates
  BY <1>0
<1>2. /\ Knows(k.self, k.peer) => KnowsStill(k.self, k.peer)
      /\ Knows(k.peer, k.self) => KnowsStill(k.peer, k.self)
  BY KnownStaysKnown
<1>3. CASE ConnectChooses(c)
  <2>1. cmd'[c] = [k EXCEPT !.pc = "connected"] /\ k.pc = "choose"
    BY <1>0, <1>3 DEF ConnectChooses, Goto
  <2> QED
    BY <1>0, <1>1, <1>2, <2>1
    DEF CommandInv, Shaped, Copied, Connected, Starting, CommandStates, Knows, KnowsStill
<1>4. CASE StopReads(c)
  <2>1. cmd'[c] = [k EXCEPT !.copy = config[k.self], !.pc = "stop"] /\ k.pc = "look"
        /\ UNCHANGED <<config, clobbered>>
    BY <1>0, <1>4 DEF StopReads
  <2> QED
    BY <1>0, <1>1, <1>2, <2>1
    DEF CommandInv, Shaped, Copied, Connected, Starting, CommandStates, Knows, KnowsStill
<1> QED
  BY <1>3, <1>4

LEMMA EnrollmentStepInv ==
  ASSUME EnrollmentInv, [EnrollmentNext]_enrollmentVars PROVE EnrollmentInv'
<1>1. EnrollmentTypeOK'
  BY EnrollmentTypeStep
<1>2. ASSUME NEW c \in CommandIds, EnrollmentStep(c), NEW d \in CommandIds
      PROVE  CommandInv(d)'
  <2>0. EnrollmentNext
    BY <1>2 DEF EnrollmentNext
  <2>1. CASE d # c
    <3>1. cmd'[d] = cmd[d]
      BY <1>2, <2>1 DEF EnrollmentInv, EnrollmentTypeOK, EnrollmentStep, Goto, ConnectFromCodex,
         ConnectFromClaude, GiveStart, GiveStop, TakeStartupLock, StartReads, StartSaves,
         StartEnrolls, StartDefaults, StartFinishes, StartFails, ConnectChooses, StopReads,
         StopWrites
    <3> QED
      BY <1>2, <2>1, <3>1, OthersAddNothing, StandingStill
  <2>2. CASE d = c
    <3>1. StartFails(c) \/ StopWrites(c) => cmd'[c] = Done
      BY DEF StartFails, StopWrites, EnrollmentInv, EnrollmentTypeOK
    <3> QED
      BY <1>2, <2>0, <2>2, <3>1, GivenStands, DoneStands, StartStands, EnrollStands,
         DefaultStands, FinishStands, ChoiceStands DEF EnrollmentStep
  <2> QED
    BY <2>1, <2>2
<1>3. ASSUME (\E t \in Threads : EnableSupervision(t) \/ ListenerEnds(t))
               \/ UNCHANGED enrollmentVars,
             NEW d \in CommandIds
      PROVE  CommandInv(d)'
  <2>1. cmd' = cmd /\ startup' = startup
    BY <1>3 DEF EnableSupervision, ListenerEnds, enrollmentVars
  <2>2. \A t \in Threads : config'[t].peers = config[t].peers
    BY <1>3, PeersUntouched DEF ListenerEnds, enrollmentVars
  <2> QED
    BY <2>1, <2>2, AtThread, StandingStill
<1> QED
  BY <1>1, <1>2, <1>3 DEF EnrollmentInv, EnrollmentNext

LEMMA EnrollmentIsInv == EnrollmentSpec => []EnrollmentInv
BY EnrollmentInitInv, EnrollmentStepInv, PTL DEF EnrollmentSpec

-----------------------------------------------------------------------------
\* For any number of threads, peers and commands: no start or connect takes away an
\* enrollment, whatever it has read before it writes (start_bridge, enroll, under
\* startup.lock).
THEOREM EnrollmentsSurviveAlways == EnrollmentSpec => EnrollmentsSurvive
<1> DEFINE Kept == \A t \in Threads : config[t].peers \subseteq config'[t].peers \/ t \in clobbered'
<1>1. EnrollmentInv /\ [EnrollmentNext]_enrollmentVars => [Kept]_config
  BY PeersSurvive DEF Survives
<1>2. EnrollmentSpec => [][EnrollmentNext]_enrollmentVars
  BY PTL DEF EnrollmentSpec
<1> QED
  BY <1>1, <1>2, EnrollmentIsInv, PTL DEF EnrollmentsSurvive

\* For any number of threads, peers and commands: when connect has reported the connection,
\* both sides know it, from then on (connect, _start, start_bridge).
THEOREM ConnectedBothWaysAlways == EnrollmentSpec => []ConnectedBothWays
<1>1. EnrollmentInv => ConnectedBothWays
  <2> SUFFICES ASSUME EnrollmentInv, NEW c \in CommandIds, cmd[c].pc = "connected"
               PROVE  Knows(cmd[c].self, cmd[c].peer) /\ Knows(cmd[c].peer, cmd[c].self)
    BY DEF ConnectedBothWays, Knows
  <2> QED
    BY DEF EnrollmentInv, CommandInv, Shaped, Connected
<1> QED
  BY <1>1, EnrollmentIsInv, PTL

\* For any number of threads, peers and commands, the state of every command and every
\* configuration has its type.
THEOREM EnrollmentTypeAlways == EnrollmentSpec => []EnrollmentTypeOK
<1>1. EnrollmentInv => EnrollmentTypeOK
  BY DEF EnrollmentInv
<1> QED
  BY <1>1, EnrollmentIsInv, PTL

-----------------------------------------------------------------------------
(* The registry *)

\* The types, with registration as a function.
Listers == [pc : {"homes", "locks", "records", "bridges", "rest", "done"},
            scanned : SUBSET Sessions, locks : SUBSET ListedRows, rows : SUBSET ListedRows,
            steady : SUBSET Sessions]

RegistryShape ==
  /\ opened \in [Tabs -> SUBSET Sessions] /\ living \in SUBSET Tabs /\ tabs \in 0..MaxTab
  /\ registration \in [Sessions -> SUBSET Registrations]
  /\ bridgeOwner \in [Sessions -> 0..MaxTab]
  /\ registrar \in SUBSET [thread : Sessions, owner : Tabs, name : Names, late : BOOLEAN]
  /\ lister \in Listers
  /\ label \in [Sessions -> Names] /\ left \in SUBSET (Tabs \X Sessions)

\* Who has a thread open runs, and is the only one; a process that has not been started is
\* named nowhere.
Exclusive ==
  /\ \A p \in Tabs : opened[p] # {} => p \in living
  /\ \A p, q \in Tabs : \A s \in Sessions : s \in opened[p] /\ s \in opened[q] => p = q
  /\ \A p \in living : p <= tabs
  /\ \A s \in Sessions : bridgeOwner[s] <= tabs /\ \A r \in registration[s] : r.owner <= tabs
  /\ \A r \in registrar : r.owner <= tabs

\* p may stand for s in a list.
Stands(p, s) == s \in opened[p] \/ <<p, s>> \in left

\* Of the processes that run, only those that have or had the thread are on record for it.
Owners ==
  /\ \A s \in Sessions : bridgeOwner[s] \in living => Stands(bridgeOwner[s], s)
  /\ \A s \in Sessions : \A r \in registration[s] : r.owner \in living => Stands(r.owner, s)
  /\ \A r \in registrar : r.owner \in living => Stands(r.owner, r.thread)

\* One record for a thread, with the name it was given.
Labels ==
  /\ \A s \in Sessions : \A r, q \in registration[s] : r = q
  /\ \A s \in Sessions : label[s] = StoredName(s)
  /\ \A r \in registrar : ~r.late => r.name = label[r.thread]

OnePerThread(S) == \A r, q \in S : r.thread = q.thread => r = q

\* What the list has of a steady thread so far is true, and its lock is kept for the end.
ListerInv ==
  /\ OnePerThread(lister.locks) /\ OnePerThread(lister.rows)
  /\ lister.pc \in {"homes", "locks", "records"} => lister.rows = {}
  /\ \A s \in lister.steady :
       /\ \E p \in living : s \in opened[p]
       /\ lister.pc = "locks" => s \in lister.scanned
       /\ lister.pc \in {"records", "bridges", "rest"} => \E l \in lister.locks : l.thread = s
       /\ \A r \in lister.locks \cup lister.rows :
            r.thread = s => Stands(r.owner, s) /\ r.name = label[s]
       /\ lister.pc = "done" => \E r \in lister.rows : r.thread = s

RegistryInv == RegistryShape /\ Exclusive /\ Owners /\ Labels /\ ListerInv

\* Writing a record sets the name of its thread and of no other (register).
LEMMA NameIsWritten ==
  ASSUME RegistryShape, NEW s \in Sessions, NEW new,
         registration' = [registration EXCEPT ![s] = {new}]
  PROVE  /\ StoredName(s)' = new.name
         /\ \A t \in Sessions \ {s} : StoredName(t)' = StoredName(t)
<1>1. registration'[s] = {new} /\ \A t \in Sessions \ {s} : registration'[t] = registration[t]
  BY DEF RegistryShape
<1>2. (CHOOSE r \in {new} : TRUE) = new
  OBVIOUS
<1> QED
  BY <1>1, <1>2 DEF StoredName

\* What sessions reads as a name is one.
LEMMA NamesAreNames ==
  ASSUME RegistryShape, NEW s \in Sessions
  PROVE  StoredName(s) \in Names
<1>1. CASE registration[s] = {}
  BY <1>1 DEF StoredName, Names
<1>2. CASE registration[s] # {}
  BY <1>2 DEF StoredName, RegistryShape, Registrations
<1> QED
  BY <1>1, <1>2

\* Before the first tab nothing is on record.
LEMMA RegistryInitInv == RegistryInit => RegistryInv
BY RegistryAssumption DEF RegistryInit, RegistryInv, RegistryShape, Exclusive, Owners, Labels, ListerInv,
   OnePerThread, NotListing, Listers, StoredName, Names, Tabs

-----------------------------------------------------------------------------
\* Tabs that come and go leave true what the list has of the threads that stay steady.
LEMMA SettledTabs ==
  ASSUME RegistryInv, NEW S \in SUBSET Sessions, lister' = [lister EXCEPT !.steady = @ \ S],
         UNCHANGED label,
         \A s \in Sessions \ S : \A p \in Tabs :
           /\ s \in opened[p] => s \in opened'[p] /\ p \in living'
           /\ Stands(p, s) => Stands(p, s)'
  PROVE  ListerInv'
BY DEF RegistryInv, RegistryShape, Exclusive, ListerInv, OnePerThread, Listers, ListedRows

\* Codex starting a process, leaving a thread for another, or ending.
LEMMA TabsStep ==
  ASSUME RegistryInv,
         \/ \E s \in Sessions : TabStarts(s)
         \/ \E p \in Tabs, S \in {{}} \cup {{s} : s \in Sessions} : TabLeaves(p, S)
         \/ \E p \in Tabs : TabEnds(p)
  PROVE  RegistryInv'
<1>1. ASSUME NEW s \in Sessions, TabStarts(s) PROVE RegistryInv'
  <2> USE <1>1 DEF TabStarts, Unsettle
  <2> DEFINE p == tabs + 1
  <2>1. p \in Tabs /\ p \notin living /\ opened[p] = {} /\ tabs < p
    BY RegistryAssumption DEF RegistryInv, RegistryShape, Exclusive, Tabs
  <2>2. RegistryShape'
    <3>1. tabs' \in 0..MaxTab
      BY <2>1, RegistryAssumption DEF RegistryInv, RegistryShape, Tabs
    <3>2. lister' \in Listers
      BY DEF RegistryInv, RegistryShape, Listers
    <3>3. opened' \in [Tabs -> SUBSET Sessions] /\ living' \in SUBSET Tabs
      BY <2>1 DEF RegistryInv, RegistryShape
    <3> QED
      BY <3>1, <3>2, <3>3 DEF RegistryInv, RegistryShape
  <2>3. Exclusive'
    BY <2>1, RegistryAssumption DEF RegistryInv, RegistryShape, Exclusive, IsFree, Tabs, Registrations
  <2>4. \A q \in Tabs, t \in Sessions : Stands(q, t) => Stands(q, t)'
    BY <2>1 DEF Stands, RegistryInv, RegistryShape
  <2>5. Owners'
    BY <2>1, <2>4 DEF RegistryInv, RegistryShape, Exclusive, Owners, Registrations, Tabs
  <2>6. Labels'
    BY DEF RegistryInv, Labels, StoredName
  <2>7. ListerInv'
    <3>1. \A t \in Sessions \ {s} : \A q \in Tabs : t \in opened[q] => t \in opened'[q] /\ q \in living'
      BY <2>1 DEF RegistryInv, RegistryShape, Exclusive
    <3>2. {s} \in SUBSET Sessions /\ lister' = [lister EXCEPT !.steady = @ \ {s}] /\ UNCHANGED label
      OBVIOUS
    <3> QED
      BY <2>4, <3>1, <3>2, SettledTabs
  <2> QED
    BY <2>2, <2>3, <2>5, <2>6, <2>7 DEF RegistryInv
<1>2. ASSUME NEW p \in Tabs, NEW S \in {{}} \cup {{s} : s \in Sessions}, TabLeaves(p, S)
      PROVE  RegistryInv'
  <2> USE <1>2 DEF TabLeaves, Unsettle
  <2>1. RegistryShape'
    BY DEF RegistryInv, RegistryShape, Listers
  <2>2. Exclusive'
    BY DEF RegistryInv, RegistryShape, Exclusive, IsFree
  <2>3. \A q \in Tabs, t \in Sessions : Stands(q, t) => Stands(q, t)'
    BY DEF Stands, RegistryInv, RegistryShape
  <2>4. Owners'
    BY <2>3 DEF RegistryInv, RegistryShape, Exclusive, Owners, Registrations, Tabs
  <2>5. Labels'
    BY DEF RegistryInv, Labels, StoredName
  <2>6. ListerInv'
    <3>1. \A t \in Sessions \ (opened[p] \cup S) : \A q \in Tabs :
            t \in opened[q] => t \in opened'[q] /\ q \in living'
      BY DEF RegistryInv, RegistryShape, Exclusive
    <3>2. opened[p] \cup S \in SUBSET Sessions
      BY DEF RegistryInv, RegistryShape
    <3> QED
      BY <2>3, <3>1, <3>2, SettledTabs
  <2> QED
    BY <2>1, <2>2, <2>4, <2>5, <2>6 DEF RegistryInv
<1>3. ASSUME NEW p \in Tabs, TabEnds(p) PROVE RegistryInv'
  <2> USE <1>3 DEF TabEnds, Unsettle
  <2>1. RegistryShape'
    BY DEF RegistryInv, RegistryShape, Listers
  <2>2. Exclusive'
    BY DEF RegistryInv, RegistryShape, Exclusive
  <2>3. \A q \in Tabs \ {p}, t \in Sessions : Stands(q, t) => Stands(q, t)'
    BY DEF Stands, RegistryInv, RegistryShape
  <2>4. Owners'
    BY <2>3 DEF RegistryInv, RegistryShape, Exclusive, Owners, Registrations, Tabs
  <2>5. Labels'
    BY DEF RegistryInv, Labels, StoredName
  <2>6. ListerInv'
    <3> DEFINE S == opened[p] \cup {s \in Sessions : <<p, s>> \in left}
    <3>1. \A t \in Sessions \ S : \A q \in Tabs :
            /\ t \in opened[q] => t \in opened'[q] /\ q \in living'
            /\ Stands(q, t) => Stands(q, t)'
      BY <2>3 DEF RegistryInv, RegistryShape, Exclusive, Stands
    <3>2. S \in SUBSET Sessions
      BY DEF RegistryInv, RegistryShape
    <3>3. lister' = [lister EXCEPT !.steady = @ \ S] /\ UNCHANGED label
      OBVIOUS
    <3> HIDE DEF S
    <3> QED
      BY <3>1, <3>2, <3>3, SettledTabs
  <2> QED
    BY <2>1, <2>2, <2>4, <2>5, <2>6 DEF RegistryInv
<1> QED
  BY <1>1, <1>2, <1>3

-----------------------------------------------------------------------------
\* Hooks and the command register, and a start that saves its owner.
LEMMA RecordsStep ==
  ASSUME RegistryInv,
         \/ \E p \in Tabs : HookLooks(p) \/ GivesName(p) \/ BridgeStarts(p)
         \/ HookRegisters \/ HookCutShort
  PROVE  RegistryInv'
<1>1. ASSUME NEW p \in Tabs, HookLooks(p) PROVE RegistryInv'
  <2>1. PICK s \in opened[p] :
          registrar' = {[thread |-> s, owner |-> p, name |-> StoredName(s), late |-> FALSE]}
    BY <1>1 DEF HookLooks
  <2>2. s \in Sessions /\ StoredName(s) \in Names
    BY NamesAreNames DEF RegistryInv, RegistryShape
  <2>3. UNCHANGED <<opened, living, tabs, registration, bridgeOwner, lister, label, left>>
    BY <1>1 DEF HookLooks
  <2>4. RegistryShape' /\ Exclusive' /\ ListerInv'
    BY <2>1, <2>2, <2>3
    DEF RegistryInv, RegistryShape, Exclusive, ListerInv, OnePerThread, Stands
  <2>5. Owners' /\ Labels'
    BY <2>1, <2>2, <2>3 DEF RegistryInv, Owners, Labels, Stands, StoredName
  <2> QED
    BY <2>4, <2>5 DEF RegistryInv
<1>2. ASSUME NEW p \in Tabs, GivesName(p) PROVE RegistryInv'
  <2> DEFINE new == [owner |-> p, name |-> "given"]
  <2>1. PICK s \in opened[p] :
          /\ registration' = [registration EXCEPT ![s] = {new}]
          /\ label' = [label EXCEPT ![s] = "given"]
          /\ registrar' = {IF r.thread = s THEN [r EXCEPT !.late = TRUE] ELSE r : r \in registrar}
          /\ lister' = [lister EXCEPT !.steady = @ \ {s}]
          /\ UNCHANGED <<opened, living, tabs, bridgeOwner, left>>
    BY <1>2 DEF GivesName, Unsettle
  <2>2. s \in Sessions /\ p \in living
    BY DEF RegistryInv, RegistryShape, Exclusive
  <2>3. \A r \in registrar' : \E q \in registrar :
          /\ r.thread = q.thread /\ r.owner = q.owner /\ r.name = q.name
          /\ r.late \/ (r = q /\ r.thread # s)
    BY <2>1 DEF RegistryInv, RegistryShape
  <2>4. RegistryShape'
    <3>1. registration' \in [Sessions -> SUBSET Registrations] /\ label' \in [Sessions -> Names]
      BY <2>1, <2>2 DEF RegistryInv, RegistryShape, Registrations, Names
    <3>2. registrar' \in SUBSET [thread : Sessions, owner : Tabs, name : Names, late : BOOLEAN]
      <4> DEFINE Pending == [thread : Sessions, owner : Tabs, name : Names, late : BOOLEAN]
      <4>1. \A r \in registrar : r \in Pending /\ [r EXCEPT !.late = TRUE] \in Pending
        BY DEF RegistryInv, RegistryShape
      <4> QED
        BY <2>1, <4>1
    <3>3. lister' \in Listers
      BY <2>1 DEF RegistryInv, RegistryShape, Listers
    <3> QED
      BY <2>1, <3>1, <3>2, <3>3 DEF RegistryInv, RegistryShape
  <2>5. Exclusive'
    BY <2>1, <2>2, <2>3 DEF RegistryInv, RegistryShape, Exclusive
  <2>6. Owners'
    BY <2>1, <2>2, <2>3 DEF RegistryInv, RegistryShape, Owners, Stands
  <2>7. Labels'
    <3>1. \A t \in Sessions : label'[t] = StoredName(t)'
      <4>1. RegistryShape
        BY DEF RegistryInv
      <4> HIDE DEF new
      <4>2. /\ StoredName(s)' = new.name
            /\ \A t \in Sessions \ {s} : StoredName(t)' = StoredName(t)
        BY <2>1, <2>2, <4>1, NameIsWritten
      <4>3. new.name = "given"
        BY DEF new
      <4> QED
        BY <2>1, <2>2, <4>2, <4>3 DEF RegistryInv, RegistryShape, Labels
    <3>2. \A t \in Sessions : \A r, q \in registration'[t] : r = q
      BY <2>1, <2>2 DEF RegistryInv, RegistryShape, Labels
    <3>3. \A r \in registrar' : ~r.late => r.name = label'[r.thread]
      BY <2>1, <2>2, <2>3 DEF RegistryInv, RegistryShape, Labels
    <3> QED
      BY <3>1, <3>2, <3>3 DEF Labels
  <2>8. ListerInv'
    BY <2>1, <2>2 DEF RegistryInv, RegistryShape, ListerInv, OnePerThread, Listers, ListedRows, Stands
  <2> QED
    BY <2>4, <2>5, <2>6, <2>7, <2>8 DEF RegistryInv
<1>3. ASSUME NEW p \in Tabs, BridgeStarts(p) PROVE RegistryInv'
  <2>1. PICK s \in opened[p] : bridgeOwner' = [bridgeOwner EXCEPT ![s] = p]
    BY <1>3 DEF BridgeStarts
  <2>2. s \in Sessions /\ p \in living /\ p \in 0..MaxTab
    BY DEF RegistryInv, RegistryShape, Exclusive, Tabs
  <2>3. UNCHANGED <<opened, living, tabs, registration, registrar, lister, label, left>>
    BY <1>3 DEF BridgeStarts
  <2>4. RegistryShape' /\ Exclusive' /\ ListerInv'
    BY <2>1, <2>2, <2>3
    DEF RegistryInv, RegistryShape, Exclusive, ListerInv, OnePerThread, Stands
  <2>5. Owners' /\ Labels'
    BY <2>1, <2>2, <2>3 DEF RegistryInv, RegistryShape, Owners, Labels, Stands, StoredName
  <2> QED
    BY <2>4, <2>5 DEF RegistryInv
<1>4. ASSUME HookRegisters PROVE RegistryInv'
  <2>1. PICK r \in registrar :
          /\ registration' = [registration EXCEPT ![r.thread] = {[owner |-> r.owner, name |-> r.name]}]
          /\ IF r.late
               THEN /\ label' = [label EXCEPT ![r.thread] = r.name]
                    /\ lister' = [lister EXCEPT !.steady = @ \ {r.thread}]
               ELSE UNCHANGED <<lister, label>>
          /\ registrar' = {}
          /\ UNCHANGED <<opened, living, tabs, bridgeOwner, left>>
    BY <1>4 DEF HookRegisters, Unsettle
  <2>2. r.thread \in Sessions /\ r.owner \in Tabs /\ r.name \in Names
    BY DEF RegistryInv, RegistryShape
  <2>3. label'[r.thread] = r.name /\ \A t \in Sessions \ {r.thread} : label'[t] = label[t]
    BY <2>1, <2>2 DEF RegistryInv, RegistryShape, Labels
  <2>4. RegistryShape'
    BY <2>1, <2>2 DEF RegistryInv, RegistryShape, Registrations, Listers
  <2>5. Exclusive' /\ Owners'
    BY <2>1, <2>2 DEF RegistryInv, RegistryShape, Exclusive, Owners, Stands
  <2>6. Labels'
    <3>1. \A t \in Sessions : label'[t] = StoredName(t)'
      <4>1. RegistryShape
        BY DEF RegistryInv
      <4>2. /\ StoredName(r.thread)' = r.name
            /\ \A t \in Sessions \ {r.thread} : StoredName(t)' = StoredName(t)
        BY <2>1, <2>2, <4>1, NameIsWritten
      <4> QED
        BY <2>3, <4>2 DEF RegistryInv, Labels
    <3> QED
      BY <2>1, <2>2, <3>1 DEF RegistryInv, RegistryShape, Labels
  <2>7. ListerInv'
    <3>1. CASE r.late
      BY <2>1, <2>2, <2>3, <3>1
      DEF RegistryInv, RegistryShape, ListerInv, OnePerThread, Listers, ListedRows, Stands
    <3>2. CASE ~r.late
      BY <2>1, <3>2 DEF RegistryInv, ListerInv, OnePerThread, Stands
    <3> QED
      BY <3>1, <3>2
  <2> QED
    BY <2>4, <2>5, <2>6, <2>7 DEF RegistryInv
<1>5. ASSUME HookCutShort PROVE RegistryInv'
  BY <1>5 DEF HookCutShort, RegistryInv, RegistryShape, Exclusive, Owners, Labels, ListerInv,
     OnePerThread, Stands, StoredName
<1> QED
  BY <1>1, <1>2, <1>3, <1>4, <1>5

-----------------------------------------------------------------------------
\* The five reads of sessions.
LEMMA ListsStep ==
  ASSUME RegistryInv,
         ListsHomes \/ ListsLocks \/ ListsRecords \/ ListsBridges \/ ListsRest
  PROVE  RegistryInv'
<1> USE DEF RegistryInv
<1>1. UNCHANGED <<opened, living, tabs, registration, bridgeOwner, registrar, label, left>>
  BY DEF ListsHomes, ListsLocks, ListsRecords, ListsBridges, ListsRest
<1>2. Exclusive' /\ Owners' /\ Labels'
  BY <1>1 DEF Exclusive, Owners, Labels, Stands, StoredName
<1>3. SUFFICES lister' \in Listers /\ ListerInv'
  BY <1>1, <1>2 DEF RegistryShape
<1>4. \A s \in Sessions, p \in Tabs : Row(s, p) \in ListedRows /\ Row(s, p).thread = s
                                      /\ Row(s, p).owner = p /\ Row(s, p).name = label[s]
  BY NamesAreNames DEF Row, ListedRows, Labels
<1>5. lister \in Listers /\ living \subseteq Tabs /\ opened \in [Tabs -> SUBSET Sessions]
  BY DEF RegistryShape
<1> HIDE DEF RegistryInv
<1>6. CASE ListsHomes
  <2> DEFINE steady == {s \in Sessions : ~IsFree(s) /\ (s \in Custom => Known \cap Custom # {})}
  <2>1. lister' = [NotListing EXCEPT !.pc = "locks", !.scanned = Scanned, !.steady = steady]
    BY <1>6 DEF ListsHomes
  <2>2. \A s \in steady : s \in Scanned /\ \E p \in living : s \in opened[p]
    BY DEF Scanned, IsFree, RegistryInv, Exclusive
  <2>3. Scanned \in SUBSET Sessions /\ steady \in SUBSET Sessions
    BY RegistryAssumption DEF Scanned
  <2> HIDE DEF steady
  <2>4. /\ lister'.pc = "locks" /\ lister'.scanned = Scanned /\ lister'.steady = steady
        /\ lister'.locks = {} /\ lister'.rows = {} /\ lister' \in Listers
    BY <2>1, <2>3 DEF NotListing, Listers
  <2> QED
    BY <1>1, <2>2, <2>4 DEF ListerInv, OnePerThread
<1>7. CASE ListsLocks
  <2> DEFINE held == {y \in lister.scanned \X living : y[1] \in opened[y[2]]}
             locks == {Row(x[1], x[2]) : x \in held}
  <2>1. lister' = [lister EXCEPT !.pc = "records", !.scanned = {}, !.locks = locks]
        /\ lister.pc = "locks"
    BY <1>7 DEF ListsLocks
  <2>2. \A l \in locks : /\ l \in ListedRows /\ l.thread \in opened[l.owner]
                         /\ l.owner \in living /\ l.name = label[l.thread]
    BY <1>4, <1>5 DEF Listers
  <2>3. \A s \in lister.scanned, p \in living : s \in opened[p] =>
          Row(s, p) \in locks /\ Row(s, p).thread = s
    <3> SUFFICES ASSUME NEW s \in lister.scanned, NEW p \in living, s \in opened[p]
                 PROVE  Row(s, p) \in locks /\ Row(s, p).thread = s
      OBVIOUS
    <3>1. <<s, p>> \in held /\ <<s, p>>[1] = s /\ <<s, p>>[2] = p
      OBVIOUS
    <3> QED
      BY <1>4, <1>5, <3>1 DEF Listers
  <2> HIDE DEF held, locks
  <2>4. /\ lister'.pc = "records" /\ lister'.steady = lister.steady /\ lister'.locks = locks
        /\ lister'.rows = lister.rows /\ lister.rows = {} /\ lister' \in Listers
    BY <1>5, <2>1, <2>2 DEF Listers, RegistryInv, ListerInv
  <2>5. OnePerThread(locks)
    BY <1>5, <2>2 DEF OnePerThread, RegistryInv, Exclusive, ListedRows
  <2>6. \A s \in lister.steady : /\ \E p \in living : s \in opened[p]
                                 /\ \E l \in locks : l.thread = s
    BY <2>1, <2>3 DEF RegistryInv, ListerInv
  <2> QED
    BY <1>1, <2>2, <2>4, <2>5, <2>6 DEF ListerInv, OnePerThread, Stands
<1>8. CASE ListsRecords
  <2> DEFINE known == {y \in Sessions \X living : \E r \in registration[y[1]] : r.owner = y[2]}
             rows == {Row(x[1], x[2]) : x \in known}
  <2>1. lister' = [lister EXCEPT !.pc = "bridges", !.rows = @ \cup rows] /\ lister.pc = "records"
    BY <1>8 DEF ListsRecords, NextStep
  <2>2. \A l \in rows : /\ l \in ListedRows /\ l.owner \in living /\ l.name = label[l.thread]
                        /\ \E r \in registration[l.thread] : r.owner = l.owner
    BY <1>4, <1>5
  <2> HIDE DEF known, rows
  <2>3. \A l \in rows : Stands(l.owner, l.thread)
    BY <2>2 DEF RegistryInv, Owners, ListedRows
  <2>4. /\ lister'.pc = "bridges" /\ lister'.steady = lister.steady
        /\ lister'.locks = lister.locks /\ lister'.rows = rows /\ lister' \in Listers
    BY <1>5, <2>1, <2>2 DEF Listers, RegistryInv, ListerInv
  <2>5. OnePerThread(rows)
    BY <2>2 DEF OnePerThread, RegistryInv, Labels, ListedRows
  <2> QED
    BY <1>1, <1>5, <2>1, <2>2, <2>3, <2>4, <2>5
    DEF RegistryInv, ListerInv, OnePerThread, Stands, Listers
<1>9. CASE ListsBridges
  <2> DEFINE sameAs(r) == {l \in lister.locks : l.thread = r.thread /\ l.owner = r.owner}
             rows == UNION {IF sameAs(r) # {} THEN sameAs(r) ELSE {r} : r \in Attached}
  <2>1. lister' = [lister EXCEPT !.pc = "rest", !.rows = @ \cup rows] /\ lister.pc = "bridges"
    BY <1>9 DEF ListsBridges, NextStep
  <2>2. \A r \in Attached : /\ r \in ListedRows /\ r.owner = bridgeOwner[r.thread]
                            /\ r.owner \in living /\ r.name = label[r.thread]
                            /\ r.thread \notin Listed
    BY <1>4, <1>5 DEF Attached
  <2>3. \A l \in rows : \E r \in Attached :
          \/ sameAs(r) # {} /\ l \in sameAs(r)
          \/ sameAs(r) = {} /\ l = r
    OBVIOUS
  <2>4. \A l \in rows : /\ l \in ListedRows /\ l.thread \notin Listed
                        /\ l \in lister.locks \/ l \in Attached
    BY <1>5, <2>2, <2>3 DEF Listers
  <2>5. \A r, q \in Attached : r.thread = q.thread => r = q
    BY <2>2 DEF ListedRows
  <2>6. OnePerThread(rows)
    <3> SUFFICES ASSUME NEW l \in rows, NEW k \in rows, l.thread = k.thread PROVE l = k
      BY DEF OnePerThread
    <3>1. PICK r \in Attached : \/ sameAs(r) # {} /\ l \in sameAs(r)
                                \/ sameAs(r) = {} /\ l = r
      BY <2>3
    <3>2. PICK q \in Attached : \/ sameAs(q) # {} /\ k \in sameAs(q)
                                \/ sameAs(q) = {} /\ k = q
      BY <2>3
    <3>3. r = q
      BY <2>5, <3>1, <3>2
    <3> QED
      BY <3>1, <3>2, <3>3 DEF RegistryInv, ListerInv, OnePerThread
  <2> HIDE DEF rows, sameAs
  <2>7. /\ lister'.pc = "rest" /\ lister'.steady = lister.steady
        /\ lister'.locks = lister.locks /\ lister'.rows = lister.rows \cup rows
        /\ lister' \in Listers
    BY <1>5, <2>1, <2>4 DEF Listers
  <2>8. OnePerThread(lister.rows \cup rows)
    BY <2>4, <2>6 DEF RegistryInv, ListerInv, OnePerThread, Listed
  <2>9. \A s \in lister.steady : \A l \in rows :
          l.thread = s => Stands(l.owner, s) /\ l.name = label[s]
    <3>1. \A l \in Attached : Stands(l.owner, l.thread) /\ l.name = label[l.thread]
      BY <2>2 DEF RegistryInv, Owners, ListedRows
    <3> QED
      BY <2>4, <3>1 DEF RegistryInv, ListerInv
  <2> QED
    BY <1>1, <2>1, <2>7, <2>8, <2>9 DEF RegistryInv, ListerInv, OnePerThread, Stands
<1>10. CASE ListsRest
  <2> DEFINE rows == {l \in lister.locks : l.thread \notin Listed}
  <2>1. lister' = [lister EXCEPT !.pc = "done", !.locks = {}, !.rows = @ \cup rows]
        /\ lister.pc = "rest"
    BY <1>10 DEF ListsRest
  <2>2. OnePerThread(lister.rows \cup rows)
    BY DEF RegistryInv, ListerInv, OnePerThread, Listed
  <2>3. \A s \in lister.steady : \E r \in lister.rows \cup rows : r.thread = s
    BY <2>1 DEF RegistryInv, ListerInv, Listed
  <2>4. /\ lister'.pc = "done" /\ lister'.steady = lister.steady
        /\ lister'.locks = {} /\ lister'.rows = lister.rows \cup rows
        /\ lister' \in Listers
    BY <1>5, <2>1 DEF Listers
  <2>5. \A s \in lister.steady : \A r \in lister.rows \cup rows :
          r.thread = s => Stands(r.owner, s) /\ r.name = label[s]
    BY DEF RegistryInv, ListerInv
  <2> HIDE DEF rows
  <2> QED
    BY <1>1, <2>2, <2>3, <2>4, <2>5 DEF RegistryInv, ListerInv, OnePerThread, Stands
<1> QED
  BY <1>6, <1>7, <1>8, <1>9, <1>10

LEMMA RegistryStep == ASSUME RegistryInv, [RegistryNext]_registryVars PROVE RegistryInv'
<1>1. CASE RegistryNext
  BY <1>1, TabsStep, RecordsStep, ListsStep DEF RegistryNext
<1>2. CASE UNCHANGED registryVars
  BY <1>2 DEF registryVars, RegistryInv, RegistryShape, Exclusive, Owners, Labels, ListerInv,
     OnePerThread, Stands, StoredName
<1> QED
  BY <1>1, <1>2

\* The inductive invariant of the registry.
LEMMA RegistryIsInv == RegistrySpec => []RegistryInv
BY RegistryInitInv, RegistryStep, PTL DEF RegistrySpec

\* An open tab is in the list that is made of the locks, the records and the bridges
\* (sessions), once, under its name, whatever the order of tabs that come and go.
THEOREM OpenTabsAreListedAlways == RegistrySpec => []OpenTabsAreListed
<1>1. RegistryInv => OpenTabsAreListed
  <2> SUFFICES ASSUME RegistryInv, lister.pc = "done", NEW s \in lister.steady
               PROVE  \E r \in lister.rows :
                        /\ {x \in lister.rows : x.thread = s} = {r}
                        /\ s \in opened[r.owner] \/ <<r.owner, s>> \in left
                        /\ r.name = label[s]
    BY DEF OpenTabsAreListed
  <2>1. PICK r \in lister.rows : r.thread = s
    BY DEF RegistryInv, ListerInv
  <2>2. {x \in lister.rows : x.thread = s} = {r}
    BY <2>1 DEF RegistryInv, ListerInv, OnePerThread
  <2>3. Stands(r.owner, s) /\ r.name = label[s]
    BY <2>1 DEF RegistryInv, ListerInv
  <2> QED
    BY <2>2, <2>3 DEF Stands
<1> QED
  BY <1>1, RegistryIsInv, PTL
=============================================================================
