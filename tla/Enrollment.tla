----------------------------- MODULE Enrollment -----------------------------
(***************************************************************************)
(* The configurations of several bridges, and the commands that change     *)
(* them: connect (which starts both sides), start, stop and the upgrade    *)
(* that turns supervision on.  A start reads the configuration, works on   *)
(* its copy and writes it back whole, twice or three times; startup.lock   *)
(* keeps other starts of that thread away, and nobody else.                *)
(***************************************************************************)
EXTENDS Naturals

CONSTANTS
  Threads,        \* Codex sessions: each has a store of its own
  Claudes,        \* Claude sessions: they can be enrolled, and connect
  MaxCommands,    \* commands, numbered as they are given
  Kinds,          \* the commands that are given: of "connect", "start", "stop"
  NoPeer

ASSUME EnrollmentAssumption ==
  /\ Threads \cap Claudes = {}
  /\ NoPeer \notin Threads \cup Claudes
  /\ MaxCommands \in Nat
  /\ Kinds \subseteq {"connect", "start", "stop"}

CommandIds == 1..MaxCommands
NoCommand == 0
Peers == Threads \cup Claudes

VARIABLES
  config,       \* thread -> its saved configuration
  halted,       \* thread -> the key stop
  listening,    \* thread -> a listener runs
  startup,      \* thread -> the command that holds startup.lock
  cmd,          \* command -> what it does, where it is, and its copy of a configuration
  clobbered     \* history: threads of which a stop has written back an older enrollment

enrollmentVars == <<config, halted, listening, startup, cmd, clobbered>>

Configs == [saved: BOOLEAN, peers: SUBSET Peers, default: Peers \cup {NoPeer},
            supervised: BOOLEAN]
NoConfig == [saved |-> FALSE, peers |-> {}, default |-> NoPeer, supervised |-> FALSE]
OldConfig(p) == [saved |-> TRUE, peers |-> {p}, default |-> p, supervised |-> TRUE]

\* "at" is the thread whose start is under way, "other" the peer it enrolls.
CommandStates ==
  [kind: {"none", "connect", "start", "stop"},
   self: Peers \cup {NoPeer}, peer: Peers \cup {NoPeer},
   at: Threads \cup {NoPeer}, other: Peers \cup {NoPeer},
   pc: {"free", "lock", "read", "save", "enroll", "default", "finish", "choose",
        "look", "stop", "connected", "done"},
   copy: Configs]

NotGiven == [kind |-> "none", self |-> NoPeer, peer |-> NoPeer, at |-> NoPeer,
             other |-> NoPeer, pc |-> "free", copy |-> NoConfig]

EnrollmentTypeOK ==
  /\ config \in [Threads -> Configs]
  /\ halted \in [Threads -> BOOLEAN]
  /\ listening \in [Threads -> BOOLEAN]
  /\ startup \in [Threads -> CommandIds \cup {NoCommand}]
  /\ cmd \in [CommandIds -> CommandStates]
  /\ clobbered \subseteq Threads

\* No bridge yet, or one that knows a Claude session and runs.
EnrollmentInit ==
  /\ config \in [Threads -> {NoConfig} \cup {OldConfig(p) : p \in Claudes}]
  /\ halted = [t \in Threads |-> FALSE]
  /\ listening = [t \in Threads |-> config[t].saved]
  /\ startup = [t \in Threads |-> NoCommand]
  /\ cmd = [c \in CommandIds |-> NotGiven]
  /\ clobbered = {}

IsNextCommand(c) == cmd[c].pc = "free" /\ \A d \in 1..(c - 1) : cmd[d].pc # "free"

Goto(c, pc) == cmd' = [cmd EXCEPT ![c].pc = pc]
\* What it was is of no use any more.
Done == [NotGiven EXCEPT !.pc = "done"]

-----------------------------------------------------------------------------
(* The commands as they are given *)

\* connect, from a Codex session: its own start first, for any other session.
ConnectFromCodex(c, t, p) ==
  /\ "connect" \in Kinds
  /\ IsNextCommand(c) /\ p # t
  /\ cmd' = [cmd EXCEPT ![c] = [kind |-> "connect", self |-> t, peer |-> p,
                                at |-> t, other |-> p, pc |-> "lock", copy |-> NoConfig]]
  /\ UNCHANGED <<config, halted, listening, startup, clobbered>>

\* connect, from a Claude session: only the Codex side has a bridge to start.
ConnectFromClaude(c, p, t) ==
  /\ "connect" \in Kinds
  /\ IsNextCommand(c)
  /\ cmd' = [cmd EXCEPT ![c] = [kind |-> "connect", self |-> p, peer |-> t,
                                at |-> t, other |-> p, pc |-> "lock", copy |-> NoConfig]]
  /\ UNCHANGED <<config, halted, listening, startup, clobbered>>

\* start with a peer, or without one (as restart and recovery give it).
GiveStart(c, t, p) ==
  /\ "start" \in Kinds
  /\ IsNextCommand(c) /\ p # t
  /\ cmd' = [cmd EXCEPT ![c] = [kind |-> "start", self |-> t, peer |-> p,
                                at |-> t, other |-> p, pc |-> "lock", copy |-> NoConfig]]
  /\ UNCHANGED <<config, halted, listening, startup, clobbered>>

GiveStop(c, t) ==
  /\ "stop" \in Kinds
  /\ IsNextCommand(c)
  /\ cmd' = [cmd EXCEPT ![c] = [NotGiven EXCEPT !.kind = "stop", !.self = t,
                                                !.at = t, !.pc = "look"]]
  /\ UNCHANGED <<config, halted, listening, startup, clobbered>>

-----------------------------------------------------------------------------
(* start_bridge *)

\* Mistaken variant: the start does not wait for the lock.
TakeNoLock(c) ==
  /\ cmd[c].pc = "lock"
  /\ startup' = [startup EXCEPT ![cmd[c].at] = c]
  /\ Goto(c, "read")
  /\ UNCHANGED <<config, halted, listening, clobbered>>

TakeStartupLock(c) ==
  /\ cmd[c].pc = "lock"
  /\ startup[cmd[c].at] = NoCommand
  /\ startup' = [startup EXCEPT ![cmd[c].at] = c]
  /\ Goto(c, "read")
  /\ UNCHANGED <<config, halted, listening, clobbered>>

\* "previous": read long before it is written back.  The selection of the peer, the look
\* at the owner and at the sockets come in between.
StartReads(c) ==
  LET previous == config[cmd[c].at] IN
  /\ cmd[c].pc = "read"
  /\ cmd[c].other # NoPeer \/ previous.peers # {}
  /\ cmd' = [cmd EXCEPT ![c].copy = previous, ![c].pc = "save"]
  /\ UNCHANGED <<config, halted, listening, startup, clobbered>>

\* The first write: the copy with its owner and supervision.
StartSaves(c) ==
  LET new == [cmd[c].copy EXCEPT !.saved = TRUE, !.supervised = TRUE] IN
  /\ cmd[c].pc = "save"
  /\ config' = [config EXCEPT ![cmd[c].at] = new]
  /\ cmd' = [cmd EXCEPT ![c].copy = new, ![c].pc = "enroll"]
  /\ UNCHANGED <<halted, listening, startup, clobbered>>

\* enroll: one transaction that merges the peer into what is stored now.  A start
\* without a peer writes its copy a second time.
StartEnrolls(c) ==
  LET new == IF cmd[c].other = NoPeer THEN cmd[c].copy
             ELSE [config[cmd[c].at] EXCEPT !.peers = @ \cup {cmd[c].other}] IN
  /\ cmd[c].pc = "enroll"
  /\ config' = [config EXCEPT ![cmd[c].at] = new]
  /\ cmd' = [cmd EXCEPT ![c].copy = new, ![c].pc = "default"]
  /\ UNCHANGED <<halted, listening, startup, clobbered>>

\* A first default: some enrolled peer (the code takes the first of the map).
StartDefaults(c) ==
  /\ cmd[c].pc = "default"
  /\ IF cmd[c].copy.default # NoPeer
       THEN /\ Goto(c, "finish")
            /\ UNCHANGED config
       ELSE \E p \in cmd[c].copy.peers :
              LET new == [cmd[c].copy EXCEPT !.default = p] IN
              /\ config' = [config EXCEPT ![cmd[c].at] = new]
              /\ cmd' = [cmd EXCEPT ![c].copy = new, ![c].pc = "finish"]
  /\ UNCHANGED <<halted, listening, startup, clobbered>>

\* Mistaken variant: connect leaves out the other side.
AfterStartOneSided(k) ==
  IF k.kind = "start" THEN Done
  ELSE IF k.self \in Threads THEN [k EXCEPT !.pc = "choose", !.copy = NoConfig]
  ELSE [k EXCEPT !.pc = "connected", !.copy = NoConfig]

\* What follows a start that reports its bridge: connect goes on with the other side if
\* that is a Codex session too, then with the default of the session that connects.
AfterStart(k) ==
  LET at(pc) == [k EXCEPT !.pc = pc, !.copy = NoConfig] IN
  IF k.kind = "start" THEN Done
  ELSE IF k.self \notin Threads THEN at("connected")
  ELSE IF k.at = k.self /\ k.peer \in Threads
         THEN [at("lock") EXCEPT !.at = k.peer, !.other = k.self]
  ELSE at("choose")

\* The bridge runs already, whether or not it has been told to stop; or it is started.
StartFinishes(c) ==
  LET t == cmd[c].at IN
  /\ cmd[c].pc = "finish"
  /\ halted' = [halted EXCEPT ![t] = @ /\ listening[t]]
  /\ listening' = [listening EXCEPT ![t] = TRUE]
  /\ startup' = [startup EXCEPT ![t] = NoCommand]
  /\ cmd' = [cmd EXCEPT ![c] = AfterStart(@)]
  /\ UNCHANGED <<config, clobbered>>

\* A start that gives up or is killed (connect waits for twenty seconds) leaves what it
\* has written; the lock goes with its process.  The enrollment of the first side is
\* "retained for retry".
StartFails(c) ==
  /\ cmd[c].pc \in {"read", "save", "enroll", "default", "finish"}
  /\ startup' = [startup EXCEPT ![cmd[c].at] = NoCommand]
  /\ cmd' = [cmd EXCEPT ![c] = Done]
  /\ UNCHANGED <<config, halted, listening, clobbered>>

\* The last step of connect: one transaction, and only for the session that connects.
ConnectChooses(c) ==
  /\ cmd[c].pc = "choose"
  /\ config' = [config EXCEPT ![cmd[c].self].default = cmd[c].peer]
  /\ Goto(c, "connected")
  /\ UNCHANGED <<halted, listening, startup, clobbered>>

-----------------------------------------------------------------------------
(* stop, the upgrade, and the listener *)

\* stop: its select comes before the transaction that its first update opens.
StopReads(c) ==
  /\ cmd[c].pc = "look"
  /\ cmd' = [cmd EXCEPT ![c].copy = config[cmd[c].self], ![c].pc = "stop"]
  /\ UNCHANGED <<config, halted, listening, startup, clobbered>>

StopWrites(c) ==
  LET t == cmd[c].self IN
  /\ cmd[c].pc = "stop"
  /\ config' = IF cmd[c].copy.saved
                 THEN [config EXCEPT ![t] = [cmd[c].copy EXCEPT !.supervised = FALSE]]
                 ELSE config
  /\ halted' = [halted EXCEPT ![t] = TRUE]
  /\ clobbered' = IF config[t].peers \subseteq config'[t].peers THEN clobbered
                  ELSE clobbered \cup {t}
  /\ cmd' = [cmd EXCEPT ![c] = Done]
  /\ UNCHANGED <<listening, startup>>

\* enable_supervision: one transaction that reads what it writes.
EnableSupervision(t) ==
  /\ config[t].saved /\ ~halted[t]
  /\ config' = [config EXCEPT ![t].supervised = TRUE]
  /\ UNCHANGED <<halted, listening, startup, cmd, clobbered>>

\* The listener sees the key stop, or dies.
ListenerEnds(t) ==
  /\ listening[t]
  /\ listening' = [listening EXCEPT ![t] = FALSE]
  /\ UNCHANGED <<config, halted, startup, cmd, clobbered>>

EnrollmentStep(c) ==
  \/ \E t \in Threads, p \in Peers : ConnectFromCodex(c, t, p)
  \/ \E t \in Threads, p \in Claudes : ConnectFromClaude(c, p, t)
  \/ \E t \in Threads, p \in Peers \cup {NoPeer} : GiveStart(c, t, p)
  \/ \E t \in Threads : GiveStop(c, t)
  \/ TakeStartupLock(c) \/ StartReads(c) \/ StartSaves(c) \/ StartEnrolls(c)
  \/ StartDefaults(c) \/ StartFinishes(c) \/ StartFails(c) \/ ConnectChooses(c)
  \/ StopReads(c) \/ StopWrites(c)

EnrollmentNext ==
  \/ \E c \in CommandIds : EnrollmentStep(c)
  \/ \E t \in Threads : EnableSupervision(t) \/ ListenerEnds(t)

EnrollmentSpec == EnrollmentInit /\ [][EnrollmentNext]_enrollmentVars

-----------------------------------------------------------------------------
\* Whatever starts and connects overlap, no start takes an enrollment away, though each
\* of them writes back a configuration it has read before ("Preserves every other
\* peer", enroll).  Only stop can, whose copy no lock protects; what it has put back may
\* then be written back by a start as well.
EnrollmentsSurvive ==
  [][\A t \in Threads : config[t].peers \subseteq config'[t].peers \/ t \in clobbered']_config

\* Once connect has reported the connection each side knows the other, for good: a reply
\* finds its way.
ConnectedBothWays ==
  \A c \in CommandIds :
    LET t == cmd[c].self
        p == cmd[c].peer IN
    cmd[c].pc = "connected" =>
      /\ t \in Threads \ clobbered => p \in config[t].peers
      /\ p \in Threads \ clobbered => t \in config[p].peers

\* "Only the initiating session changes its default destination" (connect): a default
\* that is there is moved by a connect of that session only.
DefaultIsChosen ==
  [][\A t \in Threads :
       config'[t].default # config[t].default /\ config[t].default # NoPeer
         => \E c \in CommandIds : cmd[c].self = t /\ cmd[c].pc = "choose"]_config
=============================================================================
