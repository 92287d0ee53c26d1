----------------------------- MODULE Lifecycle -----------------------------
(***************************************************************************)
(* What a bridge believes of its session: the phase and the last hook it   *)
(* has seen, written by the session's hooks, by a start (which forgets     *)
(* what an earlier process has shown and takes over what was recorded      *)
(* before there was a bridge) and by the worker, which corrects the phase  *)
(* when the rollout shows that the turn has ended.  Codex runs one hook at *)
(* a time and may cut it short.  A message is waiting all the time.        *)
(***************************************************************************)
EXTENDS Naturals

CONSTANTS
  HookEvents,   \* the hooks that run, of EVENTS
  TurnEndings,  \* the ends of a turn in the rollout: "task_complete", "turn_aborted"
  MaxTurn, MaxHooks, MaxOwner, MaxStarts   \* bounds on what the session and its owner do

IdleEvents == {"SessionStart", "Stop"}
ActiveEvents == {"UserPromptSubmit", "PostToolUse"}

ASSUME LifecycleAssumption ==
  /\ HookEvents \subseteq IdleEvents \cup ActiveEvents
  /\ TurnEndings \subseteq {"task_complete", "turn_aborted"}
  /\ {MaxTurn, MaxHooks, MaxStarts} \subseteq Nat /\ MaxOwner \in Nat \ {0}

VARIABLES
  owner,        \* the Codex process that runs the session
  turn, open,   \* the session's last turn; it still runs
  tail,         \* the rollout: a turn's end, if that is its last record
  hook,         \* the hook that runs
  hooks,        \* hooks begun
  recorded,     \* hooks/<thread>.json: the last hook, bridge or no bridge
  configOwner,  \* the owner in the configuration (0: none yet)
  seen, phase, reconciled,       \* keys of the store
  reconciler,   \* what the worker has looked at before its transaction
  starter,      \* the start under way
  starts,       \* starts begun
  shown,        \* history: what the last hook of this turn or boundary has shown
  wiped         \* history: a start has forgotten that, and not taken it over again

lifecycleSession == <<owner, turn, open, tail>>
lifecycleHistory == <<shown, wiped>>
lifecycleVars == <<owner, turn, open, tail, hook, hooks, recorded, configOwner,
                   seen, phase, reconciled, reconciler, starter, starts, shown, wiped>>

NoHook == [by |-> 0, event |-> "none", turn |-> 0, at |-> 0]
NotEnded == [turn |-> 0, event |-> "none", at |-> 0]
NoEvidence == [event |-> "none", turn |-> 0, at |-> 0, hookAt |-> 0]
\* time.time(), as far as hooks tell moments apart: a hook stamps its record, then what it
\* has seen; a turn's end comes between two stamps.
Clock == 2 * hooks - (CASE hook.pc = "record" -> 2 [] hook.pc = "see" -> 1 [] OTHER -> 0)

PhaseOf(event) == IF event \in IdleEvents THEN "idle" ELSE "active"

HookRecords == [by : 0..MaxOwner, event : IdleEvents \cup ActiveEvents \cup {"none"},
                turn : 0..MaxTurn, at : Nat]
EvidenceRecords == [event : {"task_complete", "turn_aborted", "none"},
                    turn : 0..MaxTurn, at : Nat, hookAt : Nat]

LifecycleTypeOK ==
  /\ hooks \in 0..MaxHooks /\ starts \in 0..MaxStarts
  /\ owner \in 1..MaxOwner /\ turn \in 0..MaxTurn /\ open \in BOOLEAN
  /\ tail \in [turn : 0..MaxTurn, event : {"task_complete", "turn_aborted", "none"}, at : Nat]
  /\ hook \in [pc : {"none", "record", "see", "phase"},
               event : IdleEvents \cup ActiveEvents \cup {"none"}]
  /\ recorded \in HookRecords /\ seen \in HookRecords
  /\ configOwner \in 0..MaxOwner
  /\ phase \in {"absent", "unknown", "idle", "active", "interrupted"}
  /\ reconciled \in EvidenceRecords
  /\ reconciler \in [pc : {"look", "write"}, phase : {"none", "idle", "active"},
                 seen : HookRecords, evidence : EvidenceRecords]
  /\ starter \in [pc : {"none", "wipe", "save", "look", "seed"}, owner : 0..MaxOwner,
                  wipes : BOOLEAN, record : HookRecords]
  /\ shown \in {"none", "idle", "active"} /\ wiped \in BOOLEAN

NotLooking == [pc |-> "look", phase |-> "none", seen |-> NoHook, evidence |-> NoEvidence]
NotStarting == [pc |-> "none", owner |-> 0, wipes |-> FALSE, record |-> NoHook]

\* A session without a bridge, whose hooks leave their records all the same, or with a
\* new one.
LifecycleInit ==
  /\ owner = 1 /\ turn = 0 /\ open = FALSE /\ tail = NotEnded
  /\ hook = [pc |-> "none", event |-> "none"] /\ hooks = 0
  /\ recorded = NoHook /\ configOwner \in {0, 1}
  /\ seen = NoHook /\ phase = "absent" /\ reconciled = NoEvidence
  /\ reconciler = NotLooking /\ starter = NotStarting /\ starts = 0
  /\ shown = "none" /\ wiped = FALSE

-----------------------------------------------------------------------------
(* The session: Codex, as the hooks and the rollout show it *)

TurnBegins ==
  /\ ~open /\ turn < MaxTurn /\ hook.pc = "none"
  /\ turn' = turn + 1 /\ open' = TRUE
  /\ shown' = "none"
  /\ UNCHANGED <<owner, tail, hook, hooks, recorded, configOwner, seen, phase,
                 reconciled, reconciler, starter, starts, wiped>>

\* Any record of a turn's activity takes the place of an end that was the last one; the
\* hook of the prompt may come before it.
TurnWrites ==
  /\ open /\ tail # NotEnded
  /\ tail' = NotEnded
  /\ UNCHANGED <<owner, turn, open, hook, hooks, recorded, configOwner, seen,
                 phase, reconciled, reconciler, starter, starts, shown, wiped>>

\* Complete, or interrupted, which no hook tells: the hook that runs may outlive it.
TurnEnds(event) ==
  /\ open
  /\ open' = FALSE
  /\ tail' = [turn |-> turn, event |-> event, at |-> Clock]
  /\ UNCHANGED <<owner, turn, hook, hooks, recorded, configOwner, seen, phase,
                 reconciled, reconciler, starter, starts, shown, wiped>>

\* The process is gone, with its turn and its hook; the thread is resumed in another.
Resume ==
  /\ owner < MaxOwner
  /\ owner' = owner + 1 /\ open' = FALSE
  /\ hook' = [pc |-> "none", event |-> "none"]
  /\ shown' = "none"
  /\ UNCHANGED <<turn, tail, hooks, recorded, configOwner, seen, phase,
                 reconciled, reconciler, starter, starts, wiped>>

-----------------------------------------------------------------------------
(* A hook: register and remember_hook, then hook_seen, then the phase *)

HookBegins(event) ==
  /\ hook.pc = "none" /\ hooks < MaxHooks
  /\ event \in ActiveEvents => open
  /\ event = "SessionStart" => ~open
  /\ hook' = [pc |-> "record", event |-> event]
  /\ hooks' = hooks + 1
  /\ UNCHANGED <<lifecycleSession, recorded, configOwner, seen, phase, reconciled,
                 reconciler, starter, starts, lifecycleHistory>>

\* Its stamp is that of the moment after.
HookRecord == [by |-> owner, event |-> hook.event, turn |-> turn, at |-> Clock + 1]

HookLeavesRecord ==
  /\ hook.pc = "record"
  /\ recorded' = HookRecord
  /\ hook' = [hook EXCEPT !.pc = "see"]
  /\ UNCHANGED <<lifecycleSession, hooks, configOwner, seen, phase, reconciled, reconciler,
                 starter, starts, lifecycleHistory>>

\* A session without a bridge has no store to write to.
HookSees ==
  /\ hook.pc = "see"
  /\ IF configOwner = 0
       THEN /\ hook' = [pc |-> "none", event |-> "none"]
            /\ shown' = PhaseOf(hook.event)
            /\ wiped' = TRUE
            /\ UNCHANGED seen
       ELSE /\ hook' = [hook EXCEPT !.pc = "phase"]
            /\ seen' = HookRecord
            /\ wiped' = FALSE
            /\ UNCHANGED shown
  /\ UNCHANGED <<lifecycleSession, hooks, recorded, configOwner, phase, reconciled,
                 reconciler, starter, starts>>

HookPhase ==
  /\ hook.pc = "phase"
  /\ phase' = PhaseOf(hook.event)
  /\ hook' = [pc |-> "none", event |-> "none"]
  /\ shown' = PhaseOf(hook.event)
  /\ UNCHANGED <<lifecycleSession, hooks, recorded, configOwner, seen, reconciled,
                 reconciler, starter, starts, wiped>>

\* Killed, or turned away by a locked store.
HookFails ==
  /\ hook.pc # "none"
  /\ hook' = [pc |-> "none", event |-> "none"]
  /\ shown' = "none"
  /\ UNCHANGED <<lifecycleSession, hooks, recorded, configOwner, seen, phase,
                 reconciled, reconciler, starter, starts, wiped>>

-----------------------------------------------------------------------------
(* The worker: turn_end_evidence and reconcile *)

\* The end of the very turn of the last hook, and not before that hook.
Evidence(s) ==
  IF /\ s.event \in ActiveEvents
     /\ s.by = configOwner /\ configOwner = owner
     /\ tail # NotEnded /\ tail.turn = s.turn /\ s.at <= tail.at
  THEN [event |-> tail.event, turn |-> tail.turn, at |-> tail.at, hookAt |-> s.at]
  ELSE NoEvidence

EndPhase(e) == IF e.event = "turn_aborted" THEN "interrupted" ELSE "idle"

\* Mistaken variant: what has been reconciled once is not looked at again.
WorkerLooksOnce ==
  LET e == Evidence(seen) IN
  /\ reconciler.pc = "look" /\ configOwner = owner
  /\ phase \in {"active", "idle"}
  /\ e # NoEvidence
  /\ reconciled # e
  /\ reconciler' = [pc |-> "write", phase |-> phase, seen |-> seen, evidence |-> e]
  /\ UNCHANGED <<lifecycleSession, hook, hooks, recorded, configOwner, seen,
                 phase, reconciled, starter, starts, lifecycleHistory>>

WorkerLooks ==
  LET e == Evidence(seen) IN
  /\ reconciler.pc = "look" /\ configOwner = owner
  /\ phase \in {"active", "idle"}
  /\ e # NoEvidence
  /\ ~(phase = EndPhase(e) /\ reconciled = e)
  /\ reconciler' = [pc |-> "write", phase |-> phase, seen |-> seen, evidence |-> e]
  /\ UNCHANGED <<lifecycleSession, hook, hooks, recorded, configOwner, seen,
                 phase, reconciled, starter, starts, lifecycleHistory>>

\* Mistaken variant: a hook that came since the look is not noticed.
StillHoldsUnseen == phase = reconciler.phase /\ Evidence(reconciler.seen) = reconciler.evidence

\* The checks of the transaction: all that was looked at, once more.
StillHolds ==
  phase = reconciler.phase /\ seen = reconciler.seen /\ Evidence(reconciler.seen) = reconciler.evidence

WorkerWrites ==
  /\ reconciler.pc = "write"
  /\ IF StillHolds
       THEN phase' = EndPhase(reconciler.evidence) /\ reconciled' = reconciler.evidence
       ELSE UNCHANGED <<phase, reconciled>>
  /\ reconciler' = NotLooking
  /\ UNCHANGED <<lifecycleSession, hook, hooks, recorded, configOwner, seen,
                 starter, starts, lifecycleHistory>>

-----------------------------------------------------------------------------
(* A start: the change of owner, then seed_lifecycle *)

StartBegins ==
  /\ starter.pc = "none" /\ starts < MaxStarts
  /\ starter' = [NotStarting EXCEPT !.pc = IF configOwner \in {0, owner} THEN "save" ELSE "wipe",
                                    !.owner = owner,
                                    !.wipes = configOwner \notin {0, owner} /\ seen.by # owner]
  /\ starts' = starts + 1
  /\ UNCHANGED <<lifecycleSession, hook, hooks, recorded, configOwner, seen,
                 phase, reconciled, reconciler, lifecycleHistory>>

\* The look at hook_seen is outside of the transaction: a hook of the new process may
\* have come since.
StartWipes ==
  /\ starter.pc = "wipe"
  /\ IF starter.wipes
       THEN phase' = "unknown" /\ seen' = NoHook /\ wiped' = TRUE
       ELSE UNCHANGED <<phase, seen, wiped>>
  /\ starter' = [starter EXCEPT !.pc = "save", !.wipes = FALSE]
  /\ UNCHANGED <<lifecycleSession, hook, hooks, recorded, configOwner, reconciled,
                 reconciler, starts, shown>>

StartSavesOwner ==
  /\ starter.pc = "save"
  /\ configOwner' = starter.owner
  /\ starter' = [starter EXCEPT !.pc = "look", !.owner = 0]
  /\ UNCHANGED <<lifecycleSession, hook, hooks, recorded, seen, phase, reconciled,
                 reconciler, starts, lifecycleHistory>>

\* Only a record of the very process the bridge belongs to.
SeedLooks ==
  /\ starter.pc = "look"
  /\ starter' = [starter EXCEPT !.pc = "seed",
                   !.record = IF recorded.by = configOwner /\ configOwner = owner
                              THEN recorded ELSE NoHook]
  /\ UNCHANGED <<lifecycleSession, hook, hooks, recorded, configOwner, seen,
                 phase, reconciled, reconciler, starts, lifecycleHistory>>

\* Mistaken variant: a hook that came since the look is written over.
SeedIsNewAlways(r) == r # NoHook /\ seen.by \in {0, configOwner}

SeedIsNew(r) ==
  r # NoHook /\ (seen = NoHook \/ (seen.by = configOwner /\ seen.at < r.at))

SeedWrites ==
  LET r == starter.record IN
  /\ starter.pc = "seed"
  /\ IF SeedIsNew(r)
       THEN seen' = r /\ phase' = PhaseOf(r.event)
       ELSE UNCHANGED <<seen, phase>>
  /\ wiped' = (wiped /\ configOwner # owner)
  /\ starter' = NotStarting
  /\ UNCHANGED <<lifecycleSession, hook, hooks, recorded, configOwner, reconciled,
                 reconciler, starts, shown>>

StartFailed ==
  /\ starter.pc # "none"
  /\ starter' = NotStarting
  /\ UNCHANGED <<lifecycleSession, hook, hooks, recorded, configOwner, seen,
                 phase, reconciled, reconciler, starts, lifecycleHistory>>

\* connect, after its start: the phase discovery has found, unless there is one.
SeedPhase(p) ==
  /\ phase = "absent" /\ configOwner # 0
  /\ phase' = p
  /\ UNCHANGED <<lifecycleSession, hook, hooks, recorded, configOwner, seen,
                 reconciled, reconciler, starter, starts, lifecycleHistory>>

LifecycleNext ==
  \/ TurnBegins \/ TurnWrites \/ Resume
  \/ \E e \in TurnEndings : TurnEnds(e)
  \/ \E e \in HookEvents : HookBegins(e)
  \/ HookLeavesRecord \/ HookSees \/ HookPhase \/ HookFails
  \/ WorkerLooks \/ WorkerWrites
  \/ StartBegins \/ StartWipes \/ StartSavesOwner \/ SeedLooks \/ SeedWrites \/ StartFailed
  \/ \E p \in {"idle", "active", "unknown"} : SeedPhase(p)

LifecycleSpec ==
  /\ LifecycleInit /\ [][LifecycleNext]_lifecycleVars
  /\ WF_lifecycleVars(WorkerLooks) /\ WF_lifecycleVars(WorkerWrites)

-----------------------------------------------------------------------------
\* The phase is what the last hook has shown, as long as it goes for this turn: neither
\* the end of an earlier turn, looked at before the hook, nor a record older than it is
\* ever written over it, and what a start forgets it takes over again.
PhaseFollowsHooks ==
  hook.pc = "none" /\ ~wiped =>
    /\ shown = "active" /\ open => phase = "active"
    /\ shown = "idle" => phase = "idle"
    /\ shown # "none" => seen.by = owner

\* The worker notices the end of the turn that no hook has told ("Reconcile missed
\* Stop/Interrupt hooks"), however its look and the hooks overlap.
EndIsNoticed ==
  phase = "active" /\ Evidence(seen) # NoEvidence
    ~> phase # "active" \/ Evidence(seen) = NoEvidence
=============================================================================
