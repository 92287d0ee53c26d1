-------------------------------- MODULE Inbox --------------------------------
(***************************************************************************)
(* The receiving side of one bridge: the retained inbox of a session and   *)
(* everybody who moves a message in it.                                    *)
(*                                                                         *)
(*   listener  accepts frames (Store.accept) and, in its worker thread,    *)
(*             runs dispatch: after-turn queue mode, and wake_idle in mode *)
(*             auto.  It can die at any step and is started again.         *)
(*   hooks     short processes that Codex starts at turn boundaries; each  *)
(*             is a sequence of separate transactions (deliver) and stops  *)
(*             where the store is locked or its three seconds are over.    *)
(*   caller    the peer-chat command: read --ack, ack, delivery, enrolling *)
(*             a peer and starting the bridge for a new owner.             *)
(*                                                                         *)
(* They share one SQLite store.  An action is one transaction, or one      *)
(* statement outside of any; what a process has read and not yet used is   *)
(* kept in its own variables.  A dispatch that finds a pending outgoing    *)
(* row sends it and returns: such a tick leaves everything here unchanged. *)
(***************************************************************************)
EXTENDS Budget, WakeRecord, FiniteSets

CONSTANTS
  MaxMsg,       \* messages are 1..MaxMsg, numbered in order of arrival
  HopLimited,   \* those that carry a chain of eight hops or more
  Late,         \* those of a peer enrolled while the bridge already runs
  Modes,        \* delivery modes the owner chooses from
  Limits,       \* window sizes the owner chooses from
  HookBatch,    \* messages one hook looks at (LIMIT 4)
  Hooks,        \* hook processes that can be alive together
  HookEvents,   \* events that start them: a subset of Events
  Commands,     \* commands the caller may issue: a subset of AllCommands
  MaxTurn,      \* bound on turns the owner starts
  MaxCrash      \* bound on deaths of the listener

Msgs == 1..MaxMsg

\* SessionStart and Stop; PostToolUse; UserPromptSubmit of the owner, and of text that
\* Codex took from its queue.
Events == {"boundary", "tool", "owner", "external"}

\* read --ack, read --from --ack, ack --id, delivery MODE, delivery MODE --budget,
\* enrolling a peer, and start for a new owner.
AllCommands == {"read", "from", "ack", "mode", "window", "enroll", "rebind"}

ASSUME InboxAssumption ==
  /\ MaxMsg \in Nat
  /\ HopLimited \subseteq Msgs
  /\ Late \subseteq Msgs
  /\ Modes \subseteq {"inbox", "live", "auto", "queue"}
  /\ Limits \subseteq Allowance
  /\ HookBatch \in Nat
  /\ HookEvents \subseteq Events
  /\ Commands \subseteq AllCommands
  /\ MaxTurn \in Nat
  /\ MaxCrash \in Nat

VARIABLES
  \* the store
  status,         \* message -> status column, "absent" before its row exists
  mode,           \* delivery
  remaining,      \* messages left in the window
  wakeRemaining,  \* wakes left in the window
  limit,          \* budget_limit
  ownerTurn,      \* budget_owner_turn, 0 when unset
  phase,
  wake,           \* wake_pending and last_wake
  enrolled,       \* the late peer is in the saved configuration
  \* the listener's worker thread
  wpc, wmsg, wcfg,
  crashes,
  \* hook processes: place, event and prompt, configuration read at the start
  hpc, hevent, hnotice, hcfg,
  \* the caller's read --ack
  rpc, rshown,
  \* Codex, outside of src/: the current turn, wake notices in its queue
  turn, nativeQueue,
  \* history, read by properties only
  handed,         \* message -> times its body was handed out automatically
  spent,          \* deliveries charged to the current window
  woken,          \* wakes charged to the current window
  ownerTurns,     \* turns in which the owner wrote a prompt
  renewals        \* windows renewed by prompts

window  == <<mode, remaining, wakeRemaining, limit, ownerTurn>>
worker  == <<wpc, wmsg, wcfg, crashes>>
hook    == <<hpc, hevent, hnotice, hcfg>>
caller  == <<rpc, rshown>>
codex   == <<turn, nativeQueue>>
history == <<handed, spent, woken, ownerTurns, renewals>>
vars == <<status, window, phase, wake, enrolled, worker, hook, caller, codex, history>>

Statuses == {"absent", "received", "forwarding", "queued", "queue_failed",
             "queue_uncertain", "hook_offered", "held", "consumed"}
Phases == {"unknown", "active", "idle", "interrupted"}
Places == {"down", "idle", "ticked", "dispatch", "hold", "claim", "queue",
           "wake", "writing", "calling", "result"}
Steps  == {"none", "renew", "phase", "decide", "drain"}

StoreTypes ==
  /\ status \in [Msgs -> Statuses]
  /\ phase \in Phases
  /\ wake \in WakeRecords(Msgs)
  /\ enrolled \in BOOLEAN
WindowTypes ==
  /\ mode \in Modes
  /\ remaining \in Allowance /\ wakeRemaining \in Allowance /\ limit \in Allowance
  /\ ownerTurn \in 0..MaxTurn
WorkerTypes ==
  /\ wpc \in Places /\ wmsg \in 0..MaxMsg /\ wcfg \in BOOLEAN
  /\ crashes \in 0..MaxCrash
HookTypes ==
  /\ hpc \in [Hooks -> Steps] /\ hevent \in [Hooks -> Events]
  /\ hnotice \in [Hooks -> 0..MaxMsg] /\ hcfg \in [Hooks -> BOOLEAN]
CallerTypes == rpc \in {"none", "selected"} /\ rshown \subseteq Msgs
CodexTypes == turn \in 0..MaxTurn /\ nativeQueue \subseteq Msgs
HistoryTypes ==
  /\ handed \in [Msgs -> Nat]
  /\ spent \in Nat /\ woken \in Nat
  /\ ownerTurns \subseteq 1..MaxTurn /\ renewals \in Nat

TypeOK == StoreTypes /\ WindowTypes /\ WorkerTypes /\ HookTypes /\ CallerTypes
          /\ CodexTypes /\ HistoryTypes

(***************************************************************************)
(* Helpers                                                                 *)
(***************************************************************************)
Received == {m \in Msgs : status[m] = "received"}
Consumed == {m \in Msgs : status[m] = "consumed"}

\* Mistaken variant: the hop guard is forgotten.
GuardedByEnrollment(m, cfg) == m \in Late /\ ~cfg

\* The hop and enrollment guards, under the configuration a process has read.
Guarded(m, cfg) == m \in HopLimited \/ (m \in Late /\ ~cfg)

\* The first of a set of messages in order of arrival.
IsFirst(m, S) == m \in S /\ \A k \in S : m <= k

Listening == wpc # "down"

Init ==
  /\ status = [m \in Msgs |-> "absent"]
  /\ mode \in Modes
  /\ limit \in Limits /\ remaining = limit /\ wakeRemaining = limit
  /\ ownerTurn = 0
  /\ phase = "unknown"
  /\ wake = NothingRecorded
  /\ enrolled = FALSE
  /\ wpc = "idle" /\ wmsg = 0 /\ wcfg = FALSE /\ crashes = 0
  /\ hpc = [h \in Hooks |-> "none"] /\ hevent = [h \in Hooks |-> "boundary"]
  /\ hnotice = [h \in Hooks |-> 0] /\ hcfg = [h \in Hooks |-> FALSE]
  /\ rpc = "none" /\ rshown = {}
  /\ turn = 0 /\ nativeQueue = {}
  /\ handed = [m \in Msgs |-> 0]
  /\ spent = 0 /\ woken = 0 /\ ownerTurns = {} /\ renewals = 0

(***************************************************************************)
(* The listener: accepting a frame, and the worker thread's ticks          *)
(***************************************************************************)

\* A frame of an enrolled peer: INSERT OR IGNORE, so a repeated id changes nothing.
Accept(m) ==
  /\ Listening
  /\ m \in Late => enrolled
  /\ \A k \in Msgs : k < m => status[k] # "absent"
  /\ status' = [status EXCEPT ![m] = IF @ = "absent" THEN "received" ELSE @]
  /\ UNCHANGED <<window, phase, wake, enrolled, worker, hook, caller, codex, history>>

\* The worker goes on; what it has read and does not need any more is forgotten.
WorkerGoto(place, m, cfg) ==
  /\ wpc' = place /\ wmsg' = m /\ wcfg' = cfg
  /\ UNCHANGED crashes

WorkerDone == WorkerGoto("idle", 0, FALSE)

\* A tick starts by reading the configuration it then works with.
Tick ==
  /\ wpc = "idle"
  /\ WorkerGoto("ticked", 0, enrolled)
  /\ UNCHANGED <<status, window, phase, wake, enrolled, hook, caller, codex, history>>

\* reconcile: evidence of a turn's end corrects the phase, unless the configuration
\* changed since the tick began.
Reconcile(ended) ==
  /\ wpc = "ticked"
  /\ phase \in {"active", "idle"}
  /\ Received # {}
  /\ wcfg = enrolled
  /\ phase' = ended
  /\ WorkerGoto("dispatch", 0, wcfg)
  /\ UNCHANGED <<status, window, wake, enrolled, hook, caller, codex, history>>

\* dispatch up to its first write: nothing here is a transaction.
Dispatching == wpc \in {"ticked", "dispatch"}

DispatchNothing ==
  /\ Dispatching
  /\ \/ phase = "interrupted"
     \/ mode \notin {"auto", "queue"}
     \/ mode = "queue" /\ (~Available(remaining) \/ Received = {})
  /\ WorkerDone
  /\ UNCHANGED <<status, window, phase, wake, enrolled, hook, caller, codex, history>>

DispatchWake ==
  /\ Dispatching
  /\ phase # "interrupted"
  /\ mode = "auto"
  /\ WorkerGoto("wake", 0, wcfg)
  /\ UNCHANGED <<status, window, phase, wake, enrolled, hook, caller, codex, history>>

DispatchQueue(m) ==
  /\ Dispatching
  /\ phase # "interrupted"
  /\ mode = "queue" /\ Available(remaining)
  /\ IsFirst(m, Received)
  /\ WorkerGoto(IF Guarded(m, wcfg) THEN "hold" ELSE "claim", m, FALSE)
  /\ UNCHANGED <<status, window, phase, wake, enrolled, hook, caller, codex, history>>

\* Mistaken variant: a late result overwrites an acknowledgement.
SetStatusAlways(m, s) == status' = [status EXCEPT ![m] = s]

\* set_status never takes an acknowledgement back.
SetStatus(m, s) == status' = [status EXCEPT ![m] = IF @ = "consumed" THEN @ ELSE s]

\* Mistaken variant: a guarded message stays at the head of the inbox.
SkipHead ==
  /\ wpc = "hold"
  /\ WorkerDone
  /\ UNCHANGED <<status, window, phase, wake, enrolled, hook, caller, codex, history>>

Hold ==
  /\ wpc = "hold"
  /\ SetStatus(wmsg, "held")
  /\ WorkerDone
  /\ UNCHANGED <<window, phase, wake, enrolled, hook, caller, codex, history>>

\* Mistaken variant: the claim trusts the row it read before its transaction.
ClaimableAsRead == mode = "queue" /\ Available(remaining)

\* Claim and debit in one transaction, which looks at everything again.
Claimable == mode = "queue" /\ Available(remaining) /\ status[wmsg] = "received"

Claim ==
  /\ wpc = "claim"
  /\ Claimable
  /\ status' = [status EXCEPT ![wmsg] = "forwarding"]
  /\ remaining' = Spend(remaining)
  /\ WorkerGoto("queue", wmsg, FALSE)
  /\ handed' = [handed EXCEPT ![wmsg] = @ + 1]
  /\ spent' = spent + 1
  /\ UNCHANGED <<mode, wakeRemaining, limit, ownerTurn, phase, wake, enrolled, hook,
                 caller, codex, woken, ownerTurns, renewals>>

ClaimNothing ==
  /\ wpc = "claim"
  /\ ~Claimable
  /\ WorkerDone
  /\ UNCHANGED <<status, window, phase, wake, enrolled, hook, caller, codex, history>>

\* The native queue accepted the body, refused it, or did not answer.
QueueResult(s) ==
  /\ wpc = "queue"
  /\ SetStatus(wmsg, s)
  /\ WorkerDone
  /\ UNCHANGED <<window, phase, wake, enrolled, hook, caller, codex, history>>

(***************************************************************************)
(* wake_idle: one transaction claims a wake, three more steps carry it out *)
(***************************************************************************)
\* Mistaken variant: the wake allowance is not asked for.
MayWakeUncounted ==
  phase = "idle" /\ Available(remaining) /\ wake.pending = NoWake

MayWake ==
  /\ phase = "idle"
  /\ Available(remaining) /\ Available(wakeRemaining)
  /\ wake.pending = NoWake

\* Rows in front of the first eligible one are held; without an eligible row all are.
WakeHolds(m) ==
  status' = [k \in Msgs |-> IF k \in Received /\ Guarded(k, wcfg) /\ k < m
                            THEN "held" ELSE status[k]]

\* Mistaken variant: an id that has had a decided wake is passed over for good.
WakeableOnce == {m \in Received : ~Guarded(m, wcfg) /\ wake.last.id # m}

Wakeable == {m \in Received : ~Guarded(m, wcfg)}

WakeClaim(m) ==
  /\ wpc = "wake"
  /\ MayWake
  /\ IsFirst(m, Wakeable)
  /\ WakeHolds(m)
  /\ wake' = [wake EXCEPT !.pending = Wake(m, "writing")]
  /\ wakeRemaining' = Spend(wakeRemaining)
  /\ WorkerGoto("writing", m, FALSE)
  /\ woken' = IF limit = Unlimited THEN woken ELSE woken + 1
  /\ UNCHANGED <<mode, remaining, limit, ownerTurn, phase, enrolled, hook,
                 caller, codex, handed, spent, ownerTurns, renewals>>

WakeNothing ==
  /\ wpc = "wake"
  /\ \/ ~MayWake /\ UNCHANGED status
     \/ MayWake /\ Wakeable = {} /\ WakeHolds(MaxMsg + 1)
  /\ WorkerDone
  /\ UNCHANGED <<window, phase, wake, enrolled, hook, caller, codex, history>>

WakeWriting ==
  /\ wpc = "writing"
  /\ wake' = RecordWriting(wake, wmsg)
  /\ WorkerGoto("calling", wmsg, FALSE)
  /\ UNCHANGED <<status, window, phase, enrolled, hook, caller, codex, history>>

\* The call of the native queue, which takes the notice or not.
WakeCall ==
  /\ wpc = "calling"
  /\ nativeQueue' \in {nativeQueue, nativeQueue \cup {wmsg}}
  /\ WorkerGoto("result", wmsg, FALSE)
  /\ UNCHANGED <<status, window, phase, wake, enrolled, hook, caller, turn, history>>

\* Its result.  The notice may have become a prompt, or been dismissed, before that.
WakeResult(outcome) ==
  /\ wpc = "result"
  /\ wake' = RecordOutcome(wake, wmsg, outcome)
  /\ WorkerDone
  /\ UNCHANGED <<status, window, phase, enrolled, hook, caller, codex, history>>

\* The process dies, or its worker does and takes the listener with it.
Crash ==
  /\ Listening
  /\ crashes < MaxCrash
  /\ crashes' = crashes + 1
  /\ wpc' = "down" /\ wmsg' = 0 /\ wcfg' = FALSE
  /\ UNCHANGED <<status, window, phase, wake, enrolled, hook, caller, codex, history>>

\* Mistaken variant: the start does not look for interrupted work.
RestartBlindly ==
  /\ wpc = "down"
  /\ WorkerDone
  /\ UNCHANGED <<status, window, phase, wake, enrolled, hook, caller, codex, history>>

\* Mistaken variant: interrupted work is done again.
RestartReturning ==
  /\ wpc = "down"
  /\ WorkerDone
  /\ status' = [m \in Msgs |-> IF status[m] = "forwarding" THEN "received" ELSE status[m]]
  /\ UNCHANGED <<window, phase, wake, enrolled, hook, caller, codex, history>>

\* serve: what was being forwarded is uncertain, and never tried again.
Restart ==
  /\ wpc = "down"
  /\ WorkerDone
  /\ status' = [m \in Msgs |-> IF status[m] = "forwarding" THEN "queue_uncertain"
                               ELSE status[m]]
  /\ UNCHANGED <<window, phase, wake, enrolled, hook, caller, codex, history>>

\* start_bridge for another owner, refused while a listener lives: the old owner's
\* marker goes, and its phase unless a hook of the new owner has run already.
Rebind ==
  /\ "rebind" \in Commands
  /\ wpc = "down"
  /\ wake' = [wake EXCEPT !.pending = NoWake]
  /\ phase' \in {phase, "unknown"}
  /\ UNCHANGED <<status, window, enrolled, worker, hook, caller, codex, history>>

(***************************************************************************)
(* A hook process: deliver                                                 *)
(***************************************************************************)

\* Codex waits for its prompt hooks before the turn goes on, so prompts do not
\* overlap prompts of another turn; hooks of tools run beside anything.
PromptHooks == {h \in Hooks : hpc[h] # "none" /\ hevent[h] \in {"owner", "external"}}

StartHook(h, event, notice, step) ==
  /\ event \in HookEvents
  /\ hpc[h] = "none"
  /\ hpc' = [hpc EXCEPT ![h] = step]
  /\ hevent' = [hevent EXCEPT ![h] = event]
  /\ hnotice' = [hnotice EXCEPT ![h] = notice]
  /\ hcfg' = [hcfg EXCEPT ![h] = enrolled]
  /\ UNCHANGED <<status, window, phase, wake, enrolled, worker, caller,
                 handed, spent, woken, renewals>>

\* SessionStart and Stop, and PostToolUse.
BoundaryHook(h) == StartHook(h, "boundary", 0, "phase") /\ UNCHANGED <<codex, ownerTurns>>
ToolHook(h)     == StartHook(h, "tool", 0, "phase") /\ UNCHANGED <<codex, ownerTurns>>

\* UserPromptSubmit of the owner: a new turn, or a further prompt of the current one.
OwnerHook(h) ==
  /\ StartHook(h, "owner", 0, "renew")
  /\ \/ PromptHooks = {} /\ turn < MaxTurn /\ turn' = turn + 1
     \/ turn > 0 /\ turn' = turn
  /\ ownerTurns' = ownerTurns \cup {turn'}
  /\ UNCHANGED nativeQueue

\* UserPromptSubmit that Codex took from its queue: a wake notice, or text that
\* carries another of EXTERNAL_MARKERS (notice 0).  Beyond MaxTurn turns share an id.
FromQueue(h, notice, step) ==
  /\ StartHook(h, "external", notice, step)
  /\ PromptHooks = {}
  /\ notice \in nativeQueue \cup {0}
  /\ nativeQueue' = nativeQueue \ {notice}
  /\ turn' = IF turn < MaxTurn THEN turn + 1 ELSE turn
  /\ UNCHANGED ownerTurns

\* Such a prompt never reaches the renewal of the window.
ExternalHook(h, notice) == FromQueue(h, notice, "phase")

Goto(h, step) ==
  /\ hpc' = [hpc EXCEPT ![h] = step]
  /\ UNCHANGED <<hevent, hnotice, hcfg>>

HookDone(h) ==
  /\ hpc' = [hpc EXCEPT ![h] = "none"]
  /\ hevent' = [hevent EXCEPT ![h] = "boundary"]
  /\ hnotice' = [hnotice EXCEPT ![h] = 0]
  /\ hcfg' = [hcfg EXCEPT ![h] = FALSE]

\* Mistaken variant: the turn that renewed the window is not remembered.
RenewableAlways == limit # Unlimited

\* renew_for_owner_prompt: once for a turn, and only a window with a numeric size.
Renewable == limit # Unlimited /\ ownerTurn # turn

RenewForOwnerPrompt(h) ==
  /\ hpc[h] = "renew"
  /\ IF Renewable
     THEN /\ remaining' = limit /\ wakeRemaining' = limit /\ ownerTurn' = turn
          /\ spent' = 0 /\ woken' = 0 /\ renewals' = renewals + 1
     ELSE UNCHANGED <<remaining, wakeRemaining, ownerTurn, spent, woken, renewals>>
  /\ Goto(h, "phase")
  /\ UNCHANGED <<status, mode, limit, phase, wake, enrolled, worker, caller, codex,
                 handed, ownerTurns>>

HookPhase(h) ==
  /\ hpc[h] = "phase"
  /\ IF hevent[h] = "boundary"
     THEN phase' = "idle" /\ HookDone(h)
     ELSE phase' = "active" /\ Goto(h, "decide")
  /\ UNCHANGED <<status, window, wake, enrolled, worker, caller, codex, history>>

ActiveHook(h) ==
  /\ hpc[h] = "decide"
  /\ wake' = Decide(wake, hnotice[h])
  /\ Goto(h, "drain")
  /\ UNCHANGED <<status, window, phase, enrolled, worker, caller, codex, history>>

\* The rows one hook looks at: the oldest received ones.
Batch == {m \in Received : Cardinality({k \in Received : k < m}) < HookBatch}

\* The loop takes rows in order.  It stops in front of a row when the window is
\* empty, or when the row's message does not fit into the context any more.
Drains(taken, offered, guarded) ==
  /\ \A m \in taken, k \in Batch : k < m => k \in taken
  /\ remaining # Unlimited => Cardinality(offered) <= remaining
  /\ \A m \in taken \ offered :
       AvailableAfter(remaining, Cardinality({k \in offered : k < m}))
  /\ \A m \in Batch \ taken :
       IsFirst(m, Batch \ taken) =>
         m \notin guarded \/ ~AvailableAfter(remaining, Cardinality(offered))

Drain(h, taken) ==
  LET guarded == {m \in Batch : Guarded(m, hcfg[h])}
      offered == taken \ guarded
  IN
  /\ hpc[h] = "drain"
  /\ mode \in {"live", "auto"}
  /\ Drains(taken, offered, guarded)
  /\ status' = [m \in Msgs |-> IF m \in offered THEN "hook_offered"
                               ELSE IF m \in taken THEN "held" ELSE status[m]]
  /\ remaining' = SpendAll(remaining, Cardinality(offered))
  /\ handed' = [m \in Msgs |-> IF m \in offered THEN handed[m] + 1 ELSE handed[m]]
  /\ spent' = spent + Cardinality(offered)
  /\ HookDone(h)
  /\ UNCHANGED <<mode, wakeRemaining, limit, ownerTurn, phase, wake, enrolled, worker, caller,
                 codex, woken, ownerTurns, renewals>>

DrainNothing(h) ==
  /\ hpc[h] = "drain"
  /\ mode \notin {"live", "auto"}
  /\ HookDone(h)
  /\ UNCHANGED <<status, window, phase, wake, enrolled, worker, caller, codex, history>>

\* The store stays locked, or Codex kills the hook: the steps left never happen.
HookAbort(h) ==
  /\ hpc[h] # "none"
  /\ HookDone(h)
  /\ UNCHANGED <<status, window, phase, wake, enrolled, worker, caller, codex, history>>

(***************************************************************************)
(* The caller's commands                                                   *)
(***************************************************************************)
Acknowledge(S) ==
  /\ status' = [m \in Msgs |-> IF m \in S THEN "consumed" ELSE status[m]]
  /\ wake' = ClearConsumed(wake, Consumed \cup S)

Open == {m \in Msgs : status[m] \in {"received", "queued", "hook_offered"}}

\* read --ack: the rows it will print are selected before the update.
ReadSelect ==
  /\ "read" \in Commands
  /\ rpc = "none"
  /\ rpc' = "selected"
  /\ rshown' = {m \in Msgs : status[m] # "absent"}
  /\ UNCHANGED <<status, window, phase, wake, enrolled, worker, hook, codex, history>>

ReadAck ==
  /\ rpc = "selected"
  /\ Acknowledge(Open)
  /\ rpc' = "none" /\ rshown' = {}
  /\ UNCHANGED <<window, phase, enrolled, worker, hook, codex, history>>

\* read --from NAME --ack updates first and selects what it prints afterwards.
AckFrom(peer) ==
  /\ "from" \in Commands
  /\ Acknowledge(Open \cap peer)
  /\ UNCHANGED <<window, phase, enrolled, worker, hook, caller, codex, history>>

\* ack --id: whatever the status of that message.
AckId(m) ==
  /\ "ack" \in Commands
  /\ status[m] # "absent"
  /\ Acknowledge({m})
  /\ UNCHANGED <<window, phase, enrolled, worker, hook, caller, codex, history>>

\* delivery MODE, and delivery MODE --budget N: one transaction.
SetMode(new) ==
  /\ "mode" \in Commands
  /\ mode' = new
  /\ UNCHANGED <<status, remaining, wakeRemaining, limit, ownerTurn, phase, wake, enrolled,
                 worker, hook, caller, codex, history>>

\* Mistaken variant: a new allowance also releases held messages.
SetWindowReleasing(new, size) ==
  /\ "window" \in Commands
  /\ mode' = new
  /\ limit' = size /\ remaining' = size /\ wakeRemaining' = size
  /\ status' = [m \in Msgs |-> IF status[m] = "held" THEN "received" ELSE status[m]]
  /\ spent' = 0 /\ woken' = 0
  /\ UNCHANGED <<ownerTurn, phase, wake, enrolled, worker, hook, caller, codex,
                 handed, ownerTurns, renewals>>

SetWindow(new, size) ==
  /\ "window" \in Commands
  /\ mode' = new
  /\ limit' = size /\ remaining' = size /\ wakeRemaining' = size
  /\ spent' = 0 /\ woken' = 0
  /\ UNCHANGED <<status, ownerTurn, phase, wake, enrolled, worker, hook, caller, codex,
                 handed, ownerTurns, renewals>>

Enroll ==
  /\ "enroll" \in Commands
  /\ enrolled' = TRUE
  /\ UNCHANGED <<status, window, phase, wake, worker, hook, caller, codex, history>>

-----------------------------------------------------------------------------
Worker ==
  \/ Tick
  \/ \E ended \in {"idle", "interrupted"} : Reconcile(ended)
  \/ DispatchNothing \/ DispatchWake
  \/ \E m \in Msgs : DispatchQueue(m)
  \/ Hold \/ Claim \/ ClaimNothing
  \/ \E s \in {"queued", "queue_failed", "queue_uncertain"} : QueueResult(s)
  \/ \E m \in Msgs : WakeClaim(m)
  \/ WakeNothing \/ WakeWriting \/ WakeCall
  \/ \E outcome \in Outcomes : WakeResult(outcome)

Listener ==
  \/ \E m \in Msgs : Accept(m)
  \/ Crash \/ Restart \/ Rebind

Hook(h) ==
  \/ BoundaryHook(h) \/ ToolHook(h) \/ OwnerHook(h)
  \/ \E notice \in 0..MaxMsg : ExternalHook(h, notice)
  \/ RenewForOwnerPrompt(h) \/ HookPhase(h) \/ ActiveHook(h)
  \/ \E taken \in SUBSET Batch : Drain(h, taken)
  \/ DrainNothing(h) \/ HookAbort(h)

Caller ==
  \/ ReadSelect \/ ReadAck
  \/ \E peer \in {Late, Msgs \ Late} : AckFrom(peer)
  \/ \E m \in Msgs : AckId(m)
  \/ \E new \in Modes : SetMode(new)
  \/ \E new \in Modes, size \in Limits : SetWindow(new, size)
  \/ Enroll

Next == Worker \/ Listener \/ (\E h \in Hooks : Hook(h)) \/ Caller

Spec == Init /\ [][Next]_vars

(***************************************************************************)
(* Fairness: the worker thread loops every 0.15 seconds and the watchdog   *)
(* starts a dead listener again.  Ticks that send an outgoing row instead   *)
(* are taken to end.  Hooks, the caller and Codex owe nothing.             *)
(***************************************************************************)
FairSpec == Spec /\ WF_vars(Worker) /\ WF_vars(Restart)

-----------------------------------------------------------------------------
(***************************************************************************)
(* Safety                                                                  *)
(***************************************************************************)

\* The body of a message is handed to the session automatically at most once, by
\* whichever of overlapping hooks and the queue worker gets to it first, across
\* changes of mode, crashes and repeated frames.
HandedOnce == \A m \in Msgs : handed[m] <= 1

\* A hop-limited message is never handed out automatically, in no mode and window.
HopLimitHolds == \A m \in HopLimited : handed[m] = 0

\* What a window has left and what was charged to it add up to its size: no
\* interleaving of hooks, worker, prompt renewal and the delivery command spends
\* a delivery twice or forgets one.
WindowConserved == limit # Unlimited => remaining + spent = limit

\* The same for the allowance of idle wakes.
WakesConserved == limit # Unlimited => wakeRemaining + woken = limit

\* A window is renewed at most once for a turn of the owner, however many hooks
\* report its prompt and whatever external prompts come in between.
RenewedOncePerTurn == renewals <= Cardinality(ownerTurns)

\* A message is "forwarding" only while the worker is at it or the listener is down,
\* so the recovery of the next start cannot miss it and cannot hit another.
ForwardingIsOwned ==
  \A m \in Msgs : status[m] = "forwarding" => wpc = "down" \/ (wpc = "queue" /\ wmsg = m)

\* An acknowledgement is final: no late result of the queue, hook or recovery moves
\* the message out of "consumed".
ConsumedIsFinal ==
  [][\A m \in Msgs : status[m] = "consumed" => status'[m] = "consumed"]_vars

\* The abstract promise, with the messages nobody has claimed, held or consumed yet.
Promise ==
  INSTANCE Handover
    WITH Items <- Msgs,
         arrived <- {m \in Msgs : status[m] # "absent"},
         waiting <- Received,
         given <- handed

\* The inbox keeps the promise of Handover: a body is handed out by the step that
\* takes its message out of "received", which no message enters twice.
HandsOver == Promise!Spec

\* A held message leaves "held" only by acknowledgement; renewing an allowance,
\* another mode or the peer's enrollment never releases it.
HeldIsFinal ==
  [][\A m \in Msgs : status[m] = "held" => status'[m] \in {"held", "consumed"}]_vars

\* The decided outcome of a wake is final: a late completion of the producer does
\* not change what is recorded about it.
DecidedIsFinal ==
  [][wake.last.state \in Decided /\ wake'.last.id = wake.last.id =>
       wake'.last.state = wake.last.state]_vars

\* A completed call of the native queue is always recorded against its own wake.
CompletionIsCurrent == wpc = "result" => wake.last.id = wmsg

(***************************************************************************)
(* Liveness                                                                *)
(***************************************************************************)

\* A waiting eligible message of an idle session in mode auto gets a wake claimed,
\* unless somebody else takes the message or the conditions change.
IdleIsWoken ==
  \A m \in Msgs \ (HopLimited \cup Late) :
    (status[m] = "received" /\ mode = "auto" /\ MayWake)
      ~> (status[m] # "received" \/ mode # "auto" \/ ~MayWake)

\* In queue mode every waiting message is taken, also one behind guarded ones.
QueueIsServed ==
  \A m \in Msgs :
    (status[m] = "received" /\ mode = "queue" /\ Available(remaining) /\ phase # "interrupted")
      ~> (status[m] # "received" \/ mode # "queue" \/ ~Available(remaining)
          \/ phase = "interrupted")

(***************************************************************************)
(* What a comment or the README says and the code does not keep            *)
(***************************************************************************)

\* "wake_pending ... is cleared only by an active hook decision or by the caller on
\* acknowledgement" (peer_wake.py:15-17): activity that meets a marker clears it.
ActivityClearsMarker ==
  [][\A h \in Hooks : ActiveHook(h) => wake'.pending = NoWake]_vars

\* "Deleting it (the caller's acknowledgement path) is final" (peer_wake.py:140): no
\* marker names a consumed message.
NoMarkerForConsumed == wake.pending.id \notin Consumed

\* "only explicit acknowledgement marks consumed" (README): read --ack consumes what
\* it shows.
AckedWasShown ==
  [][ReadAck => \A m \in Open : m \in rshown]_vars
=============================================================================
