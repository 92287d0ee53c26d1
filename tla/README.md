# peer-chat in TLA+

A verification project for peer-chat (`src/src/*.py`): a local message bridge between
coding-agent sessions. Each bridged Codex session has a SQLite store, a background
listener, hooks that Codex starts at turn boundaries, and a command line; a watchdog
starts dead listeners again. The hard part is that all of them work on one store, in
short transactions, as separate processes that can die at any step.

## 1. Inventory

| part | state it keeps | operations | correct when | modules |
|---|---|---|---|---|
| retained inbox and automatic delivery (`peer_chat.py`, `peer_hooks.py`) | `messages.status`, `delivery` | `Store.accept`, `dispatch` (queue mode), `deliver`, `read`, `ack`, recovery in `serve` | a body is handed out at most once; guarded messages never are; an acknowledgement is final | `Inbox` |
| receiving allowances (`peer_budget.py`) | `remaining`, `wake_remaining`, `budget_limit`, `budget_owner_turn` | `available`, `spend`, `renew_for_owner_prompt`, `configure_delivery`, `start --budget` | every delivery and wake is charged exactly once; one renewal per owner turn | `Budget`, `Inbox` |
| idle wakes (`peer_wake.py`, `wake_idle`) | `wake_pending`, `last_wake` | `record_wake`, `active_hook`, `clear_consumed_wake` | one pending wake; its outcome is decided once; a marker never outlives its reason | `WakeRecord`, `Inbox` |
| turn lifecycle evidence (`peer_lifecycle.py`, `seed_lifecycle`) | `phase`, `hook_seen`, `lifecycle_reconciled`, `hooks/<thread>.json` | hook events, `reconcile`, the change of owner, seeding | stale evidence never overrides a newer hook; an end no hook told of is noticed | `Lifecycle`, `Inbox` |
| outgoing queue and receipts (`dispatch`, `Store.accept`, `send`, `reply`) | `outgoing.status`, receipt rows, `reply_to:*` | claim, write, receipt, recovery | an ambiguous write is never repeated; a receipt is not lost; chains of replies end | `Outgoing`, `Relay` |
| listener lifecycle (`start_bridge`, `serve`, `stop`, `restart`, `_restore`) | `runtime`, `stop`, `supervision`, locks, socket | start, stop, upgrade, recovery, accept | one listener at a time; an explicit stop stays; a live peer is recognised | `Supervision`, `Connections` |
| watchdog (`peer_watch.py`) | attempts, back-off, `recovered_at`, `paused_until` | scan, recover, signal | bounded attempts; a live listener is left alone | `Supervision` |
| enrollment and configuration (`peer_peers.py`, `peer_connect.py`) | `config` | `enroll`, `connect`, `all_peers` | no enrollment is lost; both sides know each other | `Enrollment` |
| delivery advisories (`peer_delivery.py`) | `notice_message:*`, `peer_notices` | `notify`, `store_notice`, `take_notices` | one advisory for a blocked message, and no notice lost once stored | `Advisory`, `Notices` |
| frames (`decode_frame`, `LineBuffer`, `outbound`) | a buffer for each connection | feed, decode | lines are bounded and whole | `Frames`, `Connections`, `Relay` |
| session registry and routing (`peer_registry.py`) | registrations, last hooks | `register`, `sessions`, `remember_hook` | an open tab is listed, once and under its name | `Registry`, `Lifecycle` |
| status (`peer_observe.py`) | none of its own | `snapshot`, `delivery_state`, `_warning` | status promises no delivery that no guard allows, but for an undecided wake that it shows | `Status` |
| attachment (`peer_codex.py`), setup (`peer_setup.py`), platform (`peer_platform.py`) | none of their own | look at sockets and processes, edit files | | none; the identity of processes is in `Connections` |

How they meet. The listener has two threads: the socket loop, which authenticates a
client and calls `Store.accept`, and the worker, which every 0.15 s reads the
configuration, corrects the phase from the rollout's end (`reconcile`) and calls
`dispatch`: one outgoing write, or one wake, or one queued body. Hooks are processes of
their own with three seconds to live; `deliver` is a sequence of transactions: renew the
window, write the phase, decide the pending wake, drain the inbox. The command line
acknowledges, changes modes and windows, enrolls peers and starts listeners. Nothing but
the store connects them, so what one has read may be stale when it writes.

What makes it hard: overlapping hooks; a hook against the worker; acknowledgements while
a queue call is under way; crashes between the claim of a message and its result; wakes
whose outcome is known to a hook before it is known to the producer; prompts that look
like owner prompts and are not; configurations read before a change. `PROJECT.json`
lists every such place at its line ("hazards"), with the properties that cover it.

## 2. Modules

| module | what it is |
|---|---|
| `Budget` | allowances as pure operators: numbers or `Unlimited` |
| `WakeRecord` | the pair `wake_pending`, `last_wake` as a record and every transition of `peer_wake.py` as an operator on it |
| `Inbox` | the receiving side: store, listener, hooks, caller; extends the two above |
| `MCInbox` | its instances for TLC |
| `Handover` | the abstract promise: what waits is passed on once or never, and does not come back |
| `Outgoing` | the sending side: rows, the worker's writes, receipts, recovery |
| `Relay` | replies: who notes what a message answers, who reads it, and the chain of hops |
| `Supervision` | the listener's life: commands that start and stop it, and the watchdog |
| `Enrollment` | the configurations of several bridges under overlapping connects, starts and stops |
| `Lifecycle` | what a bridge believes of its session: hooks, `reconcile`, seeding by a start |
| `Advisory` | `notify`: who is told of a blocked message, and when |
| `Notices` | the other end: notices stored by a listener, taken by a hook |
| `Connections` | accepted connections: whose process connected, which places are taken |
| `Frames` | the line buffer of a connection |
| `Status` | what `snapshot` says against what the guards of hooks and worker let through; extends `Budget` |
| `Registry` | `register` and the list of sessions |
| `MCParts` | the ten modules from `Outgoing` on, but for `Supervision`, as one instance for TLC |
| `InboxProofs` | types, forwarding, one message's steps, at most once, `Inbox` implements `Handover` |
| `InboxWindowProofs` | conservation of allowances, renewal, the record of wakes, an idle session is woken |
| `OutgoingProofs` | `Outgoing`'s invariant, that it implements `Handover`, and that a claimed row is decided |
| `SupervisionProofs` | types, the watchdog's counted starts, its signals and its back-off; `stop` ends what listens |
| `DeliveryProofs` | `Notices`, `Advisory`, `Relay`, `Connections`, `Status`, `Lifecycle` |
| `EnrollmentProofs` | `Enrollment`, `Registry` |
| `PartsProofs` | `Frames`, the types of the other parts and of `MCParts`, connections come free |

Operators named `...Always`, `...Once`, `...Blindly` and the like, with the comment
"Mistaken variant", are not used by the specification. Each is one plausible slip in
the code it stands beside; the property it belongs to fails when it is put in place.

### Inbox and the code

An action of `Inbox` is one transaction, or one statement outside of any. A process's
local variables are variables of the model where they are used after another
process may have run:

- `wpc, wmsg, wcfg`: where the worker is, the row it holds and the configuration its tick
  read (`current` in `serve.worker`). `Tick`, `Reconcile`, then `dispatch`:
  `DispatchQueue` reads the head of the inbox, `Hold` or `Claim` writes, `QueueResult`
  is what the ten-second call of `codex queue` leads to. `wake_idle` is `WakeClaim`,
  `WakeWriting`, `WakeCall`, `WakeResult`.
- `hpc, hevent, hnotice, hcfg`: a hook process. `RenewForOwnerPrompt`, `HookPhase`,
  `ActiveHook`, `Drain` are the four transactions of `deliver`; `HookAbort` is the locked
  store or the three-second limit between any two of them.
- `rpc, rshown`: `read --ack`, which selects first and updates later. `read --from --ack`
  and `ack --id` are one transaction as far as the store is concerned.
- `turn, nativeQueue` stand for Codex, which is not in `src/`: the turn's id, and the
  wake notices its queue holds.
- `handed, spent, woken, ownerTurns, renewals` are history; only properties read them.

What the data is. A message is its number in order of arrival; `HopLimited` says which
carry eight hops or more and `Late` which come from a peer enrolled while the bridge
runs. Bodies, details, timestamps, queue ids and wake counters are left out: no
transition depends on them. That the rest of a batch does not fit into the 18,000
characters of a hook is a choice of `Drain` (it may stop in front of any message).

What is merged. The reads of `dispatch` before its first write are one step: none of
them is used by another process, and everything that matters is read again inside the
claiming transaction. What `hook_seen` is for is in `Lifecycle`; here a correction of the
phase may come at any tick. The offer of `_restore` is in `Supervision`. A tick that finds an outgoing row changes nothing here. Phase `interrupted` comes from
`Reconcile` only. The wake notice Codex holds may become a prompt at any later time, or
never.

What is assumed of Codex. It waits for the hooks of a prompt before it goes on with the
turn (`PromptHooks`), so that a prompt hook does not overlap the prompt of another turn;
hooks of tools and boundaries may overlap anything. `RenewedOncePerTurn` needs this: the
turn's id is compared with the last one that renewed, and two prompts of different
turns that alternate would renew each time.

It is further assumed that the owner's session lives: without it the worker does not
dispatch, and without supervision the listener ends.

### Outgoing and the code

The same worker thread, seen from its other duty. `Send` is the insert of the command
`send`, which looks at the listener earlier and may find it gone. `Claim` is the update
to "writing" in `dispatch`, `Write` the use of the peer's socket in `outbound`, `Result`
the update after it; a failed write may have reached the peer or not (`Outbound`).
`AcceptReceipt` is the receipt branch of `Store.accept`, which runs in the socket loop and
so between any two of these. `Restart` is the second update of `serve`. `sent` counts the
frames that got through, `verdict` is what the peer says of a message; a peer may correct
"held" later. Rows are numbered by creation time, which need not be the order in which
two commands insert them. The choice of the target and rows without a peer, of older
versions, are not in the model; the chain of hops is in `Relay`. `Inbox` and `Outgoing` share
the worker thread and the store, but no variable: a tick does one or the other, and no
transition of one reads what the other writes.

### Supervision and the code

One bridge, whose watchdog, listener, owner and commands are processes that meet in the
keys `config.supervision` (`supervised`), `stop`, `runtime` and `watch` of its store.

- `owner` is the session that the configuration names: it lives, is gone, or is gone and
  resumed by another process, which `_find_replacement` finds.
- `child` is a process started as `_serve` that has not yet taken the lock (`ServeBegins`
  looks at `stop` and takes it, as one step), `listener` the one that has: it is starting
  until it has written `runtime` (`ServeUp`), and ending when it has been signalled. More
  than one child at a time is one child: only one gets the lock.
- `wpc, state, elapsed, seen, sown`: where the watchdog's tick is, the record it works on,
  the time since its `now`, and whether the processes it has looked at still run
  (`_alive` compares identities, so another process in the same place does not count).
  `Look` is `tick` up to its decision, `Try` the part of `_recover` or `_keep_endpoint`
  that stores the attempt; then either `RunLook`, `RunStart`, `RunConfirms` (the command
  `start --recover`) or `Popen`, and `RecordStarted`, `RunFails` or `PopenFails`.
- `command` is a `restart` or `_restore` under way, at most one; or the command that a
  dead watchdog has left running. `Start`, like the start that ends a restart, is one step
  (its own races are with the configuration, see `Enrollment`); the watchdog's is two, because
  it looks at `stop` first.
- `spawned`, `due`, `liveFor` are history.

Time. A stored point of time is the time since it or until it, and is cut off where the
code no longer tells it from a later one: `age` at the window, `stable` at `STABLE_S`,
waits and pauses at zero. The clock may tick at any step, so a tick of the watchdog may
take any time. With the real constants one would have to count to 3600; small ones keep
the order of the three delays, the stability time and the window.

What is left out. The watchdog's loop over other bridges is time that passes. Its own
lock, record, log and idle exit; the upgrade of a listener of an older protocol; what else
a start writes into the configuration; `restore_error` and `recovery_event`, which are
evidence only; the removal of a dead listener's socket. The guard `_budget_exhausted` is
there and never true: the pause that is stored with the last attempt ends with the window,
and then the attempts are cleared. That a started listener runs until something ends it is
not assumed: `ServeDies` is always possible.

### Enrollment and the code

A command is a record in `cmd`: what was given, where it is (`pc`), and its `copy` of a
configuration. `StartReads` is `previous` in `start_bridge`; `StartSaves`, `StartEnrolls`
and `StartDefaults` are its two or three writes, of which only `enroll` merges into what is
stored now and the others write the copy back whole. `startup.lock` is `startup`: held from
before the read until the bridge is reported, and by starts only. `AfterStart` is the rest
of `connect`, which starts the other side in the same process and then, in one transaction
without the lock, chooses the default of the session that connects. `stop` reads before it
writes (`StopReads`, `StopWrites`). `StartFails` is every way out between two writes.
`clobbered` is history: threads where a stop has put back an older enrollment. A peer is a
name; the checks of `_normalise` and the selection of a peer come before the first step.

### Lifecycle and the code

Codex (`owner`, `turn`, `open`, and `tail`, the last record of the rollout) is modelled from
what `turn_end_evidence` and the hooks read of it. A hook is three writes, and may be killed
between any two: `HookLeavesRecord` (`remember_hook`), `HookSees` (`hook_seen`),
`HookPhase`. `WorkerLooks` and `WorkerWrites` are `reconcile`: the look outside of the
transaction, then everything looked at once more inside it. A start is `StartBegins` (its
look at the owner and at `hook_seen`), `StartWipes`, `StartSavesOwner`, `SeedLooks`,
`SeedWrites`; `SeedPhase` is `_seed_phase`. A stamp is `time.time()`, as far as hooks can tell
moments apart: two for every hook, and a turn's end between two. Codex is taken to run one
hook of a session at a time here, and to let none overlap the prompt of the next turn; with
overlapping hooks the phase is the last writer's, and "the last hook" means nothing.

### Advisory, Notices and the code

`notify` is four kinds of steps: it looks at the delivery state, selects, marks one message
in each transaction, writes one frame. `Batch` and `Window` are the limits 20 and 1000 in
the code. Rows, their age against `STARTUP_NOTICE_GRACE` and the delivery state change
around it at any step, each change being the effect of a handler that another module has.
On the other side `store_notice` selects all notices and writes them all back
(`KeeperReads`, `KeeperWrites`); the hook that takes them is one transaction.

### Connections, Frames, Relay and the code

`Connections` is `serve`'s loop: `RoundBegins` reads the configuration, `Accepts` is `accept`
with the cache `sender_keys`, which counts only while `enrollment_snapshot` is what the
round has read, and `ClosesOld` the end of a round. A process has a number; its pid is one
of `Pids` and is used again once it has ended, while an endpoint's record may stay behind.
`Decodes` is the one check of `decode_frame` that is about the connection: the sender it
names is the peer that the connection was accepted for.

`Frames` is `LineBuffer.feed`. A line is its length and a byte a letter or a newline; `Split`
grows the lines byte by byte (`Grow`), `Feed` takes any chunk, and a line over the limit,
complete or not, ends the connection.

`Relay` follows a message through the command that sends it (`Notes` writes `reply_to`, then
`Queues` the row), the worker that dispatches it with the chain of what it answers
(`PriorHops`, `WithOwnHop`) and the guard that holds it at `HopLimit` (8) or shows it; above
`ChainLimit` (32) hops it is not sent. `chain` is history: how many answers led to it. An
agent may answer what it was shown as often as it likes, and a write may not arrive.

### Status and the code

The keys, the processes and the rollout that `snapshot` reads take any combination that the
commands, hooks and crashes can lead to. `RuntimeState`, `Configured`, `DeliveryState`,
`Reachable`, `Warns` are `snapshot`, `delivery_state` and `_warning`; `HooksDeliver` and
`WorkerWakes` are, independently, the guards of `deliver`, `dispatch` and `wake_idle`,
`wake_pending` among them. The properties compare the two.

`wake` is that marker and a worker between its claim and the record of it. `WakeIsClaimed`
sets it, `WakeIsRecorded` may write it once more after an acknowledgement
(`WakeIsConsumed`) has cleared it; a hook of an active turn clears it or, cut off or refused
by the record, does not; a start for another owner clears it; a death of the listener leaves
it. Which of these happens when is in `Inbox`; here any of them may. Nothing says that the
notice of an undecided wake arrives, and neither `delivery_state` nor `_warning` asks for it: so
"reachable" is kept by a hook, by a wake, or only by the row of the wake that is shown beside
it (`ShowsWake`), and the two properties say that this is the one exception and where it
occurs: `idle_wake_enabled`, never `active_hooks`. The waiting message is one that the routing
guards let through; for messages they hold, status has another note.

### Registry and the code

`sessions` reads homes, locks, records and configurations one after the other (`ListsHomes`
to `ListsRest`), while tabs start, leave a thread for another and end, hooks register
(`HookLooks` at the name it is to keep, then `HookRegisters`) and starts save an owner.
`prune` has no caller and is left out; so are the matching of a selector, `routing_rejection`
and the database of Codex, which read and refuse. One hook at a time is in `register`: a
bound.

### The promise

`Handover` says of both sides what the project calls no retry of ambiguous operations.
`Inbox` implements it with the received messages as waiting and `handed` as given;
`Outgoing` with the pending rows and the row whose write has not begun as waiting, and
`sent` as given.

## 3. Runs

| run | instance | shows |
|---|---|---|
| `inbox_queue` | 3 messages, the first at the hop limit, window of 2, modes live and queue, 2 hooks of the owner's or external prompts, 2 owner turns, 1 crash; ack by id, window changes | `HandedOnce`, `HopLimitHolds`, `WindowConserved`, `RenewedOncePerTurn`, `ForwardingIsOwned`, `ConsumedIsFinal`, `HeldIsFinal`, `HandsOver` |
| `inbox_auto` | 2 messages, the second of a late peer, window of 1, mode auto, 1 hook, 1 owner turn, 1 crash; enrollment, new owner, windows, read --from | `TypeOK`, `WakesConserved`, `CompletionIsCurrent`, `DecidedIsFinal` |
| `inbox_progress` | 2 messages, modes auto and queue, boundary, tool and external hooks, read --ack, new owner, 1 crash, with fairness | `IdleIsWoken`, `QueueIsServed` |
| `wake_stuck` | 1 message, mode auto | `ActivityClearsMarker` is violated |
| `wake_after_ack` | 1 message, mode auto | `NoMarkerForConsumed` is violated |
| `ack_unseen` | 2 messages | `AckedWasShown` is violated |
| `parts` | ten modules, see below | of `Outgoing`: `SentOnce`, `StatusIsHonest`, `WritingIsOwned`, `HandsOver`, `SendIsDecided`; `Enrollment`: `EnrollmentsSurvive`, `ConnectedBothWays`; `Lifecycle`: `PhaseFollowsHooks`, `EndIsNoticed`; `Advisory`: `AdvisedOnce`, `BlockedIsAdvised`; `Notices`: `NoticesAreKept`; `Connections`: `PeersAreRecognised`, `PlacesComeFree`; `Relay`: `LoopsEnd`; `Frames`: `LinesAreWhole`; `Status`: `ReachableIsDelivered`, `NoSilentBlock`; `Registry`: `OpenTabsAreListed`; and `PartsTypeOK` |
| `default_lost` | 2 bridges, 2 connects | `DefaultIsChosen` is violated |
| `receipt_lost` | 1 row, no crash | `ReceiptIsShown` is violated |
| `supervision` | delays 1 and 2, 2 attempts in a window of 3, stable after 2, 1 tick cut off, 1 exit of the owner, with fairness | `TypeOK`, `SpawnsAreCounted`, `BackoffIsKept`, `SignalsOrphans`, `StopEnds`, `TriesAgain` |
| `stop_ignored` | the same, nothing cut off, the owner lives | `StopIsRespected` is violated |
| `loop_uncounted` | the same | `SettledIsStable` is violated |

Why the bounds are enough. Two hooks and the worker are the largest number of
parties that can compete for one row and one window; three messages let one hook's batch
(of two) hold a guarded and an eligible message and leave one over; a window of two is
spent inside a batch and between batches. Two turns are needed for a second renewal and
for a prompt between two hooks of one turn. One crash suffices for the recovery, because
recovery leaves no message in "forwarding". For the wake record two messages are
enough: it holds the ids of at most two wakes. All bounds are constants with an
assumption that the proofs use and TLC checks; the proved properties do not depend on
them. Hooks are interchangeable and reduced by symmetry, in the safety run only.
For `Supervision`, two attempts are one that backs off and one that exhausts the window; a
window of three lets the stability time end inside it or not; one exit of the owner gives
all of live, gone and resumed, and one tick cut off is enough because a tick starts from
the store alone.

`parts` checks ten modules that share no variable. Each has in its own module what it sees
of the others, so interleaving them would show nothing: `Init` picks one, which then takes
all the steps of the behaviour. Their bounds (`Parts.cfg`):

| module | bounds | why these |
|---|---|---|
| `Outgoing` | 2 rows, 2 crashes | one row is written while one waits; the second crash can hit the row after the recovered one. The proofs cover every number |
| `Enrollment` | 2 bridges, 1 Claude session, 2 commands of any kind | every race is one of two commands, and a connect is two starts |
| `Lifecycle` | 2 turns, 2 hooks (prompt and stop), 2 owners, 1 start, turns that end aborted | a hook before and one after whatever the worker or the start has looked at; a change of owner. Its invariant was also run with 3 hooks and 2 starts |
| `Advisory` | 3 messages, batch of 1, window of 2, 1 death | one message outside of the window, one outside of the batch |
| `Notices` | 2 senders, 2 notices of each | a later notice of the same sender and one of another come between look and write |
| `Connections` | 2 peers, 2 pids, 2 processes, 1 place, 2 connections | a pid used again by the other peer, an accepted connection before it, and no room |
| `Relay` | 2 bridges, 4 messages, limits of 3 hops | a chain that passes the limit by one |
| `Frames` | 5 bytes, lines of 2 | two lines and a cut anywhere, or one that is too long in one or two pieces |
| `Status` | allowances 0, 1 and `Unlimited` | none, the last one, and no end; the rest is the whole state space |
| `Registry` | 1 thread in a home of its own, 2 processes | a former process and one that resumes. Also run with 2 threads |

Deadlock is checked in the runs of `Supervision`, where time can always pass, and in those
of `Inbox`, where the caller and the worker can always go on. `parts`, `receipt_lost` and
`default_lost` do not check it: when every row is decided and answered, every command given
and every crash used up, nothing is left to do.

Fairness. `FairSpec` adds weak fairness of the worker (its loop runs every 0.15 s while
the listener lives, and every call it makes has a time limit) and of the restart (the
watchdog starts a dead listener again; a turned-off watchdog is outside this claim).
A tick that finds a pending outgoing row sends that one and does not look at the inbox:
`FairSpec` of `Inbox` takes the ticks that do for the fair ones, so it also says that the
owner does not keep the outgoing queue non-empty for ever. Hooks, the caller and Codex owe
nothing, not even the hook that would deliver: so the liveness properties promise a wake or
a claim, never a delivery. They leave out messages of a late peer, see below. In `Supervision` time passes, the watchdog takes its steps (it
polls every two seconds, its commands have time limits), a child and a starting listener
come up or die, and a listener's loop sees its conditions. No start need succeed, no
command need be given or finish. A cut-off tick is followed by the next; if it was cut off
because the watchdog died, that is with the next start of any bridge (`ensure`), which is
assumed to come. In `parts` the worker of `Outgoing`, of `Lifecycle` and of `Advisory` takes
its steps as in `Inbox`; a message gets older than the time of grace; `CONNECTION_TTL` goes
by, and the listener's loop, which wakes every 0.15 s, closes what is too
old. As one part takes all the steps, the fairness of several parts is that of the
disjunction of their actions.

### What does not hold

- `wake_stuck`. `_record` returns early when the wake is already decided, and then also
  keeps `wake_pending` (`peer_wake.py:104-110`). Tool activity cancels a wake, the hook
  dies before it drains, the session gets idle, `wake_idle` claims the same message
  again: the claim writes the marker, every later transition of this id is refused, and
  the marker stays. The module's comment says an active hook clears it; it cannot.
  Until an acknowledgement of that message or an owner change no other message gets a
  wake. Messages are still delivered by hooks of active turns.
- `wake_after_ack`. An acknowledgement between `wake_idle`'s claim and its first
  `record_wake` deletes the marker, and the record brings it back for a message that is
  consumed, though the comment calls the deletion final.
- `ack_unseen`. `read --ack` consumes a message that was accepted between the select of
  what it prints and the update.
- `receipt_lost`. The peer answers, and the socket loop stores "peer_held", before the
  worker has stored "written", which then replaces it. A repeat of that receipt is
  dropped as a duplicate, so the status stays "written" until a different receipt comes.
- `stop_ignored`. The watchdog's `start --recover` looks at `stop` once; a stop given
  before it writes is answered to the owner, and then taken back: supervision is true
  again, stop false, and the listener starts. The listener that `_keep_endpoint` starts
  looks at `stop` itself before it takes its lock.
- `loop_uncounted`. A live listener whose record has no recovery time, or an old one,
  counts as stable at once. That is so after an attempt that was recorded as failed though
  its listener came up, for one that took longer than the five seconds `start` waits: the
  next tick clears the attempts, and a listener that keeps dying is started again without
  delay.
- `default_lost`. Only the initiating session is to change its default. A start that another
  session's connect runs for it writes back a copy of the whole configuration, and with it
  a default that the session has changed meanwhile; `startup.lock` does not keep the last
  step of `connect` away.

Not runs, because no document says what should be, or because they are accepted losses.
Where a property stops short of one of these, its comment or its guard says so.

- The worker and a hook judge enrollment by the configuration they read when they
  started. A message of a peer enrolled since then is held as one of a "previously enrolled
  peer", and held messages are never released. For the same reason a send to a peer
  enrolled during the tick is recorded as uncertain, and a peer that is enrolled while the
  listener waits for a connection is refused once.
- `stop` reads the configuration before its transaction and writes it back: an enrollment
  made in between is gone (`clobbered`).
- A stop hook killed between `hook_seen` and the phase leaves the phase active, and what is
  seen is no active hook, so no `reconcile` follows. Nor does one for a hook that comes after
  the end of its turn: its stamp is younger than the end.
- Of one sender only the last notice is kept, and ids it named before are dropped. A notice
  taken between a listener's look and its write is shown twice; one whose listener dies
  there is lost. A worker that dies between mark and write has told nobody.
- A message behind the `Window` oldest waiting ones is not advised while they wait.
- `hops` counts answers: bodies an agent sends on in messages of its own have no chain.
- A start that finds a listener about to end reports that it runs already.
- A wake that nobody decides (its call failed, its notice was dismissed, or one of
  `wake_stuck` and `wake_after_ack` left its marker) stops all wakes of an idle session, which
  status calls reachable without a warning (`test_wake` and `test_observe` pin both sides), and
  a sender gets no advisory. `wake_pending` of `status --json` shows it; activity of the
  session or an acknowledgement of that message ends it, where the record does not refuse.
- For a bridge without supervision "reachable" may be said of a session whose turn has
  ended without a hook, since nothing reconciles it: `ReachableIsDelivered` assumes
  supervision and a worker without an error.
- A hook that has looked at a name before a rename registers the former one (`late`); a
  process that has gone on to another thread still stands for the former one, and its
  registration outranks the lock of the thread's new process (`left`); a home of its own
  that no record names is unknown.
- A restart that fails after it has set `stop` leaves the bridge stopped, also for the
  watchdog. At the end of a window of attempts the count starts anew whatever `next_at` of
  the former one says.

## 4. Proofs

Every safety property of the passing runs is proved for all values of the constants (any
number of messages, rows, hooks, turns, commands, processes, crashes; any limits, windows
and delays), and of the eight liveness properties four are, from the fairness stated and
one kind of hypothesis. The assumptions on the constants are the named ones at the head of
each module: bounds are numbers, limits and delays positive, names distinct.

- **Types** (`TypeCorrect`). Inductive with `WorkerHasMessage`: the worker's row is a
  message wherever it is going to write about it. One lemma per process, one step per
  action; `TypeFrame` carries over what an action leaves alone.
- **Forwarding** (`ForwardingOwned`). `OwnInv`: the claim is the only way into
  "forwarding", and what the worker finds after its queue call is its own claim or an
  acknowledgement (`QueueOwnsItsMessage`). Everybody else is `HandsOff`: it changes no
  forwarding message except by acknowledging it.
- **One message's steps** (`ConsumedFinal`, `HeldFinal`, `AtMostOnce`, `HopLimit`).
  `EveryMessageStep` says what any step does to any message. `HandedOnce` is not
  inductive; `WaitingIsFresh` is what makes it so: a message that still waits has not
  been handed out, and handing out ends the waiting in the same transaction. The
  result of a queue call moves no held message because of `OwnInv`.
- **Allowances** (`WindowAddsUp`, `WakesAddUp`). With `AllNumeric`: a window's size and
  what is left of it are numbers together.
- **Renewal** (`OneRenewalPerTurn`). Renewals are counted against the owner turns up to
  the one that renewed last (`Counted`); a hook about to renew belongs to the current
  turn.
- **Wakes** (`DecisionFinal`, `OwnCompletion`). The first is a fact about `Record` and
  needs types only; the second needs that between claim and result no other wake can
  be pending (`MarkerIsMine`).
- **The promise** (`PromiseKept`). Whatever implements `Handover` passes nothing on
  twice: what may still be given has not been (`FreshUntilGiven`).
- **The inbox implements it** (`InboxHandsOver`). Only `Accept` lets a message exist
  (`OnlyAcceptArrives`); any other step does to each message a `MessageStep`, which
  together is one `Leave`. Needed beside the invariants above: the worker never holds
  back a message that is not there (`HoldsPresent`).
- **Sending** (`SentAtMostOnce`, `HonestStatus`, `WritingOwned`, `SendingHandsOver`). One
  inductive invariant: the row the worker is about to write is "writing" and unsent
  (`Claimed`), and the peer speaks of a row only after its write (`PeerIsLate`), so no
  receipt touches a row before.
- **Counted starts** (`NoUncountedSpawn`). `SpawnsAreCounted` is not inductive;
  `CountIsStored` adds what a tick knows: before its attempt the stored count, or none in a
  new window; between the attempt and the start, the stored count with room for one more.
  `EndingTick` covers every way a tick can end with a record, `TickEnds` those without.
- **Signals** (`OnlyOrphansSignalled`). `OrphanInv`: what is seen still listens, and if it
  is about to be signalled its owner is gone; no start gives a bridge to an owner while
  such a listener lives, which is what `MayStart` is for.
- **The watchdog's types and its back-off** (`WatchTypeAlways`, `BackoffIsKeptAlways`). A
  delay is a power of two times the first one; that it is a number for every
  count of attempts is shown without induction, as the cardinality of the subsets of
  `1..n` (`PowerIsNumber`). The back-off: while a record has attempts, its wait lasts until
  the next one is due or until the end of the window, whichever process holds the record.
- **Notices and advisories** (`NoticesAreKeptAlways`, `AdvisedOnceAlways`). The copy that the
  listener is about to write back has every notice that is neither shown nor replaced, as
  only the listener adds any. A message is marked before it is advised, a mark is never
  taken off, and what the worker holds selected has not been advised (`AdvisedInv`).
- **The chain of hops** (`LoopsEndAlways`). A message that answers has its note
  before its row can be dispatched, and the note names what arrived from the peer it goes to
  (`Answering`); so the hops that arrive with it are as many as the messages of its chain of
  answers (`Chained`). A bridge adds itself also to a chain that names it already.
- **Connections** (`PeersAreRecognisedAlways`). The number of a process tells whose process
  it is, and an endpoint that carries it is that peer's, also when its pid has gone to another
  process (`NumbersTell`); so the cached and the uncached look agree on at most one peer.
- **Status** (`ReachableIsDeliveredAlways`, `NoSilentBlockAlways`). Types, then cases over
  every word that `delivery_state` can say against the guards. Both name the undecided wake as
  the exception: without it neither holds, and TLC shows why in three steps (a start, a
  hook, a claim).
- **The lifecycle** (`PhaseFollowsHooksAlways`). What the last hook has shown is what the
  bridge has seen (`Seen`); stamps only grow (`Bounded`), so evidence of an earlier turn or an
  earlier record is older; and what a start has forgotten comes back only from the record
  of the same hook (`Forgotten`). `reconcile`'s second look is needed in `WorkerWrites`.
- **Enrollment** (`EnrollmentsSurviveAlways`, `ConnectedBothWaysAlways`,
  `EnrollmentTypeAlways`). Unless a stop has interfered, the copy of the start that holds the
  lock has all peers that are stored: only it adds any. A stop's copy has no more than
  stored. A side that a connect has started has the other one enrolled, from the start's
  transaction on.
- **The list of sessions** (`OpenTabsAreListedAlways`). Whoever stands on record for a thread
  is or was its process; and the list so far, after each of its five reads, is true of the
  threads that have been steady since the first, in that a thread without a row has its
  lock in hand.

- **The line buffer** (`LinesAreWholeAlways`). `Split` is a recursive function, so this is an
  induction over bytes. The library's induction theorems take an operator, which the provers
  cannot instantiate; its theorem on minimal elements takes a set. `SetInduction` is drawn
  from that: a set of numbers with 0 and every successor is `Nat`. With it, one byte more
  grows what was split so far (`SplitAppend`), and splitting what is kept with what comes in
  goes on as it would from the first byte on (`SplitGoesOn`), whether or not a line gets too
  long.
- **The types of the parts** (`FramesTypeAlways`, `RelayTypeAlways`,
  `ConnectionsTypeAlways`, `RegistryTypeAlways`, and the parts' types proved beside their
  properties). `RelayInv` needs that commands are numbered in order, so that a chain of
  answers is no longer than its number; `ServerInv` that a connection is accepted only
  where a place is free; `RegistryTypeOK` that one hook is in `register`. The composition
  (`PartsTypeAlways`): each step of `PartsNext` is a step of each part or leaves that part
  alone (`PartsSteps`), so the parts' invariants hold together.

### Liveness

The prover takes weak fairness for what it says, but cannot look into `ENABLED`. So the
theorems on liveness have hypotheses of one form: whenever a fair action's turn has come, it
can be taken, for instance `[](wpc # "idle" => ENABLED <<Watchdog>>_vars)`. They are facts of
the models and not of the environment: for each place of a process one of its actions
is guarded by that place alone, or the guards of its actions exhaust what may be there. TLC
finds them true in every reachable state of the instances above. What the proofs
then show is the part of the argument that is easily wrong: that nothing anybody else does
takes a process back, or for ever keeps it from where it is going.

- **stop** (`StopEndsByFairness`). While `stop` is set, a tick only goes down: what decides may
  still act, what acts can only record, and no tick begins (`TickGoesDown`). Once there is no
  tick, no child comes up any more that was not there (`NothingComesUp`): every start takes
  `stop` back, the one exception, `Popen`, is a tick's. A child that is left ends itself.
- **A turn's end is noticed** (`EndIsNoticedByFairness`). The worker's write is dropped when
  the hook seen, the phase or the evidence is another than at its look, so one has to
  show that this does not go on for ever, however many hooks and starts there are. While the
  end is missed, a hook that comes is newer than it (`Stamped`) and ends the wait; and a
  start can replace what is seen only by the record it holds or by the one recorded last, each
  newer than what was seen (`MissedStep`). So what is seen changes twice at most
  (`FewerFit`), and a look at what stays holds when it is written (`LookHolds`).
- **An idle session is woken** (`IdleIsWokenByFairness`). From each of its places the worker
  comes round to the claim without going back (`WakeNears`), also out of an older wake
  that has lost its marker. A listener that dies again and again would never get there, so
  a further hypothesis says that it does not; in the runs, `MaxCrash` does.
- **Places come free** (`PlacesComeFreeByFairness`). In a full listener some connection is
  old, and stays old until a round closes it, or else one grows old.
- **A claimed row is decided** (`ClaimedIsDecided`): half of `SendIsDecided`, and true for any
  number of crashes, as each start decides what it finds being written.

Only model-checked: `SendIsDecided`, `QueueIsServed` and `BlockedIsAdvised`, where one
message waits for all those before it, and `TriesAgain`, where a delay has to run down.
Their proofs are inductions over rows or over time whose induction hypothesis is a
temporal formula; the induction above takes sets, which have no temporal formulas in them.
The hypotheses on `ENABLED`, as said. And the seven properties that are violated.

## 5. Plan

The earlier plan (configuration, advisories, lifecycle, frames, registry, status, the types
and the back-off of `Supervision`) is done. What could follow:

1. `start --budget`: three writes against a renewal, which can mix two windows.
2. `Supervision`: the upgrade of a live listener of an older protocol, several bridges under
   one watchdog, the watchdog's own lock and idle exit (its last look at its bridges against
   an `ensure` that finds it alive).
3. `Inbox` with overlapping hooks that carry `hook_seen`, so that `Lifecycle` is its
   refinement and not beside it.
4. `Registry`: several hooks in `register` at once.

Not modelled: the session attachment of Codex (`peer_codex.py`), setup (`peer_setup.py`) and
the probes of `peer_platform.py`. They look at sockets, process tables and files and keep no
state between two calls; what the others rely on, that a process has an identity beside its
pid, is in `Connections`, `Registry` and `Supervision`. Further not: the parsing of frames
beyond the sender's check, the matching of selectors, Codex's database, and the layout of
status reports.
