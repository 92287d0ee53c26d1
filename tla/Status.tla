------------------------------- MODULE Status -------------------------------
(***************************************************************************)
(* What status says of a bridge against what the bridge does.  snapshot    *)
(* puts the keys of the store, the processes and the rollout together into *)
(* a runtime state, a delivery state, "reachable" and a warning; hooks and *)
(* the worker have guards of their own.  A message is waiting that no      *)
(* routing guard will hold; a wake may have been claimed for it or for an  *)
(* earlier one: only a hook, an acknowledgement or a start for another     *)
(* owner takes it back.                                                    *)
(***************************************************************************)
EXTENDS Budget

CONSTANT Given      \* the allowances the user gives

ASSUME StatusAssumption == Given \subseteq Allowance

VARIABLES
  delivers,     \* the keys delivery, remaining and wake_remaining
  belief,       \* the keys phase and hook_seen (that is, lifecycle_observed)
  ended,        \* turn_end_evidence: the phase it tells of, or "none"
  listener,     \* the listener's process, socket, protocol and worker_error
  ownerLives,   \* the process in the configuration is the session's
  chosen,       \* the keys config, stop and supervision
  wake          \* the key wake_pending, and a worker that has not yet recorded its claim

statusVars == <<delivers, belief, ended, listener, ownerLives, chosen, wake>>

Listeners == [state : {"none", "serving", "no_socket"}, version : {5, 6}, failed : BOOLEAN]
NoListener == [state |-> "none", version |-> 6, failed |-> FALSE]
NoWakeYet == [pending |-> FALSE, claimed |-> FALSE]

\* A set of at most one allowance: none is the key wake_remaining that is missing.
StatusTypeOK ==
  /\ delivers \in [mode : {"inbox", "live", "auto", "queue"}, remaining : Allowance,
                   wakes : SUBSET Allowance]
  /\ belief \in [phase : {"unknown", "active", "idle", "interrupted"}, seen : BOOLEAN]
  /\ ended \in {"none", "idle", "interrupted"}
  /\ listener \in Listeners /\ ownerLives \in BOOLEAN
  /\ chosen \in [configured : BOOLEAN, stop : BOOLEAN, supervision : BOOLEAN]
  /\ wake \in [pending : BOOLEAN, claimed : BOOLEAN]

StatusInit ==
  /\ delivers = [mode |-> "inbox", remaining |-> 0, wakes |-> {}]
  /\ belief = [phase |-> "unknown", seen |-> FALSE]
  /\ ended = "none"
  /\ listener = NoListener
  /\ ownerLives = TRUE
  /\ chosen = [configured |-> FALSE, stop |-> FALSE, supervision |-> FALSE]
  /\ wake = NoWakeYet

-----------------------------------------------------------------------------
(* The guards of those who deliver *)

\* A missing wake_remaining is as much as remaining (legacy stores).
WakeWindow == IF delivers.wakes = {} THEN {delivers.remaining} ELSE delivers.wakes

WakesLeft == \E left \in WakeWindow : Available(left)

\* reconcile puts the end of the turn into the store: a worker of this version does so
\* once a second, in a bridge that is supervised.
Reconciles ==
  ended # "none" /\ belief.seen /\ belief.phase \in {"active", "idle"}
    /\ listener.version >= 6 /\ chosen.supervision /\ ~listener.failed

PhaseInStore == IF Reconciles THEN ended ELSE belief.phase

\* deliver: hooks come as long as the turn goes on, and offer what the window allows.
HooksDeliver ==
  /\ belief.seen /\ belief.phase = "active" /\ ended = "none"
  /\ delivers.mode \in {"live", "auto"} /\ Available(delivers.remaining)

\* dispatch and wake_idle, by the worker of a listener that runs: there is one wake at a
\* time, and one that nobody has decided is never tried again.
WorkerWakes ==
  /\ listener.state = "serving" /\ ~listener.failed /\ ~chosen.stop
  /\ delivers.mode = "auto" /\ PhaseInStore = "idle"
  /\ Available(delivers.remaining) /\ WakesLeft
  /\ ~wake.pending

Delivered == chosen.configured /\ ownerLives /\ (HooksDeliver \/ WorkerWakes)

-----------------------------------------------------------------------------
(* What changes the keys and the processes *)

SetsMode(mode) ==
  /\ chosen.configured
  /\ delivers' = [delivers EXCEPT !.mode = mode]
  /\ UNCHANGED <<belief, ended, listener, ownerLives, chosen, wake>>

SetsDelivery(mode, budget) ==
  /\ chosen.configured
  /\ delivers' = [mode |-> mode, remaining |-> budget, wakes |-> {budget}]
  /\ UNCHANGED <<belief, ended, listener, ownerLives, chosen, wake>>

\* A hook offers another message, or the queue worker claims one.
SpendsOne ==
  /\ chosen.configured
  /\ Available(delivers.remaining)
  /\ delivers' = [delivers EXCEPT !.remaining = Spend(@)]
  /\ UNCHANGED <<belief, ended, listener, ownerLives, chosen, wake>>

\* wake_idle: one transaction claims the wake and charges it.
WakeIsClaimed ==
  /\ chosen.configured /\ ownerLives /\ WorkerWakes /\ ~wake.claimed
  /\ \E left \in WakeWindow : delivers' = [delivers EXCEPT !.wakes = {Spend(left)}]
  /\ wake' = [pending |-> TRUE, claimed |-> TRUE]
  /\ UNCHANGED <<belief, ended, listener, ownerLives, chosen>>

\* record_wake for the claim writes the marker again, unless that id has had a decided
\* wake.  The outcome of the call, good or bad, then leaves the marker as it is.
WakeIsRecorded ==
  /\ wake.claimed
  /\ \E pending \in {wake.pending, TRUE} : wake' = [pending |-> pending, claimed |-> FALSE]
  /\ UNCHANGED <<delivers, belief, ended, listener, ownerLives, chosen>>

\* The message of the claimed wake is acknowledged; another one is waiting.
WakeIsConsumed ==
  /\ wake.pending
  /\ wake' = [wake EXCEPT !.pending = FALSE]
  /\ UNCHANGED <<delivers, belief, ended, listener, ownerLives, chosen>>

\* A hook of the session, or one that ends between hook_seen and the phase.  One of an
\* active turn decides the wake, unless it ends before that or the record refuses.
HookShows(phase) ==
  /\ chosen.configured
  /\ belief' = [phase |-> phase, seen |-> TRUE]
  /\ ended' = "none"
  /\ \E pending \in {wake.pending, wake.pending /\ phase # "active"} :
       wake' = [wake EXCEPT !.pending = pending]
  /\ UNCHANGED <<delivers, listener, ownerLives, chosen>>

\* connect gives a phase without a hook; start for another owner forgets both.
PhaseSeeded(phase) ==
  /\ chosen.configured /\ ~belief.seen
  /\ belief' = [belief EXCEPT !.phase = phase]
  /\ UNCHANGED <<delivers, ended, listener, ownerLives, chosen, wake>>

TurnEndShows(phase) ==
  /\ belief.seen /\ ownerLives
  /\ ended' = phase
  /\ UNCHANGED <<delivers, belief, listener, ownerLives, chosen, wake>>

OwnerEnds ==
  /\ ownerLives
  /\ ownerLives' = FALSE /\ ended' = "none"
  /\ UNCHANGED <<delivers, belief, listener, chosen, wake>>

\* The old owner's wake goes with it; a listener that runs already goes on.
Starts ==
  /\ chosen' = [configured |-> TRUE, stop |-> FALSE, supervision |-> TRUE]
  /\ listener' = [state |-> "serving", version |-> 6, failed |-> FALSE]
  /\ delivers' = IF chosen.configured THEN delivers
                 ELSE [mode |-> "auto", remaining |-> Unlimited, wakes |-> {Unlimited}]
  /\ belief' = IF ownerLives THEN belief ELSE [phase |-> "unknown", seen |-> FALSE]
  /\ ownerLives' = TRUE
  /\ wake' = [pending |-> wake.pending /\ ownerLives,
              claimed |-> wake.claimed /\ ownerLives /\ listener' = listener]
  /\ UNCHANGED ended

Stops ==
  /\ chosen.configured
  /\ chosen' = [chosen EXCEPT !.stop = TRUE, !.supervision = FALSE]
  /\ UNCHANGED <<delivers, belief, ended, listener, ownerLives, wake>>

\* A listener of this version or an older one (which keeps the key supervision as it is)
\* clears stop and worker_error; it dies, or its socket is removed, or its worker fails.
ListenerChanges(new) ==
  /\ chosen.configured
  /\ listener' = new
  /\ new.failed => listener = [new EXCEPT !.failed = FALSE] /\ new.state = "serving"
  /\ new.state = "no_socket" => listener = [new EXCEPT !.state = "serving"]
  /\ chosen' = IF listener.state = "none" /\ new.state = "serving"
                 THEN [chosen EXCEPT !.stop = FALSE] ELSE chosen
  /\ wake' = [wake EXCEPT !.claimed =
                @ /\ new \in {listener, [listener EXCEPT !.state = "no_socket"]}]
  /\ UNCHANGED <<delivers, belief, ended, ownerLives>>

StatusNext ==
  \/ \E mode \in {"inbox", "live", "auto", "queue"} :
       SetsMode(mode) \/ \E b \in Given : SetsDelivery(mode, b)
  \/ SpendsOne
  \/ WakeIsClaimed \/ WakeIsRecorded \/ WakeIsConsumed
  \/ \E phase \in {"active", "idle"} : HookShows(phase)
  \/ \E phase \in {"active", "idle", "unknown"} : PhaseSeeded(phase)
  \/ \E phase \in {"idle", "interrupted"} : TurnEndShows(phase)
  \/ OwnerEnds \/ Starts \/ Stops
  \/ \E new \in Listeners : ListenerChanges(new)

StatusSpec == StatusInit /\ [][StatusNext]_statusVars

-----------------------------------------------------------------------------
(* snapshot *)

RuntimeState ==
  IF ~chosen.configured THEN "unconfigured"
  ELSE IF chosen.stop THEN "stopped"
  ELSE IF ~ownerLives THEN "owner_offline"
  ELSE IF listener.state = "serving" THEN "running"
  ELSE "listener_down"

\* The rollout corrects the phase in what is shown, and only there.
ShownPhase ==
  IF RuntimeState = "running" /\ belief.phase \in {"active", "idle"} /\ ended # "none"
    THEN ended ELSE belief.phase

\* Mistaken variant: the allowance of wakes is not looked at.
ConfiguredWakesFree(phase) ==
  IF delivers.mode = "inbox" THEN "manual_inbox"
  ELSE IF phase = "interrupted" THEN "paused_interrupted"
  ELSE IF ~Available(delivers.remaining) THEN "paused_budget"
  ELSE IF delivers.mode = "queue" THEN "after_turn_queue"
  ELSE IF ~belief.seen \/ phase = "unknown" THEN "awaiting_lifecycle_hook"
  ELSE IF phase = "active" THEN "active_hooks"
  ELSE IF delivers.mode = "live" THEN "idle_live_only" ELSE "idle_wake_enabled"

\* delivery_state
Configured(phase) ==
  IF delivers.mode = "inbox" THEN "manual_inbox"
  ELSE IF phase = "interrupted" THEN "paused_interrupted"
  ELSE IF ~Available(delivers.remaining) THEN "paused_budget"
  ELSE IF delivers.mode = "queue" THEN "after_turn_queue"
  ELSE IF ~belief.seen \/ phase = "unknown" THEN "awaiting_lifecycle_hook"
  ELSE IF delivers.mode = "auto" /\ phase = "idle" /\ ~WakesLeft
         THEN "paused_wake_budget"
  ELSE IF phase = "active" THEN "active_hooks"
  ELSE IF delivers.mode = "live" THEN "idle_live_only" ELSE "idle_wake_enabled"

DeliveryState ==
  IF RuntimeState # "running" THEN RuntimeState
  ELSE IF ended # "none" /\ belief.phase \in {"active", "idle"} /\ listener.version < 6
            /\ Configured(ShownPhase) = "idle_wake_enabled"
         THEN "awaiting_listener_upgrade"
  ELSE Configured(ShownPhase)

Reachable ==
  RuntimeState = "running" /\ DeliveryState \in {"active_hooks", "idle_wake_enabled"}

\* Mistaken variant: an old listener is not mentioned.
WarnsUnlessOld ==
  \/ RuntimeState # "running" \/ listener.failed
  \/ DeliveryState \notin {"active_hooks", "idle_wake_enabled", "awaiting_listener_upgrade"}
  \/ ~chosen.supervision

\* _warning has a line for every state but the two in which messages are delivered.
Warns ==
  \/ RuntimeState # "running" \/ listener.failed
  \/ DeliveryState \notin {"active_hooks", "idle_wake_enabled"}
  \/ ~chosen.supervision

\* The key wake_pending is shown beside them, with the status of that wake.
ShowsWake == wake.pending

-----------------------------------------------------------------------------

\* "reachable" (and so "sent_awaiting_model" for a sender) is no empty promise: with
\* "active_hooks" a hook of the running turn offers the message, with "idle_wake_enabled"
\* the worker claims a wake or the row shows one that nobody has decided.  Of that one it
\* does not say whether its notice was refused, lost or dismissed: it may stay for good.
ReachableIsDelivered ==
  Reachable /\ chosen.supervision /\ ~listener.failed =>
    \/ DeliveryState = "active_hooks" /\ HooksDeliver
    \/ DeliveryState = "idle_wake_enabled" /\ (WorkerWakes \/ ShowsWake)

\* A message that nothing delivers now has a warning beside it, or the undecided wake it
\* waits behind; and without a warning only wakes wait, never the hooks of a turn.
NoSilentBlock ==
  ~Delivered => Warns \/ (ShowsWake /\ DeliveryState = "idle_wake_enabled")
=============================================================================
