-------------------------- MODULE InboxWindowProofs --------------------------
(***************************************************************************)
(* The allowances of Inbox: deliveries, wakes and renewals; its record of  *)
(* idle wakes; and that an idle session is woken.  For every choice of its *)
(* constants.                                                              *)
(***************************************************************************)
EXTENDS InboxProofs

(***************************************************************************)
(* Conservation.  A window is numeric as a whole or not at all; without    *)
(* that, sums over it would mean nothing.                                  *)
(***************************************************************************)
AllNumeric ==
  limit # Unlimited => limit \in Nat /\ remaining \in Nat /\ wakeRemaining \in Nat

WindowInv == TypeInv /\ AllNumeric /\ WindowConserved /\ WakesConserved

LEMMA WindowInit == Init => WindowInv
BY TypeInit, InboxAssumption
   DEF Init, WindowInv, AllNumeric, WindowConserved, WakesConserved, Allowance

LEMMA WindowFrame ==
  ASSUME WindowInv, UNCHANGED <<remaining, wakeRemaining, limit, spent, woken>>
  PROVE  (AllNumeric /\ WindowConserved /\ WakesConserved)'
BY DEF WindowInv, AllNumeric, WindowConserved, WakesConserved

LEMMA WindowWorker ==
  ASSUME WindowInv, Worker
  PROVE  (AllNumeric /\ WindowConserved /\ WakesConserved)'
<1> USE DEF AllNumeric, WindowConserved, WakesConserved
<1>0. /\ AllNumeric /\ WindowConserved /\ WakesConserved
      /\ spent \in Nat /\ woken \in Nat
      /\ remaining \in Allowance /\ wakeRemaining \in Allowance
  BY DEF WindowInv, TypeInv, TypeOK, HistoryTypes, WindowTypes
<1>1. CASE Claim
  <2>1. /\ remaining' = Spend(remaining) /\ remaining # 0 /\ spent' = spent + 1
        /\ UNCHANGED <<wakeRemaining, limit, woken>>
    BY <1>1 DEF Claim, Claimable, Available
  <2>2. limit # Unlimited => remaining' \in Nat /\ remaining' = remaining - 1
    BY <1>0, <2>1, UnlimitedAssumption DEF Spend, SpendAll
  <2> QED
    BY <1>0, <2>1, <2>2
<1>2. ASSUME NEW m \in Msgs, WakeClaim(m)
      PROVE  (AllNumeric /\ WindowConserved /\ WakesConserved)'
  <2>1. /\ wakeRemaining' = Spend(wakeRemaining) /\ wakeRemaining # 0
        /\ limit # Unlimited => woken' = woken + 1
        /\ UNCHANGED <<remaining, limit, spent>>
    BY <1>2 DEF WakeClaim, MayWake, Available
  <2>2. limit # Unlimited => wakeRemaining' \in Nat /\ wakeRemaining' = wakeRemaining - 1
    BY <1>0, <2>1, UnlimitedAssumption DEF Spend, SpendAll
  <2> QED
    BY <1>0, <2>1, <2>2
<1>3. ASSUME UNCHANGED <<window, history>>
      PROVE  (AllNumeric /\ WindowConserved /\ WakesConserved)'
  BY <1>3, WindowFrame DEF window, history
<1>4. ASSUME NEW ended \in {"idle", "interrupted"}, Reconcile(ended)
      PROVE  (AllNumeric /\ WindowConserved /\ WakesConserved)'
  BY <1>3, <1>4 DEF Reconcile
<1>5. ASSUME NEW m \in Msgs, DispatchQueue(m)
      PROVE  (AllNumeric /\ WindowConserved /\ WakesConserved)'
  BY <1>3, <1>5 DEF DispatchQueue
<1>6. ASSUME NEW s \in {"queued", "queue_failed", "queue_uncertain"}, QueueResult(s)
      PROVE  (AllNumeric /\ WindowConserved /\ WakesConserved)'
  BY <1>3, <1>6 DEF QueueResult
<1>7. ASSUME NEW outcome \in Outcomes, WakeResult(outcome)
      PROVE  (AllNumeric /\ WindowConserved /\ WakesConserved)'
  BY <1>3, <1>7 DEF WakeResult
<1>8. CASE \/ Tick \/ DispatchNothing \/ DispatchWake \/ Hold \/ ClaimNothing
           \/ WakeNothing \/ WakeWriting \/ WakeCall
  BY <1>3, <1>8 DEF Tick, DispatchNothing, DispatchWake, Hold, ClaimNothing, WakeNothing,
                    WakeWriting, WakeCall
<1> QED
  BY <1>1, <1>2, <1>4, <1>5, <1>6, <1>7, <1>8 DEF Worker

LEMMA WindowListener ==
  ASSUME WindowInv, Listener
  PROVE  (AllNumeric /\ WindowConserved /\ WakesConserved)'
<1>1. ASSUME NEW m \in Msgs, Accept(m)
      PROVE  UNCHANGED <<remaining, wakeRemaining, limit, spent, woken>>
  BY <1>1 DEF Accept, window, history
<1>2. CASE Crash \/ Restart \/ Rebind
  BY <1>2, WindowFrame DEF Crash, Restart, Rebind, window, history
<1> QED
  BY <1>1, <1>2, WindowFrame DEF Listener

LEMMA WindowHook ==
  ASSUME WindowInv, NEW h \in Hooks, Hook(h)
  PROVE  (AllNumeric /\ WindowConserved /\ WakesConserved)'
<1> USE DEF AllNumeric, WindowConserved, WakesConserved
<1>0. /\ AllNumeric /\ WindowConserved /\ WakesConserved
      /\ spent \in Nat /\ woken \in Nat
      /\ limit \in Allowance /\ remaining \in Allowance
  BY DEF WindowInv, TypeInv, TypeOK, HistoryTypes, WindowTypes
<1>1. CASE RenewForOwnerPrompt(h)
  <2>1. CASE Renewable
    BY <1>0, <1>1, <2>1 DEF RenewForOwnerPrompt, Renewable
  <2>2. CASE ~Renewable
    BY <1>1, <2>2, WindowFrame DEF RenewForOwnerPrompt
  <2> QED
    BY <2>1, <2>2
<1>2. ASSUME NEW taken \in SUBSET Batch, Drain(h, taken)
      PROVE  (AllNumeric /\ WindowConserved /\ WakesConserved)'
  <2> DEFINE offered == taken \ {k \in Batch : Guarded(k, hcfg[h])}
             n == Cardinality(offered)
  <2>1. n \in Nat
    BY CardMsgs DEF Batch, Received
  <2>2. /\ remaining' = SpendAll(remaining, n) /\ spent' = spent + n
        /\ UNCHANGED <<wakeRemaining, limit, woken>>
        /\ remaining # Unlimited => n <= remaining
    BY <1>2 DEF Drain, Drains
  <2> HIDE DEF n
  <2>3. limit # Unlimited => remaining' \in Nat /\ remaining' = remaining - n
    BY <1>0, <2>1, <2>2, UnlimitedAssumption DEF SpendAll
  <2> QED
    BY <1>0, <2>1, <2>2, <2>3
<1>3. ASSUME NEW notice \in 0..MaxMsg, ExternalHook(h, notice)
      PROVE  (AllNumeric /\ WindowConserved /\ WakesConserved)'
  BY <1>3, WindowFrame DEF ExternalHook, FromQueue, StartHook, window
<1>4. CASE BoundaryHook(h) \/ ToolHook(h) \/ OwnerHook(h)
  BY <1>4, WindowFrame DEF BoundaryHook, ToolHook, OwnerHook, StartHook, window
<1>5. CASE HookPhase(h) \/ ActiveHook(h) \/ DrainNothing(h) \/ HookAbort(h)
  BY <1>5, WindowFrame DEF HookPhase, ActiveHook, DrainNothing, HookAbort, window, history
<1> QED
  BY <1>1, <1>2, <1>3, <1>4, <1>5 DEF Hook

LEMMA WindowCaller ==
  ASSUME WindowInv, Caller
  PROVE  (AllNumeric /\ WindowConserved /\ WakesConserved)'
<1>1. ASSUME NEW new \in Modes, NEW size \in Limits, SetWindow(new, size)
      PROVE  (AllNumeric /\ WindowConserved /\ WakesConserved)'
  BY <1>1, InboxAssumption
     DEF SetWindow, AllNumeric, WindowConserved, WakesConserved, Allowance
<1>2. ASSUME NEW new \in Modes, SetMode(new)
      PROVE  (AllNumeric /\ WindowConserved /\ WakesConserved)'
  BY <1>2, WindowFrame DEF SetMode, history
<1>3. ASSUME NEW peer \in {Late, Msgs \ Late}, AckFrom(peer)
      PROVE  (AllNumeric /\ WindowConserved /\ WakesConserved)'
  BY <1>3, WindowFrame DEF AckFrom, window, history
<1>4. ASSUME NEW m \in Msgs, AckId(m)
      PROVE  (AllNumeric /\ WindowConserved /\ WakesConserved)'
  BY <1>4, WindowFrame DEF AckId, window, history
<1>5. CASE ReadSelect \/ ReadAck \/ Enroll
  BY <1>5, WindowFrame DEF ReadSelect, ReadAck, Enroll, window, history
<1> QED
  BY <1>1, <1>2, <1>3, <1>4, <1>5 DEF Caller

LEMMA WindowStep == WindowInv /\ [Next]_vars => WindowInv'
<1> SUFFICES ASSUME WindowInv, [Next]_vars
             PROVE  WindowInv'
  OBVIOUS
<1>1. TypeInv'
  BY TypeStep DEF WindowInv
<1>2. CASE UNCHANGED vars
  BY <1>1, <1>2, WindowFrame DEF vars, window, history, WindowInv
<1> QED
  BY <1>1, <1>2, WindowWorker, WindowListener, WindowHook, WindowCaller DEF Next, WindowInv

\* The deliveries of a window and what is left of it add up to its size, in every
\* interleaving of hooks, worker, renewals and window changes (deliver, dispatch,
\* renew_for_owner_prompt, configure_delivery).
THEOREM WindowAddsUp == Spec => []WindowConserved
<1>1. WindowInv => WindowConserved
  BY DEF WindowInv
<1> QED
  BY WindowInit, WindowStep, <1>1, PTL DEF Spec

\* The same for the wakes of a window (wake_idle).
THEOREM WakesAddUp == Spec => []WakesConserved
<1>1. WindowInv => WakesConserved
  BY DEF WindowInv
<1> QED
  BY WindowInit, WindowStep, <1>1, PTL DEF Spec

(***************************************************************************)
(* Renewal.  Renewals are counted against the owner turns up to the one    *)
(* that renewed last.  A hook that is about to renew belongs to a turn the *)
(* owner wrote in, and that turn is still the current one, because Codex   *)
(* starts no other while it waits for that hook.                           *)
(***************************************************************************)
Counted == {t \in ownerTurns : t <= ownerTurn}

RenewInv ==
  /\ TypeInv
  /\ renewals <= Cardinality(Counted)
  /\ ownerTurn <= turn
  /\ \A h \in Hooks : hpc[h] = "renew" => hevent[h] = "owner" /\ turn \in ownerTurns

LEMMA TurnsFinite ==
  ASSUME NEW S, S \subseteq 1..MaxTurn
  PROVE  IsFiniteSet(S) /\ Cardinality(S) \in Nat
<1>1. IsFiniteSet(1..MaxTurn)
  BY Bounds, FS_Interval
<1> QED
  BY <1>1, FS_Subset, FS_CardinalityType

LEMMA CountedGrows ==
  ASSUME TypeInv, TypeInv', ownerTurns \subseteq ownerTurns', ownerTurn <= ownerTurn'
  PROVE  Cardinality(Counted) <= Cardinality(Counted')
<1>0. /\ ownerTurns \subseteq 1..MaxTurn
      /\ ownerTurn \in 0..MaxTurn /\ ownerTurn' \in 0..MaxTurn
  BY DEF TypeInv, TypeOK, WindowTypes, HistoryTypes
<1>1. \A t \in Counted : t \in ownerTurns' /\ t <= ownerTurn'
  <2> SUFFICES ASSUME NEW t \in Counted PROVE t \in ownerTurns' /\ t <= ownerTurn'
    OBVIOUS
  <2>1. t \in ownerTurns /\ t <= ownerTurn /\ t \in 1..MaxTurn
    BY <1>0 DEF Counted
  <2> QED
    BY <1>0, <2>1
<1>2. IsFiniteSet(Counted')
  BY TurnsFinite DEF Counted, TypeInv, TypeOK, HistoryTypes
<1>3. Counted \subseteq Counted'
  BY <1>1 DEF Counted
<1> QED
  BY <1>2, <1>3, FS_Subset

LEMMA RenewInit == Init => RenewInv
<1> SUFFICES ASSUME Init PROVE RenewInv
  OBVIOUS
<1>1. Cardinality(Counted) = 0
  <2>1. Counted = {}
    BY DEF Counted, Init
  <2> QED
    BY <2>1, FS_EmptySet
<1> QED
  BY <1>1, TypeInit DEF Init, RenewInv

\* Steps that leave renewals, turns and the hooks on their way to a renewal alone.
LEMMA RenewFrame ==
  ASSUME RenewInv, TypeInv',
         UNCHANGED <<ownerTurn, turn, ownerTurns, renewals>>,
         \A h \in Hooks : hpc'[h] = "renew" => hpc[h] = "renew" /\ hevent'[h] = hevent[h]
  PROVE  RenewInv'
BY DEF RenewInv, Counted

LEMMA RenewHook ==
  ASSUME RenewInv, TypeInv', NEW h \in Hooks, Hook(h)
  PROVE  RenewInv'
<1>0. /\ TypeInv
      /\ hpc \in [Hooks -> Steps] /\ hevent \in [Hooks -> Events]
      /\ renewals \in Nat /\ turn \in 0..MaxTurn /\ ownerTurn \in 0..MaxTurn
      /\ ownerTurns \subseteq 1..MaxTurn
  BY DEF RenewInv, TypeInv, TypeOK, HookTypes, HistoryTypes, WindowTypes, CodexTypes
<1>card. Cardinality(Counted) \in Nat /\ Cardinality(Counted') \in Nat
  BY <1>0, TurnsFinite DEF Counted, TypeInv, TypeOK, HistoryTypes
<1>1. CASE OwnerHook(h)
  <2>1. /\ UNCHANGED <<ownerTurn, renewals>>
        /\ ownerTurns' = ownerTurns \cup {turn'}
        /\ turn' = turn \/ (PromptHooks = {} /\ turn' = turn + 1)
        /\ hpc' = [hpc EXCEPT ![h] = "renew"] /\ hevent' = [hevent EXCEPT ![h] = "owner"]
    BY <1>1 DEF OwnerHook, StartHook, window
  <2>2. renewals' <= Cardinality(Counted')
    BY <1>0, <1>card, <2>1, CountedGrows DEF RenewInv
  <2>3. ownerTurn' <= turn'
    BY <1>0, <2>1 DEF RenewInv
  <2>4. \A k \in Hooks : hpc'[k] = "renew" => hevent'[k] = "owner" /\ turn' \in ownerTurns'
    BY <1>0, <2>1 DEF RenewInv
  <2> QED
    BY <2>2, <2>3, <2>4 DEF RenewInv
<1>2. ASSUME NEW notice \in 0..MaxMsg, ExternalHook(h, notice)
      PROVE  RenewInv'
  <2>1. /\ UNCHANGED <<ownerTurn, renewals, ownerTurns>>
        /\ PromptHooks = {}
        /\ turn' \in {turn, turn + 1}
        /\ hpc' = [hpc EXCEPT ![h] = "phase"]
    BY <1>2 DEF ExternalHook, FromQueue, StartHook, window
  <2>2. \A k \in Hooks : hpc[k] # "renew"
    BY <2>1 DEF PromptHooks, RenewInv
  <2>3. \A k \in Hooks : hpc'[k] # "renew"
    BY <1>0, <2>1, <2>2
  <2> QED
    BY <1>0, <2>1, <2>3 DEF RenewInv, Counted
<1>3. CASE RenewForOwnerPrompt(h)
  <2>1. /\ hpc[h] = "renew" /\ turn \in ownerTurns
        /\ hpc' = [hpc EXCEPT ![h] = "phase"]
        /\ UNCHANGED <<hevent, turn, ownerTurns>>
    BY <1>3 DEF RenewForOwnerPrompt, Goto, codex, RenewInv
  <2>2. CASE Renewable
    <3>1. ownerTurn' = turn /\ renewals' = renewals + 1 /\ ownerTurn < turn
      BY <1>0, <1>3, <2>2 DEF RenewForOwnerPrompt, Renewable, RenewInv
    <3>2. Counted \cup {turn} \subseteq Counted' /\ turn \notin Counted
      <4>1. \A t \in ownerTurns : t <= ownerTurn => t <= turn
        BY <1>0, <3>1
      <4>2. ~(turn <= ownerTurn) /\ turn <= turn
        BY <1>0, <3>1
      <4> QED
        BY <2>1, <3>1, <4>1, <4>2 DEF Counted
    <3>3. IsFiniteSet(Counted) /\ IsFiniteSet(Counted')
      BY <1>0, <2>1, TurnsFinite DEF Counted
    <3>4. Cardinality(Counted \cup {turn}) = Cardinality(Counted) + 1
      BY <3>2, <3>3, FS_AddElement
    <3>5. Cardinality(Counted \cup {turn}) <= Cardinality(Counted')
      BY <3>2, <3>3, FS_Subset
    <3>6. renewals' <= Cardinality(Counted')
      BY <1>0, <1>card, <3>1, <3>4, <3>5 DEF RenewInv
    <3> QED
      BY <1>0, <2>1, <3>1, <3>6 DEF RenewInv
  <2>3. CASE ~Renewable
    BY <1>0, <1>3, <2>1, <2>3, RenewFrame DEF RenewForOwnerPrompt
  <2> QED
    BY <2>2, <2>3
<1>4. CASE BoundaryHook(h) \/ ToolHook(h)
  <2>1. /\ UNCHANGED <<ownerTurn, turn, ownerTurns, renewals>>
        /\ hpc' = [hpc EXCEPT ![h] = "phase"] /\ hpc[h] = "none"
        /\ \E event : hevent' = [hevent EXCEPT ![h] = event]
    BY <1>4 DEF BoundaryHook, ToolHook, StartHook, window, codex
  <2> QED
    BY <1>0, <2>1, RenewFrame
<1>5. ASSUME Goto(h, "decide") \/ Goto(h, "drain") \/ HookDone(h)
      PROVE  \A k \in Hooks : hpc'[k] = "renew" => hpc[k] = "renew" /\ hevent'[k] = hevent[k]
  BY <1>0, <1>5 DEF Goto, HookDone
<1>6. CASE HookPhase(h) \/ ActiveHook(h) \/ DrainNothing(h) \/ HookAbort(h)
  BY <1>5, <1>6, RenewFrame
     DEF HookPhase, ActiveHook, DrainNothing, HookAbort, window, codex, history
<1>7. ASSUME NEW taken \in SUBSET Batch, Drain(h, taken)
      PROVE  RenewInv'
  BY <1>5, <1>7, RenewFrame DEF Drain, codex
<1> QED
  BY <1>1, <1>2, <1>3, <1>4, <1>6, <1>7 DEF Hook

LEMMA RenewOthers ==
  ASSUME RenewInv, TypeInv', Worker \/ Listener \/ Caller
  PROVE  RenewInv'
<1>1. UNCHANGED hook
  BY DEF Worker, Listener, Caller, Tick, Reconcile, DispatchNothing, DispatchWake,
         DispatchQueue, Hold, Claim, ClaimNothing, QueueResult, WakeClaim, WakeNothing,
         WakeWriting, WakeCall, WakeResult, Accept, Crash, Restart, Rebind, ReadSelect,
         ReadAck, AckFrom, AckId, SetMode, SetWindow, Enroll
<1>2. UNCHANGED <<ownerTurn, turn, ownerTurns, renewals>>
  BY DEF Worker, Listener, Caller, Tick, Reconcile, DispatchNothing, DispatchWake,
         DispatchQueue, Hold, Claim, ClaimNothing, QueueResult, WakeClaim, WakeNothing,
         WakeWriting, WakeCall, WakeResult, Accept, Crash, Restart, Rebind, ReadSelect,
         ReadAck, AckFrom, AckId, SetMode, SetWindow, Enroll, window, codex, history
<1> QED
  BY <1>1, <1>2, RenewFrame DEF hook

LEMMA RenewStep == RenewInv /\ [Next]_vars => RenewInv'
<1> SUFFICES ASSUME RenewInv, [Next]_vars
             PROVE  RenewInv'
  OBVIOUS
<1>1. TypeInv'
  BY TypeStep DEF RenewInv
<1>2. CASE UNCHANGED vars
  BY <1>1, <1>2, RenewFrame DEF vars, window, codex, history, hook
<1> QED
  BY <1>1, <1>2, RenewHook, RenewOthers DEF Next

\* A window is renewed at most once for a turn of the owner (renew_for_owner_prompt).
THEOREM OneRenewalPerTurn == Spec => []RenewedOncePerTurn
<1>1. RenewInv => RenewedOncePerTurn
  <2> SUFFICES ASSUME RenewInv PROVE RenewedOncePerTurn
    OBVIOUS
  <2>1. ownerTurns \subseteq 1..MaxTurn /\ renewals \in Nat
    BY DEF RenewInv, TypeInv, TypeOK, HistoryTypes
  <2>2. IsFiniteSet(ownerTurns) /\ Cardinality(ownerTurns) \in Nat
    BY <2>1, TurnsFinite
  <2>3. Cardinality(Counted) <= Cardinality(ownerTurns) /\ Cardinality(Counted) \in Nat
    BY <2>1, <2>2, FS_Subset, TurnsFinite DEF Counted
  <2> QED
    BY <2>1, <2>2, <2>3 DEF RenewInv, RenewedOncePerTurn
<1> QED
  BY RenewInit, RenewStep, <1>1, PTL DEF Spec

-----------------------------------------------------------------------------
(***************************************************************************)
(* The monotonic rule of _record                                           *)
(***************************************************************************)
KeepsDecision(w, w1) ==
  w.last.state \in Decided /\ w1.last.id = w.last.id => w1.last.state = w.last.state

LEMMA RecordKeepsDecision ==
  ASSUME NEW w \in WakeRecords(Msgs), NEW id \in Msgs, NEW state \in Undecided \cup Decided
  PROVE  KeepsDecision(w, Record(w, id, state))
<1> SUFFICES ASSUME w.last.state \in Decided, Record(w, id, state).last.id = w.last.id
             PROVE  Record(w, id, state).last.state = w.last.state
  BY DEF KeepsDecision
<1>1. CASE Refused(w, id, state)
  BY <1>1 DEF Record
<1>2. CASE ~Refused(w, id, state)
  <2>1. w.last.id = id
    BY <1>2 DEF Record, Wake
  <2>2. Rank(w.last.state) = 3
    BY DEF Rank, Decided, Outcomes
  <2>3. CASE state \in Decided
    BY <1>2, <2>1, <2>3 DEF Refused
  <2>4. CASE state \in Undecided
    <3>1. Rank(state) \in {1, 2}
      <4>1. state = "writing" => Rank(state) = 1
        BY DEF Rank, Outcomes, Decided
      <4>2. state \in Outcomes => Rank(state) = 2
        BY DEF Rank, Outcomes, Decided
      <4>3. state = "writing" \/ state \in Outcomes
        BY <2>4 DEF Undecided, Outcomes
      <4> QED
        BY <4>1, <4>2, <4>3
    <3> QED
      BY <1>2, <2>1, <2>2, <3>1 DEF Refused
  <2> QED
    BY <2>3, <2>4
<1> QED
  BY <1>1, <1>2

LEMMA RecordOutcomeKeepsDecision ==
  ASSUME NEW w \in WakeRecords(Msgs), NEW id \in Msgs, NEW outcome \in Outcomes
  PROVE  KeepsDecision(w, RecordOutcome(w, id, outcome))
<1>1. outcome \in Undecided \cup Decided /\ "cancelled" \in Undecided \cup Decided
  BY DEF Outcomes, Undecided, Decided
<1>2. KeepsDecision(w, w)
  BY DEF KeepsDecision
<1> QED
  BY <1>1, <1>2, RecordKeepsDecision DEF RecordOutcome

LEMMA DecideKeepsDecision ==
  ASSUME NEW w \in WakeRecords(Msgs), NEW notice
  PROVE  KeepsDecision(w, Decide(w, notice))
<1>1. Decision(w.pending, notice) \in Undecided \cup Decided
  BY DEF Decision, Decided
<1>2. w.pending # NoWake => w.pending.id \in Msgs
  BY DEF WakeRecords, Wakes
<1>3. KeepsDecision(w, w)
  BY DEF KeepsDecision
<1> QED
  BY <1>1, <1>2, <1>3, RecordKeepsDecision DEF Decide

LEMMA MarkerKeepsDecision ==
  ASSUME NEW w \in WakeRecords(Msgs), NEW p
  PROVE  KeepsDecision(w, [w EXCEPT !.pending = p])
<1>1. [w EXCEPT !.pending = p].last = w.last
  BY DEF WakeRecords
<1> QED
  BY <1>1 DEF KeepsDecision

\* Every step keeps a decided wake as it is, or records another one.
LEMMA WakeStepKeepsDecision ==
  ASSUME TypeInv, Next
  PROVE  KeepsDecision(wake, wake')
<1>0. wake \in WakeRecords(Msgs) /\ WorkerHasMessage
  BY DEF TypeInv, TypeOK, StoreTypes
<1>1. UNCHANGED wake => KeepsDecision(wake, wake')
  BY DEF KeepsDecision
<1>2. ASSUME NEW S, Acknowledge(S)
      PROVE  KeepsDecision(wake, wake')
  BY <1>0, <1>1, <1>2, MarkerKeepsDecision DEF Acknowledge, ClearConsumed
<1>3. CASE Worker
  <2>1. ASSUME NEW m \in Msgs, WakeClaim(m)
        PROVE  KeepsDecision(wake, wake')
    BY <1>0, <2>1, MarkerKeepsDecision DEF WakeClaim
  <2>2. CASE WakeWriting
    <3>1. wmsg \in Msgs /\ "writing" \in Undecided
      BY <1>0, <2>2 DEF WakeWriting, WorkerHasMessage, Holding, Undecided
    <3> QED
      BY <1>0, <2>2, <3>1, RecordKeepsDecision DEF WakeWriting, RecordWriting
  <2>3. ASSUME NEW outcome \in Outcomes, WakeResult(outcome)
        PROVE  KeepsDecision(wake, wake')
    BY <1>0, <2>3, RecordOutcomeKeepsDecision DEF WakeResult, WorkerHasMessage, Holding
  <2> QED
    BY <1>1, <1>3, <2>1, <2>2, <2>3
       DEF Worker, Tick, Reconcile, DispatchNothing, DispatchWake, DispatchQueue, Hold,
           Claim, ClaimNothing, QueueResult, WakeNothing, WakeCall
<1>4. CASE Listener
  BY <1>0, <1>1, <1>4, MarkerKeepsDecision DEF Listener, Accept, Crash, Restart, Rebind
<1>5. ASSUME NEW h \in Hooks, Hook(h)
      PROVE  KeepsDecision(wake, wake')
  <2>1. CASE ActiveHook(h)
    BY <1>0, <2>1, DecideKeepsDecision DEF ActiveHook
  <2> QED
    BY <1>1, <1>5, <2>1
       DEF Hook, BoundaryHook, ToolHook, OwnerHook, ExternalHook, FromQueue, StartHook,
           RenewForOwnerPrompt, HookPhase, Drain, DrainNothing, HookAbort
<1>6. CASE Caller
  BY <1>1, <1>2, <1>6
     DEF Caller, ReadSelect, ReadAck, AckFrom, AckId, SetMode, SetWindow, Enroll
<1> QED
  BY <1>3, <1>4, <1>5, <1>6 DEF Next

\* A late completion of the producer, or another hook, never changes what is recorded
\* of a decided wake (_record, record_wake, active_hook).
THEOREM DecisionFinal == Spec => DecidedIsFinal
<1>1. TypeInv /\ [Next]_vars =>
        [wake.last.state \in Decided /\ wake'.last.id = wake.last.id =>
           wake'.last.state = wake.last.state]_vars
  BY WakeStepKeepsDecision DEF KeepsDecision
<1> QED
  BY TypeInit, TypeStep, <1>1, PTL DEF Spec, DecidedIsFinal

(***************************************************************************)
(* Whose completion it is.  From its claim to its result the worker's wake *)
(* is the only one that can be pending, so no hook can make another wake   *)
(* the last one; once the claim is recorded it is the last one itself.     *)
(***************************************************************************)
MarkerIsMine ==
  wpc \in {"writing", "calling", "result"} =>
    wake.pending = NoWake \/ wake.pending.id = wmsg

LastIsMine == wpc \in {"calling", "result"} => wake.last.id = wmsg

CompletionInv == TypeInv /\ MarkerIsMine /\ LastIsMine

LEMMA CompletionInit == Init => CompletionInv
BY TypeInit DEF Init, CompletionInv, MarkerIsMine, LastIsMine

\* What everybody but the worker may do to the wake record.
LEMMA OthersKeepMine ==
  ASSUME CompletionInv, UNCHANGED worker,
         wake'.pending \in {wake.pending, NoWake},
         wake'.last.id = wake.last.id
           \/ (wake.pending # NoWake /\ wake'.last.id = wake.pending.id)
  PROVE  MarkerIsMine' /\ LastIsMine'
BY DEF CompletionInv, MarkerIsMine, LastIsMine, worker

LEMMA DecideMoves ==
  ASSUME NEW w \in WakeRecords(Msgs), NEW notice
  PROVE  /\ Decide(w, notice).pending \in {w.pending, NoWake}
         /\ \/ Decide(w, notice).last.id = w.last.id
            \/ w.pending # NoWake /\ Decide(w, notice).last.id = w.pending.id
<1>1. Decision(w.pending, notice) \notin Undecided
  BY DEF Decision, Undecided
<1> QED
  BY <1>1 DEF Decide, Record, Wake

LEMMA MarkerGone ==
  ASSUME NEW w \in WakeRecords(Msgs)
  PROVE  /\ [w EXCEPT !.pending = NoWake].pending = NoWake
         /\ [w EXCEPT !.pending = NoWake].last = w.last
BY DEF WakeRecords

LEMMA CompletionOthers ==
  ASSUME CompletionInv, Caller \/ (\E h \in Hooks : Hook(h))
  PROVE  MarkerIsMine' /\ LastIsMine'
<1>0. wake \in WakeRecords(Msgs)
  BY DEF CompletionInv, TypeInv, TypeOK, StoreTypes
<1>1. ASSUME UNCHANGED <<wake, worker>>
      PROVE  MarkerIsMine' /\ LastIsMine'
  BY <1>1, OthersKeepMine
<1>2. ASSUME NEW S, Acknowledge(S), UNCHANGED worker
      PROVE  MarkerIsMine' /\ LastIsMine'
  BY <1>0, <1>2, MarkerGone, OthersKeepMine DEF Acknowledge, ClearConsumed
<1>3. CASE Caller
  BY <1>1, <1>2, <1>3
     DEF Caller, ReadSelect, ReadAck, AckFrom, AckId, SetMode, SetWindow, Enroll
<1>4. ASSUME NEW h \in Hooks, Hook(h)
      PROVE  MarkerIsMine' /\ LastIsMine'
  <2>1. CASE ActiveHook(h)
    BY <1>0, <2>1, DecideMoves, OthersKeepMine DEF ActiveHook
  <2> QED
    BY <1>1, <1>4, <2>1
       DEF Hook, BoundaryHook, ToolHook, OwnerHook, ExternalHook, FromQueue, StartHook,
           RenewForOwnerPrompt, HookPhase, Drain, DrainNothing, HookAbort
<1> QED
  BY <1>3, <1>4

LEMMA CompletionWorker ==
  ASSUME CompletionInv, Worker
  PROVE  MarkerIsMine' /\ LastIsMine'
<1> USE DEF MarkerIsMine, LastIsMine, WorkerGoto, WorkerDone
<1>0. wake \in WakeRecords(Msgs) /\ MarkerIsMine /\ LastIsMine
  BY DEF CompletionInv, TypeInv, TypeOK, StoreTypes
<1>1. ASSUME NEW m \in Msgs, WakeClaim(m)
      PROVE  MarkerIsMine' /\ LastIsMine'
  <2>1. wake'.pending = Wake(m, "writing")
    BY <1>0, <1>1 DEF WakeClaim, WakeRecords
  <2> QED
    BY <1>1, <2>1 DEF WakeClaim, Wake
<1>2. CASE WakeWriting
  <2>1. wake' = Record(wake, wmsg, "writing")
    BY <1>2 DEF WakeWriting, RecordWriting
  <2>2. wake'.last.id = wmsg /\ (wake'.pending = wake.pending \/ wake'.pending.id = wmsg)
    BY <2>1 DEF Record, Refused, Wake, Undecided
  <2> QED
    BY <1>0, <1>2, <2>2 DEF WakeWriting
<1>3. CASE WakeCall
  BY <1>0, <1>3 DEF WakeCall
<1>4. ASSUME \/ Tick \/ DispatchNothing \/ DispatchWake \/ Hold \/ Claim \/ ClaimNothing
             \/ WakeNothing
             \/ \E ended \in {"idle", "interrupted"} : Reconcile(ended)
             \/ \E m \in Msgs : DispatchQueue(m)
             \/ \E s \in {"queued", "queue_failed", "queue_uncertain"} : QueueResult(s)
             \/ \E outcome \in Outcomes : WakeResult(outcome)
      PROVE  wpc' \notin {"writing", "calling", "result"}
  BY <1>4 DEF Tick, DispatchNothing, DispatchWake, Hold, Claim, ClaimNothing, WakeNothing,
              Reconcile, DispatchQueue, QueueResult, WakeResult
<1> QED
  BY <1>1, <1>2, <1>3, <1>4 DEF Worker

LEMMA CompletionListener ==
  ASSUME CompletionInv, Listener
  PROVE  MarkerIsMine' /\ LastIsMine'
<1>1. CASE Crash \/ Restart
  BY <1>1 DEF Crash, Restart, WorkerDone, WorkerGoto, MarkerIsMine, LastIsMine
<1>2. ASSUME NEW m \in Msgs, Accept(m)
      PROVE  MarkerIsMine' /\ LastIsMine'
  BY <1>2, OthersKeepMine DEF Accept
<1>3. CASE Rebind
  BY <1>3, MarkerGone, OthersKeepMine DEF Rebind, CompletionInv, TypeInv, TypeOK, StoreTypes
<1> QED
  BY <1>1, <1>2, <1>3 DEF Listener

LEMMA CompletionStep == CompletionInv /\ [Next]_vars => CompletionInv'
<1> SUFFICES ASSUME CompletionInv, [Next]_vars
             PROVE  CompletionInv'
  OBVIOUS
<1>1. TypeInv'
  BY TypeStep DEF CompletionInv
<1>2. CASE UNCHANGED vars
  BY <1>1, <1>2, OthersKeepMine DEF vars, CompletionInv
<1> QED
  BY <1>1, <1>2, CompletionWorker, CompletionListener, CompletionOthers
     DEF Next, CompletionInv

\* A queue call that returns is recorded against its own wake (wake_idle, record_wake).
THEOREM OwnCompletion == Spec => []CompletionIsCurrent
<1>1. CompletionInv => CompletionIsCurrent
  BY DEF CompletionInv, LastIsMine, CompletionIsCurrent
<1> QED
  BY CompletionInit, CompletionStep, <1>1, PTL DEF Spec
-----------------------------------------------------------------------------
(* An idle session is woken.  As long as a message waits and a wake may be claimed, the   *)
(* worker finishes what it is at, a wake of another message that has lost its marker      *)
(* included, and comes round to claim: nothing on its way sends it back.                  *)

Wanted(m) == status[m] = "received" /\ mode = "auto" /\ MayWake

Finishing == {"result", "hold", "claim", "queue"}

\* The way of the worker, without the step that ends the wait.
LEMMA WakeNears ==
  ASSUME NEW m \in Msgs \ (HopLimited \cup Late), TypeInv,
         Wanted(m), Wanted(m)', [Next]_vars, [~Crash]_vars
  PROVE  /\ wpc = "writing" => (wpc' = "writing" /\ ~<<Worker>>_vars) \/ wpc' = "calling"
         /\ wpc = "calling" => (wpc' = "calling" /\ ~<<Worker>>_vars) \/ wpc' = "result"
         /\ wpc \in Finishing => (wpc' = wpc /\ ~<<Worker>>_vars) \/ wpc' = "idle"
         /\ wpc = "idle" => (wpc' = "idle" /\ ~<<Worker>>_vars) \/ wpc' = "ticked"
         /\ wpc = "ticked" => (wpc' = "ticked" /\ ~<<Worker>>_vars) \/ wpc' \in {"dispatch", "wake"}
         /\ wpc = "dispatch" => (wpc' = "dispatch" /\ ~<<Worker>>_vars) \/ wpc' = "wake"
         /\ wpc = "wake" => wpc' = "wake" /\ ~<<Worker>>_vars
         /\ wpc = "down" => (wpc' = "down" /\ ~<<Restart>>_vars) \/ wpc' = "idle"
<1>0. /\ mode = "auto" /\ mode' = "auto" /\ MayWake /\ MayWake'
      /\ phase = "idle" /\ phase' = "idle" /\ wake'.pending = NoWake
  BY DEF Wanted, MayWake
<1>1. CASE Worker
  <2> USE DEF Finishing
  <2>1. CASE Tick
    BY <2>1 DEF Tick, WorkerGoto, Restart
  <2>2. CASE \E ended \in {"idle", "interrupted"} : Reconcile(ended)
    BY <2>2 DEF Reconcile, WorkerGoto, Restart
  <2>3. CASE DispatchNothing
    BY <1>0, <2>3 DEF DispatchNothing
  <2>4. CASE DispatchWake
    BY <2>4 DEF DispatchWake, Dispatching, WorkerGoto, Restart
  <2>5. CASE \E k \in Msgs : DispatchQueue(k)
    BY <1>0, <2>5 DEF DispatchQueue
  <2>6. CASE Hold \/ ClaimNothing \/ \E s \in {"queued", "queue_failed", "queue_uncertain"} : QueueResult(s)
    BY <2>6 DEF Hold, ClaimNothing, QueueResult, WorkerDone, WorkerGoto
  <2>7. CASE Claim
    BY <1>0, <2>7 DEF Claim, Claimable
  <2>8. ASSUME NEW k \in Msgs, WakeClaim(k) PROVE FALSE
    <3>1. wake'.pending = Wake(k, "writing")
      BY <2>8 DEF WakeClaim, TypeInv, TypeOK, StoreTypes, WakeRecords
    <3> QED
      BY <1>0, <3>1 DEF Wake, NoWake
  <2>9. CASE WakeNothing
    <3>1. m \in Wakeable
      BY DEF Wakeable, Received, Guarded, Wanted
    <3> QED
      BY <1>0, <2>9, <3>1 DEF WakeNothing
  <2>10. CASE WakeWriting \/ WakeCall
    BY <2>10 DEF WakeWriting, WakeCall, WorkerGoto
  <2>11. CASE \E outcome \in Outcomes : WakeResult(outcome)
    BY <2>11 DEF WakeResult, WorkerDone, WorkerGoto
  <2> QED
    BY <1>1, <2>1, <2>2, <2>3, <2>4, <2>5, <2>6, <2>7, <2>8, <2>9, <2>10, <2>11 DEF Worker
<1>2. CASE Restart
  BY <1>2 DEF Restart, WorkerDone, WorkerGoto, Finishing
<1>3. CASE ~Worker /\ ~Restart
  <2>1. wpc' = wpc
    <3>1. CASE Listener
      BY <1>3, <3>1 DEF Listener, Accept, Rebind, worker, vars
    <3>2. CASE \E h \in Hooks : Hook(h)
      BY <3>2 DEF Hook, BoundaryHook, ToolHook, OwnerHook, ExternalHook, FromQueue, StartHook,
         RenewForOwnerPrompt, HookPhase, ActiveHook, Drain, DrainNothing, HookAbort, worker
    <3>3. CASE Caller
      BY <3>3 DEF Caller, ReadSelect, ReadAck, AckFrom, AckId, SetMode, SetWindow, Enroll, worker
    <3>4. CASE UNCHANGED vars
      BY <3>4 DEF vars, worker
    <3> QED
      BY <1>3, <3>1, <3>2, <3>3, <3>4 DEF Next
  <2> QED
    BY <1>3, <2>1
<1> QED
  BY <1>1, <1>2, <1>3

\* A waiting message of an idle session gets a wake claimed, for any numbers of messages and
\* of hooks, whatever hooks and callers do meanwhile, if the listener does not die for ever
\* (wake_idle).  That the worker and the restart can take their steps is a hypothesis.
THEOREM IdleIsWokenByFairness ==
  /\ [](wpc # "down" => ENABLED <<Worker>>_vars)
  /\ [](wpc = "down" => ENABLED <<Restart>>_vars)
  /\ <>[][~Crash]_vars
  /\ FairSpec
  => IdleIsWoken
<1> DEFINE Hypotheses == /\ [](wpc # "down" => ENABLED <<Worker>>_vars)
                         /\ [](wpc = "down" => ENABLED <<Restart>>_vars)
                         /\ <>[][~Crash]_vars
                         /\ FairSpec
<1>1. ASSUME NEW m \in Msgs \ (HopLimited \cup Late)
      PROVE  Hypotheses => ((status[m] = "received" /\ mode = "auto" /\ MayWake)
                             ~> (status[m] # "received" \/ mode # "auto" \/ ~MayWake))
  <2> DEFINE Down == wpc = "down"
             AtWriting == wpc = "writing"
             AtCalling == wpc = "calling"
             AtFinish == wpc \in Finishing
             AtIdle == wpc = "idle"
             AtTicked == wpc = "ticked"
             AtDispatch == wpc = "dispatch"
             AtWake == wpc = "wake"
             W == Wanted(m)
             Calm == /\ [](~Down => ENABLED <<Worker>>_vars)
                     /\ [](Down => ENABLED <<Restart>>_vars)
                     /\ [][~Crash]_vars /\ [][Next]_vars /\ []TypeInv
                     /\ WF_vars(Worker) /\ WF_vars(Restart)
  <2>1. TypeInv => \/ Down \/ AtWriting \/ AtCalling \/ AtFinish \/ AtIdle \/ AtTicked
                   \/ AtDispatch \/ AtWake
    BY DEF TypeInv, TypeOK, WorkerTypes, Places, Finishing
  <2>2. AtWriting \/ AtCalling \/ AtFinish \/ AtIdle \/ AtTicked \/ AtDispatch \/ AtWake => ~Down
    BY DEF Finishing
  <2>3. TypeInv /\ W /\ W' /\ [Next]_vars /\ [~Crash]_vars =>
          /\ AtWriting => (AtWriting' /\ ~<<Worker>>_vars) \/ AtCalling'
          /\ AtCalling => (AtCalling' /\ ~<<Worker>>_vars) \/ AtFinish'
          /\ AtFinish => (AtFinish' /\ ~<<Worker>>_vars) \/ AtIdle'
          /\ AtIdle => (AtIdle' /\ ~<<Worker>>_vars) \/ AtTicked'
          /\ AtTicked => (AtTicked' /\ ~<<Worker>>_vars) \/ AtDispatch' \/ AtWake'
          /\ AtDispatch => (AtDispatch' /\ ~<<Worker>>_vars) \/ AtWake'
          /\ AtWake => AtWake' /\ ~<<Worker>>_vars
          /\ Down => (Down' /\ ~<<Restart>>_vars) \/ AtIdle'
    BY WakeNears DEF Finishing
  <2> HIDE DEF Down, AtWriting, AtCalling, AtFinish, AtIdle, AtTicked, AtDispatch, AtWake, W
  <2>4. Calm => (W ~> ~W)
    BY <2>1, <2>2, <2>3, PTL
  <2>5. Calm => []Calm
    BY PTL
  <2> HIDE DEF Calm
  <2>6. Hypotheses => <>Calm
    <3>1. wpc # "down" <=> ~Down
      BY DEF Down
    <3>2. wpc = "down" <=> Down
      BY DEF Down
    <3> QED
      BY <3>1, <3>2, TypeInit, TypeStep, PTL DEF FairSpec, Spec, Calm
  <2>7. Hypotheses => (W ~> ~W)
    BY <2>4, <2>5, <2>6, PTL
  <2>8. /\ status[m] = "received" /\ mode = "auto" /\ MayWake <=> W
        /\ status[m] # "received" \/ mode # "auto" \/ ~MayWake <=> ~W
    BY DEF W, Wanted
  <2> QED
    BY <2>7, <2>8, PTL
<1> QED
  BY <1>1 DEF IdleIsWoken
=============================================================================
