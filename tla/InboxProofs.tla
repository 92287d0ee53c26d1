----------------------------- MODULE InboxProofs -----------------------------
(***************************************************************************)
(* What holds of Inbox for every number of messages, hooks, turns and      *)
(* crashes, and for every choice of modes, windows, events and commands.   *)
(***************************************************************************)
EXTENDS Inbox, FiniteSetTheorems, TLAPS

(***************************************************************************)
(* Operators the model is built from                                       *)
(***************************************************************************)

\* The bounds are numbers, and messages are numbers up to one of them.
LEMMA Bounds ==
  /\ 0 \in 0..MaxMsg /\ 0 \in 0..MaxTurn /\ 0 \in 0..MaxCrash
  /\ Msgs \subseteq 0..MaxMsg
  /\ MaxTurn \in Nat /\ MaxCrash \in Nat
BY InboxAssumption DEF Msgs

\* Sets of messages are finite, so the counts of the hook's loop are numbers.
LEMMA MsgsFinite == IsFiniteSet(Msgs)
BY InboxAssumption, FS_Interval DEF Msgs

LEMMA CardMsgs ==
  ASSUME NEW S \in SUBSET Msgs
  PROVE  Cardinality(S) \in Nat
BY MsgsFinite, FS_Subset, FS_CardinalityType

\* Deliveries never turn an allowance into something else (peer_budget.spend).
LEMMA SpendAllType ==
  ASSUME NEW left \in Allowance, NEW n \in Nat
  PROVE  SpendAll(left, n) \in Allowance
BY UnlimitedAssumption DEF SpendAll, Allowance

LEMMA SpendType ==
  ASSUME NEW left \in Allowance
  PROVE  Spend(left) \in Allowance
BY SpendAllType DEF Spend

LEMMA RecordType ==
  ASSUME NEW w \in WakeRecords(Msgs), NEW id \in Msgs,
         NEW state \in Undecided \cup Decided
  PROVE  Record(w, id, state) \in WakeRecords(Msgs)
BY DEF Record, Refused, WakeRecords, Wakes, Wake

LEMMA RecordWritingType ==
  ASSUME NEW w \in WakeRecords(Msgs), NEW id \in Msgs
  PROVE  RecordWriting(w, id) \in WakeRecords(Msgs)
BY RecordType DEF RecordWriting, Undecided

LEMMA RecordOutcomeType ==
  ASSUME NEW w \in WakeRecords(Msgs), NEW id \in Msgs, NEW outcome \in Outcomes
  PROVE  RecordOutcome(w, id, outcome) \in WakeRecords(Msgs)
BY RecordType DEF RecordOutcome, Undecided, Decided, Outcomes

LEMMA DecideType ==
  ASSUME NEW w \in WakeRecords(Msgs), NEW notice
  PROVE  Decide(w, notice) \in WakeRecords(Msgs)
<1>1. Decision(w.pending, notice) \in Undecided \cup Decided
  BY DEF Decision, Decided
<1>2. w.pending # NoWake => w.pending.id \in Msgs
  BY DEF WakeRecords, Wakes
<1> QED
  BY <1>1, <1>2, RecordType DEF Decide

LEMMA ClearConsumedType ==
  ASSUME NEW w \in WakeRecords(Msgs), NEW S
  PROVE  ClearConsumed(w, S) \in WakeRecords(Msgs)
BY DEF ClearConsumed, WakeRecords, Wakes

(***************************************************************************)
(* Types.  The worker's message is a message wherever it is going to use   *)
(* it; without that the records it writes would not be typed.              *)
(***************************************************************************)
Holding == {"hold", "claim", "queue", "writing", "calling", "result"}

WorkerHasMessage == wpc \in Holding => wmsg \in Msgs

TypeInv == TypeOK /\ WorkerHasMessage

LEMMA TypeInit == Init => TypeInv
<1> SUFFICES ASSUME Init PROVE TypeInv
  OBVIOUS
<1>1. StoreTypes
  <2>1. wake \in WakeRecords(Msgs)
    BY DEF Init, WakeRecords, Wakes, NothingRecorded
  <2> QED
    BY <2>1 DEF Init, StoreTypes, Statuses, Phases
<1>2. WindowTypes
  BY InboxAssumption DEF Init, WindowTypes
<1>3. WorkerTypes /\ WorkerHasMessage
  BY Bounds DEF Init, WorkerTypes, WorkerHasMessage, Places, Holding
<1>4. HookTypes
  BY InboxAssumption DEF Init, HookTypes, Steps, Events
<1>5. CallerTypes /\ CodexTypes /\ HistoryTypes
  BY InboxAssumption DEF Init, CallerTypes, CodexTypes, HistoryTypes
<1> QED
  BY <1>1, <1>2, <1>3, <1>4, <1>5 DEF TypeInv, TypeOK

\* What an action leaves alone stays typed.
LEMMA TypeFrame ==
  ASSUME TypeInv
  PROVE  /\ UNCHANGED window => WindowTypes'
         /\ UNCHANGED worker => WorkerTypes' /\ WorkerHasMessage'
         /\ UNCHANGED hook => HookTypes'
         /\ UNCHANGED caller => CallerTypes'
         /\ UNCHANGED codex => CodexTypes'
         /\ UNCHANGED history => HistoryTypes'
         /\ UNCHANGED <<status, phase, wake, enrolled>> => StoreTypes'
<1> USE DEF TypeInv, TypeOK
<1>1. UNCHANGED window => WindowTypes'
  BY DEF WindowTypes, window
<1>2. UNCHANGED worker => WorkerTypes' /\ WorkerHasMessage'
  BY DEF WorkerTypes, worker, WorkerHasMessage
<1>3. UNCHANGED hook => HookTypes'
  BY DEF HookTypes, hook
<1>4. UNCHANGED caller => CallerTypes'
  BY DEF CallerTypes, caller
<1>5. UNCHANGED codex => CodexTypes'
  BY DEF CodexTypes, codex
<1>6. UNCHANGED history => HistoryTypes'
  BY DEF HistoryTypes, history
<1>7. UNCHANGED <<status, phase, wake, enrolled>> => StoreTypes'
  BY DEF StoreTypes
<1> QED
  BY <1>1, <1>2, <1>3, <1>4, <1>5, <1>6, <1>7

LEMMA WorkerGotoType ==
  ASSUME TypeInv,
         NEW place \in Places, NEW m \in 0..MaxMsg, NEW cfg \in BOOLEAN,
         place \in Holding => m \in Msgs,
         WorkerGoto(place, m, cfg)
  PROVE  WorkerTypes' /\ WorkerHasMessage'
BY DEF WorkerGoto, WorkerTypes, WorkerHasMessage, TypeInv, TypeOK

LEMMA WorkerDoneType ==
  ASSUME TypeInv, WorkerDone
  PROVE  WorkerTypes' /\ WorkerHasMessage'
BY Bounds DEF WorkerDone, WorkerGoto, WorkerTypes, WorkerHasMessage, TypeInv, TypeOK,
   Places, Holding

LEMMA SetStatusType ==
  ASSUME TypeInv, NEW m, NEW s \in Statuses, SetStatus(m, s)
  PROVE  status' \in [Msgs -> Statuses]
BY DEF SetStatus, TypeInv, TypeOK, StoreTypes

LEMMA CountUpType ==
  ASSUME NEW f \in [Msgs -> Nat], NEW m \in Msgs
  PROVE  [f EXCEPT ![m] = @ + 1] \in [Msgs -> Nat]
OBVIOUS

LEMMA TypeWorker ==
  ASSUME TypeInv, Worker
  PROVE  TypeInv'
<1> USE TypeFrame DEF TypeInv, TypeOK
<1>1. CASE Tick
  <2>1. WorkerTypes' /\ WorkerHasMessage'
    BY <1>1, Bounds, WorkerGotoType DEF Tick, Places, Holding, StoreTypes
  <2> QED
    BY <1>1, <2>1 DEF Tick
<1>2. ASSUME NEW ended \in {"idle", "interrupted"}, Reconcile(ended)
      PROVE  TypeInv'
  <2>1. WorkerTypes' /\ WorkerHasMessage'
    BY <1>2, Bounds, WorkerGotoType DEF Reconcile, Places, Holding, WorkerTypes
  <2>2. StoreTypes'
    BY <1>2 DEF Reconcile, StoreTypes, Phases
  <2> QED
    BY <1>2, <2>1, <2>2 DEF Reconcile
<1>3. CASE DispatchNothing
  BY <1>3, WorkerDoneType DEF DispatchNothing
<1>4. CASE DispatchWake
  <2>1. WorkerTypes' /\ WorkerHasMessage'
    BY <1>4, Bounds, WorkerGotoType DEF DispatchWake, Places, Holding, WorkerTypes
  <2> QED
    BY <1>4, <2>1 DEF DispatchWake
<1>5. ASSUME NEW m \in Msgs, DispatchQueue(m)
      PROVE  TypeInv'
  <2>1. WorkerTypes' /\ WorkerHasMessage'
    BY <1>5, Bounds, WorkerGotoType DEF DispatchQueue, Places
  <2> QED
    BY <1>5, <2>1 DEF DispatchQueue
<1>6. CASE Hold
  <2>1. StoreTypes'
    BY <1>6, SetStatusType DEF Hold, Statuses, StoreTypes
  <2> QED
    BY <1>6, <2>1, WorkerDoneType DEF Hold
<1>7. CASE Claim
  <2>1. WindowTypes'
    BY <1>7, SpendType DEF Claim, WindowTypes
  <2>2. HistoryTypes'
    <3>1. handed' \in [Msgs -> Nat]
      <4>1. wmsg \in Msgs /\ handed \in [Msgs -> Nat]
        BY <1>7 DEF Claim, HistoryTypes, WorkerHasMessage, Holding
      <4> QED
        BY <1>7, <4>1, CountUpType DEF Claim
    <3>2. spent' \in Nat
      BY <1>7 DEF Claim, HistoryTypes
    <3> QED
      BY <1>7, <3>1, <3>2 DEF Claim, HistoryTypes
  <2>3. StoreTypes'
    BY <1>7 DEF Claim, StoreTypes, Statuses
  <2>4. wmsg \in Msgs
    BY <1>7 DEF Claim, WorkerHasMessage, Holding
  <2>5. WorkerTypes' /\ WorkerHasMessage'
    BY <1>7, <2>4, WorkerGotoType DEF Claim, Places, WorkerTypes
  <2> QED
    BY <1>7, <2>1, <2>2, <2>3, <2>5 DEF Claim
<1>8. CASE ClaimNothing
  BY <1>8, WorkerDoneType DEF ClaimNothing
<1>9. ASSUME NEW s \in {"queued", "queue_failed", "queue_uncertain"}, QueueResult(s)
      PROVE  TypeInv'
  <2>1. StoreTypes'
    BY <1>9, SetStatusType DEF QueueResult, Statuses, StoreTypes
  <2> QED
    BY <1>9, <2>1, WorkerDoneType DEF QueueResult
<1>10. ASSUME NEW m \in Msgs, WakeClaim(m)
       PROVE  TypeInv'
  <2>1. WindowTypes'
    BY <1>10, SpendType DEF WakeClaim, WindowTypes
  <2>2. status' \in [Msgs -> Statuses]
    BY <1>10 DEF WakeClaim, WakeHolds, Statuses, StoreTypes
  <2>3. wake' \in WakeRecords(Msgs)
    BY <1>10 DEF WakeClaim, WakeRecords, Wakes, Wake, Undecided, StoreTypes
  <2>4. HistoryTypes'
    BY <1>10 DEF WakeClaim, HistoryTypes
  <2>5. WorkerTypes' /\ WorkerHasMessage'
    BY <1>10, Bounds, WorkerGotoType DEF WakeClaim, Places
  <2>6. StoreTypes'
    BY <1>10, <2>2, <2>3 DEF WakeClaim, StoreTypes
  <2> QED
    BY <1>10, <2>1, <2>4, <2>5, <2>6 DEF WakeClaim
<1>11. CASE WakeNothing
  <2>1. status' \in [Msgs -> Statuses]
    BY <1>11 DEF WakeNothing, WakeHolds, Statuses, StoreTypes
  <2>2. StoreTypes'
    BY <1>11, <2>1 DEF WakeNothing, StoreTypes
  <2> QED
    BY <1>11, <2>2, WorkerDoneType DEF WakeNothing
<1>12. CASE WakeWriting
  <2>1. wmsg \in Msgs
    BY <1>12 DEF WakeWriting, WorkerHasMessage, Holding
  <2>2. StoreTypes'
    BY <1>12, <2>1, RecordWritingType DEF WakeWriting, StoreTypes
  <2>3. WorkerTypes' /\ WorkerHasMessage'
    BY <1>12, <2>1, WorkerGotoType DEF WakeWriting, Places, WorkerTypes
  <2> QED
    BY <1>12, <2>2, <2>3 DEF WakeWriting
<1>13. CASE WakeCall
  <2>1. wmsg \in Msgs
    BY <1>13 DEF WakeCall, WorkerHasMessage, Holding
  <2>2. CodexTypes'
    BY <1>13, <2>1 DEF WakeCall, CodexTypes
  <2>3. WorkerTypes' /\ WorkerHasMessage'
    BY <1>13, <2>1, WorkerGotoType DEF WakeCall, Places, WorkerTypes
  <2> QED
    BY <1>13, <2>2, <2>3 DEF WakeCall
<1>14. ASSUME NEW outcome \in Outcomes, WakeResult(outcome)
       PROVE  TypeInv'
  <2>1. wmsg \in Msgs
    BY <1>14 DEF WakeResult, WorkerHasMessage, Holding
  <2>2. StoreTypes'
    BY <1>14, <2>1, RecordOutcomeType DEF WakeResult, StoreTypes
  <2> QED
    BY <1>14, <2>2, WorkerDoneType DEF WakeResult
<1> QED
  BY <1>1, <1>2, <1>3, <1>4, <1>5, <1>6, <1>7, <1>8, <1>9, <1>10, <1>11, <1>12, <1>13,
     <1>14 DEF Worker

LEMMA TypeListener ==
  ASSUME TypeInv, Listener
  PROVE  TypeInv'
<1> USE TypeFrame DEF TypeInv, TypeOK
<1>1. ASSUME NEW m \in Msgs, Accept(m)
      PROVE  TypeInv'
  <2>1. StoreTypes'
    BY <1>1 DEF Accept, StoreTypes, Statuses
  <2> QED
    BY <1>1, <2>1 DEF Accept
<1>2. CASE Crash
  <2>1. WorkerTypes' /\ WorkerHasMessage'
    <3>1. crashes' \in 0..MaxCrash
      BY <1>2, Bounds DEF Crash, WorkerTypes
    <3> QED
      BY <1>2, <3>1, Bounds DEF Crash, WorkerTypes, WorkerHasMessage, Places, Holding
  <2> QED
    BY <1>2, <2>1 DEF Crash
<1>3. CASE Restart
  <2>1. StoreTypes'
    BY <1>3 DEF Restart, StoreTypes, Statuses
  <2> QED
    BY <1>3, <2>1, WorkerDoneType DEF Restart
<1>4. CASE Rebind
  <2>1. wake' \in WakeRecords(Msgs)
    BY <1>4 DEF Rebind, StoreTypes, WakeRecords, Wakes
  <2>2. StoreTypes'
    BY <1>4, <2>1 DEF Rebind, StoreTypes, Phases
  <2> QED
    BY <1>4, <2>2 DEF Rebind
<1> QED
  BY <1>1, <1>2, <1>3, <1>4 DEF Listener

LEMMA HookStepType ==
  ASSUME TypeInv, NEW h \in Hooks, NEW step \in Steps, Goto(h, step)
  PROVE  HookTypes'
BY DEF Goto, HookTypes, TypeInv, TypeOK

LEMMA HookDoneType ==
  ASSUME TypeInv, NEW h \in Hooks, HookDone(h)
  PROVE  HookTypes'
BY Bounds DEF HookDone, HookTypes, TypeInv, TypeOK, Steps, Events

LEMMA StartHookType ==
  ASSUME TypeInv, NEW h \in Hooks, NEW event, NEW notice \in 0..MaxMsg, NEW step \in Steps,
         StartHook(h, event, notice, step)
  PROVE  /\ StoreTypes' /\ WindowTypes' /\ WorkerTypes' /\ WorkerHasMessage'
         /\ HookTypes' /\ CallerTypes'
         /\ handed' \in [Msgs -> Nat] /\ spent' \in Nat /\ woken' \in Nat
         /\ renewals' \in Nat
<1> USE DEF TypeInv, TypeOK
<1>1. HookTypes'
  BY InboxAssumption DEF StartHook, HookTypes, StoreTypes
<1>2. HistoryTypes
  OBVIOUS
<1> QED
  BY <1>1, <1>2, TypeFrame DEF StartHook, HistoryTypes

LEMMA TypeHook ==
  ASSUME TypeInv, NEW h \in Hooks, Hook(h)
  PROVE  TypeInv'
<1> USE TypeFrame DEF TypeInv, TypeOK
<1>1. CASE BoundaryHook(h)
  <2>1. CodexTypes' /\ HistoryTypes'
    BY <1>1, Bounds, StartHookType DEF BoundaryHook, HistoryTypes, Steps
  <2> QED
    BY <1>1, <2>1, Bounds, StartHookType DEF BoundaryHook, Steps
<1>2. CASE ToolHook(h)
  <2>1. CodexTypes' /\ HistoryTypes'
    BY <1>2, Bounds, StartHookType DEF ToolHook, HistoryTypes, Steps
  <2> QED
    BY <1>2, <2>1, Bounds, StartHookType DEF ToolHook, Steps
<1>3. CASE OwnerHook(h)
  <2>1. turn' \in 1..MaxTurn
    BY <1>3, Bounds DEF OwnerHook, CodexTypes
  <2>2. CodexTypes'
    BY <1>3, <2>1 DEF OwnerHook, CodexTypes
  <2>3. HistoryTypes'
    BY <1>3, <2>1, Bounds, StartHookType DEF OwnerHook, HistoryTypes, Steps
  <2> QED
    BY <1>3, <2>2, <2>3, Bounds, StartHookType DEF OwnerHook, Steps
<1>4. ASSUME NEW notice \in 0..MaxMsg, ExternalHook(h, notice)
      PROVE  TypeInv'
  <2>1. CodexTypes'
    BY <1>4, Bounds DEF ExternalHook, FromQueue, CodexTypes
  <2>2. HistoryTypes'
    BY <1>4, StartHookType DEF ExternalHook, FromQueue, HistoryTypes, Steps
  <2> QED
    BY <1>4, <2>1, <2>2, StartHookType DEF ExternalHook, FromQueue, Steps
<1>5. CASE RenewForOwnerPrompt(h)
  <2>1. HookTypes'
    BY <1>5, HookStepType DEF RenewForOwnerPrompt, Steps
  <2>2. WindowTypes'
    BY <1>5 DEF RenewForOwnerPrompt, WindowTypes, CodexTypes
  <2>3. HistoryTypes'
    BY <1>5 DEF RenewForOwnerPrompt, HistoryTypes
  <2> QED
    BY <1>5, <2>1, <2>2, <2>3 DEF RenewForOwnerPrompt
<1>6. CASE HookPhase(h)
  <2>1. HookTypes'
    BY <1>6, HookStepType, HookDoneType DEF HookPhase, Steps
  <2>2. StoreTypes'
    BY <1>6 DEF HookPhase, StoreTypes, Phases
  <2> QED
    BY <1>6, <2>1, <2>2 DEF HookPhase
<1>7. CASE ActiveHook(h)
  <2>1. HookTypes'
    BY <1>7, HookStepType DEF ActiveHook, Steps
  <2>2. StoreTypes'
    BY <1>7, DecideType DEF ActiveHook, StoreTypes
  <2> QED
    BY <1>7, <2>1, <2>2 DEF ActiveHook
<1>8. ASSUME NEW taken \in SUBSET Batch, Drain(h, taken)
      PROVE  TypeInv'
  <2> DEFINE offered == taken \ {m \in Batch : Guarded(m, hcfg[h])}
  <2>1. Cardinality(offered) \in Nat
    BY CardMsgs DEF Batch, Received
  <2>2. WindowTypes'
    BY <1>8, <2>1, SpendAllType DEF Drain, WindowTypes
  <2>3. StoreTypes'
    BY <1>8 DEF Drain, StoreTypes, Statuses
  <2>4. handed' \in [Msgs -> Nat]
    BY <1>8 DEF Drain, HistoryTypes
  <2>5. spent' \in Nat
    BY <1>8, <2>1 DEF Drain, HistoryTypes
  <2>6. HistoryTypes'
    BY <1>8, <2>4, <2>5 DEF Drain, HistoryTypes
  <2>7. HookTypes'
    BY <1>8, HookDoneType DEF Drain
  <2> HIDE DEF offered
  <2> QED
    BY <1>8, <2>2, <2>3, <2>6, <2>7 DEF Drain
<1>9. CASE DrainNothing(h)
  BY <1>9, HookDoneType DEF DrainNothing
<1>10. CASE HookAbort(h)
  BY <1>10, HookDoneType DEF HookAbort
<1> QED
  BY <1>1, <1>2, <1>3, <1>4, <1>5, <1>6, <1>7, <1>8, <1>9, <1>10 DEF Hook

LEMMA AcknowledgeType ==
  ASSUME TypeInv, NEW S, Acknowledge(S), UNCHANGED <<phase, enrolled>>
  PROVE  StoreTypes'
<1>1. status' \in [Msgs -> Statuses]
  BY DEF Acknowledge, TypeInv, TypeOK, StoreTypes, Statuses
<1>2. wake' \in WakeRecords(Msgs)
  BY ClearConsumedType DEF Acknowledge, TypeInv, TypeOK, StoreTypes
<1> QED
  BY <1>1, <1>2 DEF TypeInv, TypeOK, StoreTypes

LEMMA TypeCaller ==
  ASSUME TypeInv, Caller
  PROVE  TypeInv'
<1> USE TypeFrame DEF TypeInv, TypeOK
<1>1. CASE ReadSelect
  <2>1. CallerTypes'
    BY <1>1 DEF ReadSelect, CallerTypes
  <2> QED
    BY <1>1, <2>1 DEF ReadSelect
<1>2. CASE ReadAck
  <2>1. CallerTypes'
    BY <1>2 DEF ReadAck, CallerTypes
  <2> QED
    BY <1>2, <2>1, AcknowledgeType DEF ReadAck
<1>3. ASSUME NEW peer \in {Late, Msgs \ Late}, AckFrom(peer)
      PROVE  TypeInv'
  BY <1>3, AcknowledgeType DEF AckFrom
<1>4. ASSUME NEW m \in Msgs, AckId(m)
      PROVE  TypeInv'
  BY <1>4, AcknowledgeType DEF AckId
<1>5. ASSUME NEW new \in Modes, SetMode(new)
      PROVE  TypeInv'
  <2>1. WindowTypes'
    BY <1>5 DEF SetMode, WindowTypes
  <2> QED
    BY <1>5, <2>1 DEF SetMode
<1>6. ASSUME NEW new \in Modes, NEW size \in Limits, SetWindow(new, size)
      PROVE  TypeInv'
  <2>1. WindowTypes'
    BY <1>6, InboxAssumption DEF SetWindow, WindowTypes
  <2>2. HistoryTypes'
    BY <1>6 DEF SetWindow, HistoryTypes
  <2> QED
    BY <1>6, <2>1, <2>2 DEF SetWindow
<1>7. CASE Enroll
  <2>1. StoreTypes'
    BY <1>7 DEF Enroll, StoreTypes
  <2> QED
    BY <1>7, <2>1 DEF Enroll
<1> QED
  BY <1>1, <1>2, <1>3, <1>4, <1>5, <1>6, <1>7 DEF Caller

LEMMA TypeStep == TypeInv /\ [Next]_vars => TypeInv'
<1> SUFFICES ASSUME TypeInv, [Next]_vars
             PROVE  TypeInv'
  OBVIOUS
<1>1. CASE UNCHANGED vars
  BY <1>1, TypeFrame DEF vars, TypeInv, TypeOK
<1> QED
  BY <1>1, TypeWorker, TypeListener, TypeHook, TypeCaller DEF Next

\* Type correctness: every state of every instance is one of the states the store and
\* the processes can be in, and the worker holds a message wherever it needs one
\* (Store, deliver, dispatch and wake_idle).
THEOREM TypeCorrect == Spec => []TypeOK
<1>1. TypeInv => TypeOK
  BY DEF TypeInv
<1> QED
  BY TypeInit, TypeStep, <1>1, PTL DEF Spec

(***************************************************************************)
(* Who owns a message that is being forwarded.  The worker's claim is the  *)
(* only way into "forwarding"; everybody else either leaves such a message *)
(* alone or acknowledges it, so what the worker finds when its queue call  *)
(* returns is its own claim or an acknowledgement.                         *)
(***************************************************************************)
ClaimIsUnguarded == wpc = "claim" => wmsg \notin HopLimited

QueueOwnsItsMessage == wpc = "queue" => status[wmsg] \in {"forwarding", "consumed"}

OwnInv == TypeInv /\ ClaimIsUnguarded /\ QueueOwnsItsMessage /\ ForwardingIsOwned

\* What all steps but the worker's and the listener's do to messages in its hands.
HandsOff ==
  /\ UNCHANGED worker
  /\ \A m \in Msgs :
       /\ status'[m] = "forwarding" => status[m] = "forwarding"
       /\ status[m] \in {"forwarding", "consumed"} => status'[m] \in {status[m], "consumed"}

LEMMA UnchangedHandsOff ==
  ASSUME TypeInv, UNCHANGED <<status, worker>>
  PROVE  HandsOff
BY DEF HandsOff

LEMMA HookHandsOff ==
  ASSUME TypeInv, NEW h \in Hooks, Hook(h)
  PROVE  HandsOff
<1>1. ASSUME NEW taken \in SUBSET Batch, Drain(h, taken)
      PROVE  HandsOff
  <2>1. \A m \in taken : status[m] = "received"
    BY <1>1 DEF Batch, Received
  <2>2. UNCHANGED worker
    BY <1>1 DEF Drain
  <2>3. \A m \in Msgs : status'[m] # status[m] => m \in taken
    BY <1>1 DEF Drain
  <2>4. \A m \in Msgs : status'[m] \in {status[m], "hook_offered", "held"}
    BY <1>1 DEF Drain
  <2> QED
    BY <2>1, <2>2, <2>3, <2>4 DEF HandsOff
<1>2. ASSUME NEW notice \in 0..MaxMsg, ExternalHook(h, notice)
      PROVE  HandsOff
  BY <1>2, UnchangedHandsOff DEF ExternalHook, FromQueue, StartHook
<1>3. ASSUME \/ BoundaryHook(h) \/ ToolHook(h) \/ OwnerHook(h)
             \/ RenewForOwnerPrompt(h) \/ HookPhase(h) \/ ActiveHook(h)
             \/ DrainNothing(h) \/ HookAbort(h)
      PROVE  HandsOff
  BY <1>3, UnchangedHandsOff
     DEF BoundaryHook, ToolHook, OwnerHook, StartHook, RenewForOwnerPrompt, HookPhase,
         ActiveHook, DrainNothing, HookAbort
<1> QED
  BY <1>1, <1>2, <1>3 DEF Hook

LEMMA AcknowledgeHandsOff ==
  ASSUME TypeInv, NEW S, Acknowledge(S), UNCHANGED worker
  PROVE  HandsOff
BY DEF Acknowledge, HandsOff

LEMMA CallerHandsOff ==
  ASSUME TypeInv, Caller
  PROVE  HandsOff
<1>1. ASSUME NEW peer \in {Late, Msgs \ Late}, AckFrom(peer)
      PROVE  HandsOff
  BY <1>1, AcknowledgeHandsOff DEF AckFrom
<1>2. ASSUME NEW m \in Msgs, AckId(m)
      PROVE  HandsOff
  BY <1>2, AcknowledgeHandsOff DEF AckId
<1>3. CASE ReadAck
  BY <1>3, AcknowledgeHandsOff DEF ReadAck
<1>4. ASSUME NEW new \in Modes, SetMode(new)
      PROVE  HandsOff
  BY <1>4, UnchangedHandsOff DEF SetMode
<1>5. ASSUME NEW new \in Modes, NEW size \in Limits, SetWindow(new, size)
      PROVE  HandsOff
  BY <1>5, UnchangedHandsOff DEF SetWindow
<1>6. CASE ReadSelect \/ Enroll
  BY <1>6, UnchangedHandsOff DEF ReadSelect, Enroll
<1> QED
  BY <1>1, <1>2, <1>3, <1>4, <1>5, <1>6 DEF Caller

LEMMA HandsOffKeepsOwn ==
  ASSUME OwnInv, HandsOff
  PROVE  (ClaimIsUnguarded /\ QueueOwnsItsMessage /\ ForwardingIsOwned)'
<1>1. wpc' = wpc /\ wmsg' = wmsg
  BY DEF HandsOff, worker
<1>2. wpc = "queue" => wmsg \in Msgs
  BY DEF OwnInv, TypeInv, WorkerHasMessage, Holding
<1>3. QueueOwnsItsMessage'
  BY <1>1, <1>2 DEF HandsOff, OwnInv, QueueOwnsItsMessage
<1>4. ForwardingIsOwned'
  BY <1>1 DEF HandsOff, OwnInv, ForwardingIsOwned
<1>5. ClaimIsUnguarded'
  BY <1>1 DEF OwnInv, ClaimIsUnguarded
<1> QED
  BY <1>3, <1>4, <1>5

LEMMA WorkerKeepsOwn ==
  ASSUME OwnInv, Worker
  PROVE  (ClaimIsUnguarded /\ QueueOwnsItsMessage /\ ForwardingIsOwned)'
<1> USE DEF ClaimIsUnguarded, QueueOwnsItsMessage, ForwardingIsOwned, WorkerGoto, WorkerDone
<1>0. /\ ClaimIsUnguarded /\ QueueOwnsItsMessage /\ ForwardingIsOwned
      /\ status \in [Msgs -> Statuses]
      /\ WorkerHasMessage
  BY DEF OwnInv, TypeInv, TypeOK, StoreTypes
<1>1. CASE Tick
  BY <1>0, <1>1 DEF Tick
<1>2. ASSUME NEW ended \in {"idle", "interrupted"}, Reconcile(ended)
      PROVE  (ClaimIsUnguarded /\ QueueOwnsItsMessage /\ ForwardingIsOwned)'
  BY <1>0, <1>2 DEF Reconcile
<1>3. CASE DispatchNothing \/ DispatchWake
  BY <1>0, <1>3 DEF DispatchNothing, DispatchWake, Dispatching
<1>4. ASSUME NEW m \in Msgs, DispatchQueue(m)
      PROVE  (ClaimIsUnguarded /\ QueueOwnsItsMessage /\ ForwardingIsOwned)'
  BY <1>0, <1>4 DEF DispatchQueue, Dispatching, Guarded
<1>5. CASE Hold
  BY <1>0, <1>5 DEF Hold, SetStatus
<1>6. CASE Claim
  BY <1>0, <1>6 DEF Claim, WorkerHasMessage, Holding
<1>7. CASE ClaimNothing
  BY <1>0, <1>7 DEF ClaimNothing
<1>8. ASSUME NEW s \in {"queued", "queue_failed", "queue_uncertain"}, QueueResult(s)
      PROVE  (ClaimIsUnguarded /\ QueueOwnsItsMessage /\ ForwardingIsOwned)'
  BY <1>0, <1>8 DEF QueueResult, SetStatus
<1>9. ASSUME NEW m \in Msgs, WakeClaim(m)
      PROVE  (ClaimIsUnguarded /\ QueueOwnsItsMessage /\ ForwardingIsOwned)'
  BY <1>0, <1>9 DEF WakeClaim, WakeHolds
<1>10. CASE WakeNothing
  BY <1>0, <1>10 DEF WakeNothing, WakeHolds
<1>11. CASE WakeWriting \/ WakeCall
  BY <1>0, <1>11 DEF WakeWriting, WakeCall
<1>12. ASSUME NEW outcome \in Outcomes, WakeResult(outcome)
       PROVE  (ClaimIsUnguarded /\ QueueOwnsItsMessage /\ ForwardingIsOwned)'
  BY <1>0, <1>12 DEF WakeResult
<1> QED
  BY <1>1, <1>2, <1>3, <1>4, <1>5, <1>6, <1>7, <1>8, <1>9, <1>10, <1>11, <1>12 DEF Worker

LEMMA ListenerKeepsOwn ==
  ASSUME OwnInv, Listener
  PROVE  (ClaimIsUnguarded /\ QueueOwnsItsMessage /\ ForwardingIsOwned)'
<1> USE DEF ClaimIsUnguarded, QueueOwnsItsMessage, ForwardingIsOwned
<1>1. ASSUME NEW m \in Msgs, Accept(m)
      PROVE  (ClaimIsUnguarded /\ QueueOwnsItsMessage /\ ForwardingIsOwned)'
  <2>1. HandsOff
    BY <1>1 DEF Accept, HandsOff, OwnInv, TypeInv, TypeOK, StoreTypes
  <2> QED
    BY <2>1, HandsOffKeepsOwn
<1>2. CASE Crash
  BY <1>2 DEF Crash
<1>3. CASE Restart
  BY <1>3 DEF Restart, WorkerDone, WorkerGoto
<1>4. CASE Rebind
  <2>1. HandsOff
    BY <1>4, UnchangedHandsOff DEF Rebind, OwnInv
  <2> QED
    BY <2>1, HandsOffKeepsOwn
<1> QED
  BY <1>1, <1>2, <1>3, <1>4 DEF Listener

LEMMA OwnInit == Init => OwnInv
BY TypeInit DEF Init, OwnInv, ClaimIsUnguarded, QueueOwnsItsMessage, ForwardingIsOwned

LEMMA OwnStep == OwnInv /\ [Next]_vars => OwnInv'
<1> SUFFICES ASSUME OwnInv, [Next]_vars
             PROVE  OwnInv'
  OBVIOUS
<1>1. TypeInv /\ TypeInv'
  BY TypeStep DEF OwnInv
<1>2. CASE UNCHANGED vars
  <2>1. HandsOff
    BY <1>1, <1>2, UnchangedHandsOff DEF vars
  <2> QED
    BY <1>1, <2>1, HandsOffKeepsOwn DEF OwnInv
<1>3. ASSUME NEW h \in Hooks, Hook(h)
      PROVE  OwnInv'
  BY <1>1, <1>3, HookHandsOff, HandsOffKeepsOwn DEF OwnInv
<1>4. CASE Caller
  BY <1>1, <1>4, CallerHandsOff, HandsOffKeepsOwn DEF OwnInv
<1>5. CASE Worker
  BY <1>1, <1>5, WorkerKeepsOwn DEF OwnInv
<1>6. CASE Listener
  BY <1>1, <1>6, ListenerKeepsOwn DEF OwnInv
<1> QED
  BY <1>2, <1>3, <1>4, <1>5, <1>6 DEF Next

\* The recovery of a start finds every message that was being forwarded, and only
\* those (serve, dispatch).
THEOREM ForwardingOwned == Spec => []ForwardingIsOwned
<1>1. OwnInv => ForwardingIsOwned
  BY DEF OwnInv
<1> QED
  BY OwnInit, OwnStep, <1>1, PTL DEF Spec

(***************************************************************************)
(* What one step does to one message.  It is handed out only out of        *)
(* "received", which it leaves with that and never enters again; "held"    *)
(* and "consumed" are left as the properties say.                          *)
(***************************************************************************)
Waiting == {"absent", "received"}

MessageStep(m) ==
  /\ status[m] = "consumed" => status'[m] = "consumed"
  /\ status[m] = "held" => status'[m] \in {"held", "consumed"}
  /\ status'[m] \in Waiting => status[m] \in Waiting /\ handed'[m] = handed[m]
  /\ \/ handed'[m] = handed[m]
     \/ status[m] = "received" /\ handed'[m] = handed[m] + 1 /\ m \notin HopLimited

LEMMA UnchangedMessageStep ==
  ASSUME NEW m \in Msgs, UNCHANGED <<status, handed>>
  PROVE  MessageStep(m)
BY DEF MessageStep

LEMMA AcknowledgeMessageStep ==
  ASSUME NEW m \in Msgs, NEW S, Acknowledge(S), UNCHANGED handed
  PROVE  MessageStep(m)
BY DEF Acknowledge, MessageStep, Waiting

LEMMA SetStatusMessageStep ==
  ASSUME OwnInv, NEW m \in Msgs, NEW s \in Statuses \ Waiting,
         SetStatus(wmsg, s), UNCHANGED handed,
         status[wmsg] = "held" => s = "held"
  PROVE  MessageStep(m)
BY DEF SetStatus, MessageStep, Waiting, OwnInv, TypeInv, TypeOK, StoreTypes

LEMMA HoldsMessageStep ==
  ASSUME NEW m \in Msgs, NEW k, WakeHolds(k), UNCHANGED handed
  PROVE  MessageStep(m)
BY DEF WakeHolds, Received, MessageStep, Waiting

LEMMA WorkerMessageStep ==
  ASSUME OwnInv, Worker, NEW m \in Msgs
  PROVE  MessageStep(m)
<1>1. ASSUME UNCHANGED <<status, history>>
      PROVE  MessageStep(m)
  BY <1>1, UnchangedMessageStep DEF history
<1>2. CASE Hold
  BY <1>2, SetStatusMessageStep DEF Hold, Statuses, Waiting, history
<1>3. CASE Claim
  <2>1. wmsg \in Msgs /\ wmsg \notin HopLimited /\ status[wmsg] = "received"
    BY <1>3 DEF Claim, Claimable, OwnInv, TypeInv, ClaimIsUnguarded, WorkerHasMessage, Holding
  <2>2. handed \in [Msgs -> Nat] /\ status \in [Msgs -> Statuses]
    BY DEF OwnInv, TypeInv, TypeOK, HistoryTypes, StoreTypes
  <2>3. /\ status' = [status EXCEPT ![wmsg] = "forwarding"]
        /\ handed' = [handed EXCEPT ![wmsg] = @ + 1]
    BY <1>3 DEF Claim
  <2> QED
    BY <2>1, <2>2, <2>3 DEF MessageStep, Waiting
<1>4. ASSUME NEW s \in {"queued", "queue_failed", "queue_uncertain"}, QueueResult(s)
      PROVE  MessageStep(m)
  <2>1. status[wmsg] # "held"
    BY <1>4 DEF QueueResult, OwnInv, QueueOwnsItsMessage
  <2> QED
    BY <1>4, <2>1, SetStatusMessageStep DEF QueueResult, Statuses, Waiting, history
<1>5. ASSUME NEW k \in Msgs, WakeClaim(k)
      PROVE  MessageStep(m)
  BY <1>5, HoldsMessageStep DEF WakeClaim
<1>6. CASE WakeNothing
  BY <1>6, HoldsMessageStep, <1>1 DEF WakeNothing, history
<1>7. ASSUME NEW ended \in {"idle", "interrupted"}, Reconcile(ended)
      PROVE  MessageStep(m)
  BY <1>1, <1>7 DEF Reconcile
<1>8. ASSUME NEW k \in Msgs, DispatchQueue(k)
      PROVE  MessageStep(m)
  BY <1>1, <1>8 DEF DispatchQueue
<1>9. ASSUME NEW outcome \in Outcomes, WakeResult(outcome)
      PROVE  MessageStep(m)
  BY <1>1, <1>9 DEF WakeResult
<1>10. CASE Tick \/ DispatchNothing \/ DispatchWake \/ ClaimNothing \/ WakeWriting \/ WakeCall
  BY <1>1, <1>10 DEF Tick, DispatchNothing, DispatchWake, ClaimNothing, WakeWriting, WakeCall
<1> QED
  BY <1>2, <1>3, <1>4, <1>5, <1>6, <1>7, <1>8, <1>9, <1>10 DEF Worker

LEMMA ListenerMessageStep ==
  ASSUME OwnInv, Listener, NEW m \in Msgs
  PROVE  MessageStep(m)
<1>1. ASSUME NEW k \in Msgs, Accept(k)
      PROVE  MessageStep(m)
  BY <1>1 DEF Accept, MessageStep, Waiting, history, OwnInv, TypeInv, TypeOK, StoreTypes
<1>2. CASE Crash \/ Rebind
  BY <1>2, UnchangedMessageStep DEF Crash, Rebind, history
<1>3. CASE Restart
  BY <1>3 DEF Restart, MessageStep, Waiting, history
<1> QED
  BY <1>1, <1>2, <1>3 DEF Listener

LEMMA HookMessageStep ==
  ASSUME OwnInv, NEW h \in Hooks, Hook(h), NEW m \in Msgs
  PROVE  MessageStep(m)
<1>1. ASSUME NEW taken \in SUBSET Batch, Drain(h, taken)
      PROVE  MessageStep(m)
  <2> DEFINE offered == taken \ {k \in Batch : Guarded(k, hcfg[h])}
  <2>1. m \in taken => status[m] = "received"
    BY DEF Batch, Received
  <2>2. m \in offered => m \notin HopLimited
    BY DEF Guarded
  <2>3. /\ status'[m] = IF m \in offered THEN "hook_offered"
                        ELSE IF m \in taken THEN "held" ELSE status[m]
        /\ handed'[m] = IF m \in offered THEN handed[m] + 1 ELSE handed[m]
    BY <1>1 DEF Drain
  <2>4. offered \subseteq taken
    OBVIOUS
  <2> HIDE DEF offered
  <2> QED
    BY <2>1, <2>2, <2>3, <2>4 DEF MessageStep, Waiting
<1>2. ASSUME NEW notice \in 0..MaxMsg, ExternalHook(h, notice)
      PROVE  MessageStep(m)
  BY <1>2, UnchangedMessageStep DEF ExternalHook, FromQueue, StartHook
<1>3. ASSUME \/ BoundaryHook(h) \/ ToolHook(h) \/ OwnerHook(h)
             \/ RenewForOwnerPrompt(h) \/ HookPhase(h) \/ ActiveHook(h)
             \/ DrainNothing(h) \/ HookAbort(h)
      PROVE  MessageStep(m)
  BY <1>3, UnchangedMessageStep
     DEF BoundaryHook, ToolHook, OwnerHook, StartHook, RenewForOwnerPrompt, HookPhase,
         ActiveHook, DrainNothing, HookAbort, history
<1> QED
  BY <1>1, <1>2, <1>3 DEF Hook

LEMMA CallerMessageStep ==
  ASSUME OwnInv, Caller, NEW m \in Msgs
  PROVE  MessageStep(m)
<1>1. ASSUME NEW peer \in {Late, Msgs \ Late}, AckFrom(peer)
      PROVE  MessageStep(m)
  BY <1>1, AcknowledgeMessageStep DEF AckFrom, history
<1>2. ASSUME NEW k \in Msgs, AckId(k)
      PROVE  MessageStep(m)
  BY <1>2, AcknowledgeMessageStep DEF AckId, history
<1>3. CASE ReadAck
  BY <1>3, AcknowledgeMessageStep DEF ReadAck, history
<1>4. ASSUME NEW new \in Modes, SetMode(new)
      PROVE  MessageStep(m)
  BY <1>4, UnchangedMessageStep DEF SetMode, history
<1>5. ASSUME NEW new \in Modes, NEW size \in Limits, SetWindow(new, size)
      PROVE  MessageStep(m)
  BY <1>5, UnchangedMessageStep DEF SetWindow
<1>6. CASE ReadSelect \/ Enroll
  BY <1>6, UnchangedMessageStep DEF ReadSelect, Enroll, history
<1> QED
  BY <1>1, <1>2, <1>3, <1>4, <1>5, <1>6 DEF Caller

LEMMA EveryMessageStep ==
  ASSUME OwnInv, [Next]_vars, NEW m \in Msgs
  PROVE  MessageStep(m)
<1>1. CASE UNCHANGED vars
  BY <1>1, UnchangedMessageStep DEF vars, history
<1> QED
  BY <1>1, WorkerMessageStep, ListenerMessageStep, HookMessageStep, CallerMessageStep DEF Next

\* An acknowledgement is final (Store.set_status, deliver, serve).
THEOREM ConsumedFinal == Spec => ConsumedIsFinal
<1>1. OwnInv /\ [Next]_vars =>
        [\A m \in Msgs : status[m] = "consumed" => status'[m] = "consumed"]_vars
  BY EveryMessageStep DEF MessageStep
<1> QED
  BY OwnInit, OwnStep, <1>1, PTL DEF Spec, ConsumedIsFinal

\* A held message waits for its acknowledgement (configure_delivery, renewal, enroll).
THEOREM HeldFinal == Spec => HeldIsFinal
<1>1. OwnInv /\ [Next]_vars =>
        [\A m \in Msgs : status[m] = "held" => status'[m] \in {"held", "consumed"}]_vars
  BY EveryMessageStep DEF MessageStep
<1> QED
  BY OwnInit, OwnStep, <1>1, PTL DEF Spec, HeldIsFinal

(***************************************************************************)
(* Handing out.  At most once is not inductive: it is the message that     *)
(* still waits which has not been handed out.                              *)
(***************************************************************************)
WaitingIsFresh == \A m \in Msgs : status[m] \in Waiting => handed[m] = 0

HandInv == OwnInv /\ WaitingIsFresh /\ HandedOnce /\ HopLimitHolds

LEMMA HandInit == Init => HandInv
<1> SUFFICES ASSUME Init PROVE HandInv
  OBVIOUS
<1>1. \A m \in Msgs : handed[m] = 0
  BY DEF Init
<1>2. WaitingIsFresh /\ HandedOnce
  BY <1>1 DEF WaitingIsFresh, HandedOnce
<1>3. HopLimitHolds
  BY <1>1, InboxAssumption DEF HopLimitHolds
<1> QED
  BY <1>2, <1>3, OwnInit DEF HandInv

LEMMA HandStep == HandInv /\ [Next]_vars => HandInv'
<1> SUFFICES ASSUME HandInv, [Next]_vars
             PROVE  HandInv'
  OBVIOUS
<1>1. OwnInv'
  BY OwnStep DEF HandInv
<1>2. \A m \in Msgs : MessageStep(m) /\ handed[m] \in Nat
  BY EveryMessageStep DEF HandInv, OwnInv, TypeInv, TypeOK, HistoryTypes
<1>3. WaitingIsFresh'
  BY <1>2 DEF HandInv, WaitingIsFresh, MessageStep
<1>4. HandedOnce'
  <2> SUFFICES ASSUME NEW m \in Msgs PROVE handed'[m] <= 1
    BY DEF HandedOnce
  <2>1. CASE handed'[m] = handed[m]
    BY <2>1 DEF HandInv, HandedOnce
  <2>2. CASE status[m] = "received" /\ handed'[m] = handed[m] + 1
    BY <2>2 DEF HandInv, WaitingIsFresh, Waiting
  <2> QED
    BY <1>2, <2>1, <2>2 DEF MessageStep
<1>5. HopLimitHolds'
  BY <1>2, InboxAssumption DEF HandInv, HopLimitHolds, MessageStep
<1> QED
  BY <1>1, <1>3, <1>4, <1>5 DEF HandInv

\* No message is handed out twice, whatever hooks and worker do at the same time
\* (deliver, dispatch, Store.accept).
THEOREM AtMostOnce == Spec => []HandedOnce
<1>1. HandInv => HandedOnce
  BY DEF HandInv
<1> QED
  BY HandInit, HandStep, <1>1, PTL DEF Spec

\* A message at the hop limit is never handed out (deliver, dispatch).
THEOREM HopLimit == Spec => []HopLimitHolds
<1>1. HandInv => HopLimitHolds
  BY DEF HandInv
<1> QED
  BY HandInit, HandStep, <1>1, PTL DEF Spec

(***************************************************************************)
(* The inbox implements Handover.  Only Accept makes a message exist, and  *)
(* it does nothing else; what any other step does to the messages is       *)
(* MessageStep, a step of Leave.  The one thing missing is that the worker *)
(* holds no message which is not there.                                    *)
(***************************************************************************)
HoldsPresent == wpc = "hold" => status[wmsg] # "absent"

PresentInv == HandInv /\ HoldsPresent

\* The step leaves alone which messages exist.
SameArrived == \A m \in Msgs : status'[m] = "absent" <=> status[m] = "absent"

LEMMA AcknowledgeSameArrived ==
  ASSUME NEW S, Acknowledge(S), \A m \in Msgs : m \in S => status[m] # "absent"
  PROVE  SameArrived
BY DEF Acknowledge, SameArrived

LEMMA SetStatusSameArrived ==
  ASSUME OwnInv, NEW s \in Statuses \ {"absent"}, SetStatus(wmsg, s), status[wmsg] # "absent"
  PROVE  SameArrived
BY DEF SetStatus, SameArrived, OwnInv, TypeInv, TypeOK, StoreTypes

LEMMA WorkerSameArrived ==
  ASSUME OwnInv, HoldsPresent, Worker
  PROVE  SameArrived /\ HoldsPresent'
<1> USE DEF HoldsPresent, WorkerGoto, WorkerDone
<1>1. CASE Hold
  BY <1>1, SetStatusSameArrived DEF Hold, Statuses
<1>2. CASE Claim
  BY <1>2 DEF Claim, Claimable, SameArrived, OwnInv, TypeInv, TypeOK, StoreTypes
<1>3. ASSUME NEW s \in {"queued", "queue_failed", "queue_uncertain"}, QueueResult(s)
      PROVE  SameArrived /\ HoldsPresent'
  <2>1. status[wmsg] # "absent"
    BY <1>3 DEF QueueResult, OwnInv, QueueOwnsItsMessage
  <2> QED
    BY <1>3, <2>1, SetStatusSameArrived DEF QueueResult, Statuses
<1>4. ASSUME NEW k \in Msgs, WakeClaim(k)
      PROVE  SameArrived /\ HoldsPresent'
  BY <1>4 DEF WakeClaim, WakeHolds, Received, SameArrived
<1>5. CASE WakeNothing
  BY <1>5 DEF WakeNothing, WakeHolds, Received, SameArrived
<1>6. ASSUME NEW k \in Msgs, DispatchQueue(k)
      PROVE  SameArrived /\ HoldsPresent'
  BY <1>6 DEF DispatchQueue, IsFirst, Received, SameArrived
<1>7. ASSUME NEW ended \in {"idle", "interrupted"}, Reconcile(ended)
      PROVE  SameArrived /\ HoldsPresent'
  BY <1>7 DEF Reconcile, SameArrived
<1>8. ASSUME NEW outcome \in Outcomes, WakeResult(outcome)
      PROVE  SameArrived /\ HoldsPresent'
  BY <1>8 DEF WakeResult, SameArrived
<1>9. CASE Tick \/ DispatchNothing \/ DispatchWake \/ ClaimNothing \/ WakeWriting \/ WakeCall
  BY <1>9 DEF Tick, DispatchNothing, DispatchWake, ClaimNothing, WakeWriting, WakeCall,
              SameArrived
<1> QED
  BY <1>1, <1>2, <1>3, <1>4, <1>5, <1>6, <1>7, <1>8, <1>9 DEF Worker

LEMMA ListenerSameArrived ==
  ASSUME Crash \/ Restart \/ Rebind
  PROVE  SameArrived /\ wpc' # "hold"
BY DEF Crash, Restart, Rebind, WorkerDone, WorkerGoto, SameArrived, worker

LEMMA HookSameArrived ==
  ASSUME NEW h \in Hooks, Hook(h)
  PROVE  SameArrived /\ UNCHANGED worker
<1>1. ASSUME NEW taken \in SUBSET Batch, Drain(h, taken)
      PROVE  SameArrived /\ UNCHANGED worker
  BY <1>1 DEF Drain, Batch, Received, SameArrived
<1>2. ASSUME NEW notice \in 0..MaxMsg, ExternalHook(h, notice)
      PROVE  SameArrived /\ UNCHANGED worker
  BY <1>2 DEF ExternalHook, FromQueue, StartHook, SameArrived
<1>3. CASE \/ BoundaryHook(h) \/ ToolHook(h) \/ OwnerHook(h)
           \/ RenewForOwnerPrompt(h) \/ HookPhase(h) \/ ActiveHook(h)
           \/ DrainNothing(h) \/ HookAbort(h)
  BY <1>3
     DEF BoundaryHook, ToolHook, OwnerHook, StartHook, RenewForOwnerPrompt, HookPhase,
         ActiveHook, DrainNothing, HookAbort, SameArrived
<1> QED
  BY <1>1, <1>2, <1>3 DEF Hook

LEMMA CallerSameArrived ==
  ASSUME Caller
  PROVE  SameArrived /\ UNCHANGED worker
<1>1. ASSUME NEW peer \in {Late, Msgs \ Late}, AckFrom(peer)
      PROVE  SameArrived /\ UNCHANGED worker
  BY <1>1, AcknowledgeSameArrived DEF AckFrom, Open
<1>2. ASSUME NEW k \in Msgs, AckId(k)
      PROVE  SameArrived /\ UNCHANGED worker
  BY <1>2, AcknowledgeSameArrived DEF AckId
<1>3. CASE ReadAck
  BY <1>3, AcknowledgeSameArrived DEF ReadAck, Open
<1>4. ASSUME NEW new \in Modes, SetMode(new)
      PROVE  SameArrived /\ UNCHANGED worker
  BY <1>4 DEF SetMode, SameArrived
<1>5. ASSUME NEW new \in Modes, NEW size \in Limits, SetWindow(new, size)
      PROVE  SameArrived /\ UNCHANGED worker
  BY <1>5 DEF SetWindow, SameArrived
<1>6. CASE ReadSelect \/ Enroll
  BY <1>6 DEF ReadSelect, Enroll, SameArrived
<1> QED
  BY <1>1, <1>2, <1>3, <1>4, <1>5, <1>6 DEF Caller

\* Every step that is not an Accept leaves the arrived messages as they are.
LEMMA OnlyAcceptArrives ==
  ASSUME PresentInv, [Next]_vars
  PROVE  HoldsPresent' /\ (SameArrived \/ \E m \in Msgs : Accept(m))
<1> USE DEF PresentInv, HandInv
<1>1. wpc = "hold" => wmsg \in Msgs
  BY DEF OwnInv, TypeInv, WorkerHasMessage, Holding
<1>2. SameArrived /\ UNCHANGED worker => HoldsPresent'
  BY <1>1 DEF SameArrived, HoldsPresent, worker
<1>3. ASSUME NEW m \in Msgs, Accept(m)
      PROVE  HoldsPresent'
  BY <1>1, <1>3 DEF Accept, HoldsPresent, worker, OwnInv, TypeInv, TypeOK, StoreTypes
<1>4. CASE Crash \/ Restart \/ Rebind
  BY <1>4, ListenerSameArrived DEF HoldsPresent
<1>5. CASE Worker
  BY <1>5, WorkerSameArrived
<1>6. CASE Caller
  BY <1>2, <1>6, CallerSameArrived
<1>7. ASSUME NEW h \in Hooks, Hook(h)
      PROVE  SameArrived /\ HoldsPresent'
  BY <1>2, <1>7, HookSameArrived
<1>8. CASE UNCHANGED vars
  BY <1>2, <1>8 DEF vars, SameArrived
<1> QED
  BY <1>3, <1>4, <1>5, <1>6, <1>7, <1>8 DEF Next, Listener

LEMMA InitHandsOver == Init => Promise!Init
BY DEF Init, Promise!Init, Received

LEMMA NextHandsOver == PresentInv /\ [Next]_vars => [Promise!Next]_(Promise!handover)
<1> SUFFICES ASSUME PresentInv, [Next]_vars
             PROVE  [Promise!Next]_(Promise!handover)
  OBVIOUS
<1> DEFINE Arrived == {m \in Msgs : status[m] # "absent"}
<1>1. /\ status \in [Msgs -> Statuses]
      /\ handed \in [Msgs -> Nat]
      /\ OwnInv
  BY DEF PresentInv, HandInv, OwnInv, TypeInv, TypeOK, StoreTypes, HistoryTypes
<1>2. ASSUME NEW m \in Msgs, Accept(m), status[m] = "absent"
      PROVE  Promise!Next
  <2>1. /\ Arrived' = Arrived \cup {m}
        /\ Received' = Received \cup {m}
        /\ handed' = handed
        /\ m \notin Arrived
    BY <1>1, <1>2 DEF Accept, Received, history
  <2>2. Promise!Arrive(m)
    BY <2>1 DEF Promise!Arrive
  <2> QED
    BY <2>2 DEF Promise!Next
<1>3. ASSUME NEW m \in Msgs, Accept(m), status[m] # "absent"
      PROVE  SameArrived
  BY <1>1, <1>3 DEF Accept, SameArrived
<1>4. CASE SameArrived
  <2> DEFINE S == {m \in Received : status'[m] # "received"}
             T == {m \in S : handed'[m] = handed[m] + 1}
  <2>1. \A m \in Msgs : MessageStep(m)
    BY <1>1, EveryMessageStep
  <2>2. Arrived' = Arrived
    BY <1>4 DEF SameArrived
  <2>3. Received' = Received \ S
    BY <1>4, <2>1 DEF SameArrived, MessageStep, Received, Waiting
  <2>4. \A m \in Msgs : handed'[m] = IF m \in T THEN handed[m] + 1 ELSE handed[m]
    BY <1>1, <2>1 DEF MessageStep, Received, Waiting
  <2>5. handed' = [m \in Msgs |-> IF m \in T THEN handed[m] + 1 ELSE handed[m]]
    <3>1. handed' \in [Msgs -> Nat]
      BY TypeStep, <1>1 DEF OwnInv, TypeInv, TypeOK, HistoryTypes
    <3> QED
      BY <2>4, <3>1
  <2>6. S \in SUBSET Received /\ T \in SUBSET S
    OBVIOUS
  <2> HIDE DEF S, T
  <2> QED
    BY <2>2, <2>3, <2>5, <2>6 DEF Promise!Next, Promise!Leave
<1> QED
  BY <1>2, <1>3, <1>4, OnlyAcceptArrives

\* A received message is passed to the session at the moment it stops waiting, or
\* never, and does not come back (Store.accept, deliver, dispatch, serve).
THEOREM InboxHandsOver == Spec => HandsOver
<1>1. Init => PresentInv
  BY HandInit DEF Init, PresentInv, HoldsPresent
<1>2. PresentInv /\ [Next]_vars => PresentInv'
  BY HandStep, OnlyAcceptArrives DEF PresentInv
<1> QED
  BY <1>1, <1>2, InitHandsOver, NextHandsOver, PTL DEF Spec, HandsOver, Promise!Spec
=============================================================================
