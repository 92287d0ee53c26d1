----------------------------- MODULE WakeRecord -----------------------------
(***************************************************************************)
(* The two meta keys of an idle wake and the transitions peer_wake.py      *)
(* applies to them, each inside one immediate transaction:                 *)
(*   pending  the key wake_pending: a wake that nobody has decided yet     *)
(*   last     the key last_wake: the most recent wake and its state        *)
(* A wake is named by the id of the message that caused it.  Timestamps,   *)
(* queue ids, event names and wake_counts are evidence for the operator:   *)
(* no transition depends on them and they are left out.                    *)
(***************************************************************************)
EXTENDS Naturals

Undecided == {"writing", "queued", "failed", "uncertain"}
Decided   == {"activated", "raced", "cancelled"}

\* What the producer reports when its native-queue call has returned.
Outcomes  == {"queued", "failed", "uncertain"}

\* Message ids are positive; an absent key is NoWake.
NoWake == [id |-> 0, state |-> "none"]
Wake(id, state) == [id |-> id, state |-> state]
Wakes(Ids) == [id : Ids, state : Undecided \cup Decided] \cup {NoWake}

WakeRecords(Ids) == [pending : Wakes(Ids), last : Wakes(Ids)]
NothingRecorded == [pending |-> NoWake, last |-> NoWake]

\* RANK, with -1 for an absent record shifted to 0.
Rank(state) ==
  CASE state = "none"       -> 0
    [] state = "writing"    -> 1
    [] state \in Outcomes   -> 2
    [] state \in Decided    -> 3

\* Mistaken variant: a decided outcome can be decided again.
RefusedByRank(w, id, state) == w.last.id = id /\ Rank(state) < Rank(w.last.state)

\* "Never regress, and a decided outcome is final."
Refused(w, id, state) ==
  /\ w.last.id = id
  /\ \/ Rank(state) < Rank(w.last.state)
     \/ w.last.state \in Decided /\ state \in Decided

\* _record: one transition under the monotonic rule.  A refused one leaves both
\* keys alone, wake_pending included.
Record(w, id, state) ==
  IF Refused(w, id, state) THEN w
  ELSE [pending |-> IF state \in Undecided THEN Wake(id, state) ELSE NoWake,
        last    |-> Wake(id, state)]

\* Mistaken variant: the claim is recorded only where no marker is pending.
RecordWritingOnce(w, id) == IF w.pending = NoWake THEN Record(w, id, "writing") ELSE w

\* record_wake for the claim that precedes the native-queue call.
RecordWriting(w, id) == Record(w, id, "writing")

\* record_wake for the outcome of that call: a completion of an older wake is
\* ignored, and one whose marker was cleared meanwhile is recorded as cancelled.
RecordOutcome(w, id, outcome) ==
  IF w.last # NoWake /\ w.last.id # id THEN w
  ELSE IF w.last.id = id /\ w.last.state \notin Decided /\ w.pending = NoWake
       THEN Record(w, id, "cancelled")
       ELSE Record(w, id, outcome)

\* active_hook: activity of the turn decides the pending wake.  `notice` is the id
\* in the canonical notice that became the prompt, 0 for any other activity.
Decision(pending, notice) ==
  IF notice = pending.id THEN "activated"
  ELSE IF pending.state = "writing" THEN "raced" ELSE "cancelled"

Decide(w, notice) ==
  IF w.pending = NoWake THEN w
  ELSE Record(w, w.pending.id, Decision(w.pending, notice))

\* Mistaken variant: the marker keeps the state of the wake it named.
ClearConsumedId(w, consumed) ==
  IF w.pending.id \in consumed THEN [w EXCEPT !.pending.id = 0] ELSE w

\* clear_consumed_wake: an acknowledgement drops the marker of a consumed message.
ClearConsumed(w, consumed) ==
  IF w.pending.id \in consumed THEN [w EXCEPT !.pending = NoWake] ELSE w
=============================================================================
