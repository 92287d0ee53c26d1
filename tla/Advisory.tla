------------------------------ MODULE Advisory ------------------------------
(***************************************************************************)
(* Delivery advisories: the worker of a bridge tells a peer, once for each *)
(* message, that the message cannot reach the model.  Rows change, hooks   *)
(* come and the listener dies in between.                                  *)
(***************************************************************************)
EXTENDS Naturals, FiniteSets

CONSTANTS
  MaxMessages,      \* messages of one peer, numbered as they were created
  Batch,            \* message ids in one advisory (20 in the code)
  Window,           \* blocked rows that are looked at (1000 in the code)
  MaxListenerCrash  \* the listener's deaths

Messages == 1..MaxMessages

ASSUME AdvisoryAssumption ==
  /\ {MaxMessages, MaxListenerCrash} \subseteq Nat
  /\ {Batch, Window} \subseteq Nat \ {0}

VARIABLES
  row,        \* message -> its status in the bridge's inbox
  fresh,      \* messages younger than STARTUP_NOTICE_GRACE that are still received
  delivery,   \* what snapshot says of the bridge
  marked,     \* keys notice_message:<peer>:<id>
  adviser,    \* the worker in notify
  listenerCrashes,
  attempts    \* history: advisories written for a message

advisoryVars == <<row, fresh, delivery, marked, adviser, listenerCrashes, attempts>>

AdvisoryTypeOK ==
  /\ row \in [Messages -> {"none", "received", "held", "gone"}]
  /\ fresh \subseteq Messages /\ marked \subseteq Messages
  /\ delivery \in {"reachable", "startup", "blocked"}
  /\ adviser \in [pc : {"look", "select", "mark", "write"},
                  delivery : {"reachable", "startup", "blocked"},
                  ids : SUBSET Messages, toMark : SUBSET Messages]
  /\ listenerCrashes \in 0..MaxListenerCrash
  /\ attempts \in [Messages -> Nat]

Looking == [pc |-> "look", delivery |-> "reachable", ids |-> {}, toMark |-> {}]

AdvisoryInit ==
  /\ row = [m \in Messages |-> "none"]
  /\ fresh = {} /\ delivery = "startup" /\ marked = {}
  /\ adviser = Looking /\ listenerCrashes = 0
  /\ attempts = [m \in Messages |-> 0]

-----------------------------------------------------------------------------
(* What goes on around the worker: other handlers and clocks *)

MessageArrives(m) ==
  /\ row[m] = "none" /\ \A n \in 1..(m - 1) : row[n] # "none"
  /\ row' = [row EXCEPT ![m] = "received"]
  /\ fresh' = fresh \cup {m}
  /\ UNCHANGED <<delivery, marked, adviser, listenerCrashes, attempts>>

MessageAges(m) ==
  /\ m \in fresh
  /\ fresh' = fresh \ {m}
  /\ UNCHANGED <<row, delivery, marked, adviser, listenerCrashes, attempts>>

\* A guard of a hook or of the worker holds it.
MessageHeld(m) ==
  /\ row[m] = "received"
  /\ row' = [row EXCEPT ![m] = "held"]
  /\ fresh' = fresh \ {m}
  /\ UNCHANGED <<delivery, marked, adviser, listenerCrashes, attempts>>

\* A hook offers it, or it is read and acknowledged, held or not.
MessageGoes(m) ==
  /\ row[m] \in {"received", "held"}
  /\ row' = [row EXCEPT ![m] = "gone"]
  /\ fresh' = fresh \ {m}
  /\ UNCHANGED <<delivery, marked, adviser, listenerCrashes, attempts>>

DeliveryChanges(d) ==
  /\ delivery # d
  /\ delivery' = d
  /\ UNCHANGED <<row, fresh, marked, adviser, listenerCrashes, attempts>>

-----------------------------------------------------------------------------
(* notify *)

\* The first n of a set of messages.
Oldest(S, n) == {m \in S : Cardinality({k \in S : k <= m}) <= n}

WorkerLooksAtDelivery ==
  /\ adviser.pc = "look"
  /\ adviser' = [adviser EXCEPT !.pc = "select", !.delivery = delivery]
  /\ UNCHANGED <<row, fresh, delivery, marked, listenerCrashes, attempts>>

Waiting == {m \in Messages : row[m] \in {"received", "held"}}
Blocked(d) == {m \in Oldest(Waiting, Window) : row[m] = "held" \/ d # "reachable"}

\* Mistaken variant: the batch is cut before the messages known to the peer are left out.
EligibleLate(d) ==
  {m \in Oldest(Blocked(d), Batch) \ marked : row[m] = "held" \/ d # "startup" \/ m \notin fresh}

\* Mistaken variant: a message the peer was told of while it was received is news again
\* once it is held.
EligibleHeldAgain(d) ==
  {m \in Blocked(d) : row[m] = "held" \/ (m \notin marked /\ (d # "startup" \/ m \notin fresh))}

\* The rows that are blocked as far as the worker knows; of these the ones nobody has been
\* told of, a hook given time to arrive.
Eligible(d) ==
  {m \in Blocked(d) \ marked : row[m] = "held" \/ d # "startup" \/ m \notin fresh}

WorkerSelects ==
  LET ids == Oldest(Eligible(adviser.delivery), Batch) IN
  /\ adviser.pc = "select"
  /\ adviser' = IF ids = {} THEN Looking
                ELSE [adviser EXCEPT !.pc = "mark", !.ids = ids, !.toMark = ids]
  /\ UNCHANGED <<row, fresh, delivery, marked, listenerCrashes, attempts>>

\* "Record each attempt before writing": one transaction for each message.
WorkerMarks ==
  \E m \in adviser.toMark :
    /\ adviser.pc = "mark"
    /\ \A n \in adviser.toMark : m <= n
    /\ marked' = marked \cup {m}
    /\ adviser' = [adviser EXCEPT !.toMark = @ \ {m},
                                  !.pc = IF adviser.toMark = {m} THEN "write" ELSE "mark"]
    /\ UNCHANGED <<row, fresh, delivery, listenerCrashes, attempts>>

\* Whether or not the peer gets it: an error is recorded, and nothing tried again.
WorkerAdvises ==
  /\ adviser.pc = "write"
  /\ attempts' = [m \in Messages |-> attempts[m] + IF m \in adviser.ids THEN 1 ELSE 0]
  /\ adviser' = Looking
  /\ UNCHANGED <<row, fresh, delivery, marked, listenerCrashes>>

\* The listener dies between any two steps and is started again.
ListenerDies ==
  /\ listenerCrashes < MaxListenerCrash
  /\ listenerCrashes' = listenerCrashes + 1
  /\ adviser' = Looking
  /\ UNCHANGED <<row, fresh, delivery, marked, attempts>>

-----------------------------------------------------------------------------
AdviserStep ==
  WorkerLooksAtDelivery \/ WorkerSelects \/ WorkerMarks \/ WorkerAdvises

AdvisoryNext ==
  \/ \E m \in Messages : MessageArrives(m) \/ MessageAges(m) \/ MessageHeld(m) \/ MessageGoes(m)
  \/ \E d \in {"reachable", "startup", "blocked"} : DeliveryChanges(d)
  \/ AdviserStep \/ ListenerDies

AdvisorySpec ==
  /\ AdvisoryInit /\ [][AdvisoryNext]_advisoryVars
  /\ WF_advisoryVars(AdviserStep)
  /\ \A m \in Messages : WF_advisoryVars(MessageAges(m))

-----------------------------------------------------------------------------
\* "Warn a sender once per blocked message", "never retry an ambiguous notice": whatever
\* becomes of the row, of the write or of the listener, no message is the subject of two
\* advisories.
AdvisedOnce == \A m \in Messages : attempts[m] <= 1

\* Every blocked message among the Window oldest is advised, however many come before it:
\* the worker catches up with all of them (a message is marked right before the write),
\* unless they go or the bridge can deliver after all.
Unadvised == Blocked(delivery) \ marked
BlockedIsAdvised == Unadvised # {} ~> Unadvised = {}
=============================================================================
