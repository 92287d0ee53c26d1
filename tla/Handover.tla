------------------------------ MODULE Handover ------------------------------
(***************************************************************************)
(* What the store promises about anything it passes on without being asked *)
(* again: a received message to the session, a sent one to its peer.  An   *)
(* item arrives once and waits; when it stops waiting it is either given   *)
(* away at that moment or never, and it does not come back.  Ambiguous     *)
(* operations are therefore inspected, not repeated.                       *)
(***************************************************************************)
EXTENDS Naturals, TLAPS

CONSTANT Items

VARIABLES
  arrived,    \* items the store has got
  waiting,    \* those nobody has begun to pass on
  given       \* item -> times it has been passed on

handover == <<arrived, waiting, given>>

Init ==
  /\ arrived = {}
  /\ waiting = {}
  /\ given = [i \in Items |-> 0]

Arrive(i) ==
  /\ i \notin arrived
  /\ arrived' = arrived \cup {i}
  /\ waiting' = waiting \cup {i}
  /\ UNCHANGED given

\* Some items stop waiting together; T of them are given away by that.
Leave(S, T) ==
  /\ waiting' = waiting \ S
  /\ given' = [i \in Items |-> IF i \in T THEN given[i] + 1 ELSE given[i]]
  /\ UNCHANGED arrived

Next ==
  \/ \E i \in Items : Arrive(i)
  \/ \E S \in SUBSET waiting : \E T \in SUBSET S : Leave(S, T)

Spec == Init /\ [][Next]_handover

\* Nothing is passed on twice (what dispatch, deliver and serve are careful about).
GivenOnce == \A i \in Items : given[i] <= 1

\* An item that still may be given away has not been.
FreshUntilGiven ==
  /\ arrived \subseteq Items /\ waiting \subseteq arrived
  /\ given \in [Items -> Nat]
  /\ \A i \in Items : i \in waiting \/ i \notin arrived => given[i] = 0
  /\ GivenOnce

\* Whatever implements the promise passes nothing on twice.
THEOREM PromiseKept == Spec => []GivenOnce
<1>1. Init => FreshUntilGiven
  BY DEF Init, FreshUntilGiven, GivenOnce
<1>2. FreshUntilGiven /\ [Next]_handover => FreshUntilGiven'
  <2> SUFFICES ASSUME FreshUntilGiven, [Next]_handover PROVE FreshUntilGiven'
    OBVIOUS
  <2> USE DEF FreshUntilGiven, GivenOnce
  <2>1. ASSUME NEW i \in Items, Arrive(i) PROVE FreshUntilGiven'
    BY <2>1 DEF Arrive
  <2>2. ASSUME NEW S \in SUBSET waiting, NEW T \in SUBSET S, Leave(S, T)
        PROVE FreshUntilGiven'
    BY <2>2 DEF Leave
  <2>3. CASE UNCHANGED handover
    BY <2>3 DEF handover
  <2> QED
    BY <2>1, <2>2, <2>3 DEF Next
<1>3. FreshUntilGiven => GivenOnce
  BY DEF FreshUntilGiven
<1> QED
  BY <1>1, <1>2, <1>3, PTL DEF Spec
=============================================================================
