--------------------------- MODULE OutgoingProofs ---------------------------
(***************************************************************************)
(* Proofs about Outgoing for any number of rows and of crashes: types,     *)
(* at most one write to the peer, statuses that claim no more than         *)
(* happened, that sending implements Handover, and that a claimed row is   *)
(* decided in the end.                                                     *)
(*                                                                         *)
(* The argument is about the claim: a row leaves "pending" before it is    *)
(* written (Claimed), and nothing but the worker that holds the claim      *)
(* writes it, so the one write finds sent = 0.  What the peer says comes   *)
(* after that write (PeerIsLate), hence cannot touch a row still unwritten.*)
(***************************************************************************)
EXTENDS Outgoing, TLAPS

\* The worker between its claim and its write, and between write and result.
Claimed ==
  wpc = "write" => wrow \in Rows /\ out[wrow] = "writing" /\ sent[wrow] = 0

Written ==
  wpc = "result" =>
    /\ wrow \in Rows
    /\ out[wrow] \notin {"absent", "pending"}
    /\ wresult # "none"
    /\ wresult = "written" => sent[wrow] > 0

\* The peer speaks of a row, and its receipt is stored, only after the write.
PeerIsLate ==
  \A i \in Rows : verdict[i] # "none" \/ receipt[i] # "none" => sent[i] > 0

IInv ==
  TypeOK /\ Claimed /\ Written /\ PeerIsLate /\ SentOnce /\ StatusIsHonest /\ WritingIsOwned

\* What the receipts become, as the provers need it: no two of them look alike.
LEMMA PeerStatusType ==
  \A r \in Receipts :
    /\ PeerStatus(r) \in PeerStatuses
    /\ PeerStatus(r) \in Statuses
    /\ PeerStatus(r) \notin {"absent", "pending", "writing", "written", "uncertain"}
BY DEF PeerStatus, PeerStatuses, Statuses, Receipts

LEMMA PeerStatusesAre == PeerStatuses = {"peer_held", "peer_delivered", "peer_expired"}
BY DEF PeerStatus, PeerStatuses, Receipts

\* The invariant holds at first: no row exists and the worker idles.
LEMMA InitIInv == Init => IInv
BY OutgoingAssumption, PeerStatusesAre
   DEF Init, IInv, TypeOK, Claimed, Written, PeerIsLate, SentOnce, StatusIsHonest,
       WritingIsOwned, Statuses, Rows

\* One step per action; Crash and Restart move the claim, Answer and AcceptReceipt
\* find a written row.
LEMMA NextIInv == IInv /\ [Next]_vars => IInv'
<1> SUFFICES ASSUME IInv, [Next]_vars PROVE IInv'
  OBVIOUS
<1> USE OutgoingAssumption, PeerStatusesAre
    DEF IInv, TypeOK, Claimed, Written, PeerIsLate, SentOnce, StatusIsHonest,
        WritingIsOwned, Statuses, Rows, worker
<1>1. ASSUME NEW i \in Rows, Send(i) PROVE IInv'
  BY <1>1 DEF Send
<1>2. ASSUME NEW i \in Rows, Claim(i) PROVE IInv'
  BY <1>2 DEF Claim, Pending
<1>3. ASSUME NEW result \in {"written", "uncertain"}, NEW reached \in BOOLEAN,
             Write(result, reached)
      PROVE IInv'
  BY <1>3 DEF Write, Outbound
<1>4. CASE Result
  BY <1>4 DEF Result
<1>5. ASSUME NEW i \in Rows, AcceptReceipt(i) PROVE IInv'
  BY <1>5, PeerStatusType DEF AcceptReceipt, Listening
<1>6. CASE Crash
  BY <1>6 DEF Crash, Listening
<1>7. CASE Restart
  BY <1>7 DEF Restart
<1>8. ASSUME NEW i \in Rows, NEW r \in Receipts, Answer(i, r) PROVE IInv'
  BY <1>8 DEF Answer, Receipts
<1>9. CASE UNCHANGED vars
  BY <1>9 DEF vars
<1> QED
  BY <1>1, <1>2, <1>3, <1>4, <1>5, <1>6, <1>7, <1>8, <1>9 DEF Next, Worker

LEMMA Invariance == Spec => []IInv
BY InitIInv, NextIInv, PTL DEF Spec

\* Every reachable state is typed (the tables outgoing and messages, dispatch).
THEOREM TypeCorrect == Spec => []TypeOK
BY Invariance, PTL DEF IInv

\* dispatch: "no retry of ambiguous writes".  A frame reaches the peer at most once.
THEOREM SentAtMostOnce == Spec => []SentOnce
BY Invariance, PTL DEF IInv

\* Statuses that dispatch, accept and serve store agree with what was written.
THEOREM HonestStatus == Spec => []StatusIsHonest
BY Invariance, PTL DEF IInv

\* The recovery of serve finds every interrupted write.
THEOREM WritingOwned == Spec => []WritingIsOwned
BY Invariance, PTL DEF IInv

-----------------------------------------------------------------------------
\* The initial states of the sending side are initial states of the promise.
LEMMA InitHandsOver == Init => Promise!Init
BY OutgoingAssumption DEF Init, Promise!Init, Pending, Rows

\* Every step of the sending side is a step of the promise or leaves its view alone.
LEMMA NextHandsOver == IInv /\ [Next]_vars => [Promise!Next]_(Promise!handover)
<1> SUFFICES ASSUME IInv, [Next]_vars PROVE [Promise!Next]_(Promise!handover)
  OBVIOUS
<1> DEFINE Arrived == {i \in Rows : out[i] # "absent"}
           Waiting == Pending \cup {i \in Rows : wpc = "write" /\ wrow = i}
<1>0. ASSUME NEW S \in SUBSET Waiting, NEW T \in SUBSET S,
             Arrived' = Arrived, Waiting' = Waiting \ S,
             sent' = [i \in Rows |-> IF i \in T THEN sent[i] + 1 ELSE sent[i]]
      PROVE Promise!Next
  BY <1>0 DEF Promise!Next, Promise!Leave
<1> USE DEF IInv, TypeOK, Claimed, Written
<1>1. ASSUME NEW i \in Rows, Send(i) PROVE Promise!Next
  <2>1. Arrived' = Arrived \cup {i} /\ Waiting' = Waiting \cup {i}
    BY <1>1 DEF Send, Pending, worker
  <2>2. Promise!Arrive(i)
    BY <1>1, <2>1 DEF Send, Promise!Arrive
  <2> QED
    BY <2>2 DEF Promise!Next
<1>2. ASSUME NEW i \in Rows, Claim(i) PROVE UNCHANGED Promise!handover
  BY <1>2 DEF Claim, Pending, Promise!handover
<1>3. ASSUME NEW result \in {"written", "uncertain"}, NEW reached \in BOOLEAN,
             Write(result, reached)
      PROVE Promise!Next
  <2> DEFINE T == IF reached THEN {wrow} ELSE {}
  <2>1. {wrow} \in SUBSET Waiting /\ Waiting' = Waiting \ {wrow} /\ Arrived' = Arrived
    BY <1>3 DEF Write, Pending
  <2>2. sent' = [i \in Rows |-> IF i \in T THEN sent[i] + 1 ELSE sent[i]]
    BY <1>3 DEF Write
  <2>3. T \in SUBSET {wrow}
    OBVIOUS
  <2> HIDE DEF T
  <2> QED
    BY <1>0, <2>1, <2>2, <2>3
<1>4. CASE Result
  <2>1. Arrived' = Arrived /\ Waiting' = Waiting
    BY <1>4 DEF Result, Pending
  <2> QED
    BY <1>4, <2>1 DEF Result, Promise!handover
<1>5. ASSUME NEW i \in Rows, AcceptReceipt(i) PROVE UNCHANGED Promise!handover
  <2>1. out[i] \notin {"absent", "pending"} /\ out'[i] \notin {"absent", "pending"}
    BY <1>5, PeerStatusType DEF AcceptReceipt, PeerIsLate, StatusIsHonest
  <2>2. Arrived' = Arrived /\ Waiting' = Waiting
    BY <1>5, <2>1 DEF AcceptReceipt, Pending, worker
  <2> QED
    BY <1>5, <2>2 DEF AcceptReceipt, Promise!handover
<1>6. CASE Crash
  <2> DEFINE S == {i \in Rows : wpc = "write" /\ wrow = i}
  <2>1. Arrived' = Arrived /\ Waiting' = Waiting \ S
    BY <1>6 DEF Crash, Pending
  <2>2. sent' = [i \in Rows |-> IF i \in {} THEN sent[i] + 1 ELSE sent[i]]
    BY <1>6 DEF Crash
  <2>3. S \in SUBSET Waiting /\ {} \in SUBSET S
    OBVIOUS
  <2> HIDE DEF S
  <2> QED
    BY <1>0, <2>1, <2>2, <2>3
<1>7. CASE Restart
  <2>1. Arrived' = Arrived /\ Waiting' = Waiting
    BY <1>7 DEF Restart, Pending
  <2> QED
    BY <1>7, <2>1 DEF Restart, Promise!handover
<1>8. ASSUME NEW i \in Rows, NEW r \in Receipts, Answer(i, r)
      PROVE UNCHANGED Promise!handover
  BY <1>8 DEF Answer, Promise!handover, Pending, worker
<1>9. CASE UNCHANGED vars
  BY <1>9 DEF vars, worker, Promise!handover, Pending
<1> QED
  BY <1>1, <1>2, <1>3, <1>4, <1>5, <1>6, <1>7, <1>8, <1>9 DEF Next, Worker

\* The sending side implements the promise: a row waits from its insert to its write
\* and is passed on by that write alone.
THEOREM SendingHandsOver == Spec => HandsOver
BY Invariance, InitHandsOver, NextHandsOver, PTL DEF Spec, HandsOver, Promise!Spec
-----------------------------------------------------------------------------
(* Half of SendIsDecided: a row the worker has claimed.  The other half, that each       *)
(* pending row is claimed, is an induction over the rows before it.                      *)

Decided(i) == out[i] \notin {"absent", "pending", "writing"}
Writing(i, place) == out[i] = "writing" /\ wpc = place

\* From its claim a row goes through the worker's places, or waits for the next start.
LEMMA ClaimedGoesOn ==
  ASSUME NEW i \in Rows, IInv, out[i] = "writing", [Next]_vars
  PROVE  /\ wpc \in {"write", "result", "down"}
         /\ wpc = "write" =>
              \/ Decided(i)'
              \/ Writing(i, "write")' /\ ~<<Worker>>_vars
              \/ Writing(i, "result")'
              \/ Writing(i, "down")'
         /\ wpc = "result" =>
              \/ Decided(i)'
              \/ Writing(i, "result")' /\ ~<<Worker>>_vars
              \/ Writing(i, "down")'
         /\ wpc = "down" => Decided(i)' \/ (Writing(i, "down")' /\ ~<<Restart>>_vars)
<1> USE PeerStatusesAre
    DEF IInv, TypeOK, Claimed, Written, WritingIsOwned, Rows, worker, Decided, Writing
<1>1. wpc \in {"write", "result", "down"} /\ (wpc # "down" => wrow = i)
  OBVIOUS
<1>2. ASSUME NEW k \in Rows, Claim(k) PROVE FALSE
  BY <1>1, <1>2 DEF Claim
<1>3. ASSUME NEW result \in {"written", "uncertain"}, NEW reached \in BOOLEAN,
             Write(result, reached)
      PROVE wpc = "write" /\ Writing(i, "result")'
  BY <1>3 DEF Write
<1>4. CASE Result
  BY <1>1, <1>4 DEF Result
<1>5. CASE Worker
  BY <1>1, <1>2, <1>3, <1>4, <1>5 DEF Worker
<1>6. CASE Restart
  BY <1>1, <1>6 DEF Restart
<1>7. CASE Crash
  BY <1>1, <1>7 DEF Crash, Listening
<1>8. ASSUME NEW k \in Rows, Send(k) \/ AcceptReceipt(k)
      PROVE wpc' = wpc /\ (Decided(i)' \/ out'[i] = "writing")
  BY <1>8, PeerStatusType DEF Send, AcceptReceipt
<1>9. ASSUME NEW k \in Rows, NEW r \in Receipts, Answer(k, r)
      PROVE UNCHANGED <<out, wpc>>
  BY <1>9 DEF Answer
<1>10. CASE UNCHANGED vars
  BY <1>10 DEF vars
<1>11. CASE ~Worker /\ ~Restart
  BY <1>1, <1>7, <1>8, <1>9, <1>10, <1>11 DEF Next
<1> QED
  BY <1>1, <1>5, <1>6, <1>11 DEF Worker, Restart, Write, Claim, Result

\* However often the listener dies and whatever the peer does, a row that is being written
\* becomes "written" or "uncertain", or what its peer says of it (dispatch, serve).  That
\* the worker and the restart can take their steps is a hypothesis.
THEOREM ClaimedIsDecided ==
  ASSUME NEW i \in Rows
  PROVE  /\ [](wpc \in {"write", "result"} => ENABLED <<Worker>>_vars)
         /\ [](wpc = "down" => ENABLED <<Restart>>_vars)
         /\ FairSpec
         => (out[i] = "writing" ~> Decided(i))
<1> DEFINE W == out[i] = "writing"
           AtWrite == Writing(i, "write")
           AtResult == Writing(i, "result")
           Down == Writing(i, "down")
<1>1. IInv /\ [Next]_vars =>
        /\ W => AtWrite \/ AtResult \/ Down
        /\ AtWrite => \/ Decided(i)' \/ AtResult' \/ Down'
                      \/ AtWrite' /\ ~<<Worker>>_vars
        /\ AtResult => Decided(i)' \/ Down' \/ (AtResult' /\ ~<<Worker>>_vars)
        /\ Down => Decided(i)' \/ (Down' /\ ~<<Restart>>_vars)
  BY ClaimedGoesOn DEF Writing
<1>2. /\ AtWrite \/ AtResult => wpc \in {"write", "result"}
      /\ Down => wpc = "down"
  BY DEF Writing
<1> HIDE DEF W, AtWrite, AtResult, Down
<1>3. (/\ [](wpc \in {"write", "result"} => ENABLED <<Worker>>_vars)
       /\ [](wpc = "down" => ENABLED <<Restart>>_vars)
       /\ FairSpec) => (W ~> Decided(i))
  BY <1>1, <1>2, Invariance, PTL DEF FairSpec, Spec
<1> QED
  BY <1>3 DEF W
=============================================================================
