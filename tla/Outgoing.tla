------------------------------ MODULE Outgoing ------------------------------
(***************************************************************************)
(* The sending side of one bridge: rows of the table outgoing, the worker  *)
(* that writes one of them to its peer's socket in each tick, and the      *)
(* socket loop that stores the peer's receipts.  The two are threads of    *)
(* one listener; the command that queues a row is a process of its own.    *)
(*                                                                         *)
(* An action is one transaction, or one use of the peer's socket.          *)
(***************************************************************************)
EXTENDS Naturals

CONSTANTS
  MaxOut,       \* rows are 1..MaxOut, in the order of their creation time
  MaxCrash      \* bound on deaths of the listener

ASSUME OutgoingAssumption == MaxOut \in Nat /\ MaxCrash \in Nat

Rows == 1..MaxOut

\* What a peer may say about a message: a first word and a last one.
Receipts == {"held", "delivered", "expired"}

VARIABLES
  out,          \* row -> its status, "absent" before it is inserted
  receipt,      \* row -> body of the stored receipt, "none" without one
  wpc, wrow,    \* the worker: its place, and the row it has claimed
  wresult,      \* status it is going to store
  crashes,
  sent,         \* row -> frames that reached the peer's socket
  verdict       \* row -> what the peer says of it: outside of src/

worker == <<wpc, wrow, wresult>>
vars == <<out, receipt, worker, crashes, sent, verdict>>

\* "peer_" + body: the status a receipt leaves.
PeerStatus(r) ==
  CASE r = "held"      -> "peer_held"
    [] r = "delivered" -> "peer_delivered"
    [] r = "expired"   -> "peer_expired"

PeerStatuses == {PeerStatus(r) : r \in Receipts}
Statuses == {"absent", "pending", "writing", "written", "uncertain"} \cup PeerStatuses

TypeOK ==
  /\ out \in [Rows -> Statuses]
  /\ receipt \in [Rows -> Receipts \cup {"none"}]
  /\ wpc \in {"down", "idle", "write", "result"}
  /\ wrow \in 0..MaxOut
  /\ wresult \in {"none", "written", "uncertain"}
  /\ crashes \in 0..MaxCrash
  /\ sent \in [Rows -> Nat]
  /\ verdict \in [Rows -> Receipts \cup {"none"}]

Listening == wpc # "down"
Pending == {i \in Rows : out[i] = "pending"}

Init ==
  /\ out = [i \in Rows |-> "absent"]
  /\ receipt = [i \in Rows |-> "none"]
  /\ wpc = "idle" /\ wrow = 0 /\ wresult = "none" /\ crashes = 0
  /\ sent = [i \in Rows |-> 0]
  /\ verdict = [i \in Rows |-> "none"]

\* send: its look at the listener is older than the insert, so the listener may be
\* gone by now.  Two commands may insert against the order of their creation times.
Send(i) ==
  /\ out[i] = "absent"
  /\ out' = [out EXCEPT ![i] = "pending"]
  /\ UNCHANGED <<receipt, worker, crashes, sent, verdict>>

\* Mistaken variant: the row is claimed only once it has been written.
ClaimLate(i) ==
  /\ wpc = "idle"
  /\ i \in Pending /\ \A k \in Pending : i <= k
  /\ wpc' = "write" /\ wrow' = i
  /\ UNCHANGED <<out, wresult, receipt, crashes, sent, verdict>>

\* dispatch: the oldest pending row is claimed before anything is written.
Claim(i) ==
  /\ wpc = "idle"
  /\ i \in Pending /\ \A k \in Pending : i <= k
  /\ out' = [out EXCEPT ![i] = "writing"]
  /\ wpc' = "write" /\ wrow' = i
  /\ UNCHANGED <<wresult, receipt, crashes, sent, verdict>>

\* outbound: it may fail before it has connected, after the frame has got through,
\* or not at all.
Outbound(result, reached) == result = "written" => reached

Write(result, reached) ==
  /\ wpc = "write"
  /\ Outbound(result, reached)
  /\ sent' = [sent EXCEPT ![wrow] = IF reached THEN @ + 1 ELSE @]
  /\ wresult' = result
  /\ wpc' = "result"
  /\ UNCHANGED <<out, wrow, receipt, crashes, verdict>>

\* Mistaken variant: a failed write is tried again.
ResultRetried ==
  /\ wpc = "result"
  /\ out' = [out EXCEPT ![wrow] = IF wresult = "uncertain" THEN "pending" ELSE wresult]
  /\ wpc' = "idle" /\ wrow' = 0 /\ wresult' = "none"
  /\ UNCHANGED <<receipt, crashes, sent, verdict>>

\* The outcome is stored whatever the row has become meanwhile.
Result ==
  /\ wpc = "result"
  /\ out' = [out EXCEPT ![wrow] = wresult]
  /\ wpc' = "idle" /\ wrow' = 0 /\ wresult' = "none"
  /\ UNCHANGED <<receipt, crashes, sent, verdict>>

\* Store.accept of a receipt: an exact repeat is dropped, a new one replaces the old.
AcceptReceipt(i) ==
  /\ Listening
  /\ verdict[i] # "none"
  /\ receipt[i] # verdict[i]
  /\ receipt' = [receipt EXCEPT ![i] = verdict[i]]
  /\ out' = [out EXCEPT ![i] = PeerStatus(verdict[i])]
  /\ UNCHANGED <<worker, crashes, sent, verdict>>

Crash ==
  /\ Listening
  /\ crashes < MaxCrash
  /\ crashes' = crashes + 1
  /\ wpc' = "down" /\ wrow' = 0 /\ wresult' = "none"
  /\ UNCHANGED <<out, receipt, sent, verdict>>

\* Mistaken variant: an interrupted write is tried again.
RestartRetrying ==
  /\ wpc = "down"
  /\ wpc' = "idle"
  /\ out' = [i \in Rows |-> IF out[i] = "writing" THEN "pending" ELSE out[i]]
  /\ UNCHANGED <<wrow, wresult, receipt, crashes, sent, verdict>>

\* Mistaken variant: the start does not look for interrupted writes.
RestartBlindly ==
  /\ wpc = "down"
  /\ wpc' = "idle"
  /\ UNCHANGED <<out, wrow, wresult, receipt, crashes, sent, verdict>>

\* serve: what was being written is uncertain, and never tried again.
Restart ==
  /\ wpc = "down"
  /\ wpc' = "idle"
  /\ out' = [i \in Rows |-> IF out[i] = "writing" THEN "uncertain" ELSE out[i]]
  /\ UNCHANGED <<wrow, wresult, receipt, crashes, sent, verdict>>

\* The peer answers a frame it has got, at once or later, and may correct "held".
Answer(i, r) ==
  /\ sent[i] > 0
  /\ verdict[i] \in {"none", "held"} /\ verdict[i] # r
  /\ verdict' = [verdict EXCEPT ![i] = r]
  /\ UNCHANGED <<out, receipt, worker, crashes, sent>>

Worker ==
  \/ \E i \in Rows : Claim(i)
  \/ \E result \in {"written", "uncertain"}, reached \in BOOLEAN : Write(result, reached)
  \/ Result

Next ==
  \/ Worker
  \/ \E i \in Rows : Send(i) \/ AcceptReceipt(i)
  \/ Crash \/ Restart
  \/ \E i \in Rows, r \in Receipts : Answer(i, r)

Spec == Init /\ [][Next]_vars

\* The worker ticks while the listener lives; the watchdog starts a dead one again.
FairSpec == Spec /\ WF_vars(Worker) /\ WF_vars(Restart)

-----------------------------------------------------------------------------
\* A message is written to its peer at most once, across failed writes, crashes and
\* restarts: "no retry of ambiguous writes" (dispatch).
SentOnce == \A i \in Rows : sent[i] <= 1

\* The status never claims more than happened, nor hides that it happened: a pending
\* row has not been written, a written one has, and the peer has spoken of a row with
\* a peer's status (what status and send report).
StatusIsHonest ==
  \A i \in Rows :
    /\ out[i] \in {"absent", "pending"} => sent[i] = 0
    /\ out[i] \in {"written"} \cup PeerStatuses => sent[i] > 0
    /\ out[i] \in PeerStatuses => out[i] = PeerStatus(receipt[i])

\* A row is "writing" only while the worker is at it or the listener is down, so the
\* recovery of the next start cannot miss it.
WritingIsOwned ==
  \A i \in Rows :
    out[i] = "writing" => wpc = "down" \/ (wpc \in {"write", "result"} /\ wrow = i)

\* Every queued row is decided: no failing peer and no crash leaves it pending.
SendIsDecided ==
  \A i \in Rows : out[i] = "pending" ~> out[i] \notin {"absent", "pending", "writing"}

\* The abstract promise, with the rows the worker has claimed and not yet written.
Promise ==
  INSTANCE Handover
    WITH Items <- Rows,
         arrived <- {i \in Rows : out[i] # "absent"},
         waiting <- Pending \cup {i \in Rows : wpc = "write" /\ wrow = i},
         given <- sent

\* Sending keeps the promise of Handover.
HandsOver == Promise!Spec

\* "The later receipt must be accepted and become the visible status"
\* (tests/test_peer_chat.py:720): a row shows the last receipt stored for it.
ReceiptIsShown ==
  \A i \in Rows : receipt[i] # "none" => out[i] = PeerStatus(receipt[i])
=============================================================================
