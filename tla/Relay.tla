-------------------------------- MODULE Relay --------------------------------
(***************************************************************************)
(* Replies and the chain of hops.  Two agents that answer each other at    *)
(* once must not go on for ever: a reply takes the chain of the message it *)
(* answers, each bridge adds itself, and a message with HopLimit hops is   *)
(* held.  What a message answers is noted by the command that sends it and *)
(* read by the worker that dispatches it, in different processes.          *)
(***************************************************************************)
EXTENDS Naturals, Sequences

CONSTANTS
  Bridges,      \* Codex bridges, each enrolled with the others
  MaxSends,     \* messages, numbered as their command begins
  HopLimit,     \* 8 in the code
  ChainLimit    \* hops an outgoing message may have (32 in the code)

ASSUME RelayAssumption ==
  /\ {MaxSends, HopLimit, ChainLimit} \subseteq Nat
  /\ 0 < HopLimit /\ HopLimit <= ChainLimit

Sends == 1..MaxSends

VARIABLES
  sending,      \* message -> its command and its row in outgoing
  replyTo,      \* keys reply_to:<mid>: message -> the message it answers (0: no key)
  arrived,      \* message -> its row in the receiver's inbox
  chain         \* history: message -> messages it comes after in answers, and itself

relayVars == <<sending, replyTo, arrived, chain>>

NotSent == [pc |-> "free", from |-> {}, to |-> {}, answers |-> 0]
NotArrived == [status |-> "none", hops |-> <<>>]

RelayTypeOK ==
  /\ sending \in [Sends -> [pc : {"free", "note", "queue", "queued", "done"},
                            from : {{}} \cup {{b} : b \in Bridges},
                            to : {{}} \cup {{b} : b \in Bridges}, answers : 0..MaxSends]]
  /\ replyTo \in [Sends -> 0..MaxSends]
  /\ \A m \in Sends :
       /\ arrived[m].status \in {"none", "received", "offered", "held"}
       /\ Len(arrived[m].hops) <= ChainLimit
  /\ chain \in [Sends -> 0..MaxSends]

RelayInit ==
  /\ sending = [m \in Sends |-> NotSent]
  /\ replyTo = [m \in Sends |-> 0]
  /\ arrived = [m \in Sends |-> NotArrived]
  /\ chain = [m \in Sends |-> 0]

IsNext(m) == sending[m].pc = "free" /\ \A n \in 1..(m - 1) : sending[n].pc # "free"

-----------------------------------------------------------------------------
(* send *)

SendsNew(m, a, b) ==
  /\ IsNext(m) /\ a # b
  /\ sending' = [sending EXCEPT ![m] = [pc |-> "queue", from |-> {a}, to |-> {b},
                                        answers |-> 0]]
  /\ chain' = [chain EXCEPT ![m] = 1]
  /\ UNCHANGED <<replyTo, arrived>>

\* An agent answers what it has been shown, as often as it likes; the target is the peer
\* that the answered message came from.
Answers(m, n) ==
  /\ IsNext(m) /\ arrived[n].status = "offered"
  /\ sending' = [sending EXCEPT ![m] = [pc |-> "note", from |-> sending[n].to,
                                        to |-> sending[n].from, answers |-> n]]
  /\ chain' = [chain EXCEPT ![m] = chain[n] + 1]
  /\ UNCHANGED <<replyTo, arrived>>

\* Mistaken variant: the row is there before the key that tells what it answers.
NotesLate(m) ==
  /\ sending[m].pc = "note"
  /\ sending' = [sending EXCEPT ![m].pc = "queue"]
  /\ UNCHANGED <<replyTo, arrived, chain>>

Notes(m) ==
  /\ sending[m].pc = "note"
  /\ replyTo' = [replyTo EXCEPT ![m] = sending[m].answers]
  /\ sending' = [sending EXCEPT ![m].pc = "queue"]
  /\ UNCHANGED <<arrived, chain>>

Queues(m) ==
  /\ sending[m].pc = "queue"
  /\ sending' = [sending EXCEPT ![m].pc = "queued"]
  /\ UNCHANGED <<replyTo, arrived, chain>>

\* The command is killed between its two writes.
SendFails(m) ==
  /\ sending[m].pc \in {"note", "queue"}
  /\ sending' = [sending EXCEPT ![m].pc = "done"]
  /\ UNCHANGED <<replyTo, arrived, chain>>

-----------------------------------------------------------------------------
(* dispatch, outbound and decode_frame; the guard of hooks and of the worker *)

\* The chain of the row with that id, if it came from the peer the answer goes to.
PriorHops(m) ==
  LET n == replyTo[m] IN
  IF n # 0 /\ sending[n].from = sending[m].to THEN arrived[n].hops ELSE <<>>

\* Mistaken variant: a bridge that is in the chain already does not add itself, as it is
\* right for a peer that is no bridge.
WithOwnHopOnce(hops, from) ==
  hops \o (IF \E b \in from, i \in 1..Len(hops) : hops[i] = b THEN <<>>
           ELSE <<CHOOSE b \in from : TRUE>>)

WithOwnHop(hops, from) == Append(hops, CHOOSE b \in from : TRUE)

\* The write may not arrive; a chain that is too long is not sent.
Dispatches(m, arrives) ==
  LET hops == WithOwnHop(PriorHops(m), sending[m].from) IN
  /\ sending[m].pc = "queued"
  /\ sending' = [sending EXCEPT ![m].pc = "done"]
  /\ arrived' = IF arrives /\ Len(hops) <= ChainLimit
                  THEN [arrived EXCEPT ![m] = [status |-> "received", hops |-> hops]]
                  ELSE arrived
  /\ UNCHANGED <<replyTo, chain>>

\* A hook or a wake shows it, or its guard holds it.
Guarded(m) ==
  /\ arrived[m].status = "received"
  /\ arrived' = [arrived EXCEPT ![m].status =
                   IF Len(arrived[m].hops) >= HopLimit THEN "held" ELSE "offered"]
  /\ UNCHANGED <<sending, replyTo, chain>>

RelayNext ==
  \E m \in Sends :
    \/ \E a, b \in Bridges : SendsNew(m, a, b)
    \/ \E n \in Sends : Answers(m, n)
    \/ Notes(m) \/ Queues(m) \/ SendFails(m)
    \/ \E arrives \in BOOLEAN : Dispatches(m, arrives)
    \/ Guarded(m)

RelaySpec == RelayInit /\ [][RelayNext]_relayVars

-----------------------------------------------------------------------------
\* A conversation of agents that answer at once comes to its end: what is shown to an
\* agent has fewer than HopLimit messages before it and with it in its chain of answers.
LoopsEnd == \A m \in Sends : arrived[m].status = "offered" => chain[m] < HopLimit
=============================================================================
