------------------------------- MODULE Notices -------------------------------
(***************************************************************************)
(* The receiving side of the delivery advisories: the listener keeps the   *)
(* last notice of every sender in one key of the store, and a hook takes   *)
(* them all and shows them to the model.                                   *)
(***************************************************************************)
EXTENDS Naturals

CONSTANTS
  Senders,      \* enrolled bridges that advise
  MaxNotice     \* notices of one sender, numbered

ASSUME NoticesAssumption == MaxNotice \in Nat

VARIABLES
  written,      \* sender -> notices written so far
  coming,       \* notices on their way, each on a connection of its own
  keeper,       \* the listener in store_notice
  notices,      \* the key peer_notices: sender -> its notice (0: none)
  unshown       \* history: sender -> the notice stored last, unless a hook has taken it

noticesVars == <<written, coming, keeper, notices, unshown>>

NoticeMaps == [Senders -> 0..MaxNotice]
NoNotices == [s \in Senders |-> 0]
\* A set of one notice while the listener is in store_notice.
NotKeeping == [notice |-> {}, copy |-> NoNotices]

NoticesTypeOK ==
  /\ written \in NoticeMaps /\ notices \in NoticeMaps /\ unshown \in NoticeMaps
  /\ coming \subseteq Senders \X (1..MaxNotice)
  /\ keeper \in [notice : SUBSET (Senders \X (1..MaxNotice)), copy : NoticeMaps]

NoticesInit ==
  /\ written = NoNotices /\ coming = {} /\ keeper = NotKeeping
  /\ notices = NoNotices /\ unshown = NoNotices

SenderAdvises(s) ==
  /\ written[s] < MaxNotice
  /\ written' = [written EXCEPT ![s] = @ + 1]
  /\ coming' = coming \cup {<<s, written'[s]>>}
  /\ UNCHANGED <<keeper, notices, unshown>>

\* The select comes before the transaction that the write opens.
KeeperReads ==
  \E n \in coming :
    /\ keeper = NotKeeping
    /\ coming' = coming \ {n}
    /\ keeper' = [notice |-> {n}, copy |-> notices]
    /\ UNCHANGED <<written, notices, unshown>>

\* Mistaken variant: a notice takes the place of those of the other senders.
KeeperReplaces ==
  \E n \in keeper.notice :
    /\ notices' = [NoNotices EXCEPT ![n[1]] = n[2]]
    /\ unshown' = [unshown EXCEPT ![n[1]] = n[2]]
    /\ keeper' = NotKeeping
    /\ UNCHANGED <<written, coming>>

KeeperWrites ==
  \E n \in keeper.notice :
    /\ notices' = [keeper.copy EXCEPT ![n[1]] = n[2]]
    /\ unshown' = [unshown EXCEPT ![n[1]] = n[2]]
    /\ keeper' = NotKeeping
    /\ UNCHANGED <<written, coming>>

\* The listener dies in between: the notice is lost.
KeeperDies ==
  /\ keeper # NotKeeping
  /\ keeper' = NotKeeping
  /\ UNCHANGED <<written, coming, notices, unshown>>

\* One transaction that deletes what the hook then shows.
HookTakesNotices ==
  /\ notices # NoNotices
  /\ notices' = NoNotices
  /\ unshown' = [s \in Senders |-> IF unshown[s] = notices[s] THEN 0 ELSE unshown[s]]
  /\ UNCHANGED <<written, coming, keeper>>

NoticesNext ==
  \/ \E s \in Senders : SenderAdvises(s)
  \/ KeeperReads \/ KeeperWrites \/ KeeperDies \/ HookTakesNotices

NoticesSpec == NoticesInit /\ [][NoticesNext]_noticesVars

-----------------------------------------------------------------------------
\* What the listener has stored stays until a hook has taken it or a later notice of the
\* same sender has come: a hook that takes the notices between the listener's look and its
\* write may see one come back, but none is ever lost.
NoticesAreKept == \A s \in Senders : unshown[s] # 0 => notices[s] = unshown[s]
=============================================================================
