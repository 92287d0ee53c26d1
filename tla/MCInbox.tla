------------------------------- MODULE MCInbox -------------------------------
(***************************************************************************)
(* Instances of Inbox for TLC.  Messages are numbered, not interchangeable *)
(* (their order matters and message 2 or 3 is guarded), so only the hook   *)
(* processes are symmetric.                                                *)
(***************************************************************************)
EXTENDS Inbox, TLC

CONSTANTS h1, h2
HookSymmetry == Permutations({h1, h2})
=============================================================================
