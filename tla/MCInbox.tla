------------------------------- MODULE MCInbox -------------------------------
(* Instances of Inbox for TLC. *)
EXTENDS Inbox

CONSTANTS m1, m2, l1, l2
=============================================================================
