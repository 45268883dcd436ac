---------------------------- MODULE MCServiceLock ----------------------------
(* Instances of ServiceLock for TLC. *)
EXTENDS ServiceLock

CONSTANTS p1, p2, p3
=============================================================================
