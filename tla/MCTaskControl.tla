---------------------------- MODULE MCTaskControl ----------------------------
(* Instances of TaskControl for TLC. *)
EXTENDS TaskControl, TLC

CONSTANTS t1, t2, a1, l1, l2

\* Two tasks of different lanes, or of the same lane, on one artifact.
TwoLanes == (t1 :> l1) @@ (t2 :> l2)
OneLane == (t1 :> l1) @@ (t2 :> l1)
SharedArtifact == (t1 :> {a1}) @@ (t2 :> {a1})

\* One task on its own.
Alone == t1 :> l1
AloneArtifact == t1 :> {a1}
=============================================================================
