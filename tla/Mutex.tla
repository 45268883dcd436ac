-------------------------------- MODULE Mutex --------------------------------
(***************************************************************************)
(* What a workspace lock promises: a process enters when nobody is inside,  *)
(* and leaves, of its own accord or because it ended.                       *)
(***************************************************************************)
CONSTANT Proc
VARIABLE owners   \* the processes inside

Init == owners = {}

Enter(p) == owners = {} /\ owners' = {p}

Leave(p) == p \in owners /\ owners' = owners \ {p}

Next == \E p \in Proc : Enter(p) \/ Leave(p)

Spec == Init /\ [][Next]_owners
=============================================================================
