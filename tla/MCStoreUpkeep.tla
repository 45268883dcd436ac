--------------------------- MODULE MCStoreUpkeep ---------------------------
(* Instance of StoreUpkeep for TLC. *)
EXTENDS StoreUpkeep, TLC
CONSTANTS c1, c2, f1, f2, l1, l2, g1
TwoHandovers == <<f1, f2>>
OwnNames == [l \in Lane |-> l]
Symmetry == Permutations(Cmd)

\* Nothing has been done about a lane.
LanesUntouched ==
  /\ db.lanes = EmptyStore.lanes /\ db.tasks = {} /\ arriving = NONE
  /\ laneOf = [f \in Handover |-> l1]
  /\ \A c \in Cmd : cmd[c].at \notin {"boot", "aliases", "delete", "save"}

\* Three commands of any kind; or six imports, backups and restores, with one upset.
Bounded == \/ spent.starts <= 3
           \/ LanesUntouched /\ spent.upsets <= 1
=============================================================================
