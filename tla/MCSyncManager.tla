--------------------------- MODULE MCSyncManager ---------------------------
(* SyncManager on small instances; the values are in the .cfg files. *)
EXTENDS SyncManager, TLC

NoFault  == {}
RunFaults == {"open", "load", "walk", "copy", "delete", "persist"}
HashFault == {"hash"}
Never    == {}
Minute0  == {0}
Symmetry == Permutations(Callers)
=============================================================================
