--------------------------- MODULE MCEventWriter ---------------------------
(* EventWriter on small instances; the values are in the .cfg files. *)
EXTENDS EventWriter, TLC

NoFault  == {}
AnyFault == SqliteCalls
StatementFaults == {"begin", "prepare", "insert"}
CommitFault == {"commit"}
Symmetry == Permutations(Threads)
=============================================================================
