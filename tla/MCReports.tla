----------------------------- MODULE MCReports -----------------------------
(* Reports on small instances; the other values are in the .cfg file. *)
EXTENDS Reports, TLC

CONSTANTS h1, h2

SomeKinds ==
    {[type |-> "file.upload", result |-> "success", actor |-> "admin"],
     [type |-> "file.upload", result |-> "success", actor |-> "guest"],
     [type |-> "auth.login.failure", result |-> "failure", actor |-> NoActor]}
All == [equal |-> <<>>, from |-> 0, to |-> Forever]
SomeFilters ==
    [events |-> {All, [All EXCEPT !.equal = [result |-> "failure"]]},
     alerts |-> {All, [All EXCEPT !.equal = [status |-> "open"]]}]
SomeWindows == {[All EXCEPT !.to = 1], [All EXCEPT !.from = 1, !.to = 2]}
SomeLimits == {0, 3}
Caps == [events |-> 2, alerts |-> 2, actors |-> 1]
StepFails == {"step"}
Symmetry == Permutations(Threads)
=============================================================================
