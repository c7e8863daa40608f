------------------------------ MODULE MCFiles ------------------------------
(* Files on small instances; the other values are in the .cfg files. *)
EXTENDS Files, TLC

CONSTANTS t1, t2

P == {<<"a">>, <<"a", "x">>, <<"b">>, <<"b", "x">>}
SomeTrees == {(<<"a">> :> Dir) @@ (<<"a", "x">> :> Content(0)) @@ (<<"b">> :> Absent)
              @@ (<<"b", "x">> :> Absent)}
SomeFail == {"remove", "save"}
Symmetry == Permutations(Threads)
=============================================================================
