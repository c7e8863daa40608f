--------------------------- MODULE MCBackupEngine ---------------------------
(* BackupEngine on small instances; the other values are in the .cfg files. *)
EXTENDS BackupEngine, TLC

\* A directory with a file in it; beside it what belongs to HomeNAS.
P == {<<"a">>, <<"a", "x">>, <<".nas-meta">>}
OneTree == {(<<"a">> :> Dir) @@ (<<"a", "x">> :> File(1, 1, 1))
            @@ (<<".nas-meta">> :> File(2, 1, 2))}

AnyFault == {"walk", "stat", "copy", "mtime", "remove"}
OneSize == {1}
TwoSizes == {1, 2}
NoFault == {}
=============================================================================
