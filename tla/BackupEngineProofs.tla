------------------------- MODULE BackupEngineProofs -------------------------
(***************************************************************************)
(* What a run of the backup engine does to the backup, for any tree of any *)
(* depth, any faults, any number of changes, crashes and runs.  First that *)
(* the backup of a file which stays where it is stays too: no run, cancel, *)
(* crash or failed call removes it.  Then that the copy of a file nobody   *)
(* changes stays good, and that a completed run leaves the backup equal to *)
(* the tree.                                                               *)
(***************************************************************************)
EXTENDS BackupEngine, TLAPS, SequenceTheorems

FileNode == [kind : {"file"}, data : Nat, size : Nat, mtime : Nat]

\* The trees, and what the copy in progress holds.
TreeTypes ==
    /\ nas \in [Paths -> Nodes] /\ backup \in [Paths -> Nodes] /\ mounted \in BOOLEAN
    /\ changes \in Nat /\ reading \in FileNode
    /\ steady \subseteq Paths /\ orphans \subseteq Paths
    /\ unvisited \subseteq Paths /\ files \subseteq Paths /\ misread \subseteq Paths
    /\ pc \in {"copy", "copying", "mtime"} => src \in Paths

\* A path that was steady all along is still a file of the tree, and no orphan
\* unless a call could not look at it.
SteadyThere == \A p \in steady : mounted /\ IsFile(nas[p])
SteadyKept == (steady \ misread) \cap orphans = {}

IInv == TreeTypes /\ SteadyThere /\ SteadyKept

-----------------------------------------------------------------------------

\* Entries are told apart by their kind.
LEMMA Kinds ==
  /\ Nodes = {Absent, Dir} \cup FileNode
  /\ ~IsFile(Absent) /\ ~IsFile(Dir) /\ Absent \in Nodes /\ Dir \in Nodes
  /\ NoFile \in FileNode
  /\ \A f \in FileNode : IsFile(f) /\ f \in Nodes
  /\ \A n \in Nodes : IsFile(n) => n \in FileNode
  BY DEF Nodes, FileNode, Absent, Dir, IsFile, NoFile, File

LEMMA FileMade ==
  ASSUME NEW d \in Nat, NEW s \in Nat, NEW m \in Nat
  PROVE  File(d, s, m) \in FileNode
  BY DEF File, FileNode

LEMMA PartlyTyped == Partly \subseteq FileNode
<1>1. Sizes \cup {0} \subseteq Nat
  BY TreeAssumption
<1> QED BY <1>1, FileMade DEF Partly

\* A mtime makes nothing of a file but a file.
LEMMA MtimeKeeps ==
  ASSUME NEW n \in Nodes, NEW m \in Nat
  PROVE  [n EXCEPT !.mtime = m] \in Nodes /\ (IsFile(n) => IsFile([n EXCEPT !.mtime = m]))
<1>1. CASE n = Absent \/ n = Dir
  <2>1. [n EXCEPT !.mtime = m] = n
    BY <1>1 DEF Absent, Dir
  <2> QED BY <2>1
<1>2. CASE n \in FileNode
  <2>1. [n EXCEPT !.mtime = m] \in FileNode
    BY <1>2 DEF FileNode
  <2> QED BY <2>1, Kinds
<1> QED BY <1>1, <1>2, Kinds

LEMMA OneOf == \A S : One(S) \subseteq S
  BY DEF One

LEMMA InitIInv == Init => IInv
<1> SUFFICES ASSUME Init PROVE IInv
  OBVIOUS
<1>1. nas \in [Paths -> Nodes]
  BY TreeAssumption DEF Init
<1> QED BY <1>1, Kinds DEF Init, IInv, TreeTypes, SteadyThere, SteadyKept

-----------------------------------------------------------------------------
(* The users of nas_storage *)

\* A change that leaves all paths but those of ps as they were.
LEMMA ChangedKeeps ==
  ASSUME IInv, NEW ps \in SUBSET Paths, Changed(ps),
         nas' \in [Paths -> Nodes], mounted' \in BOOLEAN,
         \A p \in Paths \ ps : nas'[p] = nas[p] /\ mounted' = mounted
  PROVE  IInv' /\ backup' = backup
<1>1. /\ changes' = changes + 1 /\ steady' = steady \ ps
      /\ UNCHANGED <<backup, pc, unvisited, files, src, reading, orphans, misread>>
  BY DEF Changed, runVars
<1>2. TreeTypes'
  BY <1>1 DEF IInv, TreeTypes
<1>3. SteadyThere'
  BY <1>1 DEF IInv, TreeTypes, SteadyThere
<1>4. SteadyKept'
  BY <1>1 DEF IInv, SteadyKept
<1> QED BY <1>1, <1>2, <1>3, <1>4 DEF IInv

LEMMA ChangeKeeps == IInv /\ Change => IInv' /\ backup' = backup
<1> SUFFICES ASSUME IInv, Change PROVE IInv' /\ backup' = backup
  OBVIOUS
<1>1. nas \in [Paths -> Nodes] /\ changes \in Nat /\ mounted \in BOOLEAN
  BY DEF IInv, TreeTypes
<1>2. ASSUME NEW p \in Paths, Write(p)
      PROVE  IInv' /\ backup' = backup
  <2>1. PICK size \in Sizes : nas' = [nas EXCEPT ![p] = File(NewVersion, size, NewVersion)]
    BY <1>2 DEF Write
  <2>2. size \in Nat /\ NewVersion \in Nat
    BY <1>1, TreeAssumption DEF NewVersion
  <2>3. File(NewVersion, size, NewVersion) \in Nodes
    BY <2>2, FileMade, Kinds
  <2>4. nas' \in [Paths -> Nodes] /\ \A q \in Paths \ {p} : nas'[q] = nas[q]
    BY <1>1, <2>1, <2>3
  <2>5. Changed({p}) /\ mounted' = mounted
    BY <1>2 DEF Write
  <2> QED BY <1>1, <2>4, <2>5, ChangedKeeps
<1>3. ASSUME NEW p \in Paths, Delete(p)
      PROVE  IInv' /\ backup' = backup
  <2>1. Subtree(p) \subseteq Paths
    BY DEF Subtree, Below
  <2>2. nas' \in [Paths -> Nodes] /\ \A q \in Paths \ Subtree(p) : nas'[q] = nas[q]
    BY <1>1, <1>3, Kinds DEF Delete, Without
  <2>3. Changed(Subtree(p)) /\ mounted' = mounted
    BY <1>3 DEF Delete
  <2> QED BY <1>1, <2>1, <2>2, <2>3, ChangedKeeps
<1>4. ASSUME NEW p \in Paths, MkDir(p)
      PROVE  IInv' /\ backup' = backup
  <2>1. nas' \in [Paths -> Nodes] /\ \A q \in Paths \ {p} : nas'[q] = nas[q]
    BY <1>1, <1>4, Kinds DEF MkDir
  <2>2. Changed({p}) /\ mounted' = mounted
    BY <1>4 DEF MkDir
  <2> QED BY <1>1, <2>1, <2>2, ChangedKeeps
<1>5. ASSUME NEW p \in Paths, NEW q \in Paths, Rename(p, q)
      PROVE  IInv' /\ backup' = backup
  <2>1. nas' = [nas EXCEPT ![p] = Absent, ![q] = nas[p]]
    BY <1>5 DEF Rename
  <2>2. nas' \in [Paths -> Nodes] /\ \A x \in Paths \ {p, q} : nas'[x] = nas[x]
    BY <1>1, <2>1, Kinds
  <2>3. Changed({p, q}) /\ mounted' = mounted
    BY <1>5 DEF Rename
  <2> QED BY <1>1, <2>2, <2>3, ChangedKeeps
<1>6. CASE Mount
  <2>1. Changed(Paths) /\ mounted' \in BOOLEAN /\ nas' = nas
    BY <1>1, <1>6 DEF Mount
  <2> QED BY <1>1, <2>1, ChangedKeeps
<1> QED BY <1>2, <1>3, <1>4, <1>5, <1>6 DEF Change

-----------------------------------------------------------------------------
(* performRun *)

\* What a step may do to the backup as long as it is no removal: a file stays one.
FilesStay == \A p \in Paths : IsFile(backup[p]) => IsFile(backup'[p])

\* Steps that write neither the tree, nor what is steady or an orphan.
LEMMA CopyKeeps ==
  ASSUME IInv, UNCHANGED <<nas, mounted, changes, steady, orphans>>,
         backup' \in [Paths -> Nodes], reading' \in FileNode,
         unvisited' \subseteq Paths, files' \subseteq Paths,
         misread \subseteq misread', misread' \subseteq Paths,
         pc' \in {"copy", "copying", "mtime"} => src' \in Paths
  PROVE  IInv'
  BY DEF IInv, TreeTypes, SteadyThere, SteadyKept

\* A file is put in its place.
LEMMA PlaceKeeps ==
  ASSUME NEW p \in Paths, NEW n \in FileNode,
         NEW from \in [Paths -> Nodes], \A x \in Paths : IsFile(backup[x]) => IsFile(from[x]),
         backup' = [from EXCEPT ![p] = n]
  PROVE  backup' \in [Paths -> Nodes] /\ FilesStay
  BY Kinds DEF FilesStay

\* Parents that are made take the place of nothing.
LEMMA ParentsKeep ==
  ASSUME IInv, NEW p \in Paths
  PROVE  /\ WithParents(p) \in [Paths -> Nodes]
         /\ \A x \in Paths : IsFile(backup[x]) => IsFile(WithParents(p)[x])
<1>1. backup \in [Paths -> Nodes]
  BY DEF IInv, TreeTypes
<1>2. \A x \in Paths : (WithParents(p)[x] = Dir /\ backup[x] = Absent) \/ WithParents(p)[x] = backup[x]
  BY DEF WithParents
<1>3. WithParents(p) \in [Paths -> Nodes]
  BY <1>1, Kinds DEF WithParents
<1> QED BY <1>2, <1>3, Kinds

LEMMA OpenKeeps == IInv /\ Open => IInv' /\ FilesStay
<1> SUFFICES ASSUME IInv, Open PROVE IInv' /\ FilesStay
  OBVIOUS
<1> DEFINE parents == WithParents(src)
<1>1. /\ pc = "copy" /\ src \in Paths /\ nas \in [Paths -> Nodes]
      /\ UNCHANGED <<nas, mounted, changes, steady, orphans, misread>> /\ misread \subseteq Paths
      /\ unvisited' \subseteq Paths /\ files' \subseteq Paths
  BY DEF Open, IInv, TreeTypes, treeVars, noteVars
<1>2. /\ parents \in [Paths -> Nodes]
      /\ \A x \in Paths : IsFile(backup[x]) => IsFile(parents[x])
  BY <1>1, ParentsKeep
<1>3. \/ /\ IsFile(Src(src)) /\ reading' = Src(src) /\ src' = src
         /\ backup' = [parents EXCEPT ![src] = NoFile]
      \/ pc' = "loop" /\ backup' = parents /\ reading' = reading
  BY DEF Open
<1>4. CASE /\ IsFile(Src(src)) /\ reading' = Src(src) /\ src' = src
           /\ backup' = [parents EXCEPT ![src] = NoFile]
  <2>1. Src(src) \in Nodes
    BY <1>1, Kinds DEF Src
  <2>2. reading' \in FileNode
    BY <1>4, <2>1, Kinds
  <2>3. backup' \in [Paths -> Nodes] /\ FilesStay
    BY <1>1, <1>2, <1>4, Kinds, PlaceKeeps
  <2> QED BY <1>1, <1>4, <2>2, <2>3, CopyKeeps
<1>5. CASE pc' = "loop" /\ backup' = parents /\ reading' = reading
  <2>1. FilesStay
    BY <1>2, <1>5 DEF FilesStay
  <2>2. reading' \in FileNode
    BY <1>5 DEF IInv, TreeTypes
  <2> QED BY <1>1, <1>2, <1>5, <2>1, <2>2, CopyKeeps
<1> QED BY <1>3, <1>4, <1>5

LEMMA CopyBytesKeeps == IInv /\ CopyBytes => IInv' /\ FilesStay
<1> SUFFICES ASSUME IInv, CopyBytes PROVE IInv' /\ FilesStay
  OBVIOUS
<1>1. /\ pc = "copying" /\ src \in Paths /\ reading \in FileNode
      /\ backup \in [Paths -> Nodes]
      /\ UNCHANGED <<nas, mounted, changes, steady, orphans, misread>> /\ misread \subseteq Paths
      /\ reading' = NoFile /\ unvisited' \subseteq Paths /\ files' \subseteq Paths
  BY DEF CopyBytes, IInv, TreeTypes, treeVars, noteVars
<1>2. PICK n \in FileNode : /\ backup' = [backup EXCEPT ![src] = n]
                            /\ pc' = "loop" \/ src' = src
  <2>1. CASE \E copy \in Partly : backup' = [backup EXCEPT ![src] = copy] /\ pc' = "loop"
    BY <2>1, PartlyTyped
  <2>2. CASE /\ \E copy \in IF torn THEN Partly \cup {reading} ELSE {reading} :
                  backup' = [backup EXCEPT ![src] = File(copy.data, copy.size, 0)]
             /\ src' = src
    <3>1. PICK copy \in FileNode :
            backup' = [backup EXCEPT ![src] = File(copy.data, copy.size, 0)]
      BY <1>1, <2>2, PartlyTyped
    <3>2. copy.data \in Nat /\ copy.size \in Nat
      BY DEF FileNode
    <3> QED BY <2>2, <3>1, <3>2, FileMade
  <2> QED BY <2>1, <2>2 DEF CopyBytes
<1>3. \A x \in Paths : IsFile(backup[x]) => IsFile(backup[x])
  OBVIOUS
<1>4. backup' \in [Paths -> Nodes] /\ FilesStay
  BY <1>1, <1>2, <1>3, PlaceKeeps
<1>5. reading' \in FileNode
  BY <1>1, Kinds
<1>6. pc' \in {"copy", "copying", "mtime"} => src' \in Paths
  BY <1>1, <1>2
<1> QED BY <1>1, <1>4, <1>5, <1>6, CopyKeeps

LEMMA MirrorMtimeKeeps == IInv /\ MirrorMtime => IInv' /\ FilesStay
<1> SUFFICES ASSUME IInv, MirrorMtime PROVE IInv' /\ FilesStay
  OBVIOUS
<1>1. /\ pc' = "loop" /\ src \in Paths /\ nas \in [Paths -> Nodes]
      /\ backup \in [Paths -> Nodes] /\ reading' = reading /\ reading \in FileNode
      /\ UNCHANGED <<nas, mounted, changes, steady, orphans, misread>> /\ misread \subseteq Paths
      /\ unvisited' \subseteq Paths /\ files' \subseteq Paths
  BY DEF MirrorMtime, Goes, IInv, TreeTypes, treeVars, noteVars
<1>2. backup' \in [Paths -> Nodes] /\ FilesStay
  <2>1. CASE backup' = backup
    BY <1>1, <2>1 DEF FilesStay
  <2>2. CASE IsFile(Src(src)) /\ backup' = [backup EXCEPT ![src].mtime = Src(src).mtime]
    <3>1. Src(src) \in FileNode
      BY <1>1, <2>2, Kinds DEF Src
    <3>2. Src(src).mtime \in Nat
      BY <3>1 DEF FileNode
    <3>3. backup' = [backup EXCEPT ![src] = [backup[src] EXCEPT !.mtime = Src(src).mtime]]
      BY <1>1, <2>2
    <3> QED BY <1>1, <3>2, <3>3, MtimeKeeps DEF FilesStay
  <2> QED BY <2>1, <2>2 DEF MirrorMtime
<1> QED BY <1>1, <1>2, CopyKeeps

\* A run begins with no orphans, and with what is in the tree as steady.
LEMMA BeginKeeps == IInv /\ Begin => IInv' /\ backup' = backup
<1> SUFFICES ASSUME IInv, Begin PROVE IInv' /\ backup' = backup
  OBVIOUS
<1>1. /\ UNCHANGED <<nas, mounted, changes, reading, src, backup>>
      /\ pc' = "scan" /\ unvisited' = Paths /\ files' = {} /\ orphans' = {}
      /\ misread' = {} /\ steady' = {p \in Paths : IsFile(Src(p))}
  BY DEF Begin, Goes, treeVars, copyVars
<1>2. TreeTypes'
  BY <1>1 DEF IInv, TreeTypes
<1>3. SteadyThere'
  BY <1>1, Kinds DEF SteadyThere, Src
<1>4. SteadyKept'
  BY <1>1 DEF SteadyKept
<1> QED BY <1>1, <1>2, <1>3, <1>4 DEF IInv

LEMMA WalkEnds ==
  ASSUME IInv, NEW at, NEW next, Ends(at, next), next \notin {"copy", "copying", "mtime"},
         unvisited' \subseteq Paths
  PROVE  IInv' /\ backup' = backup
<1>1. /\ UNCHANGED <<nas, mounted, changes, steady, orphans, reading, backup, files, misread>>
      /\ pc' = next
  BY DEF Ends, Goes, treeVars, copyVars, noteVars
<1>2. /\ backup' \in [Paths -> Nodes] /\ reading' \in FileNode /\ files' \subseteq Paths
      /\ misread' \subseteq Paths
  BY <1>1 DEF IInv, TreeTypes
<1> QED BY <1>1, <1>2, CopyKeeps

\* What a walk could not look at is noted.
LEMMA NotesKeep ==
  ASSUME IInv, NEW p \in Paths, NEW fails, Notes(p, fails)
  PROVE  misread \subseteq misread' /\ misread' \subseteq Paths /\ (fails => p \in misread')
  BY DEF Notes, IInv, TreeTypes

LEMMA ScanKeeps == IInv /\ Scan => IInv' /\ backup' = backup
<1> SUFFICES ASSUME IInv, Scan PROVE IInv' /\ backup' = backup
  OBVIOUS
<1>1. unvisited \subseteq Paths /\ files \subseteq Paths
  BY DEF IInv, TreeTypes
<1>2. ASSUME Visits("scan"), UNCHANGED <<orphans, noteVars>>,
             NEW p \in One(unvisited), NEW fails, unvisited' = unvisited \ {p},
             files' = IF Wanted(p, fails) THEN files \cup {p} ELSE files, Notes(p, fails)
      PROVE  IInv' /\ backup' = backup
  <2>1. /\ UNCHANGED <<nas, mounted, changes, steady, orphans, reading, backup>>
        /\ pc' = "scan"
    BY <1>2 DEF Visits, treeVars, copyVars, noteVars
  <2>2. p \in Paths
    BY <1>1, <1>2 DEF One
  <2>3. unvisited' \subseteq Paths /\ files' \subseteq Paths
    BY <1>1, <1>2, <2>2
  <2>4. backup' \in [Paths -> Nodes] /\ reading' \in FileNode
    BY <2>1 DEF IInv, TreeTypes
  <2> QED BY <1>2, <2>1, <2>2, <2>3, <2>4, NotesKeep, CopyKeeps
<1>3. CASE Ends("scan", "loop") /\ unvisited' = files'
  <2>1. files' = files
    BY <1>3 DEF Ends
  <2> QED BY <1>1, <1>3, <2>1, WalkEnds
<1> QED BY <1>2, <1>3 DEF Scan

LEMMA NextFileKeeps == IInv /\ NextFile => IInv' /\ backup' = backup
<1> SUFFICES ASSUME IInv, NextFile PROVE IInv' /\ backup' = backup
  OBVIOUS
<1>1. UNCHANGED <<nas, mounted, changes, steady, orphans, reading, backup, files>>
  BY DEF NextFile, treeVars, noteVars
<1>2. /\ backup' \in [Paths -> Nodes] /\ reading' \in FileNode
      /\ files' \subseteq Paths /\ unvisited \subseteq Paths
  BY <1>1 DEF IInv, TreeTypes
<1>3. One(unvisited) \subseteq unvisited
  BY DEF One
<1>4. /\ unvisited' \subseteq Paths /\ (pc' \in {"copy", "copying", "mtime"} => src' \in Paths)
      /\ misread \subseteq misread' /\ misread' \subseteq Paths
  <2>1. pc = "loop"
    BY DEF NextFile
  <2>2. CASE pc' = "mirrortest" /\ UNCHANGED <<unvisited, misread>>
    BY <1>2, <2>2 DEF IInv, TreeTypes
  <2>3. ASSUME NEW p \in One(unvisited), NEW fails, Notes(p, fails),
               unvisited' = unvisited \ {p}, (src' = p /\ pc' = "copy") \/ UNCHANGED <<src, pc>>
        PROVE  /\ unvisited' \subseteq Paths
               /\ (pc' \in {"copy", "copying", "mtime"} => src' \in Paths)
               /\ misread \subseteq misread' /\ misread' \subseteq Paths
    <3>1. p \in Paths
      BY <1>2, <1>3, <2>3
    <3> QED BY <1>2, <2>1, <2>3, <3>1, NotesKeep
  <2> QED BY <2>2, <2>3 DEF NextFile
<1> QED BY <1>1, <1>2, <1>4, CopyKeeps

\* What becomes an orphan is not there, or could not be looked at.
LEMMA FindOrphansKeeps == IInv /\ FindOrphans => IInv' /\ backup' = backup
<1> SUFFICES ASSUME IInv, FindOrphans PROVE IInv' /\ backup' = backup
  OBVIOUS
<1>1. ASSUME Visits("mirror"), UNCHANGED <<files, noteVars>>,
             NEW p \in One(unvisited), NEW unseen, NEW fails \in BOOLEAN,
             unvisited' = unvisited \ {p}, Notes(p, unseen \/ fails),
             orphans' = IF IsOrphan(p, unseen, fails) THEN orphans \cup {p} ELSE orphans
      PROVE  IInv' /\ backup' = backup
  <2>1. /\ UNCHANGED <<nas, mounted, changes, steady, reading, src, backup, files>>
        /\ pc' = "mirror"
    BY <1>1 DEF Visits, treeVars, copyVars, noteVars
  <2>2. p \in Paths /\ unvisited' \subseteq Paths
    BY <1>1 DEF One, IInv, TreeTypes
  <2>3. misread \subseteq misread' /\ misread' \subseteq Paths /\ (fails => p \in misread')
    BY <1>1, <2>2, NotesKeep
  <2>4. TreeTypes'
    BY <1>1, <2>1, <2>2, <2>3 DEF IInv, TreeTypes
  <2>5. SteadyThere'
    BY <1>1, <2>1 DEF IInv, SteadyThere
  <2>6. ASSUME IsOrphan(p, unseen, fails), ~fails
        PROVE  p \notin steady
    BY <2>6, Kinds DEF IsOrphan, Src, IInv, SteadyThere
  <2>7. SteadyKept'
    BY <1>1, <2>1, <2>3, <2>6 DEF IInv, SteadyKept
  <2> QED BY <2>1, <2>4, <2>5, <2>7 DEF IInv
<1>2. ASSUME Ends("mirror", IF cancelRequested /\ unvisited # {} THEN "finish" ELSE "remove"),
             UNCHANGED unvisited
      PROVE  IInv' /\ backup' = backup
  <2>1. unvisited' \subseteq Paths
    BY <1>2 DEF IInv, TreeTypes
  <2>2. (IF cancelRequested /\ unvisited # {} THEN "finish" ELSE "remove")
           \notin {"copy", "copying", "mtime"}
    OBVIOUS
  <2> QED BY <1>2, <2>1, <2>2, WalkEnds
<1> QED BY <1>1, <1>2 DEF FindOrphans, MayFail

\* What is removed is an orphan, so nothing steady that could be looked at.
LEMMA RemoveOrphanKeeps ==
  IInv /\ RemoveOrphan =>
    IInv' /\ \A p \in steady \ misread : IsFile(backup[p]) => IsFile(backup'[p])
<1> SUFFICES ASSUME IInv, RemoveOrphan
             PROVE  IInv' /\ \A p \in steady \ misread : IsFile(backup[p]) => IsFile(backup'[p])
  OBVIOUS
<1>1. /\ UNCHANGED <<nas, mounted, changes, steady, reading, src, unvisited, files, misread>>
      /\ pc = "remove" /\ pc' = pc
  BY DEF RemoveOrphan, treeVars, copyVars, noteVars
<1>2. PICK p \in orphans : /\ orphans' = orphans \ {p}
                           /\ backup' = backup \/ backup' = [backup EXCEPT ![p] = Absent]
  BY OneOf DEF RemoveOrphan
<1>3. p \in Paths /\ p \notin steady \ misread /\ steady \subseteq Paths /\ backup \in [Paths -> Nodes]
  BY DEF IInv, TreeTypes, SteadyKept
<1>4. backup' \in [Paths -> Nodes]
  BY <1>2, <1>3, Kinds
<1>5. TreeTypes'
  BY <1>1, <1>2, <1>4 DEF IInv, TreeTypes
<1>6. SteadyThere' /\ SteadyKept'
  BY <1>1, <1>2 DEF IInv, SteadyThere, SteadyKept
<1>7. \A x \in steady \ misread : IsFile(backup[x]) => IsFile(backup'[x])
  BY <1>2, <1>3
<1> QED BY <1>5, <1>6, <1>7 DEF IInv

\* The other steps of a run touch neither tree.
LEMMA ControlKeeps ==
  IInv /\ (MirrorTest \/ Finish \/ Cancel \/ TakeBack \/ UNCHANGED vars) =>
    IInv' /\ backup' = backup
<1> SUFFICES ASSUME IInv, MirrorTest \/ Finish \/ Cancel \/ TakeBack \/ UNCHANGED vars
             PROVE  IInv' /\ backup' = backup
  OBVIOUS
<1>1. UNCHANGED <<nas, mounted, changes, steady, reading, src, backup, misread>>
  BY DEF MirrorTest, Finish, Cancel, TakeBack, vars, treeVars, copyVars, noteVars
<1>2. /\ unvisited' \in {unvisited, Paths, {}} /\ files' \in {files, {}}
      /\ orphans' \in {orphans, {}} /\ pc' \in {pc, "mirror", "finish", "idle"}
  BY DEF MirrorTest, Finish, Cancel, TakeBack, vars, treeVars, copyVars, noteVars
<1>3. TreeTypes'
  BY <1>1, <1>2 DEF IInv, TreeTypes
<1>4. SteadyThere' /\ SteadyKept'
  BY <1>1, <1>2 DEF IInv, SteadyThere, SteadyKept
<1> QED BY <1>1, <1>3, <1>4 DEF IInv

\* A crash leaves a file where one was written.
LEMMA CrashKeeps == IInv /\ Crash => IInv' /\ FilesStay
<1> SUFFICES ASSUME IInv, Crash PROVE IInv' /\ FilesStay
  OBVIOUS
<1>1. /\ UNCHANGED <<nas, mounted, changes, steady, misread>> /\ reading' = NoFile
      /\ pc' = "idle" /\ unvisited' = {} /\ files' = {} /\ orphans' = {}
  BY DEF Crash, treeVars, noteVars
<1>2. \/ backup' = backup
      \/ pc = "copying" /\ \E copy \in Partly : backup' = [backup EXCEPT ![src] = copy]
  BY DEF Crash
<1>3. backup' \in [Paths -> Nodes] /\ FilesStay
  <2>1. /\ backup \in [Paths -> Nodes] /\ Partly \subseteq FileNode
        /\ pc = "copying" => src \in Paths
        /\ \A x \in Paths : IsFile(backup[x]) => IsFile(backup[x])
    BY PartlyTyped DEF IInv, TreeTypes
  <2>2. CASE backup' = backup
    BY <2>1, <2>2 DEF FilesStay
  <2>3. CASE pc = "copying" /\ \E copy \in Partly : backup' = [backup EXCEPT ![src] = copy]
    BY <2>1, <2>3, PlaceKeeps
  <2> QED BY <1>2, <2>2, <2>3
<1>4. TreeTypes'
  BY <1>1, <1>3, Kinds DEF IInv, TreeTypes
<1>5. SteadyThere' /\ SteadyKept'
  BY <1>1 DEF IInv, SteadyThere, SteadyKept
<1> QED BY <1>1, <1>3, <1>4, <1>5 DEF IInv

-----------------------------------------------------------------------------

SteadyStays == \A p \in (steady \cap steady') \ misread' : IsFile(backup[p]) => IsFile(backup'[p])

LEMMA StepKeeps == IInv /\ [Next]_vars => IInv' /\ SteadyStays
<1> SUFFICES ASSUME IInv, [Next]_vars PROVE IInv' /\ SteadyStays
  OBVIOUS
<1>1. ASSUME backup' = backup PROVE SteadyStays
  BY <1>1 DEF SteadyStays
<1>2. ASSUME FilesStay PROVE SteadyStays
  BY <1>2 DEF SteadyStays, FilesStay, IInv, TreeTypes
<1>3. CASE Change
  BY <1>1, <1>3, ChangeKeeps
<1>4. CASE Begin
  BY <1>1, <1>4, BeginKeeps
<1>5. CASE Scan
  BY <1>1, <1>5, ScanKeeps
<1>6. CASE NextFile
  BY <1>1, <1>6, NextFileKeeps
<1>7. CASE Open
  BY <1>2, <1>7, OpenKeeps
<1>8. CASE CopyBytes
  BY <1>2, <1>8, CopyBytesKeeps
<1>9. CASE MirrorMtime
  BY <1>2, <1>9, MirrorMtimeKeeps
<1>10. CASE FindOrphans
  BY <1>1, <1>10, FindOrphansKeeps
<1>11. CASE RemoveOrphan
  BY <1>11, RemoveOrphanKeeps DEF SteadyStays, RemoveOrphan
<1>12. CASE MirrorTest \/ Finish \/ Cancel \/ TakeBack \/ UNCHANGED vars
  BY <1>1, <1>12, ControlKeeps
<1>13. CASE Crash
  BY <1>2, <1>13, CrashKeeps
<1> QED
  BY <1>3, <1>4, <1>5, <1>6, <1>7, <1>8, <1>9, <1>10, <1>11, <1>12, <1>13 DEF Next, Run

\* The trees keep their types, and no file that stays in the tree is ever on the
\* list of what mirrorDeletions removes, if the calls for it did not fail
\* (SyncManager.cpp:706-733).
THEOREM SteadySafe == Spec => []IInv
<1>1. IInv /\ [Next]_vars => IInv'
  BY StepKeeps
<1> QED BY InitIInv, <1>1, PTL DEF Spec

\* What is removed from the backup was gone from the tree during this run, or could
\* not be looked at (SyncManager.cpp:706-733), for every tree and any number of runs and changes.
THEOREM OrphansOnly == Spec => RemovesOrphansOnly
<1>1. IInv /\ [Next]_vars =>
        [\A p \in (steady \cap steady') \ misread' :
            IsFile(backup[p]) => IsFile(backup'[p])]_vars
  BY StepKeeps DEF SteadyStays
<1> QED BY SteadySafe, <1>1, PTL DEF Spec, RemovesOrphansOnly

-----------------------------------------------------------------------------
(* Paths *)

LEMMA PathTypes ==
    /\ \A p \in Paths : p \in Seq(STRING) /\ Len(p) \in Nat /\ Len(p) > 0
    /\ None \notin Paths
<1>1. \A p \in Paths : p \in Seq(STRING) /\ Len(p) > 0
  BY PathAssumption
<1>2. \A p \in Paths : Len(p) \in Nat
  BY <1>1, LenProperties
<1>3. Len(<<>>) = 0
  BY EmptySeq
<1> QED
  BY <1>1, <1>2, <1>3 DEF None

\* A prefix of a prefix is a prefix.
LEMMA PrefixOfPrefix ==
    ASSUME NEW q \in Paths, NEW m \in 1..Len(q), NEW k \in 1..m
    PROVE  SubSeq(SubSeq(q, 1, m), 1, k) = SubSeq(q, 1, k)
<1>1. q \in Seq(STRING) /\ Len(q) \in Nat
  BY PathTypes
<1>2. /\ 1 \in 1..Len(q) /\ m \in 1..Len(q) /\ 1 \in 1..m - 1 + 1 /\ k \in 1..m - 1 + 1
      /\ 1 + 1 - 1 = 1 /\ 1 + k - 1 = k
  BY <1>1
<1>3. SubSeq(SubSeq(q, 1, m), 1, k) = SubSeq(q, 1 + 1 - 1, 1 + k - 1)
  BY <1>1, <1>2, SubSeqOfSubSeq
<1> QED
  BY <1>2, <1>3

LEMMA ParentPath ==
    ASSUME NEW p \in Paths
    PROVE  /\ Len(Parent(p)) = Len(p) - 1
           /\ Len(p) > 1 => Parent(p) \in Above(p)
           /\ Len(Parent(p)) > 0 <=> Len(p) > 1
<1>1. /\ p \in Seq(STRING) /\ Len(p) \in Nat /\ Len(p) > 0
      /\ \A i \in 1..Len(p) - 1 : p[i] \in STRING
  <2>1. p \in Seq(STRING) /\ Len(p) \in Nat /\ Len(p) > 0
    BY PathTypes
  <2>2. \A i \in 1..Len(p) : p[i] \in STRING
    BY <2>1, ElementOfSeq
  <2> QED
    BY <2>1, <2>2
<1>2. Len(Parent(p)) = Len(p) - 1
  <2>1. ASSUME NEW n \in Nat, n > 0, \A i \in 1..n - 1 : p[i] \in STRING
        PROVE  Len(SubSeq(p, 1, n - 1)) = n - 1
    BY <2>1, SubSeqProperties
  <2>2. Len(SubSeq(p, 1, Len(p) - 1)) = Len(p) - 1
    BY <1>1, <2>1, Zenon
  <2> QED
    BY <2>2, Zenon DEF Parent
<1>3. ASSUME Len(p) > 1 PROVE Parent(p) \in Above(p)
  <2>1. Parent(p) \in Paths
    BY <1>3, PathAssumption DEF Parent
  <2>2. SubSeq(p, 1, Len(Parent(p))) = Parent(p)
    BY <1>2 DEF Parent
  <2> QED
    BY <1>1, <1>2, <2>1, <2>2 DEF Above, Below
<1> QED
  BY <1>1, <1>2, <1>3

\* What is above is above all that is below.
LEMMA AboveTransitive ==
    ASSUME NEW p \in Paths, NEW q \in Above(p), NEW x \in Above(q)
    PROVE  x \in Above(p)
<1>1. /\ q \in Paths /\ x \in Paths /\ Len(p) > Len(q) /\ Len(q) > Len(x)
      /\ SubSeq(p, 1, Len(q)) = q /\ SubSeq(q, 1, Len(x)) = x
  BY DEF Above, Below
<1>2. /\ Len(p) \in Nat /\ Len(q) \in Nat /\ Len(x) \in Nat /\ Len(x) > 0
  BY <1>1, PathTypes
<1>3. Len(q) \in 1..Len(p) /\ Len(x) \in 1..Len(q)
  BY <1>1, <1>2
<1>4. SubSeq(SubSeq(p, 1, Len(q)), 1, Len(x)) = SubSeq(p, 1, Len(x))
  BY <1>3, PrefixOfPrefix
<1> QED
  BY <1>1, <1>2, <1>4 DEF Above, Below

\* A subtree holds what is below any of its paths.
LEMMA SubtreeClosed ==
    ASSUME NEW p \in Paths, NEW q \in Paths, Len(q) > 1, Parent(q) \in Subtree(p)
    PROVE  q \in Subtree(p)
<1>1. Parent(q) \in Above(q) /\ Parent(q) \in Paths
  BY ParentPath DEF Above
<1>2. CASE Parent(q) = p
  BY <1>1, <1>2 DEF Above, Subtree
<1>3. CASE Parent(q) \in Below(p)
  <2>1. p \in Above(Parent(q))
    BY <1>3 DEF Above
  <2>2. p \in Above(q)
    BY <1>1, <2>1, AboveTransitive
  <2> QED
    BY <2>2 DEF Above, Subtree
<1> QED
  BY <1>2, <1>3 DEF Subtree

-----------------------------------------------------------------------------
(* Trees *)

\* A tree in which each entry is in a directory, by its paths alone.
LEMMA InDirectories ==
    ASSUME NEW tree
    PROVE  WellFormed(tree) <=>
              \A q \in Paths : Len(q) > 1 /\ tree[q] # Absent => tree[Parent(q)] = Dir
  BY ParentPath DEF WellFormed, IsDirIn

\* What is no directory can be replaced by anything that its place allows.
LEMMA ReplaceLeaf ==
    ASSUME NEW tree \in [Paths -> Nodes], WellFormed(tree),
           NEW p \in Paths, tree[p] # Dir,
           NEW n \in Nodes, n # Absent /\ Len(p) > 1 => tree[Parent(p)] = Dir
    PROVE  WellFormed([tree EXCEPT ![p] = n])
<1> DEFINE new == [tree EXCEPT ![p] = n]
<1> SUFFICES ASSUME NEW q \in Paths, Len(q) > 1, new[q] # Absent
             PROVE  new[Parent(q)] = Dir
  BY InDirectories
<1>1. Parent(q) \in Paths /\ Parent(p) # p
  BY ParentPath, PathTypes DEF Above
<1>2. tree[Parent(q)] = Dir
  <2>1. CASE q = p
    BY <2>1
  <2>2. CASE q # p
    BY <2>2, InDirectories
  <2> QED
    BY <2>1, <2>2
<1>3. Parent(q) # p
  BY <1>2
<1> QED
  BY <1>1, <1>2, <1>3

LEMMA KindsDiffer ==
    Absent # Dir /\ \A n : IsFile(n) => n # Absent /\ n # Dir
  BY DEF IsFile, Absent, Dir

\* The users keep the tree a tree.
LEMMA TreeStays == IInv /\ WellFormed(nas) /\ Change => WellFormed(nas)'
<1> SUFFICES ASSUME IInv, WellFormed(nas), Change PROVE WellFormed(nas')
  BY DEF WellFormed, IsDirIn
<1>1. nas \in [Paths -> Nodes] /\ changes \in Nat
  BY DEF IInv, TreeTypes
<1>2. ASSUME NEW p \in Paths, Write(p) PROVE WellFormed(nas')
  <2>1. PICK size \in Sizes : nas' = [nas EXCEPT ![p] = File(NewVersion, size, NewVersion)]
    BY <1>2 DEF Write
  <2>2. size \in Nat /\ NewVersion \in Nat
    BY <1>1, TreeAssumption DEF NewVersion
  <2>3. File(NewVersion, size, NewVersion) \in Nodes
    BY <2>2, FileMade, Kinds
  <2>4. nas[p] # Dir /\ (Len(p) > 1 => nas[Parent(p)] = Dir)
    BY <1>2, ParentPath DEF Write, IsDirIn
  <2> QED
    BY <1>1, <2>1, <2>3, <2>4, ReplaceLeaf
<1>3. ASSUME NEW p \in Paths, Delete(p) PROVE WellFormed(nas')
  <2>1. \A q \in Paths : nas'[q] = IF q \in Subtree(p) THEN Absent ELSE nas[q]
    BY <1>3 DEF Delete, Without
  <2> SUFFICES ASSUME NEW q \in Paths, Len(q) > 1, nas'[q] # Absent
               PROVE  nas'[Parent(q)] = Dir
    BY InDirectories
  <2>2. q \notin Subtree(p) /\ nas[Parent(q)] = Dir
    BY <2>1, InDirectories
  <2>3. Parent(q) \notin Subtree(p) /\ Parent(q) \in Paths
    BY <2>2, SubtreeClosed, ParentPath DEF Above
  <2> QED
    BY <2>1, <2>2, <2>3
<1>4. ASSUME NEW p \in Paths, MkDir(p) PROVE WellFormed(nas')
  <2>1. nas[p] # Dir /\ (Len(p) > 1 => nas[Parent(p)] = Dir) /\ nas' = [nas EXCEPT ![p] = Dir]
    BY <1>4, ParentPath, KindsDiffer DEF MkDir, IsDirIn
  <2> QED
    BY <1>1, <2>1, Kinds, ReplaceLeaf
<1>5. ASSUME NEW p \in Paths, NEW q \in Paths, Rename(p, q) PROVE WellFormed(nas')
  <2> DEFINE gone == [nas EXCEPT ![p] = Absent]
  <2>1. /\ p # q /\ IsFile(nas[p]) /\ nas[q] # Dir
        /\ Len(q) > 1 => nas[Parent(q)] = Dir /\ Parent(q) \in Paths
    BY <1>5, ParentPath DEF Rename, IsDirIn, Above
  <2>2. gone \in [Paths -> Nodes] /\ WellFormed(gone)
    BY <1>1, <2>1, Kinds, KindsDiffer, ReplaceLeaf
  <2>3. gone[q] # Dir /\ nas[p] \in Nodes /\ (Len(q) > 1 => gone[Parent(q)] = Dir)
    BY <1>1, <2>1, KindsDiffer
  <2>4. nas' = [gone EXCEPT ![q] = nas[p]]
    BY <1>1, <1>5, <2>1 DEF Rename
  <2> HIDE DEF gone
  <2> QED
    BY <2>2, <2>3, <2>4, ReplaceLeaf
<1>6. CASE Mount
  BY <1>6 DEF Mount
<1> QED
  BY <1>2, <1>3, <1>4, <1>5, <1>6 DEF Change

\* create_directories makes a tree of a tree.
LEMMA ParentsMade ==
    ASSUME IInv, WellFormed(backup), NEW p \in Paths
    PROVE  /\ WellFormed(WithParents(p))
           /\ NoFileIn(Above(p)) /\ Len(p) > 1 => WithParents(p)[Parent(p)] = Dir
           /\ WithParents(p)[p] = backup[p]
<1> DEFINE new == WithParents(p)
<1>1. /\ \A q \in Paths : new[q] = IF /\ q \in Above(p) /\ backup[q] = Absent
                                     /\ NoFileIn(Above(q))
                                  THEN Dir ELSE backup[q]
      /\ backup \in [Paths -> Nodes]
  BY DEF WithParents, IInv, TreeTypes
<1>2. ASSUME NEW q \in Paths, Len(q) > 1, new[q] # Absent
      PROVE  new[Parent(q)] = Dir
  <2>1. Parent(q) \in Above(q) /\ Parent(q) \in Paths
    BY <1>2, ParentPath DEF Above
  <2>2. CASE backup[q] # Absent
    <3>1. backup[Parent(q)] = Dir
      BY <1>2, <2>2, InDirectories
    <3> QED
      BY <1>1, <2>1, <3>1
  <2>3. CASE backup[q] = Absent
    <3>1. q \in Above(p) /\ NoFileIn(Above(q))
      BY <1>1, <1>2, <2>3
    <3>2. Parent(q) \in Above(p) /\ NoFileIn(Above(Parent(q)))
      BY <2>1, <3>1, AboveTransitive DEF NoFileIn
    <3>3. backup[Parent(q)] \in {Absent, Dir}
      BY <1>1, <2>1, <3>1, Kinds DEF NoFileIn
    <3> QED
      BY <1>1, <2>1, <3>2, <3>3
  <2> QED
    BY <2>2, <2>3
<1>3. ASSUME NoFileIn(Above(p)), Len(p) > 1
      PROVE  new[Parent(p)] = Dir
  <2>1. Parent(p) \in Above(p) /\ Parent(p) \in Paths
    BY <1>3, ParentPath DEF Above
  <2>2. NoFileIn(Above(Parent(p)))
    BY <1>3, <2>1, AboveTransitive DEF NoFileIn
  <2>3. backup[Parent(p)] \in {Absent, Dir}
    BY <1>1, <1>3, <2>1, Kinds DEF NoFileIn
  <2> QED
    BY <1>1, <2>1, <2>2, <2>3
<1>4. p \notin Above(p)
  BY PathTypes DEF Above, Below
<1>5. WellFormed(new)
  BY <1>2, InDirectories
<1> QED
  BY <1>1, <1>3, <1>4, <1>5

-----------------------------------------------------------------------------
(* Types *)

PlainTypes ==
    /\ pc \in {"idle", "scan", "loop", "copy", "copying", "mtime", "mirrortest",
               "mirror", "remove", "finish"}
    /\ raced \subseteq Paths
    /\ src # None <=> pc \in {"copy", "copying", "mtime"}
    /\ src \in Paths \cup {None}
    /\ status \in {"none", "running", "completed", "failed", "cancelled"}
    /\ torn \in BOOLEAN /\ errors \in BOOLEAN /\ cancelRequested \in BOOLEAN
    /\ quiet \in BOOLEAN /\ changedWhileCopied \in BOOLEAN /\ cutShort \in BOOLEAN
    /\ runs \in Nat

\* The backup is a tree too, because only files are removed from it, and only
\* files are written to.
Placed ==
    /\ WellFormed(nas) /\ WellFormed(backup)
    /\ \A p \in orphans : IsFile(backup[p])
    /\ pc \in {"copying", "mtime"} => IsFile(backup[src])

Types == IInv /\ PlainTypes /\ Placed

LEMMA TypesInit == Init => Types
<1> SUFFICES ASSUME Init PROVE Types
  OBVIOUS
<1>1. IInv
  BY InitIInv
<1>2. PlainTypes
  BY DEF Init, PlainTypes
<1>3. Placed
  BY TreeAssumption DEF Init, Placed, WellFormed
<1> QED
  BY <1>1, <1>2, <1>3 DEF Types

LEMMA ChoiceType == \A call : MayFail(call) \subseteq BOOLEAN
  BY DEF MayFail

LEMMA PlainStep == IInv /\ PlainTypes /\ [Next]_vars => PlainTypes'
<1> SUFFICES ASSUME IInv, PlainTypes, [Next]_vars PROVE PlainTypes'
  OBVIOUS
<1> USE DEF PlainTypes
<1>1. CASE Change
  <2>1. /\ UNCHANGED <<pc, src, status, errors, runs, cancelRequested, raced, cutShort>>
        /\ quiet' = FALSE /\ torn' \in BOOLEAN /\ changedWhileCopied' \in BOOLEAN
    BY <1>1 DEF Change, Write, Delete, MkDir, Rename, Mount, Changed, runVars
  <2> QED
    BY <2>1
<1>2. CASE Begin
  <2>1. /\ UNCHANGED <<src, torn, changedWhileCopied, raced>> /\ pc = "idle" /\ pc' = "scan"
        /\ cancelRequested' = FALSE /\ errors' = FALSE /\ status' = "running"
        /\ quiet' = TRUE /\ cutShort' = FALSE
    BY <1>2 DEF Begin, Goes, copyVars
  <2>2. runs' \in Nat
    BY <1>2 DEF Begin
  <2> QED
    BY <2>1, <2>2, Zenon
<1>3. CASE Scan
  BY <1>3 DEF Scan, Visits, Ends, Goes, copyVars, runVars, noteVars
<1>4. CASE NextFile
  <2>1. UNCHANGED <<torn, changedWhileCopied, status, errors, runs, cancelRequested, raced,
                    quiet, cutShort>>
    BY <1>4 DEF NextFile, runVars, noteVars
  <2>2. CASE pc = "loop" /\ pc' = "mirrortest" /\ UNCHANGED src
    BY <2>1, <2>2
  <2>3. CASE \E p \in One(unvisited) :
                pc = "loop" /\ ((src' = p /\ pc' = "copy") \/ UNCHANGED <<src, pc>>)
    <3>1. One(unvisited) \subseteq Paths
      BY OneOf DEF IInv, TreeTypes
    <3> QED
      BY <2>1, <2>3, <3>1, PathTypes
  <2> QED
    BY <1>4, <2>2, <2>3 DEF NextFile
<1>5. CASE Open
  <2>1. /\ UNCHANGED <<status, runs, cancelRequested, quiet, cutShort>>
        /\ torn' = FALSE /\ changedWhileCopied' = FALSE /\ pc = "copy"
    BY <1>5 DEF Open, noteVars
  <2>2. \/ pc' = "copying" /\ src' = src /\ errors' = errors /\ raced' = raced \ {src}
        \/ pc' = "loop" /\ src' = None /\ errors' = TRUE /\ raced' = raced
    BY <1>5 DEF Open
  <2> QED
    BY <2>1, <2>2
<1>6. CASE CopyBytes
  <2>1. /\ UNCHANGED <<status, runs, cancelRequested, quiet, raced, cutShort>>
        /\ torn' = FALSE /\ pc = "copying"
    BY <1>6 DEF CopyBytes, noteVars
  <2>2. \/ pc' = "mtime" /\ UNCHANGED <<src, errors, changedWhileCopied>>
        \/ pc' = "loop" /\ src' = None /\ errors' = TRUE /\ changedWhileCopied' = FALSE
    BY <1>6 DEF CopyBytes
  <2> QED
    BY <2>1, <2>2
<1>7. CASE MirrorMtime
  <2>1. /\ UNCHANGED <<status, errors, runs, cancelRequested, quiet, torn, cutShort>>
        /\ changedWhileCopied' = FALSE /\ pc' = "loop" /\ src' = None /\ src \in Paths
        /\ raced' = IF changedWhileCopied THEN raced \cup {src} ELSE raced
    BY <1>7 DEF MirrorMtime, Goes, noteVars, runVars, IInv, TreeTypes
  <2> QED
    BY <2>1
<1>8. CASE MirrorTest
  BY <1>8 DEF MirrorTest, copyVars, runVars, noteVars
<1>9. CASE FindOrphans
  BY <1>9 DEF FindOrphans, Visits, Ends, Goes, copyVars, runVars, noteVars
<1>10. CASE RemoveOrphan
  <2>1. UNCHANGED <<pc, src, torn, changedWhileCopied, status, runs, cancelRequested, quiet,
                    raced, cutShort>>
    BY <1>10 DEF RemoveOrphan, copyVars, noteVars
  <2>2. errors' \in BOOLEAN
    BY <1>10, ChoiceType DEF RemoveOrphan
  <2> QED
    BY <2>1, <2>2
<1>11. CASE Finish
  BY <1>11 DEF Finish, Outcome, copyVars, noteVars
<1>12. CASE Cancel \/ TakeBack
  <2>1. /\ UNCHANGED <<pc, src, torn, changedWhileCopied, raced, errors, status, runs, quiet>>
    BY <1>12 DEF Cancel, TakeBack, copyVars, runVars, noteVars
  <2>2. cancelRequested' \in BOOLEAN /\ cutShort' \in BOOLEAN
    BY <1>12 DEF Cancel, TakeBack
  <2> QED
    BY <2>1, <2>2, Zenon
<1>13. CASE Crash
  BY <1>13 DEF Crash, noteVars
<1>14. CASE UNCHANGED vars
  BY <1>14 DEF vars, copyVars, runVars, noteVars
<1> QED
  BY <1>1, <1>2, <1>3, <1>4, <1>5, <1>6, <1>7, <1>8, <1>9, <1>10, <1>11, <1>12, <1>13, <1>14
  DEF Next, Run

\* A file written where a file may be.
LEMMA FilePlaced ==
    ASSUME NEW tree \in [Paths -> Nodes], WellFormed(tree), NEW p \in Paths, IsFile(tree[p]),
           NEW n \in FileNode
    PROVE  WellFormed([tree EXCEPT ![p] = n])
<1>1. tree[p] # Dir /\ (Len(p) > 1 => tree[Parent(p)] = Dir)
  BY KindsDiffer, InDirectories
<1> QED
  BY <1>1, Kinds, ReplaceLeaf

LEMMA PlacedStep == Types /\ [Next]_vars => Placed'
<1> SUFFICES ASSUME Types, [Next]_vars PROVE Placed'
  OBVIOUS
<1>1. /\ nas \in [Paths -> Nodes] /\ backup \in [Paths -> Nodes] /\ orphans \subseteq Paths
      /\ WellFormed(nas) /\ WellFormed(backup)
      /\ \A p \in orphans : IsFile(backup[p])
      /\ pc \in {"copying", "mtime"} => IsFile(backup[src])
      /\ pc \in {"copy", "copying", "mtime"} => src \in Paths
      /\ reading \in FileNode
  BY DEF Types, Placed, IInv, TreeTypes
<1>2. CASE Change
  <2>1. WellFormed(nas)' /\ UNCHANGED <<backup, pc, src, orphans>>
    BY <1>2, TreeStays, ChangeKeeps
    DEF Types, Placed, Change, Write, Delete, MkDir, Rename, Mount, Changed
  <2> QED
    BY <1>1, <2>1 DEF Placed, WellFormed, IsDirIn
\* Steps that leave the trees alone.
<1>3. ASSUME UNCHANGED <<nas, backup>>, orphans' \in {orphans, {}},
             pc' \in {"copying", "mtime"} => UNCHANGED <<pc, src>>
      PROVE  Placed'
  BY <1>1, <1>3 DEF Placed, WellFormed, IsDirIn
<1>4. CASE Begin \/ Scan \/ NextFile \/ MirrorTest \/ Finish
  BY <1>3, <1>4
  DEF Begin, Scan, Visits, Ends, NextFile, MirrorTest, Finish, Goes, treeVars
<1>5. CASE Cancel \/ TakeBack \/ UNCHANGED vars
  BY <1>3, <1>5 DEF Cancel, TakeBack, vars, treeVars, copyVars
<1>6. CASE Open
  <2> DEFINE parents == WithParents(src)
  <2>1. /\ pc = "copy" /\ src \in Paths /\ UNCHANGED <<nas, orphans>>
    BY <1>1, <1>6 DEF Open, treeVars
  <2>2. /\ parents \in [Paths -> Nodes] /\ WellFormed(parents)
        /\ NoFileIn(Above(src)) /\ Len(src) > 1 => parents[Parent(src)] = Dir
        /\ parents[src] = backup[src]
    BY <2>1, ParentsKeep, ParentsMade DEF Types, Placed
  <2>3. FilesStay
    BY <1>6, OpenKeeps DEF Types
  <2>4. \A p \in orphans' : IsFile(backup'[p])
    BY <1>1, <2>1, <2>3 DEF FilesStay
  <2>5. CASE /\ pc' = "copying" /\ src' = src /\ backup' = [parents EXCEPT ![src] = NoFile]
             /\ backup[src] # Dir /\ NoFileIn(Above(src))
    <3>1. WellFormed([parents EXCEPT ![src] = NoFile])
      BY <2>1, <2>2, <2>5, Kinds, ReplaceLeaf
    <3>2. IsFile(backup'[src])
      BY <2>1, <2>2, <2>5, Kinds
    <3> QED
      BY <1>1, <2>1, <2>4, <2>5, <3>1, <3>2 DEF Placed, WellFormed, IsDirIn
  <2>6. CASE pc' = "loop" /\ backup' = parents
    BY <1>1, <2>1, <2>2, <2>4, <2>6 DEF Placed, WellFormed, IsDirIn
  <2> QED
    BY <1>6, <2>5, <2>6 DEF Open
<1>7. ASSUME UNCHANGED <<nas, orphans>>, src \in Paths, IsFile(backup[src]),
             NEW n \in FileNode, backup' = [backup EXCEPT ![src] = n],
             pc' \in {"copying", "mtime"} => src' = src
      PROVE  Placed'
  <2>1. WellFormed(backup') /\ \A p \in Paths : IsFile(backup[p]) => IsFile(backup'[p])
    BY <1>1, <1>7, FilePlaced, Kinds
  <2> QED
    BY <1>1, <1>7, <2>1 DEF Placed, WellFormed, IsDirIn
<1>8. CASE CopyBytes
  <2>1. /\ pc = "copying" /\ src \in Paths /\ IsFile(backup[src]) /\ UNCHANGED <<nas, orphans>>
    BY <1>1, <1>8 DEF CopyBytes, treeVars
  <2>2. CASE \E copy \in Partly : backup' = [backup EXCEPT ![src] = copy] /\ pc' = "loop"
    BY <1>7, <2>1, <2>2, PartlyTyped
  <2>3. CASE /\ \E copy \in IF torn THEN Partly \cup {reading} ELSE {reading} :
                  backup' = [backup EXCEPT ![src] = File(copy.data, copy.size, 0)]
             /\ src' = src
    <3>1. PICK copy \in FileNode :
            backup' = [backup EXCEPT ![src] = File(copy.data, copy.size, 0)]
      BY <1>1, <2>3, PartlyTyped
    <3>2. copy.data \in Nat /\ copy.size \in Nat
      BY DEF FileNode
    <3> QED
      BY <1>7, <2>1, <2>3, <3>1, <3>2, FileMade
  <2> QED
    BY <1>8, <2>2, <2>3 DEF CopyBytes
<1>9. CASE MirrorMtime
  <2>1. /\ pc' = "loop" /\ src \in Paths /\ IsFile(backup[src]) /\ UNCHANGED <<nas, orphans>>
    BY <1>1, <1>9 DEF MirrorMtime, Goes, treeVars
  <2>2. CASE backup' = backup
    BY <1>3, <2>1, <2>2
  <2>3. CASE IsFile(Src(src)) /\ backup' = [backup EXCEPT ![src].mtime = Src(src).mtime]
    <3>1. Src(src) \in FileNode
      BY <1>1, <2>1, <2>3, Kinds DEF Src
    <3>2. Src(src).mtime \in Nat /\ backup[src] \in FileNode
      BY <1>1, <2>1, <3>1, Kinds DEF FileNode
    <3>3. backup' = [backup EXCEPT ![src] = [backup[src] EXCEPT !.mtime = Src(src).mtime]]
      BY <1>1, <2>3
    <3>4. [backup[src] EXCEPT !.mtime = Src(src).mtime] \in FileNode
      BY <3>2 DEF FileNode
    <3> QED
      BY <1>7, <2>1, <3>3, <3>4
  <2> QED
    BY <1>9, <2>2, <2>3 DEF MirrorMtime
<1>10. CASE FindOrphans
  <2>1. UNCHANGED <<nas, backup, src>> /\ pc' \notin {"copying", "mtime"}
    BY <1>10 DEF FindOrphans, Visits, Ends, Goes, treeVars, copyVars
  <2>2. \A p \in orphans' : IsFile(backup[p])
    BY <1>1, <1>10 DEF FindOrphans, Ends, IsOrphan
  <2> QED
    BY <1>1, <2>1, <2>2 DEF Placed, WellFormed, IsDirIn
<1>11. CASE RemoveOrphan
  <2>1. PICK p \in orphans : /\ orphans' = orphans \ {p}
                             /\ backup' = backup \/ backup' = [backup EXCEPT ![p] = Absent]
    BY <1>11, OneOf DEF RemoveOrphan
  <2>2. UNCHANGED <<nas, pc>> /\ pc = "remove"
    BY <1>11 DEF RemoveOrphan, treeVars
  <2>3. WellFormed([backup EXCEPT ![p] = Absent])
    <3>1. backup[p] # Dir /\ p \in Paths
      BY <1>1, KindsDiffer
    <3> QED
      BY <1>1, <3>1, Kinds, ReplaceLeaf
  <2>4. \A x \in orphans' : IsFile(backup'[x])
    BY <1>1, <2>1
  <2> QED
    BY <1>1, <2>1, <2>2, <2>3, <2>4 DEF Placed, WellFormed, IsDirIn
<1>12. CASE Crash
  <2>1. nas' = nas /\ orphans' = {} /\ pc' = "idle"
    BY <1>12 DEF Crash, treeVars
  <2>2. \/ backup' = backup
        \/ pc = "copying" /\ \E copy \in Partly : backup' = [backup EXCEPT ![src] = copy]
    BY <1>12 DEF Crash
  <2>3. WellFormed(backup')
    BY <1>1, <2>2, PartlyTyped, FilePlaced
  <2> QED
    BY <1>1, <2>1, <2>3 DEF Placed, WellFormed, IsDirIn
<1> QED
  BY <1>2, <1>4, <1>5, <1>6, <1>8, <1>9, <1>10, <1>11, <1>12 DEF Next, Run

LEMMA TypesStep == Types /\ [Next]_vars => Types'
  BY StepKeeps, PlainStep, PlacedStep DEF Types

\* Every variable keeps its type, and both trees remain trees.
THEOREM TypeCorrect == Spec => []TypeOK
<1>1. Types => TypeOK
  BY Kinds DEF Types, PlainTypes, Placed, IInv, TreeTypes, TypeOK
<1> QED
  BY <1>1, TypesInit, TypesStep, PTL DEF Spec

-----------------------------------------------------------------------------
(* What the numbers of writes tell *)

\* No two files of a tree are of one write, and all are of writes below v.
VersionsIn(tree, v) ==
    /\ \A p \in Paths : IsFile(tree[p]) =>
          /\ tree[p].data = tree[p].mtime
          /\ tree[p].data > 0 /\ tree[p].data < v
    /\ \A p, q \in Paths :
          IsFile(tree[p]) /\ IsFile(tree[q]) /\ tree[p].data = tree[q].data => p = q

\* A copy f is of a write below v, and as long as the file of that write.
KnownIn(tree, v, f) ==
    /\ f.data < v
    /\ \A q \in Paths : IsFile(tree[q]) /\ tree[q].data = f.data => tree[q].size = f.size

\* A copy carries the mtime of what it contains, unless its source was changed
\* while it was made: without this, needsCopy would trust copies it must not.
Copies ==
    /\ VersionsIn(nas, NewVersion)
    /\ KnownIn(nas, NewVersion, reading)
    /\ \A p \in Paths : IsFile(backup[p]) =>
          /\ KnownIn(nas, NewVersion, backup[p])
          /\ backup[p].mtime = 0 \/ backup[p].mtime = backup[p].data \/ p \in raced

\* The copy in progress: of a file that was not Good, and of the file that is
\* still there if nobody changed it.
CopyInHand ==
    /\ pc = "copy" /\ src \in steady \ misread => ~Good(src)
    /\ pc = "copying" => backup[src] = NoFile
    /\ pc = "copying" /\ ~changedWhileCopied => mounted /\ ~torn /\ nas[src] = reading
    /\ pc = "mtime" /\ ~changedWhileCopied =>
          mounted /\ IsFile(nas[src]) /\ backup[src].data = nas[src].data

CopyInv == Types /\ Copies /\ CopyInHand

LEMMA FileFields ==
    /\ \A f \in FileNode : f.data \in Nat /\ f.size \in Nat /\ f.mtime \in Nat
    /\ \A d, s, m : File(d, s, m).data = d /\ File(d, s, m).size = s /\ File(d, s, m).mtime = m
    /\ NoFile.data = 0 /\ NoFile.mtime = 0
    /\ \A f \in Partly : f.data = 0 /\ f.mtime = 0
  BY DEF FileNode, File, NoFile, Partly

LEMMA VersionType == changes \in Nat => NewVersion \in Nat /\ NewVersion > 9
  BY DEF NewVersion

\* Nothing in the tree is of write 0.
LEMMA NothingIsZero ==
    ASSUME NEW tree, NEW v \in Nat, v > 0, VersionsIn(tree, v), NEW f, f.data = 0
    PROVE  KnownIn(tree, v, f)
  BY DEF VersionsIn, KnownIn

LEMMA FilesKnown ==
    ASSUME NEW tree, NEW v, VersionsIn(tree, v), NEW p \in Paths, IsFile(tree[p])
    PROVE  KnownIn(tree, v, tree[p])
  BY DEF VersionsIn, KnownIn

LEMMA CopyInvInit == Init => CopyInv
<1> SUFFICES ASSUME Init PROVE CopyInv
  OBVIOUS
<1>1. Types /\ changes \in Nat /\ nas \in [Paths -> Nodes]
  BY TypesInit DEF Types, IInv, TreeTypes
<1>2. Numbered(nas)
  BY TreeAssumption DEF Init
<1>3. NewVersion \in Nat /\ NewVersion > 9
  BY <1>1, VersionType
<1>4. VersionsIn(nas, NewVersion)
  BY <1>2, <1>3 DEF Numbered, VersionsIn
<1>5. KnownIn(nas, NewVersion, reading)
  <2>1. reading.data = 0
    BY FileFields DEF Init
  <2> QED
    BY <1>3, <1>4, <2>1, NothingIsZero
<1>6. \A p \in Paths : ~IsFile(backup[p])
  BY Kinds DEF Init
<1>7. CopyInHand
  BY DEF Init, CopyInHand
<1> QED
  BY <1>1, <1>4, <1>5, <1>6, <1>7 DEF CopyInv, Copies

-----------------------------------------------------------------------------
(* A change of the tree *)

\* It makes a file of the next write, or moves files, or removes them.
LEMMA ChangeOfVersions ==
    ASSUME Types, VersionsIn(nas, NewVersion), Change
    PROVE  /\ VersionsIn(nas', NewVersion')
           /\ \A f : KnownIn(nas, NewVersion, f) /\ f.data \in Nat => KnownIn(nas', NewVersion', f)
<1>1. /\ nas \in [Paths -> Nodes] /\ changes \in Nat
      /\ \A p \in Paths : IsFile(nas[p]) => nas[p].data \in Nat
  <2>1. nas \in [Paths -> Nodes] /\ changes \in Nat
    BY DEF Types, IInv, TreeTypes
  <2> QED
    BY <2>1, Kinds, FileFields
<1>2. NewVersion \in Nat /\ NewVersion > 9 /\ NewVersion' = NewVersion + 1
  BY <1>1, VersionType
  DEF NewVersion, Change, Write, Delete, MkDir, Rename, Mount, Changed
\* What was there before, at another path or the same.
<1>3. ASSUME NEW p \in Paths, Write(p)
      PROVE  \A q \in Paths : IsFile(nas'[q]) =>
                IF q = p THEN nas'[q].data = NewVersion /\ nas'[q].mtime = NewVersion
                ELSE nas'[q] = nas[q]
  <2>1. PICK size \in Sizes : nas' = [nas EXCEPT ![p] = File(NewVersion, size, NewVersion)]
    BY <1>3 DEF Write
  <2> QED
    BY <1>1, <2>1, FileFields
<1>4. ASSUME NEW p \in Paths, Delete(p) \/ MkDir(p)
      PROVE  \A q \in Paths : IsFile(nas'[q]) => nas'[q] = nas[q]
  BY <1>1, <1>4, Kinds DEF Delete, MkDir, Without
<1>5. ASSUME NEW p \in Paths, NEW r \in Paths, Rename(p, r)
      PROVE  /\ p # r /\ IsFile(nas[p])
             /\ \A q \in Paths : IsFile(nas'[q]) =>
                  q # p /\ nas'[q] = IF q = r THEN nas[p] ELSE nas[q]
  <2>1. p # r /\ nas' = [nas EXCEPT ![p] = Absent, ![r] = nas[p]] /\ IsFile(nas[p])
    BY <1>5 DEF Rename
  <2> QED
    BY <1>1, <2>1, Kinds
<1>6. VersionsIn(nas', NewVersion')
  <2>1. CASE \E p \in Paths : Write(p)
    BY <1>1, <1>2, <1>3, <2>1 DEF VersionsIn
  <2>2. CASE (\E p \in Paths : Delete(p) \/ MkDir(p)) \/ Mount
    <3>1. \A q \in Paths : IsFile(nas'[q]) => nas'[q] = nas[q]
      BY <1>4, <2>2 DEF Mount
    <3> QED
      BY <1>1, <1>2, <3>1 DEF VersionsIn
  <2>3. CASE \E p, r \in Paths : Rename(p, r)
    <3>1. PICK p \in Paths, r \in Paths : Rename(p, r)
      BY <2>3
    <3>2. \A q \in Paths : IsFile(nas'[q]) =>
             LET x == IF q = r THEN p ELSE q IN q # p /\ nas'[q] = nas[x] /\ IsFile(nas[x])
      BY <1>5, <3>1
    <3> QED
      BY <1>1, <1>2, <3>2 DEF VersionsIn
  <2> QED
    BY <2>1, <2>2, <2>3 DEF Change
<1>7. ASSUME NEW f, KnownIn(nas, NewVersion, f), f.data \in Nat
      PROVE  KnownIn(nas', NewVersion', f)
  <2>1. \A q \in Paths : IsFile(nas'[q]) =>
           nas'[q].data = NewVersion \/ \E x \in Paths : IsFile(nas[x]) /\ nas'[q] = nas[x]
    BY <1>3, <1>4, <1>5 DEF Change, Mount
  <2>2. f.data < NewVersion /\ f.data < NewVersion'
    BY <1>2, <1>7 DEF KnownIn
  <2> QED
    BY <1>2, <1>7, <2>1, <2>2 DEF KnownIn
<1> QED
  BY <1>6, <1>7

\* It is seen by steady, and by the copy that it changes or tears.
Seen ==
    /\ UNCHANGED <<backup, pc, unvisited, files, src, reading, orphans, errors, status,
                   cancelRequested, raced, cutShort, misread>>
    /\ quiet' = FALSE
    /\ \A p \in steady' : p \in steady /\ nas'[p] = nas[p]
    /\ ~changedWhileCopied' /\ src \in Paths =>
          /\ ~changedWhileCopied /\ nas'[src] = nas[src] /\ mounted' = mounted
          /\ torn' => \/ torn
                      \/ \E x \in Paths : /\ x # src /\ IsFile(nas[x])
                                          /\ nas[x].data = reading.data

LEMMA ChangeIsSeen == Types /\ Change => Seen
<1> SUFFICES ASSUME Types, Change PROVE Seen
  OBVIOUS
<1>1. nas \in [Paths -> Nodes] /\ steady \subseteq Paths
  BY DEF Types, IInv, TreeTypes
<1>2. ASSUME NEW ps, Changed(ps), \A p \in Paths : p \notin ps => nas'[p] = nas[p],
             \/ mounted' = mounted
             \/ ps = Paths,
             torn' => \/ torn
                      \/ \E x \in ps \cap Paths : IsFile(nas[x]) /\ nas[x].data = reading.data
      PROVE  Seen
  <2>1. /\ UNCHANGED <<backup, pc, unvisited, files, src, reading, orphans, errors, status,
                       cancelRequested, raced, cutShort, misread>>
        /\ quiet' = FALSE /\ steady' = steady \ ps
        /\ changedWhileCopied' = (changedWhileCopied \/ src \in ps)
    BY <1>2 DEF Changed, runVars
  <2>2. \A p \in steady' : p \in steady /\ nas'[p] = nas[p]
    BY <1>1, <1>2, <2>1
  <2>3. ASSUME ~changedWhileCopied', src \in Paths
        PROVE  /\ ~changedWhileCopied /\ nas'[src] = nas[src] /\ mounted' = mounted
               /\ torn' => \/ torn
                           \/ \E x \in Paths : /\ x # src /\ IsFile(nas[x])
                                               /\ nas[x].data = reading.data
    <3>1. ~changedWhileCopied /\ src \notin ps
      BY <2>1, <2>3
    <3> QED
      BY <1>2, <2>3, <3>1
  <2> QED
    BY <2>1, <2>2, <2>3, Zenon DEF Seen
<1>3. ASSUME NEW p \in Paths, Write(p)
      PROVE  /\ Changed({p}) /\ mounted' = mounted
             /\ \A q \in Paths : q \notin {p} => nas'[q] = nas[q]
             /\ torn' => \/ torn
                         \/ \E x \in {p} \cap Paths : IsFile(nas[x]) /\ nas[x].data = reading.data
  BY <1>1, <1>3 DEF Write
<1>4. ASSUME NEW p \in Paths, Delete(p)
      PROVE  /\ Changed(Subtree(p)) /\ mounted' = mounted /\ (torn' => torn)
             /\ \A q \in Paths : q \notin Subtree(p) => nas'[q] = nas[q]
  BY <1>1, <1>4 DEF Delete, Without
<1>5. ASSUME NEW p \in Paths, MkDir(p)
      PROVE  /\ Changed({p}) /\ mounted' = mounted /\ (torn' => torn)
             /\ \A q \in Paths : q \notin {p} => nas'[q] = nas[q]
  BY <1>1, <1>5 DEF MkDir
<1>6. ASSUME NEW p \in Paths, NEW r \in Paths, Rename(p, r)
      PROVE  /\ Changed({p, r}) /\ mounted' = mounted /\ (torn' => torn)
             /\ \A q \in Paths : q \notin {p, r} => nas'[q] = nas[q]
  <2>1. nas' = [nas EXCEPT ![p] = Absent, ![r] = nas[p]]
    BY <1>6 DEF Rename
  <2> QED
    BY <1>1, <1>6, <2>1 DEF Rename
<1>7. ASSUME Mount
      PROVE  Changed(Paths) /\ torn' = torn /\ nas' = nas
  BY <1>7 DEF Mount
<1>8. CASE \E p \in Paths : Write(p)
  BY <1>2, <1>3, <1>8
<1>9. CASE \E p \in Paths : Delete(p)
  BY <1>2, <1>4, <1>9
<1>10. CASE \E p \in Paths : MkDir(p)
  BY <1>2, <1>5, <1>10
<1>11. CASE \E p, r \in Paths : Rename(p, r)
  BY <1>2, <1>6, <1>11
<1>12. CASE Mount
  <2>1. Changed(Paths) /\ Paths = Paths /\ (torn' => torn)
    BY <1>7, <1>12
  <2>2. \A p \in Paths : p \notin Paths => nas'[p] = nas[p]
    OBVIOUS
  <2> QED
    BY <1>2, <2>1, <2>2, Zenon
<1> QED
  BY <1>8, <1>9, <1>10, <1>11, <1>12, Zenon DEF Change

LEMMA CopiesAfterChange == CopyInv /\ Change => Copies' /\ CopyInHand'
<1> SUFFICES ASSUME CopyInv, Change PROVE Copies' /\ CopyInHand'
  OBVIOUS
<1>1. /\ Types /\ Seen /\ VersionsIn(nas', NewVersion')
      /\ \A f : KnownIn(nas, NewVersion, f) /\ f.data \in Nat => KnownIn(nas', NewVersion', f)
  BY ChangeIsSeen, ChangeOfVersions DEF CopyInv, Copies
<1>2. /\ backup \in [Paths -> Nodes] /\ nas \in [Paths -> Nodes] /\ reading \in FileNode
      /\ pc \in {"copy", "copying", "mtime"} => src \in Paths
  BY <1>1 DEF Types, IInv, TreeTypes
<1>3. Copies'
  <2>1. reading.data \in Nat /\ \A p \in Paths : IsFile(backup[p]) => backup[p].data \in Nat
    BY <1>2, Kinds, FileFields
  <2>2. UNCHANGED <<backup, reading, raced>>
    BY <1>1 DEF Seen
  <2> QED
    BY <1>1, <2>1, <2>2 DEF CopyInv, Copies
<1>4. UNCHANGED <<backup, pc, src, reading, misread>>
  BY <1>1 DEF Seen
<1>5. ASSUME pc' = "copy", src' \in steady' \ misread' PROVE ~Good(src)'
  <2>1. src \in steady /\ nas'[src] = nas[src]
    BY <1>1, <1>4, <1>5 DEF Seen
  <2> QED
    BY <1>4, <1>5, <2>1 DEF CopyInv, CopyInHand, Good
<1>6. ASSUME pc' \in {"copying", "mtime"}, ~changedWhileCopied'
      PROVE  /\ src \in Paths /\ ~changedWhileCopied /\ nas'[src] = nas[src] /\ mounted' = mounted
             /\ torn' => \/ torn
                         \/ \E x \in Paths : /\ x # src /\ IsFile(nas[x])
                                             /\ nas[x].data = reading.data
  BY <1>1, <1>2, <1>4, <1>6 DEF Seen
<1>7. ASSUME pc' = "copying", ~changedWhileCopied'
      PROVE  mounted' /\ ~torn' /\ nas'[src'] = reading'
  <2>1. mounted /\ ~torn /\ nas[src] = reading
    BY <1>4, <1>6, <1>7 DEF CopyInv, CopyInHand
  <2>2. ~\E x \in Paths : x # src /\ IsFile(nas[x]) /\ nas[x].data = reading.data
    BY <1>2, <1>6, <1>7, <2>1, Kinds DEF CopyInv, Copies, VersionsIn
  <2> QED
    BY <1>4, <1>6, <1>7, <2>1, <2>2
<1>8. ASSUME pc' = "mtime", ~changedWhileCopied'
      PROVE  mounted' /\ IsFile(nas'[src']) /\ backup'[src'].data = nas'[src'].data
  BY <1>4, <1>6, <1>8 DEF CopyInv, CopyInHand
<1>9. pc' = "copying" => backup'[src'] = NoFile
  BY <1>4 DEF CopyInv, CopyInHand
<1> QED
  BY <1>3, <1>5, <1>7, <1>8, <1>9 DEF CopyInHand

-----------------------------------------------------------------------------
(* The steps of a run *)

\* Every file of the backup is the one that was there, or known and with an
\* mtime that may be trusted.
LEMMA CopiesWritten ==
    ASSUME CopyInv, UNCHANGED <<nas, changes>>, KnownIn(nas, NewVersion, reading'),
           \A p \in Paths : IsFile(backup'[p]) =>
              \/ backup'[p] = backup[p] /\ (p \in raced => p \in raced')
              \/ /\ KnownIn(nas, NewVersion, backup'[p])
                 /\ \/ backup'[p].mtime = 0
                    \/ backup'[p].mtime = backup'[p].data
                    \/ p \in raced'
    PROVE  Copies'
<1>1. NewVersion' = NewVersion
  BY DEF NewVersion
<1> QED
  BY <1>1 DEF CopyInv, Copies

\* What is not of any write is known.
LEMMA PartlyKnown ==
    ASSUME CopyInv, NEW f, f.data = 0
    PROVE  KnownIn(nas, NewVersion, f)
<1>1. NewVersion \in Nat /\ NewVersion > 0
  BY VersionType DEF CopyInv, Types, IInv, TreeTypes
<1> QED
  BY <1>1, NothingIsZero DEF CopyInv, Copies

LEMMA CopiesStay ==
    ASSUME CopyInv,
           \/ Begin \/ Scan \/ NextFile \/ MirrorTest \/ FindOrphans \/ Finish
           \/ Cancel \/ TakeBack \/ UNCHANGED vars
    PROVE  Copies' /\ UNCHANGED <<nas, mounted, changes, backup, reading, torn,
                                   changedWhileCopied, raced>>
<1>1. UNCHANGED <<nas, mounted, changes, backup, reading, torn, changedWhileCopied, raced>>
  BY DEF Begin, Scan, Visits, Ends, NextFile, MirrorTest, FindOrphans, Finish, Cancel, TakeBack,
         vars, treeVars, copyVars, noteVars
<1>2. Copies'
  BY <1>1, CopiesWritten DEF CopyInv, Copies
<1> QED
  BY <1>1, <1>2

\* No copy is in hand, or it is as before.
LEMMA NoneInHand ==
    ASSUME pc' \notin {"copy", "copying", "mtime"}
    PROVE  CopyInHand'
  BY DEF CopyInHand

LEMMA SameInHand ==
    ASSUME CopyInHand, UNCHANGED <<pc, src, nas, mounted, backup, reading, torn,
                                   changedWhileCopied, misread, steady>>
    PROVE  CopyInHand'
  BY DEF CopyInHand, Good

\* What needsCopy finds different is not backed up.
LEMMA DiffersNotGood ==
    ASSUME CopyInv, NEW p \in steady, Differs(p)
    PROVE  ~Good(p)
<1>1. p \in Paths /\ Src(p) = nas[p] /\ IsFile(nas[p])
  BY DEF CopyInv, Types, IInv, TreeTypes, SteadyThere, Src
<1>2. ASSUME Good(p) PROVE FALSE
  <2>1. nas[p].size = backup[p].size
    BY <1>1, <1>2 DEF CopyInv, Copies, KnownIn, Good
  <2> QED
    BY <1>1, <1>2, <2>1 DEF Differs, Good
<1> QED
  BY <1>2

LEMMA NextFileInHand == CopyInv /\ NextFile => CopyInHand'
<1> SUFFICES ASSUME CopyInv, NextFile PROVE CopyInHand'
  OBVIOUS
<1>1. pc = "loop" /\ UNCHANGED <<nas, backup, steady>>
  BY DEF NextFile, treeVars, noteVars
<1>2. CASE pc' \in {"loop", "mirrortest"}
  BY <1>2, NoneInHand
<1>3. ASSUME NEW p, NEW fails, NEW unnamed, Notes(p, fails \/ unnamed), NeedsCopy(p, fails),
             src' = p, pc' = "copy"
      PROVE  CopyInHand'
  <2>1. ASSUME p \in steady \ misread' PROVE ~Good(p)
    BY <1>3, <2>1, DiffersNotGood DEF NeedsCopy, Notes
  <2> QED
    BY <1>1, <1>3, <2>1 DEF CopyInHand, Good
<1> QED
  BY <1>1, <1>2, <1>3 DEF NextFile

LEMMA OpenCopies == CopyInv /\ Open => Copies' /\ CopyInHand'
<1> SUFFICES ASSUME CopyInv, Open PROVE Copies' /\ CopyInHand'
  OBVIOUS
<1> DEFINE parents == WithParents(src)
<1>1. /\ pc = "copy" /\ src \in Paths /\ UNCHANGED <<nas, mounted, changes>>
      /\ torn' = FALSE /\ changedWhileCopied' = FALSE
  BY DEF Open, CopyInv, Types, IInv, TreeTypes, treeVars, noteVars
<1>2. /\ parents \in [Paths -> Nodes]
      /\ \A p \in Paths : IsFile(parents[p]) => parents[p] = backup[p]
  <2>1. \A p \in Paths : parents[p] = Dir \/ parents[p] = backup[p]
    BY DEF WithParents
  <2> QED
    BY <1>1, <2>1, ParentsKeep, Kinds DEF CopyInv, Types
<1>3. CASE /\ IsFile(Src(src)) /\ pc' = "copying" /\ reading' = Src(src) /\ src' = src
           /\ backup' = [parents EXCEPT ![src] = NoFile] /\ raced' = raced \ {src}
  <2>1. mounted /\ IsFile(nas[src]) /\ reading' = nas[src]
    BY <1>3, Kinds DEF Src
  <2>2. KnownIn(nas, NewVersion, reading')
    BY <1>1, <2>1, FilesKnown DEF CopyInv, Copies
  <2>3. backup'[src] = NoFile /\ \A p \in Paths : p # src => backup'[p] = parents[p]
    BY <1>1, <1>2, <1>3
  <2>4. KnownIn(nas, NewVersion, NoFile) /\ NoFile.mtime = 0
    BY FileFields, PartlyKnown
  <2>5. \A p \in Paths : IsFile(backup'[p]) =>
           \/ backup'[p] = backup[p] /\ (p \in raced => p \in raced')
           \/ KnownIn(nas, NewVersion, backup'[p]) /\ backup'[p].mtime = 0
    BY <1>2, <1>3, <2>3, <2>4
  <2>6. Copies'
    BY <1>1, <2>2, <2>5, CopiesWritten
  <2> QED
    BY <1>1, <1>3, <2>1, <2>3, <2>6 DEF CopyInHand
<1>4. CASE pc' = "loop" /\ backup' = parents /\ UNCHANGED <<reading, raced>>
  <2>1. Copies'
    BY <1>1, <1>2, <1>4, CopiesWritten DEF CopyInv, Copies
  <2> QED
    BY <1>4, <2>1, NoneInHand
<1> QED
  BY <1>3, <1>4 DEF Open

LEMMA CopyBytesCopies == CopyInv /\ CopyBytes => Copies' /\ CopyInHand'
<1> SUFFICES ASSUME CopyInv, CopyBytes PROVE Copies' /\ CopyInHand'
  OBVIOUS
<1>1. /\ pc = "copying" /\ src \in Paths /\ UNCHANGED <<nas, mounted, changes, raced>>
      /\ reading' = NoFile /\ backup \in [Paths -> Nodes]
  BY DEF CopyBytes, CopyInv, Types, IInv, TreeTypes, treeVars, noteVars
<1>2. KnownIn(nas, NewVersion, reading')
  BY <1>1, FileFields, PartlyKnown
<1>3. ASSUME NEW n, KnownIn(nas, NewVersion, n), n.mtime = 0, backup' = [backup EXCEPT ![src] = n]
      PROVE  Copies' /\ backup'[src] = n
  <2>1. backup'[src] = n /\ \A p \in Paths : p # src => backup'[p] = backup[p]
    BY <1>1, <1>3
  <2>2. \A p \in Paths : IsFile(backup'[p]) =>
           \/ backup'[p] = backup[p] /\ (p \in raced => p \in raced')
           \/ KnownIn(nas, NewVersion, backup'[p]) /\ backup'[p].mtime = 0
    BY <1>1, <1>3, <2>1
  <2> QED
    BY <1>1, <1>2, <2>1, <2>2, CopiesWritten
<1>4. CASE \E copy \in Partly : backup' = [backup EXCEPT ![src] = copy] /\ pc' = "loop"
  <2>1. Copies'
    BY <1>3, <1>4, FileFields, PartlyKnown
  <2> QED
    BY <1>4, <2>1, NoneInHand
<1>5. ASSUME NEW copy \in IF torn THEN Partly \cup {reading} ELSE {reading},
             backup' = [backup EXCEPT ![src] = File(copy.data, copy.size, 0)],
             pc' = "mtime", UNCHANGED <<src, changedWhileCopied>>
      PROVE  Copies' /\ CopyInHand'
  <2> DEFINE n == File(copy.data, copy.size, 0)
  <2>1. n.data = copy.data /\ n.size = copy.size /\ n.mtime = 0
    BY FileFields
  <2>2. KnownIn(nas, NewVersion, copy)
    <3>1. copy = reading \/ copy.data = 0
      BY FileFields
    <3> QED
      BY <3>1, PartlyKnown DEF CopyInv, Copies
  <2>3. KnownIn(nas, NewVersion, n)
    BY <2>1, <2>2 DEF KnownIn
  <2>4. Copies' /\ backup'[src] = n
    BY <1>3, <1>5, <2>1, <2>3
  <2>5. ASSUME ~changedWhileCopied PROVE mounted /\ IsFile(nas[src]) /\ n.data = nas[src].data
    <3>1. mounted /\ ~torn /\ nas[src] = reading /\ reading \in FileNode
      BY <1>1, <2>5 DEF CopyInv, CopyInHand, Types, IInv, TreeTypes
    <3> QED
      BY <2>1, <3>1, Kinds
  <2> QED
    BY <1>1, <1>5, <2>4, <2>5 DEF CopyInHand
<1> QED
  BY <1>4, <1>5 DEF CopyBytes

LEMMA MirrorMtimeCopies == CopyInv /\ MirrorMtime => Copies' /\ CopyInHand'
<1> SUFFICES ASSUME CopyInv, MirrorMtime PROVE Copies' /\ CopyInHand'
  OBVIOUS
<1>1. /\ pc = "mtime" /\ pc' = "loop" /\ src \in Paths
      /\ UNCHANGED <<nas, mounted, changes, reading>>
      /\ raced \subseteq raced' /\ (changedWhileCopied => src \in raced')
      /\ backup \in [Paths -> Nodes] /\ nas \in [Paths -> Nodes] /\ IsFile(backup[src])
  BY DEF MirrorMtime, Goes, CopyInv, Types, IInv, TreeTypes, Placed, treeVars, noteVars
<1>2. CASE backup' = backup
  BY <1>1, <1>2, CopiesWritten, NoneInHand DEF CopyInv, Copies
<1>3. CASE IsFile(Src(src)) /\ backup' = [backup EXCEPT ![src].mtime = Src(src).mtime]
  <2>1. mounted /\ IsFile(nas[src]) /\ Src(src) = nas[src]
    BY <1>3, Kinds DEF Src
  <2>2. nas[src] \in FileNode /\ backup[src] \in FileNode
    BY <1>1, <2>1, Kinds
  <2>3. /\ backup'[src].data = backup[src].data /\ backup'[src].size = backup[src].size
        /\ backup'[src].mtime = nas[src].mtime
        /\ \A p \in Paths : p # src => backup'[p] = backup[p]
    BY <1>1, <1>3, <2>1, <2>2 DEF FileNode
  <2>4. KnownIn(nas, NewVersion, backup'[src])
    BY <1>1, <2>3 DEF CopyInv, Copies, KnownIn
  <2>5. backup'[src].mtime = backup'[src].data \/ src \in raced'
    <3>1. nas[src].mtime = nas[src].data
      BY <1>1, <2>1 DEF CopyInv, Copies, VersionsIn
    <3> QED
      BY <1>1, <2>3, <3>1 DEF CopyInv, CopyInHand
  <2> QED
    BY <1>1, <2>3, <2>4, <2>5, CopiesWritten, NoneInHand DEF CopyInv, Copies
<1> QED
  BY <1>2, <1>3 DEF MirrorMtime

LEMMA CopyInvStep == CopyInv /\ [Next]_vars => CopyInv'
<1> SUFFICES ASSUME CopyInv, [Next]_vars PROVE CopyInv'
  OBVIOUS
<1>1. Types'
  BY TypesStep DEF CopyInv
<1> SUFFICES Copies' /\ CopyInHand'
  BY <1>1 DEF CopyInv
<1>2. CASE Change
  BY <1>2, CopiesAfterChange
<1>3. CASE Begin \/ Scan \/ MirrorTest \/ FindOrphans \/ Finish
  <2>1. pc' \notin {"copy", "copying", "mtime"}
    BY <1>3 DEF Begin, Scan, Visits, Ends, MirrorTest, FindOrphans, Finish, Goes
  <2> QED
    BY <1>3, <2>1, CopiesStay, NoneInHand
<1>4. CASE NextFile
  BY <1>4, CopiesStay, NextFileInHand
<1>5. CASE Cancel \/ TakeBack \/ UNCHANGED vars
  <2>1. UNCHANGED <<pc, src, misread, steady>>
    BY <1>5 DEF Cancel, TakeBack, vars, copyVars, noteVars
  <2> QED
    BY <1>5, <2>1, CopiesStay, SameInHand DEF CopyInv
<1>6. CASE RemoveOrphan
  <2>1. /\ UNCHANGED <<nas, changes, reading, raced, pc>> /\ pc = "remove"
        /\ \E p \in orphans : backup' = backup \/ backup' = [backup EXCEPT ![p] = Absent]
    BY <1>6, OneOf DEF RemoveOrphan, treeVars, noteVars, copyVars
  <2>2. backup \in [Paths -> Nodes]
    BY DEF CopyInv, Types, IInv, TreeTypes
  <2>3. \A p \in Paths : IsFile(backup'[p]) => backup'[p] = backup[p]
    BY <2>1, <2>2, Kinds
  <2> QED
    BY <2>1, <2>3, CopiesWritten, NoneInHand DEF CopyInv, Copies
<1>7. CASE Crash
  <2>1. /\ UNCHANGED <<nas, changes, raced>> /\ reading' = NoFile /\ pc' = "idle"
        /\ \/ backup' = backup
           \/ /\ pc = "copying"
              /\ \E copy \in Partly : backup' = [backup EXCEPT ![src] = copy]
    BY <1>7 DEF Crash, treeVars, noteVars
  <2>2. backup \in [Paths -> Nodes] /\ (pc = "copying" => src \in Paths)
    BY DEF CopyInv, Types, IInv, TreeTypes
  <2>3. /\ KnownIn(nas, NewVersion, reading')
        /\ \A f \in Partly : KnownIn(nas, NewVersion, f) /\ f.mtime = 0
    BY <2>1, FileFields, PartlyKnown
  <2>4. \A p \in Paths : IsFile(backup'[p]) =>
           \/ backup'[p] = backup[p]
           \/ KnownIn(nas, NewVersion, backup'[p]) /\ backup'[p].mtime = 0
    BY <2>1, <2>2, <2>3
  <2> QED
    BY <2>1, <2>3, <2>4, CopiesWritten, NoneInHand
<1>8. CASE Open
  BY <1>8, OpenCopies
<1>9. CASE CopyBytes
  BY <1>9, CopyBytesCopies
<1>10. CASE MirrorMtime
  BY <1>10, MirrorMtimeCopies
<1> QED
  BY <1>2, <1>3, <1>4, <1>5, <1>6, <1>7, <1>8, <1>9, <1>10 DEF Next, Run

-----------------------------------------------------------------------------
(* A good copy stays *)

\* A copy writes at src alone; the parents it needs take no file's place.
LEMMA OthersKept ==
    ASSUME CopyInv, Open \/ CopyBytes \/ MirrorMtime
    PROVE  /\ \A p \in Paths : p # src /\ IsFile(backup[p]) => backup'[p] = backup[p]
           /\ UNCHANGED <<nas, mounted, steady, quiet, cutShort, cancelRequested, misread>>
           /\ src \in Paths
           /\ CopyBytes \/ MirrorMtime => \A p \in Paths : p # src => backup'[p] = backup[p]
<1>1. /\ backup \in [Paths -> Nodes] /\ src \in Paths
      /\ UNCHANGED <<nas, mounted, steady, quiet, cutShort, cancelRequested, misread>>
  BY DEF Open, CopyBytes, MirrorMtime, Goes, CopyInv, Types, IInv, TreeTypes, treeVars, noteVars
<1>2. CASE Open
  <2>1. \A p \in Paths : IsFile(backup[p]) => WithParents(src)[p] = backup[p]
    BY Kinds DEF WithParents
  <2>2. backup' = WithParents(src) \/ backup' = [WithParents(src) EXCEPT ![src] = NoFile]
    BY <1>2 DEF Open
  <2>3. WithParents(src) \in [Paths -> Nodes]
    BY <1>1, ParentsKeep DEF CopyInv, Types
  <2>4. ~CopyBytes /\ ~MirrorMtime
    BY <1>2 DEF Open, CopyBytes, MirrorMtime, Goes
  <2> QED
    BY <1>1, <2>1, <2>2, <2>3, <2>4
<1>3. CASE CopyBytes \/ MirrorMtime
  <2>1. backup' = backup \/ \E n : backup' = [backup EXCEPT ![src] = n]
    <3>1. CASE CopyBytes
      BY <3>1 DEF CopyBytes
    <3>2. CASE MirrorMtime
      <4>1. \/ backup' = backup
            \/ backup' = [backup EXCEPT ![src] = [backup[src] EXCEPT !.mtime = Src(src).mtime]]
        BY <1>1, <3>2 DEF MirrorMtime
      <4> QED
        BY <4>1
    <3> QED
      BY <1>3, <3>1, <3>2
  <2> QED
    BY <1>1, <2>1
<1> QED
  BY <1>1, <1>2, <1>3

\* A mtime leaves the contents as they are.
LEMMA MtimeOnly ==
    ASSUME CopyInv, MirrorMtime
    PROVE  IsFile(backup'[src]) /\ backup'[src].data = backup[src].data
<1>1. /\ src \in Paths /\ backup \in [Paths -> Nodes] /\ IsFile(backup[src])
      /\ \/ backup' = backup
         \/ backup' = [backup EXCEPT ![src] = [backup[src] EXCEPT !.mtime = Src(src).mtime]]
  BY DEF MirrorMtime, Goes, CopyInv, Types, IInv, TreeTypes, Placed
<1>2. backup[src] \in FileNode
  BY <1>1, Kinds
<1> QED
  BY <1>1, <1>2 DEF FileNode, IsFile

LEMMA GoodStep ==
    ASSUME CopyInv, [Next]_vars, NEW p \in (steady \cap steady') \ misread', Good(p)
    PROVE  Good(p)'
<1>1. /\ p \in Paths /\ p \notin orphans \ misread /\ mounted /\ IsFile(nas[p])
      /\ IsFile(backup[p])
      /\ nas \in [Paths -> Nodes] /\ backup \in [Paths -> Nodes]
  BY DEF CopyInv, Types, IInv, TreeTypes, SteadyThere, SteadyKept, Good
<1>2. ASSUME UNCHANGED nas, backup'[p] = backup[p] PROVE Good(p)'
  BY <1>2 DEF Good
<1>3. CASE Change
  <2>1. nas'[p] = nas[p] /\ backup' = backup
    BY <1>3, ChangeIsSeen DEF Seen, CopyInv
  <2> QED
    BY <2>1 DEF Good
<1>4. CASE \/ Begin \/ Scan \/ NextFile \/ MirrorTest \/ FindOrphans \/ Finish
           \/ Cancel \/ TakeBack \/ UNCHANGED vars
  BY <1>2, <1>4, CopiesStay
<1>5. CASE Open
  <2>1. p # src
    BY <1>5, OthersKept DEF Open, CopyInv, CopyInHand
  <2> QED
    BY <1>1, <1>2, <1>5, <2>1, OthersKept
\* What is being copied is empty.
<1>10. pc = "copying" => p # src
  <2>1. ASSUME pc = "copying", p = src PROVE FALSE
    <3>1. backup[src].data = 0 /\ nas[src].data > 0
      BY <1>1, <2>1, FileFields DEF CopyInv, CopyInHand, Copies, VersionsIn
    <3> QED
      BY <2>1, <3>1 DEF Good
  <2> QED
    BY <2>1
<1>6. CASE CopyBytes
  <2>1. p # src
    BY <1>6, <1>10 DEF CopyBytes
  <2> QED
    BY <1>1, <1>2, <1>6, <2>1, OthersKept
<1>7. CASE MirrorMtime
  <2>1. CASE p = src
    BY <1>7, <2>1, OthersKept, MtimeOnly DEF Good
  <2>2. CASE p # src
    BY <1>1, <1>2, <1>7, <2>2, OthersKept
  <2> QED
    BY <2>1, <2>2
<1>8. CASE RemoveOrphan
  <2>1. /\ UNCHANGED <<nas, misread>>
        /\ \E q \in orphans : backup' = backup \/ backup' = [backup EXCEPT ![q] = Absent]
    BY <1>8, OneOf DEF RemoveOrphan, treeVars
  <2> QED
    BY <1>1, <1>2, <2>1
<1>9. CASE Crash
  <2>1. /\ UNCHANGED nas
        /\ \/ backup' = backup
           \/ pc = "copying" /\ \E copy : backup' = [backup EXCEPT ![src] = copy]
    BY <1>9 DEF Crash, treeVars
  <2> QED
    BY <1>1, <1>2, <1>10, <2>1
<1> QED
  BY <1>3, <1>4, <1>5, <1>6, <1>7, <1>8, <1>9 DEF Next, Run

\* CopyInv holds always: a copy carries the mtime of what it contains unless its
\* source changed meanwhile, and the copy at hand is of the file that was read.
THEOREM CopiesHold == Spec => []CopyInv
  BY CopyInvInit, CopyInvStep, PTL DEF Spec

\* The copy of a file that nobody changes is not spoilt by any run, crash or
\* failure, unless a call could not look at the file (SyncManager.cpp:204-230, 616-638, 719).
THEOREM GoodCopiesStay == Spec => GoodStays
<1>1. CopyInv /\ [Next]_vars =>
        [\A p \in (steady \cap steady') \ misread' : Good(p) => Good(p)']_vars
  BY GoodStep
<1> QED
  BY CopiesHold, <1>1, PTL DEF Spec, GoodStays

-----------------------------------------------------------------------------
(* A completed run *)

\* A run that can still complete, in a tree that stayed as it was.
Going == quiet /\ mounted /\ ~cutShort /\ ~cancelRequested /\ ~errors

Settled(p) == Good(p) \/ p \in raced

\* What mirrorDeletions has to find.
Missing(p) == IsFile(backup[p]) /\ nas[p] = Absent

\* What the run has to back up: no call for it failed.
Due == steady \ (Excluded \cup misread)

\* The scan loses no file, the loop leaves none behind, the mirror neither.
Scanned == pc = "scan" => Due \subseteq files \cup unvisited
Handled == pc \in {"loop", "copy", "copying", "mtime"} =>
              \A p \in Due : p \in unvisited \/ p = src \/ Settled(p)
AllSettled == pc \in {"mirrortest", "mirror", "remove", "finish"} => \A p \in Due : Settled(p)
OrphansFound == DeleteFromBackup =>
    /\ pc = "mirror" => \A p \in Paths \ misread : Missing(p) => p \in unvisited \/ p \in orphans
    /\ pc = "remove" => \A p \in Paths \ misread : Missing(p) => p \in orphans
    /\ pc # "finish"
Progress == Going => Scanned /\ Handled /\ AllSettled /\ OrphansFound

\* HomeNAS's own databases are never found, so never copied.
NoMeta ==
    /\ \A p \in Excluded : ~IsFile(backup[p])
    /\ files \cap Excluded = {} /\ src \notin Excluded
    /\ pc \in {"loop", "copy", "copying", "mtime"} => unvisited \cap Excluded = {}

ConvergeInv == CopyInv /\ NoMeta /\ Progress /\ MirrorConverges

LEMMA NoMetaStep == CopyInv /\ NoMeta /\ [Next]_vars => NoMeta'
<1> SUFFICES ASSUME CopyInv, NoMeta, [Next]_vars PROVE NoMeta'
  OBVIOUS
<1>1. /\ Excluded \subseteq Paths /\ None \notin Excluded
      /\ backup \in [Paths -> Nodes] /\ (pc \in {"copy", "copying", "mtime"} => src \in Paths)
  BY PathTypes DEF Excluded, CopyInv, Types, IInv, TreeTypes
<1> DEFINE copying(x) == x \in {"loop", "copy", "copying", "mtime"}
\* Steps that leave the backup alone.
<1>2. ASSUME backup' = backup, files' \cap Excluded = {}, src' \notin Excluded,
             copying(pc') => unvisited' \cap Excluded = {}
      PROVE  NoMeta'
  BY <1>2 DEF NoMeta
<1>3. CASE Change
  BY <1>3, <1>2, ChangeIsSeen DEF Seen, CopyInv, NoMeta
<1>4. CASE Begin
  <2>1. UNCHANGED <<backup, src>> /\ files' = {} /\ pc' = "scan"
    BY <1>4 DEF Begin, Goes, copyVars
  <2> QED
    BY <1>2, <2>1 DEF NoMeta
<1>5. CASE Scan
  <2>1. UNCHANGED <<backup, src>> /\ pc = "scan"
    BY <1>5 DEF Scan, Visits, Ends, Goes, copyVars
  <2>2. CASE /\ Visits("scan")
             /\ \E p, fails : files' = IF Wanted(p, fails) THEN files \cup {p} ELSE files
    <3>1. files' \cap Excluded = {} /\ pc' = "scan"
      BY <2>1, <2>2 DEF Wanted, NoMeta, Visits
    <3> QED
      BY <1>2, <2>1, <3>1 DEF NoMeta
  <2>3. CASE Ends("scan", "loop") /\ unvisited' = files'
    BY <1>2, <2>1, <2>3 DEF Ends, NoMeta
  <2> QED
    BY <1>5, <2>2, <2>3 DEF Scan
<1>6. CASE NextFile
  <2>1. UNCHANGED <<backup, files>> /\ pc = "loop"
    BY <1>6 DEF NextFile
  <2>2. unvisited' \subseteq unvisited /\ src' \in unvisited \cup {src}
    BY <1>6, OneOf DEF NextFile
  <2> QED
    BY <1>2, <2>1, <2>2 DEF NoMeta
<1>7. CASE Open \/ CopyBytes \/ MirrorMtime
  <2>1. /\ UNCHANGED <<unvisited, files>> /\ src' \in {src, None}
        /\ pc \in {"copy", "copying", "mtime"} /\ src \in Paths
    BY <1>1, <1>7 DEF Open, CopyBytes, MirrorMtime, Goes
  <2>2. \A p \in Excluded : ~IsFile(backup'[p])
    <3>1. CASE CopyBytes \/ MirrorMtime
      BY <1>1, <3>1, OthersKept DEF NoMeta
    <3>2. CASE Open
      <4>1. \A p \in Paths : WithParents(src)[p] = Dir \/ WithParents(src)[p] = backup[p]
        BY DEF WithParents
      <4>2. backup' = WithParents(src) \/ backup' = [WithParents(src) EXCEPT ![src] = NoFile]
        BY <3>2 DEF Open
      <4> QED
        BY <1>1, <4>1, <4>2, Kinds DEF NoMeta, WithParents
    <3> QED
      BY <1>7, <3>1, <3>2
  <2> QED
    BY <1>1, <2>1, <2>2 DEF NoMeta
<1>8. CASE MirrorTest \/ FindOrphans \/ Finish
  <2>1. UNCHANGED <<backup, src>> /\ files' \in {files, {}} /\ ~copying(pc')
    BY <1>8 DEF MirrorTest, FindOrphans, Visits, Ends, Finish, Goes, copyVars
  <2> QED
    BY <1>2, <2>1 DEF NoMeta
<1>9. CASE RemoveOrphan
  <2>1. /\ UNCHANGED <<files, src, pc>> /\ pc = "remove"
        /\ \E p \in orphans : backup' = backup \/ backup' = [backup EXCEPT ![p] = Absent]
    BY <1>9, OneOf DEF RemoveOrphan, copyVars
  <2> QED
    BY <1>1, <2>1, Kinds DEF NoMeta
<1>10. CASE Crash
  <2>1. /\ files' = {} /\ src' = None /\ pc' = "idle"
        /\ \/ backup' = backup
           \/ pc = "copying" /\ \E copy : backup' = [backup EXCEPT ![src] = copy]
    BY <1>10 DEF Crash
  <2> QED
    BY <1>1, <2>1 DEF NoMeta
<1>11. CASE Cancel \/ TakeBack \/ UNCHANGED vars
  <2>1. UNCHANGED <<backup, files, src, pc, unvisited>>
    BY <1>11 DEF Cancel, TakeBack, vars, copyVars
  <2> QED
    BY <1>2, <2>1 DEF NoMeta
<1> QED
  BY <1>3, <1>4, <1>5, <1>6, <1>7, <1>8, <1>9, <1>10, <1>11 DEF Next, Run

\* Where a run is not at an end.
LEMMA NotIdle == pc' # "idle" => MirrorConverges'
  BY DEF MirrorConverges

LEMMA ScanProgress == ConvergeInv /\ Scan => Progress' /\ MirrorConverges'
<1> SUFFICES ASSUME ConvergeInv, Scan PROVE Progress' /\ MirrorConverges'
  OBVIOUS
<1>1. /\ pc = "scan" /\ pc' \in {"scan", "loop"}
      /\ UNCHANGED <<quiet, mounted, cancelRequested, errors, steady>>
      /\ \A p \in steady : IsFile(Src(p))
  BY DEF Scan, Visits, Ends, Goes, treeVars, runVars, noteVars, ConvergeInv, CopyInv, Types, IInv,
         SteadyThere, Src
<1>2. ASSUME Visits("scan"), NEW p \in One(unvisited), NEW fails,
             unvisited' = unvisited \ {p}, Notes(p, fails),
             files' = IF Wanted(p, fails) THEN files \cup {p} ELSE files
      PROVE  Progress' /\ MirrorConverges'
  <2>1. pc' = "scan" /\ cutShort' = cutShort
    BY <1>1, <1>2 DEF Visits
  <2>2. ASSUME Going' PROVE Scanned'
    <3>1. Going
      BY <1>1, <2>1, <2>2 DEF Going
    <3>2. Due \subseteq files \cup unvisited
      BY <1>1, <3>1 DEF ConvergeInv, Progress, Scanned
    <3>3. Due' \subseteq Due /\ (p \in Due' => Wanted(p, fails))
      BY <1>1, <1>2 DEF Due, Notes, Wanted
    <3> QED
      BY <1>2, <3>2, <3>3 DEF Scanned
  <2> QED
    BY <2>1, <2>2, NotIdle DEF Progress, Handled, AllSettled, OrphansFound
<1>3. CASE Ends("scan", "loop") /\ unvisited' = files'
  <2>1. pc' = "loop" /\ UNCHANGED <<files, misread>>
        /\ cutShort' = (cutShort \/ (unvisited # {} /\ ~cancelRequested))
    BY <1>3 DEF Ends, Goes
  <2>2. ASSUME Going' PROVE Handled'
    <3>1. Going /\ unvisited = {}
      BY <1>1, <2>1, <2>2 DEF Going
    <3>2. Due \subseteq files /\ Due' = Due
      BY <1>1, <2>1, <3>1 DEF ConvergeInv, Progress, Scanned, Due
    <3> QED
      BY <1>1, <1>3, <2>1, <3>2 DEF Handled
  <2> QED
    BY <2>1, <2>2, NotIdle DEF Progress, Scanned, AllSettled, OrphansFound
<1> QED
  BY <1>2, <1>3 DEF Scan

\* What needsCopy trusts is backed up, but for a copy that a change overtook.
LEMMA TrustedSettled ==
    ASSUME CopyInv, NEW p \in steady, ~Differs(p)
    PROVE  Settled(p)
<1>1. /\ p \in Paths /\ Src(p) = nas[p] /\ IsFile(nas[p]) /\ IsFile(backup[p])
      /\ nas[p].mtime = backup[p].mtime \/ nas[p].data = backup[p].data
  BY DEF CopyInv, Types, IInv, TreeTypes, SteadyThere, Src, Differs
<1>2. nas[p].data = nas[p].mtime /\ nas[p].mtime # 0
  BY <1>1 DEF CopyInv, Copies, VersionsIn
<1>3. backup[p].mtime = 0 \/ backup[p].mtime = backup[p].data \/ p \in raced
  BY <1>1 DEF CopyInv, Copies
<1> QED
  BY <1>1, <1>2, <1>3 DEF Settled, Good

LEMMA NextFileProgress == ConvergeInv /\ NextFile => Progress' /\ MirrorConverges'
<1> SUFFICES ASSUME ConvergeInv, NextFile PROVE Progress' /\ MirrorConverges'
  OBVIOUS
<1>1. /\ pc = "loop" /\ src \notin Paths /\ steady \subseteq Paths
      /\ UNCHANGED <<nas, backup, raced, quiet, mounted, cutShort, cancelRequested, errors, steady>>
  BY PathTypes DEF NextFile, treeVars, runVars, noteVars, ConvergeInv, CopyInv, Types, PlainTypes,
                   IInv, TreeTypes
<1>2. Going' => Going /\ \A p \in Due : p \in unvisited \/ Settled(p)
  BY <1>1 DEF Going, ConvergeInv, Progress, Handled, Due
<1>3. \A p \in steady : Settled(p) => Settled(p)'
  BY <1>1 DEF Settled, Good
<1>4. CASE (unvisited = {} \/ cancelRequested) /\ pc' = "mirrortest" /\ UNCHANGED misread
  <2>1. Due' = Due /\ Due \subseteq steady
    BY <1>1, <1>4 DEF Due
  <2>2. Going' => AllSettled'
    BY <1>1, <1>2, <1>3, <1>4, <2>1 DEF Going, AllSettled
  <2> QED
    BY <1>4, <2>2, NotIdle DEF Progress, Scanned, Handled, OrphansFound
<1>5. ASSUME NEW p \in One(unvisited), NEW fails, NEW unnamed,
             unvisited' = unvisited \ {p}, Notes(p, fails \/ unnamed),
             IF NeedsCopy(p, fails) /\ ~unnamed THEN src' = p /\ pc' = "copy"
             ELSE UNCHANGED <<src, pc>>
      PROVE  Progress' /\ MirrorConverges'
  <2>1. pc' \in {"loop", "copy"}
    BY <1>1, <1>5
  <2>2. Due' \subseteq Due /\ Due \subseteq steady /\ (p \in Due' => ~fails /\ ~unnamed)
    BY <1>1, <1>5 DEF Due, Notes
  <2>3. p \in Due' => src' = p \/ Settled(p)
    BY <1>5, <2>2, TrustedSettled DEF NeedsCopy, ConvergeInv
  <2>4. Going' => Handled'
    BY <1>1, <1>2, <1>3, <1>5, <2>2, <2>3 DEF Handled
  <2> QED
    BY <2>1, <2>4, NotIdle DEF Progress, Scanned, AllSettled, OrphansFound
<1> QED
  BY <1>4, <1>5 DEF NextFile

LEMMA CopyProgress ==
    ConvergeInv /\ (Open \/ CopyBytes \/ MirrorMtime) => Progress' /\ MirrorConverges'
<1> SUFFICES ASSUME ConvergeInv, Open \/ CopyBytes \/ MirrorMtime
             PROVE  Progress' /\ MirrorConverges'
  OBVIOUS
<1>1. /\ \A p \in Paths : p # src /\ IsFile(backup[p]) => backup'[p] = backup[p]
      /\ CopyBytes \/ MirrorMtime => \A p \in Paths : p # src => backup'[p] = backup[p]
      /\ UNCHANGED <<nas, mounted, steady, quiet, cutShort, cancelRequested>>
      /\ Due' = Due /\ Due \subseteq steady /\ steady \subseteq Paths /\ src \in Paths
  BY OthersKept DEF Due, ConvergeInv, CopyInv, Types, IInv, TreeTypes
<1>2. /\ pc \in {"copy", "copying", "mtime"} /\ pc' \in {"loop", "copying", "mtime"}
      /\ UNCHANGED unvisited /\ (~errors' => ~errors)
      /\ \A p \in Paths : p # src /\ p \in raced => p \in raced'
  BY DEF Open, CopyBytes, MirrorMtime, Goes, runVars
<1>3. Going' => Going
  BY <1>1, <1>2 DEF Going
<1>4. \A p \in steady : p # src /\ Settled(p) => Settled(p)'
  BY <1>1, <1>2 DEF Settled, Good
<1>5. ASSUME Going', NEW p \in steady, p = src PROVE p = src' \/ Settled(p)'
  <2>1. CASE Open \/ CopyBytes
    BY <1>5, <2>1 DEF Open, CopyBytes, Going
  <2>2. CASE MirrorMtime
    <3>1. pc = "mtime" /\ (changedWhileCopied => p \in raced')
      BY <1>5, <2>2 DEF MirrorMtime, Goes
    <3>2. ~changedWhileCopied => IsFile(nas[p]) /\ backup[p].data = nas[p].data
      BY <1>5, <3>1 DEF ConvergeInv, CopyInv, CopyInHand
    <3>3. IsFile(backup'[p]) /\ backup'[p].data = backup[p].data
      BY <1>5, <2>2, MtimeOnly DEF ConvergeInv
    <3>4. nas' = nas
      BY <1>1
    <3> QED
      BY <3>1, <3>2, <3>3, <3>4 DEF Settled, Good
  <2> QED
    BY <2>1, <2>2
<1>6. Going' => Handled'
  <2>1. Going => \A p \in Due : p \in unvisited \/ p = src \/ Settled(p)
    BY <1>2 DEF ConvergeInv, Progress, Handled
  <2> QED
    BY <1>1, <1>2, <1>3, <1>4, <1>5, <2>1 DEF Handled
<1> QED
  BY <1>2, <1>6, NotIdle DEF Progress, Scanned, AllSettled, OrphansFound

LEMMA MirrorTestProgress == ConvergeInv /\ MirrorTest => Progress' /\ MirrorConverges'
<1> SUFFICES ASSUME ConvergeInv, MirrorTest PROVE Progress' /\ MirrorConverges'
  OBVIOUS
<1>1. /\ pc = "mirrortest"
      /\ UNCHANGED <<nas, backup, raced, quiet, mounted, cutShort, cancelRequested, errors, steady,
                     misread>>
      /\ IF DeleteFromBackup /\ ~cancelRequested
         THEN pc' = "mirror" /\ unvisited' = Paths
         ELSE pc' = "finish"
  BY DEF MirrorTest, treeVars, runVars, noteVars
<1>2. ASSUME Going' PROVE AllSettled' /\ OrphansFound'
  <2>1. Going /\ \A p \in Due : Settled(p)
    BY <1>1, <1>2 DEF Going, ConvergeInv, Progress, AllSettled
  <2>2. AllSettled'
    BY <1>1, <2>1 DEF AllSettled, Settled, Good, Due
  <2>3. OrphansFound'
    BY <1>1, <2>1 DEF OrphansFound, Going
  <2> QED
    BY <2>2, <2>3
<1> QED
  BY <1>1, <1>2, NotIdle DEF Progress, Scanned, Handled

LEMMA FindOrphansProgress == ConvergeInv /\ FindOrphans => Progress' /\ MirrorConverges'
<1> SUFFICES ASSUME ConvergeInv, FindOrphans PROVE Progress' /\ MirrorConverges'
  OBVIOUS
<1>1. /\ pc = "mirror"
      /\ UNCHANGED <<nas, backup, raced, quiet, mounted, cancelRequested, errors, steady>>
      /\ (~cutShort' => ~cutShort)
  <2>1. CASE Visits("mirror") /\ UNCHANGED noteVars
    BY <2>1 DEF Visits, treeVars, runVars, noteVars
  <2>2. CASE \E next : Ends("mirror", next)
    BY <2>2 DEF Ends, Goes, treeVars, runVars, noteVars
  <2> QED
    BY <2>1, <2>2 DEF FindOrphans
<1>2. ASSUME Going'
      PROVE  /\ Going /\ \A p \in Due : Settled(p)
             /\ DeleteFromBackup =>
                   \A p \in Paths \ misread : Missing(p) => p \in unvisited \/ p \in orphans
  BY <1>1, <1>2 DEF Going, ConvergeInv, Progress, AllSettled, OrphansFound
<1>3. ASSUME misread \subseteq misread' PROVE Going' => AllSettled'
  <2>1. Due' \subseteq Due
    BY <1>1, <1>3 DEF Due
  <2> QED
    BY <1>1, <1>2, <2>1 DEF AllSettled, Settled, Good
<1>4. ASSUME Visits("mirror"), NEW q \in One(unvisited), NEW unseen, NEW fails,
             unvisited' = unvisited \ {q}, Notes(q, unseen \/ fails),
             orphans' = IF IsOrphan(q, unseen, fails) THEN orphans \cup {q} ELSE orphans
      PROVE  Progress' /\ MirrorConverges'
  <2>1. pc' = "mirror" /\ misread \subseteq misread' /\ (unseen => q \in misread')
    BY <1>1, <1>4 DEF Visits, Notes
  <2>2. ASSUME Going', DeleteFromBackup, NEW p \in Paths \ misread', Missing(p)'
        PROVE  p \in unvisited' \/ p \in orphans'
    <3>1. Missing(p) /\ mounted /\ (p \in unvisited \/ p \in orphans)
      BY <1>1, <1>2, <2>1, <2>2 DEF Missing, Going
    <3>2. p = q => IsOrphan(q, unseen, fails)
      BY <2>1, <2>2, <3>1 DEF IsOrphan, Missing, Src
    <3> QED
      BY <1>4, <3>1, <3>2
  <2>3. Going' => OrphansFound'
    BY <2>1, <2>2 DEF OrphansFound
  <2> QED
    BY <1>3, <2>1, <2>3, NotIdle DEF Progress, Scanned, Handled
<1>5. CASE Ends("mirror", IF cancelRequested /\ unvisited # {} THEN "finish" ELSE "remove")
  <2>1. /\ pc' \in {"finish", "remove"} /\ UNCHANGED <<orphans, misread>>
        /\ pc' = "finish" => cancelRequested
        /\ cutShort' = (cutShort \/ (unvisited # {} /\ ~cancelRequested))
    BY <1>5 DEF Ends, Goes
  <2>2. Going' => pc' = "remove" /\ unvisited = {}
    BY <1>1, <2>1 DEF Going
  <2>3. Going' => OrphansFound'
    BY <1>1, <1>2, <2>1, <2>2 DEF OrphansFound, Missing
  <2> QED
    BY <1>3, <2>1, <2>3, NotIdle DEF Progress, Scanned, Handled
<1> QED
  BY <1>4, <1>5 DEF FindOrphans

LEMMA RemoveOrphanProgress == ConvergeInv /\ RemoveOrphan => Progress' /\ MirrorConverges'
<1> SUFFICES ASSUME ConvergeInv, RemoveOrphan PROVE Progress' /\ MirrorConverges'
  OBVIOUS
<1>1. /\ pc = "remove" /\ pc' = "remove"
      /\ UNCHANGED <<nas, raced, quiet, mounted, cutShort, cancelRequested, steady, misread>>
      /\ backup \in [Paths -> Nodes] /\ Due \subseteq Paths /\ Due \cap orphans = {}
  BY DEF Due, RemoveOrphan, treeVars, noteVars, ConvergeInv, CopyInv, Types, IInv, TreeTypes, SteadyKept
<1>2. PICK q \in orphans, fails \in BOOLEAN :
          /\ orphans' = orphans \ {q}
          /\ backup' = IF fails THEN backup ELSE [backup EXCEPT ![q] = Absent]
          /\ errors' = (errors \/ fails)
  BY ChoiceType, OneOf DEF RemoveOrphan
<1>3. ASSUME Going' PROVE AllSettled' /\ OrphansFound'
  <2>1. Going /\ ~fails
    BY <1>1, <1>2, <1>3 DEF Going
  <2>2. \A p \in Due : Settled(p) /\ backup'[p] = backup[p]
    BY <1>1, <1>2, <2>1 DEF ConvergeInv, Progress, AllSettled
  <2>3. AllSettled'
    BY <1>1, <2>2 DEF AllSettled, Settled, Good, Due
  <2>4. DeleteFromBackup => \A p \in Paths \ misread : Missing(p) => p \in orphans
    BY <1>1, <2>1 DEF ConvergeInv, Progress, OrphansFound
  <2>5. \A p \in Paths : Missing(p)' => Missing(p) /\ p # q
    BY <1>1, <1>2, <2>1, Kinds DEF Missing
  <2>6. OrphansFound'
    BY <1>1, <1>2, <2>4, <2>5 DEF OrphansFound
  <2> QED
    BY <2>3, <2>6
<1> QED
  BY <1>1, <1>3, NotIdle DEF Progress, Scanned, Handled

\* The end of a run: nothing of what it had to do is left.
LEMMA FinishProgress == ConvergeInv /\ Finish => Progress' /\ MirrorConverges'
<1> SUFFICES ASSUME ConvergeInv, Finish PROVE Progress' /\ MirrorConverges'
  OBVIOUS
<1>1. /\ pc' = "idle" /\ (pc = "finish" \/ (pc = "remove" /\ orphans = {}))
      /\ status' = Outcome
      /\ UNCHANGED <<nas, backup, raced, quiet, mounted, cutShort, cancelRequested, errors, steady,
                     misread>>
  BY DEF Finish, treeVars, noteVars
<1>2. ASSUME status' = "completed", quiet, mounted, ~cutShort
      PROVE  \A p \in Paths \ misread :
                /\ p \in steady \ Excluded => Good(p) \/ p \in raced
                /\ p \in Excluded => ~IsFile(backup[p])
                /\ DeleteFromBackup /\ IsFile(backup[p]) => nas[p] # Absent
  <2>1. Going
    BY <1>1, <1>2 DEF Outcome, Going
  <2>2. \A p \in Due : Settled(p)
    BY <1>1, <2>1 DEF ConvergeInv, Progress, AllSettled
  <2>3. DeleteFromBackup => \A p \in Paths \ misread : ~Missing(p)
    BY <1>1, <2>1 DEF ConvergeInv, Progress, OrphansFound
  <2> QED
    BY <2>2, <2>3 DEF Settled, Missing, Due, ConvergeInv, NoMeta
<1>3. MirrorConverges'
  BY <1>1, <1>2 DEF MirrorConverges, Good
<1>4. Progress'
  BY <1>1 DEF Progress, Scanned, Handled, AllSettled, OrphansFound
<1> QED
  BY <1>3, <1>4

LEMMA ConvergeStep == ConvergeInv /\ [Next]_vars => ConvergeInv'
<1> SUFFICES ASSUME ConvergeInv, [Next]_vars PROVE Progress' /\ MirrorConverges'
  BY CopyInvStep, NoMetaStep DEF ConvergeInv
<1>1. CASE Change
  <2>1. quiet' = FALSE
    BY <1>1, ChangeIsSeen DEF Seen, ConvergeInv, CopyInv
  <2> QED
    BY <2>1 DEF Progress, Going, MirrorConverges
<1>2. CASE Begin
  <2>1. pc' = "scan" /\ unvisited' = Paths /\ Due' \subseteq Paths
    BY <1>2 DEF Begin, Goes, Due
  <2> QED
    BY <2>1, NotIdle DEF Progress, Scanned, Handled, AllSettled, OrphansFound
<1>3. CASE Cancel \/ TakeBack
  <2>1. pc' # "idle" /\ (cancelRequested' \/ cutShort')
    BY <1>3 DEF Cancel, TakeBack
  <2> QED
    BY <2>1, NotIdle DEF Progress, Going
<1>4. CASE Crash
  <2>1. pc' = "idle" /\ status' = "none"
    BY <1>4 DEF Crash
  <2> QED
    BY <2>1 DEF Progress, Scanned, Handled, AllSettled, OrphansFound, MirrorConverges
<1>5. CASE UNCHANGED vars
  <2>1. UNCHANGED <<nas, backup, raced, quiet, mounted, cutShort, cancelRequested, errors, steady,
                    pc, status, unvisited, files, orphans, src, misread>>
    BY <1>5 DEF vars, treeVars, copyVars, runVars, noteVars
  <2>2. MirrorConverges'
    BY <2>1 DEF ConvergeInv, MirrorConverges, Good
  <2>3. /\ Going' = Going /\ Scanned' = Scanned /\ Handled' = Handled
        /\ AllSettled' = AllSettled /\ OrphansFound' = OrphansFound
    BY <2>1 DEF Going, Scanned, Handled, AllSettled, OrphansFound, Settled, Good, Missing, Due
  <2> QED
    BY <2>2, <2>3 DEF ConvergeInv, Progress
<1> QED
  BY <1>1, <1>2, <1>3, <1>4, <1>5, ScanProgress, NextFileProgress, CopyProgress,
     MirrorTestProgress, FindOrphansProgress, RemoveOrphanProgress, FinishProgress
  DEF Next, Run

\* A completed run with no change since it began leaves the backup equal to the
\* tree without .nas-meta, but for paths a call could not look at, whatever crashes
\* and failures were before (SyncManager.cpp:204-230, 586-660, 706-733).
THEOREM RunsConverge == Spec => []MirrorConverges
<1>1. Init => ConvergeInv
  <2>1. Init => NoMeta
    BY Kinds, PathTypes DEF Init, NoMeta, Excluded
  <2> QED
    BY <2>1, CopyInvInit
    DEF Init, ConvergeInv, Progress, Scanned, Handled, AllSettled, OrphansFound, MirrorConverges
<1>2. ConvergeInv => MirrorConverges
  BY DEF ConvergeInv
<1> QED
  BY <1>1, <1>2, ConvergeStep, PTL DEF Spec
=============================================================================
