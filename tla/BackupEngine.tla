---------------------------- MODULE BackupEngine ----------------------------
(***************************************************************************)
(* The backup engine of SyncManager: performRun walks nas_root, copies     *)
(* what needsCopy finds different, mirrors the mtime of each copy, and      *)
(* removes from backup_root what is gone.  Users, through HomeNAS or not,   *)
(* change the tree at any time; a copy is not atomic; calls fail; the       *)
(* process dies anywhere and comes back.                                    *)
(* A path is a sequence of names.  The contents of a file are the number    *)
(* of the write that made them, and so is its mtime: two writes never have  *)
(* the same.  0 stands for contents that are part of one file or mixed of   *)
(* two, and for the time at which a copy was written.                       *)
(***************************************************************************)
EXTENDS FileTree

CONSTANTS
    Trees,             \* trees there may be at first
    Sizes,             \* sizes of files
    DeleteFromBackup,  \* cfg_.deleteFromBackup
    Faulty,            \* what may fail: "walk", "stat", "copy", "mtime", "remove"
    MaxChanges,        \* bound: changes of the tree
    MaxRuns            \* bound: runs started

File(data, size, mtime) == [kind |-> "file", data |-> data, size |-> size, mtime |-> mtime]
Nodes == {Absent, Dir} \cup [kind : {"file"}, data : Nat, size : Nat, mtime : Nat]

\* The files of a first tree are of different writes, numbered below 10.
Numbered(tree) == \A p, q \in Paths :
    IsFile(tree[p]) /\ IsFile(tree[q]) =>
        /\ tree[p].data = tree[p].mtime /\ tree[p].data \in 1..9
        /\ tree[p].data = tree[q].data => p = q

ASSUME TreeAssumption ==
    /\ Sizes \subseteq Nat \ {0} /\ Trees \subseteq [Paths -> Nodes]
    /\ \A tree \in Trees : WellFormed(tree) /\ Numbered(tree)
ASSUME BoundAssumption ==
    /\ DeleteFromBackup \in BOOLEAN /\ MaxChanges \in Nat /\ MaxRuns \in Nat
    /\ Faulty \subseteq {"walk", "stat", "copy", "mtime", "remove"}

VARIABLES
    nas, mounted,      \* the tree under nas_root; is its disk there?
    backup,            \* the tree under backup_root
    pc,                \* where performRun is; "idle" outside
    unvisited,         \* what a walk has still to look at
    files,             \* files: found and not yet processed
    src,               \* the file being processed
    reading,           \* contents that copy_file opened
    torn,              \* were they overwritten since?
    orphans,           \* orphans of mirrorDeletions
    errors,            \* run.errorCount > 0
    cancelRequested,   \* cancelRequested_
    status,            \* status of the last run
    runs,              \* history: runs started
    changes,           \* history: changes of the tree
    quiet,             \* history: no change since the run began
    steady,            \* history: files no change touched since then
    changedWhileCopied,\* history: src was changed since copy_file opened it
    raced,             \* history: paths whose last full copy was overtaken so
    cutShort,          \* history: a walk broke off, or a cancel was taken back
    misread            \* history: paths a call of this run could not look at

treeVars == <<nas, mounted>>
copyVars == <<src, reading, torn, changedWhileCopied>>
runVars  == <<errors, status, runs>>
noteVars == <<quiet, steady, changes>>
vars == <<treeVars, backup, pc, unvisited, files, copyVars, orphans, runVars,
          cancelRequested, noteVars, raced, cutShort, misread>>

MayFail(call) == IF call \in Faulty THEN BOOLEAN ELSE {FALSE}
Src(p) == IF mounted THEN nas[p] ELSE Absent
None == <<>>

\* HomeNAS's own databases are under .nas-meta.
Excluded == {p \in Paths : \E i \in DOMAIN p : p[i] = ".nas-meta"}
NoFile == File(0, 0, 0)

Init ==
    /\ nas \in Trees /\ mounted = TRUE
    /\ backup = [p \in Paths |-> Absent]
    /\ pc = "idle" /\ unvisited = {} /\ files = {} /\ orphans = {}
    /\ src = None /\ reading = NoFile /\ torn = FALSE
    /\ errors = FALSE /\ status = "none" /\ runs = 0 /\ cancelRequested = FALSE
    /\ changes = 0 /\ quiet = TRUE /\ steady = {} /\ changedWhileCopied = FALSE
    /\ raced = {} /\ cutShort = FALSE /\ misread = {}

-----------------------------------------------------------------------------
(* The users of nas_storage *)

\* The tree becomes what it is but at the paths of ps; whoever writes into the
\* file that copy_file reads, under whatever name, tears the copy.
Changed(ps) ==
    /\ changes < MaxChanges /\ changes' = changes + 1
    /\ quiet' = FALSE /\ steady' = steady \ ps
    /\ changedWhileCopied' = (changedWhileCopied \/ src \in ps)
    /\ UNCHANGED <<backup, pc, unvisited, files, src, reading, orphans, runVars,
                   cancelRequested, raced, cutShort, misread>>

\* A write replaces the contents in place, as saveAs does.
NewVersion == 10 + changes
Write(p) ==
    /\ mounted /\ IsDirIn(nas, Parent(p)) /\ nas[p] # Dir
    /\ \E size \in Sizes : nas' = [nas EXCEPT ![p] = File(NewVersion, size, NewVersion)]
    /\ torn' = (torn \/ (IsFile(nas[p]) /\ nas[p].data = reading.data))
    /\ Changed({p}) /\ UNCHANGED mounted

Delete(p) ==
    /\ mounted /\ nas[p] # Absent
    /\ nas' = Without(nas, Subtree(p))
    /\ Changed(Subtree(p)) /\ UNCHANGED <<mounted, torn>>

MkDir(p) ==
    /\ mounted /\ IsDirIn(nas, Parent(p)) /\ nas[p] = Absent
    /\ nas' = [nas EXCEPT ![p] = Dir]
    /\ Changed({p}) /\ UNCHANGED <<mounted, torn>>

\* Of a file; rename() replaces a file that is there.
Rename(p, q) ==
    /\ mounted /\ p # q /\ IsFile(nas[p]) /\ nas[q] # Dir /\ IsDirIn(nas, Parent(q))
    /\ nas' = [nas EXCEPT ![p] = Absent, ![q] = nas[p]]
    /\ Changed({p, q}) /\ UNCHANGED <<mounted, torn>>

Mount ==
    /\ mounted' = ~mounted /\ Changed(Paths) /\ UNCHANGED <<nas, torn>>

Change ==
    \/ \E p \in Paths : Write(p) \/ Delete(p) \/ MkDir(p) \/ \E q \in Paths : Rename(p, q)
    \/ Mount

-----------------------------------------------------------------------------
(* performRun *)

Goes(from, to) == pc = from /\ pc' = to

Begin ==
    /\ Goes("idle", "scan") /\ runs < MaxRuns /\ runs' = runs + 1
    /\ cancelRequested' = FALSE /\ errors' = FALSE /\ status' = "running"
    /\ unvisited' = Paths /\ files' = {} /\ orphans' = {}
    /\ quiet' = TRUE /\ steady' = {p \in Paths : IsFile(Src(p))}
    /\ cutShort' = FALSE /\ misread' = {}
    /\ UNCHANGED <<treeVars, backup, copyVars, changes, raced>>

\* The order of a walk is any; one is enough, since changes may come in any.
One(S) == IF S = {} THEN {} ELSE {CHOOSE p \in S : TRUE}

Visits(at) ==
    /\ pc = at /\ ~cancelRequested
    /\ UNCHANGED <<treeVars, backup, pc, copyVars, runVars, cancelRequested, raced,
                   cutShort>>

\* A walk also ends at an error, and nobody looks at it.  A root that is not
\* mounted has no entries.
Ends(at, next) ==
    /\ Goes(at, next)
    /\ cutShort' = (cutShort \/ (unvisited # {} /\ ~cancelRequested))
    /\ cutShort' => cutShort \/ "walk" \in Faulty
    /\ UNCHANGED <<treeVars, backup, files, copyVars, orphans, runVars,
                   cancelRequested, noteVars, raced, misread>>

\* What a call could not look at it does not tell apart from what is not there.
Notes(p, fails) == misread' = IF fails THEN misread \cup {p} ELSE misread

\* A file is_regular_file cannot look at is no file.
Wanted(p, fails) == IsFile(Src(p)) /\ ~fails /\ p \notin Excluded
Scan ==
    \/ /\ Visits("scan") /\ UNCHANGED <<orphans, noteVars>>
       /\ \E p \in One(unvisited), fails \in MayFail("stat") :
             /\ unvisited' = unvisited \ {p}
             /\ files' = IF Wanted(p, fails) THEN files \cup {p} ELSE files
             /\ Notes(p, fails)
    \/ Ends("scan", "loop") /\ unvisited' = files'

\* needsCopy.  It reads both files one call after the other; what it answers if
\* the source changes in between is the answer before or after the change.
Differs(p) ==
    LET s == Src(p) d == backup[p] IN
    \/ ~IsFile(s) \/ ~IsFile(d)
    \/ s.size # d.size
    \/ s.mtime # d.mtime /\ s.data # d.data
TrustsSize(p, fails) ==                                  \* mutant of NeedsCopy
    \/ ~IsFile(Src(p)) \/ ~IsFile(backup[p])
    \/ Src(p).size # backup[p].size
CopiesOnMtime(p, fails) ==                               \* mutant of NeedsCopy
    Differs(p) \/ Src(p).mtime # backup[p].mtime
NeedsCopy(p, fails) == fails \/ Differs(p)

\* The head of the copy loop, after waitWhilePaused; a file that fs::relative
\* cannot name is passed over in silence.
NextFile ==
    /\ pc = "loop"
    /\ \/ /\ (unvisited = {} \/ cancelRequested) /\ pc' = "mirrortest"
          /\ UNCHANGED <<unvisited, src, misread>>
       \/ /\ ~cancelRequested
          /\ \E p \in One(unvisited), fails, unnamed \in MayFail("stat") :
                /\ unvisited' = unvisited \ {p} /\ Notes(p, fails \/ unnamed)
                /\ IF NeedsCopy(p, fails) /\ ~unnamed
                   THEN src' = p /\ pc' = "copy"
                   ELSE UNCHANGED <<src, pc>>
    /\ UNCHANGED <<treeVars, backup, files, reading, torn, changedWhileCopied, orphans,
                   runVars, cancelRequested, noteVars, raced, cutShort>>

\* create_directories, from the top down to where a file is in the way.
NoFileIn(S) == \A q \in S : ~IsFile(backup[q])
NoParents(p) == backup                                   \* mutant of WithParents
WithParents(p) ==
    [q \in Paths |-> IF q \in Above(p) /\ backup[q] = Absent /\ NoFileIn(Above(q))
                     THEN Dir ELSE backup[q]]

\* copy_file opens the source and truncates the copy; it refuses whatever is not
\* a file at either end.
Open ==
    /\ pc = "copy"
    /\ LET parents == WithParents(src)
           ready == /\ IsFile(Src(src)) /\ backup[src] # Dir
                    /\ NoFileIn(Above(src))
       IN  \E fails \in MayFail("copy") :
             IF ready /\ ~fails
             THEN /\ pc' = "copying" /\ reading' = Src(src)
                  /\ backup' = [parents EXCEPT ![src] = NoFile]
                  /\ raced' = raced \ {src} /\ UNCHANGED <<src, errors>>
             ELSE /\ pc' = "loop" /\ src' = None /\ errors' = TRUE /\ backup' = parents
                  /\ UNCHANGED <<reading, raced>>
    /\ torn' = FALSE /\ changedWhileCopied' = FALSE
    /\ UNCHANGED <<treeVars, unvisited, files, orphans, status, runs, cancelRequested,
                   noteVars, cutShort, misread>>

\* The bytes are there, of one write or of two, or some of them are.  A source
\* that lost its name meanwhile is read to its end all the same.
Partly == {File(0, size, 0) : size \in Sizes \cup {0}}
CopyBytes ==
    /\ pc = "copying"
    /\ \/ /\ \E copy \in IF torn THEN Partly \cup {reading} ELSE {reading} :
                backup' = [backup EXCEPT ![src] = File(copy.data, copy.size, 0)]
          /\ pc' = "mtime" /\ UNCHANGED <<src, errors, changedWhileCopied>>
       \/ /\ "copy" \in Faulty
          /\ \E copy \in Partly : backup' = [backup EXCEPT ![src] = copy]
          /\ pc' = "loop" /\ src' = None /\ errors' = TRUE /\ changedWhileCopied' = FALSE
    /\ reading' = NoFile /\ torn' = FALSE
    /\ UNCHANGED <<treeVars, unvisited, files, orphans, status, runs, cancelRequested,
                   noteVars, raced, cutShort, misread>>

\* The mtime is read from the source as it is now, not as it was copied.
MirrorMtime ==
    /\ Goes("mtime", "loop") /\ src' = None
    /\ \E fails \in MayFail("mtime") :
          backup' = IF fails \/ ~IsFile(Src(src)) THEN backup
                    ELSE [backup EXCEPT ![src].mtime = Src(src).mtime]
    /\ changedWhileCopied' = FALSE
    /\ raced' = IF changedWhileCopied THEN raced \cup {src} ELSE raced
    /\ UNCHANGED <<treeVars, unvisited, files, reading, torn, orphans, runVars,
                   cancelRequested, noteVars, cutShort, misread>>

MirrorTest ==
    /\ pc = "mirrortest"
    /\ IF DeleteFromBackup /\ ~cancelRequested
       THEN pc' = "mirror" /\ unvisited' = Paths
       ELSE pc' = "finish" /\ UNCHANGED unvisited
    /\ UNCHANGED <<treeVars, backup, files, copyVars, orphans, runVars, cancelRequested,
                   noteVars, raced, cutShort, misread>>

\* The walk of mirrorDeletions passes over what is_regular_file or fs::relative
\* fails for; exists() is false as well where it fails, or where the disk is away.
NotScanned(p, unseen, fails) == IsFile(backup[p]) /\ p \notin files   \* mutant of IsOrphan
IsOrphan(p, unseen, fails) == IsFile(backup[p]) /\ ~unseen /\ (fails \/ Src(p) = Absent)
FindOrphans ==
    \/ /\ Visits("mirror") /\ UNCHANGED <<files, noteVars>>
       /\ \E p \in One(unvisited), unseen, fails \in MayFail("stat") :
             /\ unvisited' = unvisited \ {p} /\ Notes(p, unseen \/ fails)
             /\ orphans' = IF IsOrphan(p, unseen, fails) THEN orphans \cup {p} ELSE orphans
    \* A walk that was told to stop removes nothing; the removal looks at no flag.
    \/ /\ Ends("mirror", IF cancelRequested /\ unvisited # {} THEN "finish" ELSE "remove")
       /\ UNCHANGED unvisited

RemoveOrphan ==
    /\ pc = "remove" /\ orphans # {}
    /\ \E p \in One(orphans), fails \in MayFail("remove") :
          /\ orphans' = orphans \ {p}
          /\ backup' = IF fails THEN backup ELSE [backup EXCEPT ![p] = Absent]
          /\ errors' = (errors \/ fails)
    /\ UNCHANGED <<treeVars, pc, unvisited, files, copyVars, status, runs,
                   cancelRequested, noteVars, raced, cutShort, misread>>

\* What performRun records, in this order of tests.
Outcome == IF cancelRequested THEN "cancelled" ELSE IF errors THEN "failed" ELSE "completed"
Finish ==
    /\ pc = "finish" \/ (pc = "remove" /\ orphans = {})
    /\ pc' = "idle" /\ status' = Outcome
    /\ unvisited' = {} /\ files' = {} /\ orphans' = {}
    /\ UNCHANGED <<treeVars, backup, copyVars, errors, runs, cancelRequested, noteVars,
                   raced, cutShort, misread>>

\* cancelSync, and the request that takes it back (see SyncManager).
Cancel ==
    /\ pc # "idle" /\ ~cancelRequested /\ cancelRequested' = TRUE
    /\ UNCHANGED <<treeVars, backup, pc, unvisited, files, copyVars, orphans, runVars,
                   noteVars, raced, cutShort, misread>>
TakeBack ==
    /\ pc # "idle" /\ cancelRequested /\ cancelRequested' = FALSE /\ cutShort' = TRUE
    /\ UNCHANGED <<treeVars, backup, pc, unvisited, files, copyVars, orphans, runVars,
                   noteVars, raced, misread>>

\* The process dies, perhaps with a part of a file written, and is started again.
Crash ==
    /\ pc # "idle" /\ pc' = "idle" /\ status' = "none"
    /\ backup' \in IF pc = "copying" THEN {[backup EXCEPT ![src] = copy] : copy \in Partly}
                   ELSE {backup}
    /\ unvisited' = {} /\ files' = {} /\ orphans' = {}
    /\ src' = None /\ reading' = NoFile /\ torn' = FALSE /\ changedWhileCopied' = FALSE
    /\ errors' = FALSE /\ cancelRequested' = FALSE
    /\ cutShort' = FALSE
    /\ UNCHANGED <<treeVars, runs, noteVars, raced, misread>>

Run ==
    \/ Begin \/ Scan \/ NextFile \/ Open \/ CopyBytes \/ MirrorMtime
    \/ MirrorTest \/ FindOrphans \/ RemoveOrphan \/ Finish

Next == Change \/ Run \/ Cancel \/ TakeBack \/ Crash

Spec == Init /\ [][Next]_vars

-----------------------------------------------------------------------------
(* Properties *)

\* Types; and neither tree has anything in a place that is no directory.
TypeOK ==
    /\ nas \in [Paths -> Nodes] /\ backup \in [Paths -> Nodes]
    /\ WellFormed(nas) /\ WellFormed(backup)
    /\ pc \in {"idle", "scan", "loop", "copy", "copying", "mtime", "mirrortest",
               "mirror", "remove", "finish"}
    /\ {unvisited, files, orphans, steady, raced, misread} \subseteq SUBSET Paths
    /\ src \in Paths \cup {None} /\ reading \in Nodes
    /\ (src # None <=> pc \in {"copy", "copying", "mtime"})
    /\ status \in {"none", "running", "completed", "failed", "cancelled"}
    /\ {mounted, torn, errors, cancelRequested, quiet, changedWhileCopied,
        cutShort} \subseteq BOOLEAN
    /\ {runs, changes} \subseteq Nat

\* p is backed up.
Good(p) == IsFile(nas[p]) /\ IsFile(backup[p]) /\ backup[p].data = nas[p].data

\* A completed run, with no change since it began, leaves the backup equal to the
\* tree, without .nas-meta, whatever crashes, failed copies and half-written files
\* were before: but for paths one of its calls could not look at, and files that
\* changed while an earlier run copied them, whose copies have taken over the
\* mtime of what they do not contain (SyncManager.cpp:204-230, 586-660, 706-733).
MirrorConverges ==
    pc = "idle" /\ status = "completed" /\ quiet /\ mounted /\ ~cutShort =>
        \A p \in Paths \ misread :
            /\ p \in steady \ Excluded => Good(p) \/ p \in raced
            /\ p \in Excluded => ~IsFile(backup[p])
            /\ DeleteFromBackup /\ IsFile(backup[p]) => nas[p] # Absent

\* No run, crash or failure spoils the copy of a file that nobody changes: it is
\* not opened again, and never removed; unless a call could not look at this file
\* (SyncManager.cpp:204-230, 616-638, 719).
GoodStays ==
    [][\A p \in (steady \cap steady') \ misread' : Good(p) => Good(p)']_vars

\* What is removed from the backup was gone from the tree during this run, or
\* could not be looked at: also after a scan that broke off, a cancel that was
\* taken back, a rename behind the walk (SyncManager.cpp:706-733).
RemovesOrphansOnly ==
    [][\A p \in (steady \cap steady') \ misread' :
          IsFile(backup[p]) => IsFile(backup'[p])]_vars

-----------------------------------------------------------------------------
(* What the docs say, and the code does not do *)

\* "The engine walks both trees and copies new and changed files" (README.md:180).
ChangedCopied ==
    pc = "idle" /\ status = "completed" /\ quiet /\ mounted /\ ~cutShort =>
        \A p \in steady \ (misread \cup Excluded) : Good(p)
=============================================================================
