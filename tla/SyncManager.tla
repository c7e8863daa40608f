---------------------------- MODULE SyncManager ----------------------------
(***************************************************************************)
(* The backup runs of SyncManager: Drogon threads set control flags, one   *)
(* worker thread reads them, runs the backup when it is asked or due and   *)
(* checks the hash of nas_storage in between; gracefulShutdown stops it.   *)
(* A step is one write of a flag by another thread, one test of the worker *)
(* or one critical section.  What a file copy does to the bytes, and the   *)
(* order of the walk, are left to BackupEngine; here a file is a number.   *)
(* wait_for wakes the worker after 5 s (1 s when paused) with or without a *)
(* notification, so a wait never blocks and notify_all is left out.        *)
(***************************************************************************)
EXTENDS Naturals, Sequences

CONSTANTS
    Callers,          \* Drogon threads in SyncController
    NumFiles,         \* files under nas_root
    DeleteFromBackup, \* sync.delete_from_backup
    CronMinutes,      \* the minutes schedule_cron matches
    Faulty,           \* what may fail
    Crashes,          \* may the process be killed at any time?
    Interval,         \* may hash_check_interval_seconds elapse?
    MaxCalls,         \* bound: control requests
    MaxChanges,       \* bound: changes of nas_storage
    MaxMinute,        \* bound: last minute of the clock
    MaxStarts,        \* bound: times the process is started
    None,             \* no run yet; the hash of a directory that is not there
    Cut               \* the hash of a part of nas_storage

Faults == {"open", "load", "walk", "hash", "copy", "delete", "persist"}

ASSUME FilesAssumption == NumFiles \in Nat /\ {None, Cut} \cap Nat = {}
ASSUME ConfigAssumption ==
    /\ {DeleteFromBackup, Crashes, Interval} \subseteq BOOLEAN
    /\ CronMinutes \subseteq Nat /\ MaxMinute \in Nat /\ Faulty \subseteq Faults

VARIABLES
    flags,      \* running_, syncRequested_, paused_, cancelRequested_
    pending,    \* per caller: the flag writes of its call still to come
    calls,      \* history: control requests made
    pc,         \* where the worker thread is
    usable,     \* cfg_.backupRoot is set
    scheduled,  \* the argument of performRun
    scanned,    \* files found by the scan of this run
    processed,  \* files of the copy loop behind us
    failed,     \* run.errorCount > 0
    mirrored,   \* history: this run removed what it took for orphans
    status,     \* run.status
    state,      \* status_.state
    lastRun,    \* status_.lastRunStatus
    runs,       \* sync_runs: the status of each row
    tree,       \* version of the contents of nas_storage
    mounted,    \* is nas_root there?
    changes,    \* history: changes of the two
    lastHash,   \* status_.lastHash
    newHash,    \* newHash of checkHash
    minute,     \* history: the last minute the worker read from the system clock
    lastMinute, \* lastScheduledRunMinute_
    mainPc,     \* the next step of SyncManager::shutdown
    dbOpen,     \* db_ is a connection
    starts,     \* history: times the process was started
    asked,      \* history: this run was asked to cancel
    overruled,  \* history: requestSync took the cancel back while it was running
    cutShort,   \* history: the walk of this run ended early
    unsaved,    \* history: the last run has no row
    unread      \* history: the last row could not be read when the process started

flagVars    == <<flags, pending, calls>>
runVars     == <<usable, scheduled, scanned, processed, failed, mirrored, status>>
shownVars   == <<state, lastRun, runs>>
treeVars    == <<tree, mounted, changes>>
hashVars    == <<lastHash, newHash>>
clockVars   == <<minute, lastMinute>>
processVars == <<mainPc, dbOpen, starts>>
askVars     == <<asked, overruled>>
noteVars    == <<cutShort, unsaved, unread>>
vars == <<flagVars, pc, runVars, shownVars, treeVars, hashVars, clockVars,
          processVars, askVars, noteVars>>

FlagNames == {"running", "syncRequested", "paused", "cancelRequested"}
States    == {"idle", "syncing", "paused", "error", "hash_mismatch"}
Statuses  == {"completed", "failed", "cancelled"}

\* performRun between the reset of the flag and the status; what the status
\* panel shows as a run also has the writing of the row in it.
InRun == {"begin", "scan", "pausetest", "pausing", "paused", "resumetest",
          "stoptest", "copying", "mirrortest", "mirror", "finish"}
Shown == (InRun \ {"begin"}) \cup {"persist", "publish"}
Loop  == {"test", "wait", "woken", "schedule", "consume", "hash", "compare"}
Alive == mainPc # "off"

Up(f) == flags[f]
StopNow == ~Up("running") \/ Up("cancelRequested")

\* computeStorageHash: "" when the root does not exist.  Its walk ends at an error
\* nobody looks at: what it then returns is the hash of a part, which may be what
\* the last hash was.
Hash == IF mounted THEN tree ELSE None
Computed ==
    IF mounted /\ "hash" \in Faulty THEN {tree, Cut, lastHash} \ {None} ELSE {Hash}

MayFail(what) == IF what \in Faulty THEN BOOLEAN ELSE {FALSE}
FlagsAtStart == [f \in FlagNames |-> f = "running"]

\* The last row of sync_runs.
LastRow == IF runs = <<>> THEN None ELSE runs[Len(runs)]

Init ==
    /\ flags = FlagsAtStart /\ pending = [c \in Callers |-> <<>>] /\ calls = 0
    /\ pc = "test" /\ usable \in BOOLEAN
    /\ scheduled = FALSE /\ scanned = 0 /\ processed = 0 /\ failed = FALSE
    /\ mirrored = FALSE /\ status = "completed"
    /\ state = "idle" /\ lastRun = None /\ runs = <<>>
    /\ tree = 0 /\ mounted = TRUE /\ changes = 0
    /\ lastHash \in {tree} \cup (IF "hash" \in Faulty THEN {Cut} ELSE {})
    /\ newHash = None
    /\ minute = 0 /\ lastMinute = None
    /\ mainPc = "serve" /\ starts = 1
    /\ \E fails \in MayFail("open") : dbOpen = ~fails
    /\ asked = FALSE /\ overruled = FALSE
    /\ cutShort = FALSE /\ unsaved = FALSE /\ unread = FALSE

-----------------------------------------------------------------------------
(* The surroundings *)

\* An upload, a rename or a deletion, through HomeNAS or on the disk itself, or
\* the disk of nas_root coming and going.
Change ==
    /\ changes < MaxChanges /\ changes' = changes + 1
    /\ \/ mounted /\ tree' = tree + 1 /\ UNCHANGED mounted
       \/ mounted' = ~mounted /\ UNCHANGED tree
    /\ UNCHANGED <<flagVars, pc, runVars, shownVars, hashVars, clockVars,
                   processVars, askVars, noteVars>>

-----------------------------------------------------------------------------
(* SyncController: the flags each call sets, in its order *)

Write(f, b) == [flag |-> f, to |-> b]

RequestSync == <<Write("syncRequested", TRUE), Write("paused", FALSE),
                 Write("cancelRequested", FALSE)>>
PauseSync   == <<Write("paused", TRUE)>>
ResumeSync  == <<Write("paused", FALSE)>>
CancelSync  == <<Write("cancelRequested", TRUE), Write("paused", FALSE)>>

Call(c) ==
    /\ Alive /\ pending[c] = <<>> /\ calls < MaxCalls
    /\ \E writes \in {RequestSync, PauseSync, ResumeSync, CancelSync} :
          pending' = [pending EXCEPT ![c] = writes]
    /\ calls' = calls + 1
    /\ UNCHANGED <<flags, pc, runVars, shownVars, treeVars, hashVars, clockVars,
                   processVars, askVars, noteVars>>

SetFlag(c) ==
    /\ Alive /\ pending[c] # <<>>
    /\ LET w == Head(pending[c]) IN
       /\ flags' = [flags EXCEPT ![w.flag] = w.to]
       /\ asked' = (asked \/ (w = Write("cancelRequested", TRUE) /\ pc \in InRun))
       /\ overruled' = (overruled \/ (w = Write("cancelRequested", FALSE) /\ pc \in InRun))
    /\ pending' = [pending EXCEPT ![c] = Tail(@)]
    /\ UNCHANGED <<calls, pc, runVars, shownVars, treeVars, hashVars, clockVars,
                   processVars, noteVars>>

-----------------------------------------------------------------------------
(* The worker thread: runLoop and maybeRunScheduled *)

\* A step of the worker that moves on in its loop and does nothing else.
Goes(from, to) ==
    /\ pc = from /\ pc' = to
    /\ UNCHANGED <<flagVars, runVars, shownVars, treeVars, hashVars, clockVars,
                   processVars, askVars, noteVars>>

\* while (running_), wait_for, if (!running_) break.
Rest ==
    \/ Up("running") /\ (Goes("test", "wait") \/ Goes("woken", "schedule"))
    \/ ~Up("running") /\ (Goes("test", "exited") \/ Goes("woken", "exited"))
    \/ Goes("wait", "woken")

Due(m) == CronMinutes # {} /\ usable /\ m # lastMinute /\ m \in CronMinutes

\* The system clock is read here; it has gone on since then, or not.
Schedule ==
    /\ pc = "schedule"
    /\ \E m \in minute..MaxMinute :
          /\ minute' = m
          /\ IF Due(m)
             THEN pc' = "clear" /\ scheduled' = TRUE /\ lastMinute' = m
             ELSE pc' = "consume" /\ UNCHANGED <<scheduled, lastMinute>>
    /\ UNCHANGED <<flagVars, usable, scanned, processed, failed, mirrored, status,
                   shownVars, treeVars, hashVars, processVars, askVars, noteVars>>

\* syncRequested_.exchange(false), then performRun or checkHash.
Consume ==
    \/ ~Up("syncRequested") /\ Goes("consume", "hash")
    \/ /\ pc = "consume" /\ Up("syncRequested")
       /\ flags' = [flags EXCEPT !["syncRequested"] = FALSE]
       /\ scheduled' = FALSE
       /\ pc' = IF usable THEN "clear" ELSE "test"
       /\ UNCHANGED <<pending, calls, usable, scanned, processed, failed, mirrored,
                      status, shownVars, treeVars, hashVars, clockVars,
                      processVars, askVars, noteVars>>

-----------------------------------------------------------------------------
(* performRun *)

\* cancelRequested_ = false, whatever it said.
Clear ==
    /\ pc = "clear" /\ pc' = "begin"
    /\ flags' = [flags EXCEPT !["cancelRequested"] = FALSE]
    /\ asked' = FALSE /\ overruled' = FALSE /\ cutShort' = FALSE
    /\ UNCHANGED <<pending, calls, usable, scheduled, scanned, processed, failed,
                   mirrored, status, shownVars, treeVars, hashVars, clockVars,
                   processVars, unsaved, unread>>

Begin ==
    /\ pc = "begin" /\ pc' = "scan"
    /\ state' = "syncing"
    /\ scanned' = 0 /\ processed' = 0 /\ failed' = FALSE /\ mirrored' = FALSE
    /\ UNCHANGED <<flagVars, usable, scheduled, status, lastRun, runs, treeVars,
                   hashVars, clockVars, processVars, askVars, noteVars>>

\* One entry of the walk, or its end: all files seen, told to stop, no root, or
\* an error that makes the iterator the end iterator and is not looked at.  An
\* entry is_regular_file cannot look at is passed over in silence: a walk that
\* found a file less, and so one that ended early.
Scan ==
    /\ pc = "scan"
    /\ \/ /\ mounted /\ scanned < NumFiles /\ ~StopNow
          /\ scanned' = scanned + 1
          /\ UNCHANGED <<pc, cutShort>>
       \/ /\ scanned = NumFiles \/ StopNow
          /\ pc' = "pausetest"
          /\ UNCHANGED <<scanned, cutShort>>
       \/ /\ ~mounted \/ "walk" \in Faulty
          /\ pc' = "pausetest" /\ cutShort' = TRUE
          /\ UNCHANGED scanned
    /\ UNCHANGED <<flagVars, usable, scheduled, processed, failed, mirrored, status,
                   shownVars, treeVars, hashVars, clockVars, processVars, askVars,
                   unsaved, unread>>

\* The head of the copy loop, and the first test of waitWhilePaused.
OneTooMany ==                                                  \* mutant of PauseTest
    \/ processed > scanned /\ Goes("pausetest", "mirrortest")
    \/ processed <= scanned /\ Goes("pausetest", "stoptest")
PauseTest ==
    \/ processed = scanned /\ Goes("pausetest", "mirrortest")
    \/ processed < scanned /\ Up("paused") /\ Goes("pausetest", "pausing")
    \/ processed < scanned /\ ~Up("paused") /\ Goes("pausetest", "stoptest")

Shows(s, from, to) ==
    /\ pc = from /\ pc' = to /\ state' = s
    /\ UNCHANGED <<flagVars, runVars, lastRun, runs, treeVars, hashVars, clockVars,
                   processVars, askVars, noteVars>>

Pausing == Shows(IF state = "syncing" THEN "paused" ELSE state, "pausing", "paused")

\* while (paused_ && running_ && !cancelRequested_) wait_for(1 s).
WaitsForCancel == Up("paused") /\ ~Up("cancelRequested")       \* mutant of StillPaused
WaitsForStop == ~StopNow                                       \* mutant of StillPaused
StillPaused == Up("paused") /\ ~StopNow
LeavePause == ~StillPaused /\ Goes("paused", "resumetest")

StaysShown == Goes("resumetest", "stoptest")                   \* mutant of Resume
Resume ==
    \/ StopNow /\ Goes("resumetest", "stoptest")
    \/ ~StopNow /\ Shows("syncing", "resumetest", "stoptest")

\* What waitWhilePaused returns.
TakesCancel ==                                                 \* mutant of StopTest
    \/ /\ StopNow /\ pc = "stoptest" /\ pc' = "mirrortest"
       /\ flags' = [flags EXCEPT !["cancelRequested"] = FALSE]
       /\ UNCHANGED <<pending, calls, runVars, shownVars, treeVars, hashVars, clockVars,
                      processVars, askVars, noteVars>>
    \/ ~StopNow /\ Goes("stoptest", "copying")
StopTest ==
    \/ StopNow /\ Goes("stoptest", "mirrortest")
    \/ ~StopNow /\ Goes("stoptest", "copying")

\* A file is behind the loop once it is copied, found unchanged, failed, or passed
\* over in silence because fs::relative could not name it.
Copy ==
    /\ pc = "copying" /\ pc' = "pausetest"
    /\ processed' = processed + 1
    /\ \E fails \in MayFail("copy") : failed' = (failed \/ fails)
    /\ UNCHANGED <<flagVars, usable, scheduled, scanned, mirrored, status, shownVars,
                   treeVars, hashVars, clockVars, processVars, askVars, noteVars>>

MayMirror == DeleteFromBackup /\ ~StopNow

MirrorTest ==
    \/ MayMirror /\ Goes("mirrortest", "mirror")
    \/ ~MayMirror /\ Goes("mirrortest", "finish")

\* mirrorDeletions returns when it is told to stop during its walk; it looks
\* at no flag once it has begun to remove.
Mirror ==
    \/ StopNow /\ Goes("mirror", "finish")
    \/ /\ pc = "mirror" /\ ~StopNow /\ pc' = "finish"
       /\ mirrored' = TRUE
       /\ \E fails \in MayFail("delete") : failed' = (failed \/ fails)
       /\ UNCHANGED <<flagVars, usable, scheduled, scanned, processed, status,
                      shownVars, treeVars, hashVars, clockVars, processVars, askVars,
                      noteVars>>

OutcomeByErrors == IF failed THEN "failed" ELSE "completed"    \* mutant of Outcome
Outcome == IF Up("cancelRequested") THEN "cancelled"
           ELSE IF failed THEN "failed" ELSE "completed"

Finish ==
    /\ pc = "finish" /\ pc' = "persist"
    /\ status' = Outcome
    /\ UNCHANGED <<flagVars, usable, scheduled, scanned, processed, failed, mirrored,
                   shownVars, treeVars, hashVars, clockVars, processVars, askVars,
                   noteVars>>

\* Nothing looks at what persistRun could not do.
Persist ==
    /\ pc = "persist" /\ pc' = "publish"
    /\ \/ dbOpen /\ runs' = Append(runs, status) /\ unsaved' = FALSE
       \/ (~dbOpen \/ "persist" \in Faulty) /\ unsaved' = TRUE /\ UNCHANGED runs
    /\ UNCHANGED <<flagVars, runVars, state, lastRun, treeVars, hashVars, clockVars,
                   processVars, askVars, cutShort, unread>>

StateKept == IF status = "failed" THEN "error" ELSE state      \* mutant of StateAfter
StateAfter == IF status = "failed" THEN "error" ELSE "idle"

Publish ==
    /\ pc = "publish" /\ pc' = "rebaseline"
    /\ state' = StateAfter /\ lastRun' = status /\ unread' = FALSE
    /\ UNCHANGED <<flagVars, runVars, runs, treeVars, hashVars, clockVars, processVars,
                   askVars, cutShort, unsaved>>

\* Then back into maybeRunScheduled or runLoop.
Rebaseline ==
    /\ pc = "rebaseline" /\ pc' = IF scheduled THEN "consume" ELSE "test"
    /\ lastHash' \in Computed
    /\ UNCHANGED <<flagVars, runVars, shownVars, treeVars, newHash, clockVars, processVars,
                   askVars, noteVars>>

-----------------------------------------------------------------------------
(* checkHash *)

\* The interval has not elapsed; the interval has, and nas_storage is walked
\* without a lock.
NotYet == Goes("hash", "test")
TakeHash ==
    /\ Interval /\ pc = "hash" /\ pc' = "compare"
    /\ newHash' \in Computed
    /\ UNCHANGED <<flagVars, runVars, shownVars, treeVars, lastHash, clockVars,
                   processVars, askVars, noteVars>>

Drifted == lastHash # None /\ newHash # lastHash

\* The hash the next check compares with: the one this check compared.
HashNow == Hash                                             \* mutant of Remembered
Remembered == newHash

Compare ==
    /\ pc = "compare" /\ pc' = "test"
    /\ state' = IF Drifted /\ state # "syncing" THEN "hash_mismatch" ELSE state
    /\ lastHash' = Remembered /\ newHash' = None
    /\ UNCHANGED <<flagVars, runVars, lastRun, runs, treeVars, clockVars, processVars,
                   askVars, noteVars>>

-----------------------------------------------------------------------------
(* The main thread: shutdown, and the life of the process *)

MainStep(from, to) ==
    /\ mainPc = from /\ mainPc' = to
    /\ UNCHANGED <<pending, calls, pc, runVars, shownVars, treeVars, hashVars, clockVars,
                   starts, askVars, noteVars>>

\* if (!running_) return; running_ = false;
Stop ==
    /\ MainStep("serve", "cancel")
    /\ flags' = [flags EXCEPT !["running"] = FALSE]
    /\ UNCHANGED dbOpen

CancelAll ==
    /\ MainStep("cancel", "join")
    /\ flags' = [flags EXCEPT !["cancelRequested"] = TRUE]
    /\ UNCHANGED dbOpen

Join == MainStep("join", "close") /\ pc = "exited" /\ UNCHANGED <<flags, dbOpen>>

CloseDb == MainStep("close", "quit") /\ dbOpen' = FALSE /\ UNCHANGED flags

\* The memory of the process is gone; sync.db and the two trees stay.
ProcessGone ==
    /\ mainPc' = "off" /\ pc' = "exited" /\ dbOpen' = FALSE
    /\ flags' = [f \in FlagNames |-> FALSE] /\ pending' = [c \in Callers |-> <<>>]
    /\ scheduled' = FALSE /\ scanned' = 0 /\ processed' = 0 /\ failed' = FALSE
    /\ mirrored' = FALSE /\ status' = "completed"
    /\ state' = "idle" /\ lastRun' = None /\ lastHash' = None /\ newHash' = None
    /\ lastMinute' = None
    /\ asked' = FALSE /\ overruled' = FALSE
    /\ cutShort' = FALSE /\ unsaved' = FALSE /\ unread' = FALSE
    /\ UNCHANGED <<calls, usable, runs, treeVars, minute, starts>>

Exit  == mainPc = "quit" /\ ProcessGone
Crash == Crashes /\ Alive /\ ProcessGone

\* systemd starts the process again: init() with the configuration of the day.
\* What loadLastRun cannot prepare or read it leaves empty, with the database open.
OldestRow == IF runs = <<>> THEN None ELSE runs[1]            \* mutant of LoadLastRun
LoadLastRun == LastRow

Restart ==
    /\ mainPc = "off" /\ mainPc' = "serve" /\ pc' = "test"
    /\ starts < MaxStarts /\ starts' = starts + 1
    /\ flags' = FlagsAtStart /\ usable' \in BOOLEAN
    /\ \E fails \in MayFail("open") : dbOpen' = ~fails
    /\ \E fails \in MayFail("load") :
          /\ unread' = (dbOpen' /\ fails)
          /\ lastRun' = IF dbOpen' /\ ~fails THEN LoadLastRun ELSE None
    /\ lastHash' \in Computed
    /\ UNCHANGED <<pending, calls, scheduled, scanned, processed, failed, mirrored,
                   status, state, runs, treeVars, newHash, clockVars, askVars,
                   cutShort, unsaved>>

-----------------------------------------------------------------------------
Run ==
    \/ Clear \/ Begin \/ Scan \/ PauseTest \/ Pausing \/ LeavePause \/ Resume
    \/ StopTest \/ Copy \/ MirrorTest \/ Mirror \/ Finish \/ Persist \/ Publish
    \/ Rebaseline

Worker == Rest \/ Schedule \/ Consume \/ Run \/ NotYet \/ TakeHash \/ Compare

Shutdown == CancelAll \/ Join \/ CloseDb \/ Exit

Next ==
    \/ Change
    \/ \E c \in Callers : Call(c) \/ SetFlag(c)
    \/ Worker
    \/ Stop \/ Shutdown
    \/ Crash \/ Restart

Spec == Init /\ [][Next]_vars

\* Every thread that can take a step is run in the end, and a worker that comes
\* to checkHash again and again finds the interval elapsed at some time and its
\* walk gets to the end.  Nothing makes a request, a change, a signal, a crash or a
\* restart happen.
FairSpec ==
    /\ Spec
    /\ WF_vars(Worker)
    /\ SF_vars(TakeHash /\ newHash' = Hash)
    /\ WF_vars(Shutdown)
    /\ \A c \in Callers : WF_vars(SetFlag(c))

-----------------------------------------------------------------------------
(* Properties *)

Writes == [flag : FlagNames \ {"running"}, to : BOOLEAN]

FlagType ==
    /\ flags \in [FlagNames -> BOOLEAN] /\ pending \in [Callers -> Seq(Writes)]
    /\ calls \in Nat
RunType ==
    /\ pc \in Loop \cup InRun \cup {"clear", "persist", "publish", "rebaseline", "exited"}
    /\ scanned \in 0..NumFiles /\ processed \in 0..scanned
    /\ usable \in BOOLEAN /\ scheduled \in BOOLEAN
    /\ failed \in BOOLEAN /\ mirrored \in BOOLEAN /\ status \in Statuses
ShownType ==
    /\ state \in States /\ lastRun \in Statuses \cup {None} /\ runs \in Seq(Statuses)
WorldType ==
    /\ tree \in Nat /\ changes \in Nat /\ mounted \in BOOLEAN
    /\ lastHash \in Nat \cup {None, Cut} /\ newHash \in Nat \cup {None, Cut}
    /\ minute \in Nat /\ lastMinute \in Nat \cup {None}
ProcessType ==
    /\ mainPc \in {"serve", "cancel", "join", "close", "quit", "off"}
    /\ dbOpen \in BOOLEAN /\ starts \in Nat
    /\ asked \in BOOLEAN /\ overruled \in BOOLEAN
    /\ cutShort \in BOOLEAN /\ unsaved \in BOOLEAN /\ unread \in BOOLEAN

TypeOK == FlagType /\ RunType /\ ShownType /\ WorldType /\ ProcessType

\* The status panel shows a run, or a paused one, exactly while there is one:
\* no exit of performRun leaves the state behind (SyncManager.cpp:566-682).
StateTellsRun == state \in {"syncing", "paused"} <=> pc \in Shown

\* A run recorded as completed has looked at every file, unless a requestSync
\* took back its cancel, the process is stopping or the walk broke off
\* (SyncManager.cpp:581-667).
PartialExplained ==
    pc = "persist" /\ status = "completed" /\ processed < NumFiles =>
        overruled \/ cutShort \/ ~Up("running")

\* A run that was told to cancel while it ran is recorded as cancelled unless
\* a requestSync took it back, wherever in the run the flag was set and
\* whatever pauses and resumes came with it (SyncManager.cpp:513-535, 666).
CancelSticks == pc = "persist" /\ asked /\ ~overruled => status = "cancelled"

\* Nothing is removed from the backup by a run that stopped before its last
\* file, with the same two exceptions; a shutdown is none (SyncManager.cpp:658).
NoPartialMirror == pc \in Shown /\ mirrored /\ processed < NumFiles => overruled \/ cutShort

\* While the panel shows a run as paused nothing is copied, unless a requestSync
\* took back a cancel between the two reads of the flags (SyncManager.cpp:513-535).
PausedIsStill == state = "paused" /\ pc = "copying" => overruled

\* "last run" in the panel is the last row of sync_runs, through runs, restarts
\* and rows that were never written; nothing at all if loadLastRun could not read
\* the row and no run has ended since (SyncManager.cpp:298-320, 669-682).
LastRunIsLastRow ==
    Alive /\ dbOpen /\ ~unsaved /\ pc # "publish" =>
        lastRun = IF unread THEN None ELSE LastRow

\* Contents of nas_storage that differ from the hash on record, h, are reported
\* in the end, whenever the change fell: before, during or after the walk of a
\* check, and whatever checks broke off.  Unless they become what they were, a run begins, which takes a new
\* hash at its end, or the process stops (SyncManager.cpp:694-703, 743-777).
Watching == Alive /\ Up("running") /\ pc \in Loop
DriftTold ==
    \A h \in 0..MaxChanges :
        Watching /\ lastHash = h /\ Hash # h
            ~> state = "hash_mismatch" \/ Hash = h \/ ~Watching

\* A request is taken up, unless the worker stays paused for good or the
\* process stops; requests made before that are one run (SyncManager.cpp:483).
RequestServed ==
    <>[]~Up("paused") => (Up("syncRequested") ~> ~Up("syncRequested"))

\* shutdown() ends even if the worker is paused, and if a request or a pause
\* comes in between and takes its cancel back (SyncManager.cpp:461-470, 513-535).
ShutdownEnds == mainPc \in {"cancel", "join", "close", "quit"} ~> ~Alive

-----------------------------------------------------------------------------
(* What comments and docs say, and the code does not do *)

\* "abandons the in-progress run" (SyncController.h:40).
CancelAbandons == pc = "persist" /\ asked => status = "cancelled"
=============================================================================
