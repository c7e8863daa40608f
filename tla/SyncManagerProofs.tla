------------------------- MODULE SyncManagerProofs -------------------------
(* Proofs about SyncManager, for every number of files and of callers, every *)
(* schedule and every combination of faults, changes, crashes and restarts.  *)
EXTENDS SyncManager, SequenceTheorems, TLAPS

-----------------------------------------------------------------------------
(* The inductive invariant *)

\* Behind the head of the copy loop there is a file left to copy.
Counted ==
    /\ pc = "scan" => processed = 0
    /\ pc \in {"pausing", "paused", "resumetest", "stoptest", "copying"}
         => processed < scanned

\* The flag of a cancel stays up during the run, unless requestSync clears it.
CancelHeld == pc \in InRun /\ asked /\ ~overruled => Up("cancelRequested")

\* A walk or a copy loop that ended early was told to stop, and still is.
Scanned == InRun \ {"begin", "scan"}
Looped  == {"mirrortest", "mirror", "finish"}
StopKept ==
    /\ pc \in Scanned /\ scanned < NumFiles => StopNow \/ overruled \/ cutShort
    /\ pc \in Looped /\ processed < scanned => StopNow \/ overruled

\* Past waitWhilePaused the panel still says paused only if the run is told to
\* stop, or was before a requestSync took that back.
PauseKept ==
    state = "paused" =>
        /\ pc = "stoptest" => StopNow \/ overruled
        /\ pc \in {"scan", "pausetest", "pausing", "copying"} => overruled

\* Without a process there is no run.
OffIsOver == mainPc = "off" => pc = "exited"

\* A run removes orphans last.
MirrorLast == mirrored /\ pc \in Shown => pc \in {"finish", "persist", "publish"}

\* Between the two writes of a run's outcome the row is there and lastRun is not.
RowFirst == pc = "publish" /\ ~unsaved => LastRow = status

Honest == PartialExplained /\ CancelSticks /\ NoPartialMirror
IInv ==
    /\ TypeOK /\ Counted /\ OffIsOver /\ StateTellsRun
    /\ CancelHeld /\ StopKept /\ MirrorLast /\ Honest
    /\ RowFirst /\ LastRunIsLastRow /\ PauseKept

-----------------------------------------------------------------------------
(* Which steps write which variables *)

Calling == \E c \in Callers : Call(c) \/ SetFlag(c)
Ended   == Exit \/ Crash

LEMMA NextCases ==
    [Next]_vars =>
        \/ UNCHANGED vars \/ Change \/ Calling
        \/ Stop \/ CancelAll \/ Join \/ CloseDb \/ Ended \/ Restart
        \/ Rest \/ Schedule \/ Consume \/ Run \/ NotYet \/ TakeHash \/ Compare
  BY DEF Next, Worker, Shutdown, Calling, Ended

USE FilesAssumption DEF flagVars, runVars, shownVars, treeVars, hashVars, clockVars,
        processVars, askVars, noteVars, vars

\* The flags: callers, the worker at two places, and the main thread.
LEMMA FlagWriters ==
    [Next]_vars =>
        \/ UNCHANGED <<flagVars, askVars>>
        \/ Calling \/ Consume \/ Clear \/ Stop \/ CancelAll \/ Ended \/ Restart
  BY NextCases
  DEF Change, Join, CloseDb, MainStep, Rest, Schedule, Run, Begin, Scan, PauseTest,
      Pausing, LeavePause, Resume, StopTest, Copy, MirrorTest, Mirror, Finish, Persist,
      Publish, Rebaseline, NotYet, TakeHash, Compare, Goes, Shows

\* Where the run is: the worker only.
LEMMA RunWriters ==
    [Next]_vars =>
        \/ UNCHANGED <<pc, runVars>>
        \/ Rest \/ Schedule \/ Consume \/ Run \/ NotYet \/ TakeHash \/ Compare \/ Ended \/ Restart
  BY NextCases
  DEF Change, Calling, Call, SetFlag, Stop, CancelAll, Join, CloseDb, MainStep

\* What the panel shows: performRun, checkHash, and the start of the process.
LEMMA ShownWriters ==
    [Next]_vars =>
        \/ UNCHANGED shownVars
        \/ Begin \/ Pausing \/ Resume \/ Persist \/ Publish \/ Compare \/ Ended \/ Restart
  BY NextCases
  DEF Change, Calling, Call, SetFlag, Stop, CancelAll, Join, CloseDb, MainStep,
      Rest, Schedule, Consume, Run, Clear, Scan, PauseTest, LeavePause, StopTest, Copy,
      MirrorTest, Mirror, Finish, Rebaseline, NotYet, TakeHash, Goes, Shows

-----------------------------------------------------------------------------
(* Types *)

LEMMA FailType == \A what : MayFail(what) \subseteq BOOLEAN
  BY DEF MayFail

LEMMA InitType == Init => TypeOK /\ Counted
<1> SUFFICES ASSUME Init PROVE TypeOK /\ Counted
  OBVIOUS
<1>1. FlagType
  BY EmptySeq DEF Init, FlagType, FlagsAtStart
<1>2. RunType /\ Counted
  <2>1. scanned \in 0..NumFiles /\ processed \in 0..scanned
    BY DEF Init
  <2>2. pc \in Loop /\ status \in Statuses /\ Counted
    BY DEF Init, Loop, Statuses, Counted
  <2> QED
    BY <2>1, <2>2 DEF Init, RunType
<1>3. ShownType
  BY EmptySeq DEF Init, ShownType, States
<1>4. WorldType
  BY DEF Init, WorldType
<1>5. ProcessType
  BY FailType DEF Init, ProcessType
<1> QED
  BY <1>1, <1>2, <1>3, <1>4, <1>5 DEF TypeOK

LEMMA CallType == RequestSync \in Seq(Writes) /\ PauseSync \in Seq(Writes)
                    /\ ResumeSync \in Seq(Writes) /\ CancelSync \in Seq(Writes)
  BY DEF RequestSync, PauseSync, ResumeSync, CancelSync, Write, Writes, FlagNames

LEMMA FlagTypeStep == FlagType /\ [Next]_vars => FlagType'
<1> SUFFICES ASSUME FlagType, [Next]_vars PROVE FlagType'
  OBVIOUS
<1> USE DEF FlagType
<1>1. CASE UNCHANGED <<flagVars, askVars>>
  BY <1>1
<1>2. ASSUME NEW c \in Callers, Call(c) PROVE FlagType'
  BY <1>2, CallType DEF Call
<1>3. ASSUME NEW c \in Callers, SetFlag(c) PROVE FlagType'
  <2>1. Head(pending[c]) \in Writes /\ Tail(pending[c]) \in Seq(Writes)
    BY <1>3, HeadTailProperties DEF SetFlag
  <2> QED
    BY <1>3, <2>1 DEF SetFlag, Writes
<1>4. CASE Consume \/ Clear \/ Stop \/ CancelAll
  BY <1>4 DEF Consume, Clear, Stop, CancelAll, MainStep, Goes
<1>5. CASE Ended
  BY <1>5, EmptySeq DEF Ended, Exit, Crash, ProcessGone
<1>6. CASE Restart
  BY <1>6 DEF Restart, FlagsAtStart
<1> QED
  BY <1>1, <1>2, <1>3, <1>4, <1>5, <1>6, FlagWriters DEF Calling

\* The counters stay in order because a file is copied only when one is left.
LEMMA RunTypeStep == RunType /\ Counted /\ [Next]_vars => RunType' /\ Counted'
<1> SUFFICES ASSUME RunType, Counted, [Next]_vars PROVE RunType' /\ Counted'
  OBVIOUS
<1> USE DEF RunType, Counted
<1>1. CASE UNCHANGED <<pc, runVars>>
  BY <1>1
<1>2. CASE Rest \/ Schedule \/ Consume \/ NotYet \/ TakeHash \/ Compare
  BY <1>2 DEF Rest, Schedule, Consume, NotYet, TakeHash, Compare, Goes, Loop
<1>3. CASE Clear \/ Begin
  <2>1. scanned' \in 0..NumFiles /\ processed' \in 0..scanned'
    BY <1>3 DEF Clear, Begin
  <2> QED
    BY <1>3, <2>1 DEF Clear, Begin, InRun
<1>8. CASE Scan
  <2>1. scanned' \in 0..NumFiles /\ processed' \in 0..scanned'
    BY <1>8 DEF Scan
  <2> QED
    BY <1>8, <2>1 DEF Scan, InRun
<1>4. CASE PauseTest \/ Pausing \/ LeavePause \/ Resume \/ StopTest
  BY <1>4 DEF PauseTest, Pausing, LeavePause, Resume, StopTest, Goes, Shows, InRun
<1>5. CASE Copy
  <2>1. failed' \in BOOLEAN
    BY <1>5, FailType DEF Copy
  <2> QED
    BY <1>5, <2>1 DEF Copy, InRun
<1>9. CASE MirrorTest \/ Mirror
  <2>1. failed' \in BOOLEAN
    BY <1>9, FailType DEF MirrorTest, Mirror, Goes
  <2> QED
    BY <1>9, <2>1 DEF MirrorTest, Mirror, Goes, InRun
<1>6. CASE Finish \/ Persist \/ Publish \/ Rebaseline
  BY <1>6 DEF Finish, Persist, Publish, Rebaseline, Outcome, Statuses, Loop
<1>7. CASE Ended
  <2>1. scanned' \in 0..NumFiles /\ processed' \in 0..scanned'
    BY <1>7 DEF Ended, Exit, Crash, ProcessGone
  <2> QED
    BY <1>7, <2>1 DEF Ended, Exit, Crash, ProcessGone, Statuses
<1>10. CASE Restart
  BY <1>10 DEF Restart, Loop
<1> QED
  BY <1>1, <1>2, <1>3, <1>4, <1>5, <1>6, <1>7, <1>8, <1>9, <1>10, RunWriters DEF Run

LEMMA ShownTypeStep == TypeOK /\ [Next]_vars => ShownType'
<1> SUFFICES ASSUME TypeOK, [Next]_vars PROVE ShownType'
  OBVIOUS
<1> USE DEF TypeOK, ShownType
<1>1. CASE UNCHANGED shownVars
  BY <1>1
<1>2. CASE Begin \/ Pausing \/ Resume \/ Compare \/ Publish
  BY <1>2 DEF Begin, Pausing, Resume, Compare, Publish, StateAfter, RunType, Goes, Shows, States
<1>3. CASE Persist
  BY <1>3, AppendProperties DEF Persist, RunType
<1>4. CASE Ended
  BY <1>4 DEF Ended, Exit, Crash, ProcessGone, States
<1>5. CASE Restart
  <2>1. LastRow \in Statuses \cup {None}
    BY ElementOfSeq, EmptySeq DEF LastRow
  <2> QED
    BY <1>5, <2>1 DEF Restart, LoadLastRun
<1> QED
  BY <1>1, <1>2, <1>3, <1>4, <1>5, ShownWriters

LEMMA WorldTypeStep == TypeOK /\ [Next]_vars => WorldType'
<1> SUFFICES ASSUME TypeOK, [Next]_vars PROVE WorldType'
  OBVIOUS
<1> USE DEF TypeOK, WorldType
<1>1. CASE UNCHANGED <<treeVars, hashVars, clockVars>>
  BY <1>1
<1>2. CASE Schedule
  BY <1>2, ConfigAssumption DEF Schedule, Goes
<1>5. CASE Change
  <2>1. mounted' \in BOOLEAN
    BY <1>5 DEF Change
  <2>2. tree' \in Nat /\ changes' \in Nat
    BY <1>5 DEF Change
  <2> QED
    BY <1>5, <2>1, <2>2 DEF Change
<1>3. CASE Rebaseline \/ NotYet \/ TakeHash \/ Compare \/ Restart
  BY <1>3 DEF Rebaseline, NotYet, TakeHash, Compare, Remembered, Restart, Hash, Computed, Goes
<1>4. CASE Ended
  BY <1>4 DEF Ended, Exit, Crash, ProcessGone
<1> QED
  BY <1>1, <1>2, <1>3, <1>4, <1>5, NextCases
  DEF Calling, Call, SetFlag, Stop, CancelAll, Join, CloseDb, MainStep, Rest, Consume, Run,
      Clear, Begin, Scan, PauseTest, Pausing, LeavePause, Resume, StopTest, Copy, MirrorTest,
      Mirror, Finish, Persist, Publish, Goes, Shows

LEMMA ProcessTypeStep == TypeOK /\ [Next]_vars => ProcessType'
<1> SUFFICES ASSUME TypeOK, [Next]_vars PROVE ProcessType'
  OBVIOUS
<1> USE DEF TypeOK, ProcessType
<1>1. CASE UNCHANGED <<processVars, askVars, noteVars>>
  BY <1>1
<1>2. CASE Calling
  BY <1>2 DEF Calling, Call, SetFlag
<1>3. CASE Stop \/ CancelAll \/ Join \/ CloseDb
  BY <1>3 DEF Stop, CancelAll, Join, CloseDb, MainStep
<1>4. CASE Clear \/ Scan \/ Persist \/ Publish
  BY <1>4 DEF Clear, Scan, Persist, Publish
<1>5. CASE Ended
  BY <1>5 DEF Ended, Exit, Crash, ProcessGone
<1>6. CASE Restart
  <2>1. dbOpen' \in BOOLEAN /\ unread' \in BOOLEAN
    BY <1>6, FailType DEF Restart
  <2> QED
    BY <1>6, <2>1 DEF Restart
<1> QED
  BY <1>1, <1>2, <1>3, <1>4, <1>5, <1>6, NextCases
  DEF Change, Rest, Schedule, Consume, Run, Begin, PauseTest, Pausing, LeavePause,
      Resume, StopTest, Copy, MirrorTest, Mirror, Finish, Publish, Rebaseline, NotYet, TakeHash,
      Compare, Goes, Shows

-----------------------------------------------------------------------------
(* What the panel shows *)

\* Restart keeps the state, so it matters that no process means no run.
LEMMA OffStep == OffIsOver /\ [Next]_vars => OffIsOver'
<1> SUFFICES ASSUME OffIsOver, [Next]_vars PROVE OffIsOver'
  OBVIOUS
<1>1. UNCHANGED mainPc \/ Stop \/ CancelAll \/ Join \/ CloseDb \/ Ended \/ Restart
  BY NextCases
  DEF Change, Calling, Call, SetFlag, Rest, Schedule, Consume, Run, Clear, Begin, Scan,
      PauseTest, Pausing, LeavePause, Resume, StopTest, Copy, MirrorTest, Mirror, Finish,
      Persist, Publish, Rebaseline, NotYet, TakeHash, Compare, Goes, Shows
<1>2. pc = "exited" => UNCHANGED pc \/ Ended \/ Restart
  BY RunWriters
  DEF Rest, Schedule, Consume, Run, Clear, Begin, Scan, PauseTest, Pausing, LeavePause, Resume,
      StopTest, Copy, MirrorTest, Mirror, Finish, Persist, Publish, Rebaseline, NotYet, TakeHash,
      Compare, Goes, Shows
<1> QED
  BY <1>1, <1>2
  DEF OffIsOver, Stop, CancelAll, Join, CloseDb, MainStep, Ended, Exit, Crash, ProcessGone,
      Restart

LEMMA StateStep == OffIsOver /\ StateTellsRun /\ [Next]_vars => StateTellsRun'
<1> SUFFICES ASSUME OffIsOver, StateTellsRun, [Next]_vars PROVE StateTellsRun'
  OBVIOUS
<1> USE DEF StateTellsRun, InRun, Shown
<1>1. CASE UNCHANGED <<pc, runVars>> /\ UNCHANGED shownVars
  BY <1>1
<1>2. CASE Rest \/ Schedule \/ Consume \/ NotYet \/ TakeHash \/ Compare
  BY <1>2 DEF Rest, Schedule, Consume, NotYet, TakeHash, Compare, Goes
<1>3. CASE Clear \/ Begin \/ Scan \/ Copy \/ MirrorTest \/ Mirror
  BY <1>3 DEF Clear, Begin, Scan, Copy, MirrorTest, Mirror, Goes
<1>4. CASE PauseTest \/ Pausing \/ LeavePause \/ Resume \/ StopTest
  BY <1>4 DEF PauseTest, Pausing, LeavePause, Resume, StopTest, Goes, Shows
<1>5. CASE Finish \/ Persist \/ Publish \/ Rebaseline
  BY <1>5 DEF Finish, Persist, Publish, Rebaseline, StateAfter
<1>6. CASE Ended \/ Restart
  BY <1>6 DEF OffIsOver, Ended, Exit, Crash, ProcessGone, Restart
<1> QED
  BY <1>1, <1>2, <1>3, <1>4, <1>5, <1>6, RunWriters, ShownWriters DEF Run

-----------------------------------------------------------------------------
(* What a run records *)

\* While a run goes on, only requestSync clears the flag of a cancel, which is
\* remembered, and nothing starts a process that is told to stop again.
Going == InRun \cup {"persist", "publish"}

LEMMA FlagsHold ==
    ASSUME TypeOK, [Next]_vars, pc \in Going, pc' \in Going
    PROVE  /\ overruled => overruled'
           /\ pc \in InRun /\ Up("cancelRequested") => Up("cancelRequested")' \/ overruled'
           /\ ~Up("running") => ~Up("running")'
           /\ asked' => asked \/ Up("cancelRequested")'
           /\ pc \notin InRun => UNCHANGED askVars
<1> USE DEF Up
<1>1. CASE UNCHANGED <<flagVars, askVars>>
  BY <1>1
<1>2. ASSUME NEW c \in Callers, Call(c) PROVE UNCHANGED <<flags, askVars>>
  BY <1>2 DEF Call
<1>3. ASSUME NEW c \in Callers, SetFlag(c)
      PROVE  /\ overruled => overruled'
             /\ pc \in InRun /\ Up("cancelRequested") => Up("cancelRequested")' \/ overruled'
             /\ ~Up("running") => ~Up("running")'
             /\ asked' => asked \/ Up("cancelRequested")'
             /\ pc \notin InRun => UNCHANGED askVars
  <2> DEFINE w == Head(pending[c])
  <2>1. w \in Writes
    BY <1>3, HeadTailProperties DEF SetFlag, TypeOK, FlagType
  <2>2. w.flag \in FlagNames \ {"running"} /\ w.to \in BOOLEAN
        /\ w = [flag |-> w.flag, to |-> w.to]
    BY <2>1 DEF Writes
  <2>3. flags' = [flags EXCEPT ![w.flag] = w.to]
    BY <1>3 DEF SetFlag
  <2>4. overruled' = (overruled \/ (w = Write("cancelRequested", FALSE) /\ pc \in InRun))
    BY <1>3 DEF SetFlag
  <2>5. asked' = (asked \/ (w = Write("cancelRequested", TRUE) /\ pc \in InRun))
    BY <1>3 DEF SetFlag
  <2>6. ~Up("running") => ~Up("running")'
    BY <2>2, <2>3 DEF TypeOK, FlagType, FlagNames
  <2>7. pc \in InRun /\ Up("cancelRequested") => Up("cancelRequested")' \/ overruled'
    BY <2>2, <2>3, <2>4 DEF TypeOK, FlagType, FlagNames, Write
  <2>8. asked' => asked \/ Up("cancelRequested")'
    BY <2>2, <2>3, <2>5 DEF TypeOK, FlagType, FlagNames, Write
  <2>9. asked \in BOOLEAN /\ overruled \in BOOLEAN
    BY DEF TypeOK, ProcessType
  <2>10. pc \notin InRun => UNCHANGED askVars
    BY <2>4, <2>5, <2>9
  <2> QED
    BY <2>4, <2>6, <2>7, <2>8, <2>10
<1>4. CASE Stop \/ CancelAll
  BY <1>4 DEF Stop, CancelAll, MainStep, TypeOK, FlagType, FlagNames
<1>5. ~Consume /\ ~Clear /\ ~Ended /\ ~Restart
  BY DEF Consume, Clear, Ended, Exit, Crash, ProcessGone, Restart, Goes, InRun, Going
<1> QED
  BY <1>1, <1>2, <1>3, <1>4, <1>5, FlagWriters DEF Calling

LEMMA CancelHeldStep == TypeOK /\ CancelHeld /\ [Next]_vars => CancelHeld'
<1> SUFFICES ASSUME TypeOK, CancelHeld, [Next]_vars, pc' \in InRun, asked', ~overruled'
             PROVE  Up("cancelRequested")'
  BY DEF CancelHeld
<1>1. CASE pc \in InRun
  <2>1. overruled \/ Up("cancelRequested") \/ ~asked
    BY <1>1 DEF CancelHeld
  <2> QED
    BY <1>1, <2>1, FlagsHold DEF Going
<1>2. CASE pc \notin InRun
  <2>1. Clear
    BY <1>2, RunWriters
    DEF Rest, Schedule, Consume, Run, Begin, Scan, PauseTest, Pausing, LeavePause, Resume,
        StopTest, Copy, MirrorTest, Mirror, Finish, Persist, Publish, Rebaseline, NotYet, TakeHash,
        Compare, Ended, Exit, Crash, ProcessGone, Restart, Goes, Shows, InRun
  <2> QED
    BY <2>1 DEF Clear
<1> QED
  BY <1>1, <1>2

\* Only Scan writes cutShort while a run goes on, and it does not clear it.
LEMMA CutShortKept ==
    [Next]_vars /\ pc \in Going /\ pc' \in Going =>
        /\ cutShort => cutShort'
        /\ pc # "scan" => cutShort' = cutShort
<1> SUFFICES ASSUME [Next]_vars, pc \in Going, pc' \in Going
             PROVE  (cutShort => cutShort') /\ (pc # "scan" => cutShort' = cutShort)
  OBVIOUS
<1>1. ~Clear /\ ~Ended /\ ~Restart
  BY DEF Clear, Ended, Exit, Crash, ProcessGone, Restart, InRun, Going
<1>2. CASE Scan
  BY <1>2 DEF Scan
<1>3. CASE ~Scan
  <2>1. CASE Change \/ Calling \/ Stop \/ CancelAll \/ Join \/ CloseDb \/ UNCHANGED vars
    <3>1. cutShort' = cutShort
      BY <2>1
      DEF Change, Calling, Call, SetFlag, Stop, CancelAll, Join, CloseDb, MainStep
    <3> QED
      BY <3>1, Zenon
  <2>2. CASE Rest \/ Schedule \/ Consume \/ Run \/ NotYet \/ TakeHash \/ Compare
    BY <1>1, <1>3, <2>2
    DEF Rest, Schedule, Consume, Run, Begin, PauseTest, Pausing, LeavePause, Resume, StopTest,
        Copy, MirrorTest, Mirror, Finish, Persist, Publish, Rebaseline, NotYet, TakeHash, Compare, Goes,
        Shows
  <2> QED
    BY <1>1, <2>1, <2>2, NextCases
<1> QED
  BY <1>2, <1>3

\* An early end of the walk or of the copy loop stays explained.
LEMMA StopKeptStep == TypeOK /\ StopKept /\ [Next]_vars => StopKept'
<1> SUFFICES ASSUME TypeOK, StopKept, [Next]_vars, pc' \in Scanned
             PROVE  /\ scanned' < NumFiles => (StopNow \/ overruled \/ cutShort)'
                    /\ pc' \in Looped /\ processed' < scanned' => (StopNow \/ overruled)'
  BY DEF StopKept, Scanned, Looped, InRun
<1>1. pc \in InRun \ {"begin"}
  BY RunWriters
  DEF Rest, Schedule, Consume, Run, Clear, Begin, Scan, PauseTest, Pausing, LeavePause, Resume,
      StopTest, Copy, MirrorTest, Mirror, Finish, Persist, Publish, Rebaseline, NotYet, TakeHash,
      Compare, Ended, Exit, Crash, ProcessGone, Restart, Goes, Shows, InRun, Scanned
<1>2. /\ StopNow \/ overruled => (StopNow \/ overruled)'
      /\ cutShort => cutShort'
  BY <1>1, FlagsHold, CutShortKept DEF StopNow, Scanned, Going
<1>9. scanned \in Nat /\ processed \in Nat
  BY DEF TypeOK, RunType
<1>3. CASE UNCHANGED <<pc, runVars>>
  BY <1>2, <1>3 DEF StopKept, Scanned, Looped
<1>4. CASE Scan
  <2>1. pc' = "pausetest" /\ scanned' = scanned /\ (scanned = NumFiles \/ StopNow \/ cutShort')
    BY <1>4 DEF Scan, Scanned
  <2> QED
    BY <1>2, <2>1 DEF Looped
<1>5. CASE PauseTest \/ Pausing \/ LeavePause \/ Resume
  BY <1>2, <1>5, <1>9
  DEF PauseTest, Pausing, LeavePause, Resume, Goes, Shows, StopKept, Scanned, Looped, InRun
<1>6. CASE StopTest
  BY <1>2, <1>6 DEF StopTest, Goes, StopKept, Scanned, Looped, InRun
<1>7. CASE Copy \/ MirrorTest \/ Mirror
  BY <1>2, <1>7 DEF Copy, MirrorTest, Mirror, Goes, StopKept, Scanned, Looped, InRun
<1>8. ~Finish /\ ~Persist /\ ~Publish /\ ~Rebaseline /\ ~Clear /\ ~Begin /\ ~Rest /\ ~Schedule
      /\ ~Consume /\ ~NotYet /\ ~TakeHash /\ ~Compare /\ ~Ended /\ ~Restart
  BY <1>1 DEF Finish, Persist, Publish, Rebaseline, Clear, Begin, Rest, Schedule, Consume,
              NotYet, TakeHash, Compare, Ended, Exit, Crash, ProcessGone, Restart, Goes, InRun, Scanned
<1> QED
  BY <1>3, <1>4, <1>5, <1>6, <1>7, <1>8, RunWriters DEF Run

LEMMA MirrorLastStep == MirrorLast /\ [Next]_vars => MirrorLast'
<1> SUFFICES ASSUME MirrorLast, [Next]_vars PROVE MirrorLast'
  OBVIOUS
<1>1. CASE UNCHANGED <<pc, runVars>>
  BY <1>1 DEF MirrorLast
<1>2. CASE Rest \/ Schedule \/ Consume \/ NotYet \/ TakeHash \/ Compare
  BY <1>2 DEF Rest, Schedule, Consume, NotYet, TakeHash, Compare, Goes, MirrorLast, Shown, InRun
<1>3. CASE Clear \/ Begin \/ Scan \/ Copy \/ MirrorTest \/ Mirror
  BY <1>3 DEF Clear, Begin, Scan, Copy, MirrorTest, Mirror, Goes, MirrorLast, Shown, InRun
<1>4. CASE PauseTest \/ Pausing \/ LeavePause \/ Resume \/ StopTest
  BY <1>4
  DEF PauseTest, Pausing, LeavePause, Resume, StopTest, Goes, Shows, MirrorLast, Shown, InRun
<1>5. CASE Finish \/ Persist \/ Publish \/ Rebaseline
  BY <1>5 DEF Finish, Persist, Publish, Rebaseline, MirrorLast, Shown, InRun
<1>6. CASE Ended \/ Restart
  BY <1>6 DEF Ended, Exit, Crash, ProcessGone, Restart, MirrorLast, Shown, InRun
<1> QED
  BY <1>1, <1>2, <1>3, <1>4, <1>5, <1>6, RunWriters DEF Run

\* The outcome is decided in Finish and stays what it was explained by.
LEMMA HonestStep ==
    TypeOK /\ CancelHeld /\ StopKept /\ MirrorLast /\ Honest /\ [Next]_vars => Honest'
<1> SUFFICES ASSUME TypeOK, CancelHeld, StopKept, MirrorLast, Honest, [Next]_vars PROVE Honest'
  OBVIOUS
<1>1. scanned \in Nat /\ processed \in Nat /\ NumFiles \in Nat
      /\ scanned <= NumFiles /\ processed <= scanned
  BY DEF TypeOK, RunType
<1>2. PartialExplained' /\ CancelSticks'
  <2> SUFFICES ASSUME pc' = "persist"
               PROVE  PartialExplained' /\ CancelSticks'
    BY DEF PartialExplained, CancelSticks
  <2>1. CASE Finish
    <3>1. status' = Outcome /\ pc = "finish" /\ processed' = processed
          /\ UNCHANGED <<flags, askVars, cutShort>>
      BY <2>1 DEF Finish
    <3>2. processed < NumFiles => StopNow \/ overruled \/ cutShort
      BY <1>1, <3>1 DEF StopKept, Scanned, Looped, InRun
    <3>3. asked /\ ~overruled => Up("cancelRequested")
      BY <3>1 DEF CancelHeld, InRun
    <3> QED
      BY <3>1, <3>2, <3>3 DEF PartialExplained, CancelSticks, Outcome, StopNow, Up
  <2>2. CASE UNCHANGED <<pc, runVars>>
    <3>1. UNCHANGED askVars /\ cutShort' = cutShort /\ (~Up("running") => ~Up("running")')
      BY <2>2, FlagsHold, CutShortKept DEF Going, InRun
    <3> QED
      BY <2>2, <3>1 DEF Honest, PartialExplained, CancelSticks
  <2> QED
    BY <2>1, <2>2, RunWriters
    DEF Rest, Schedule, Consume, Run, Clear, Begin, Scan, PauseTest, Pausing, LeavePause, Resume,
        StopTest, Copy, MirrorTest, Mirror, Persist, Publish, Rebaseline, NotYet, TakeHash, Compare,
        Ended, Exit, Crash, ProcessGone, Restart, Goes, Shows
<1>3. NoPartialMirror'
  <2> SUFFICES ASSUME pc' \in Shown, mirrored', processed' < NumFiles
               PROVE  overruled' \/ cutShort'
    BY DEF NoPartialMirror
  <2>1. CASE Mirror
    <3>1. pc = "mirror" /\ processed' = processed /\ UNCHANGED <<askVars, cutShort>>
      BY <2>1 DEF Mirror, Goes
    <3>2. ~mirrored /\ ~StopNow
      BY <2>1, <3>1 DEF Mirror, Goes, MirrorLast, Shown, InRun
    <3> QED
      BY <1>1, <3>1, <3>2 DEF StopKept, Scanned, Looped, InRun
  <2>2. CASE ~Mirror
    <3>4. ~Begin /\ ~Clear /\ ~Rest /\ ~Schedule /\ ~Consume /\ ~NotYet /\ ~TakeHash /\ ~Compare
          /\ ~Rebaseline /\ ~Ended /\ ~Restart
      BY DEF Begin, Clear, Rest, Schedule, Consume, NotYet, TakeHash, Compare, Rebaseline, Ended, Exit,
             Crash, ProcessGone, Restart, Goes, Shown, InRun
    <3>5. mirrored' = mirrored /\ pc \in Shown
      BY <2>2, <3>4, RunWriters
      DEF Run, Scan, PauseTest, Pausing, LeavePause, Resume, StopTest, Copy, MirrorTest, Finish,
          Persist, Publish, Goes, Shows, Shown, InRun
    <3>6. pc \in {"finish", "persist", "publish"}
      BY <3>5 DEF MirrorLast
    <3>1. mirrored /\ pc \in Shown /\ processed' = processed /\ pc # "scan"
      BY <2>2, <3>4, <3>5, <3>6, RunWriters
      DEF Run, Scan, PauseTest, Pausing, LeavePause, Resume, StopTest, Copy, MirrorTest, Finish,
          Persist, Publish, Goes, Shows
    <3>2. pc \in Going /\ pc' \in Going
      BY <3>1 DEF Going, Shown
    <3> QED
      BY <3>1, <3>2, FlagsHold, CutShortKept DEF Honest, NoPartialMirror
  <2> QED
    BY <2>1, <2>2
<1> QED
  BY <1>2, <1>3 DEF Honest

\* waitWhilePaused reads the flags twice: between the two reads a cancel can go
\* only with a trace, and a shutdown not at all.
LEMMA PauseKeptStep == TypeOK /\ PauseKept /\ [Next]_vars => PauseKept'
<1> SUFFICES ASSUME TypeOK, PauseKept, [Next]_vars, state' = "paused",
                    pc' \in {"scan", "pausetest", "pausing", "copying", "stoptest"}
             PROVE  /\ pc' = "stoptest" => (StopNow \/ overruled)'
                    /\ pc' # "stoptest" => overruled'
  BY DEF PauseKept
<1>1. ~Begin /\ ~Clear /\ ~Rest /\ ~Schedule /\ ~Consume /\ ~NotYet /\ ~TakeHash /\ ~Compare
      /\ ~MirrorTest /\ ~Mirror /\ ~Finish /\ ~Persist /\ ~Publish /\ ~Rebaseline
      /\ ~Pausing /\ ~LeavePause /\ ~Ended /\ ~Restart
  BY DEF Begin, Clear, Rest, Schedule, Consume, NotYet, TakeHash, Compare, MirrorTest, Mirror, Finish,
         Persist, Publish, Rebaseline, Pausing, LeavePause, Ended, Exit, Crash, ProcessGone,
         Restart, Goes, Shows
<1>2. pc \in InRun
  BY <1>1, RunWriters
  DEF Run, Scan, PauseTest, Resume, StopTest, Copy, Goes, Shows, InRun
<1>3. pc' \in InRun
  BY DEF InRun
<1>4. /\ overruled => overruled'
      /\ StopNow \/ overruled => (StopNow \/ overruled)'
  BY <1>2, <1>3, FlagsHold DEF StopNow, Going
<1>5. CASE UNCHANGED <<pc, runVars>>
  <2>1. state = "paused"
    BY <1>1, <1>5, ShownWriters DEF Resume, Goes, Shows, Persist
  <2> QED
    BY <1>4, <1>5, <2>1 DEF PauseKept
<1>6. CASE Scan \/ PauseTest \/ Copy
  BY <1>4, <1>6 DEF Scan, PauseTest, Copy, Goes, PauseKept
<1>7. CASE Resume
  BY <1>7 DEF Resume, Goes, Shows, StopNow, Up
<1>8. CASE StopTest
  BY <1>4, <1>8 DEF StopTest, Goes, PauseKept
<1> QED
  BY <1>1, <1>5, <1>6, <1>7, <1>8, RunWriters DEF Run

-----------------------------------------------------------------------------
(* The last run, in memory and in sync_runs *)

LEMMA LastRowKept == RowFirst /\ LastRunIsLastRow /\ TypeOK /\ [Next]_vars =>
                        RowFirst' /\ LastRunIsLastRow'
<1> SUFFICES ASSUME RowFirst, LastRunIsLastRow, TypeOK, [Next]_vars
             PROVE  RowFirst' /\ LastRunIsLastRow'
  OBVIOUS
<1>1. CASE Persist
  <2>1. runs' = Append(runs, status) => LastRow' = status'
    BY <1>1, AppendProperties DEF Persist, LastRow, TypeOK, ShownType, RunType
  <2> QED
    BY <1>1, <2>1 DEF Persist, RowFirst, LastRunIsLastRow
<1>2. CASE Publish
  BY <1>2 DEF Publish, RowFirst, LastRunIsLastRow, LastRow
<1>3. CASE Restart
  BY <1>3 DEF Restart, LoadLastRun, LastRow, RowFirst, LastRunIsLastRow
<1>4. CASE Ended
  BY <1>4 DEF Ended, Exit, Crash, ProcessGone, RowFirst, LastRunIsLastRow, Alive
<1>5. CASE Finish
  BY <1>5 DEF Finish, RowFirst, LastRunIsLastRow, LastRow, Alive
<1>6. CASE ~Persist /\ ~Publish /\ ~Restart /\ ~Ended /\ ~Finish
  <2>1. UNCHANGED <<lastRun, runs, status, unsaved, unread>>
    BY <1>6, NextCases
    DEF Change, Calling, Call, SetFlag, Stop, CancelAll, Join, CloseDb, MainStep, Rest,
        Schedule, Consume, Run, Clear, Begin, Scan, PauseTest, Pausing, LeavePause, Resume,
        StopTest, Copy, MirrorTest, Mirror, Rebaseline, NotYet, TakeHash, Compare, Goes, Shows
  <2>2. pc' = "publish" <=> pc = "publish"
    BY <1>6, RunWriters
    DEF Rest, Schedule, Consume, Run, Clear, Begin, Scan, PauseTest, Pausing, LeavePause, Resume,
        StopTest, Copy, MirrorTest, Mirror, Rebaseline, NotYet, TakeHash, Compare, Goes, Shows
  <2>3. Alive' /\ dbOpen' => Alive /\ dbOpen
    BY <1>6, NextCases
    DEF Change, Calling, Call, SetFlag, Stop, CancelAll, Join, CloseDb, MainStep, Rest,
        Schedule, Consume, Run, Clear, Begin, Scan, PauseTest, Pausing, LeavePause, Resume,
        StopTest, Copy, MirrorTest, Mirror, Rebaseline, NotYet, TakeHash, Compare, Goes, Shows, Alive
  <2> QED
    BY <2>1, <2>2, <2>3 DEF RowFirst, LastRunIsLastRow, LastRow
<1> QED
  BY <1>1, <1>2, <1>3, <1>4, <1>5, <1>6

-----------------------------------------------------------------------------
(* The theorems *)

LEMMA IInvInit == Init => IInv
  BY InitType
  DEF Init, IInv, OffIsOver, StateTellsRun, CancelHeld, StopKept, MirrorLast, Honest,
      PartialExplained, CancelSticks, NoPartialMirror, RowFirst, LastRunIsLastRow, LastRow,
      PauseKept, Shown, Scanned, Looped, InRun

LEMMA IInvStep == IInv /\ [Next]_vars => IInv'
<1> SUFFICES ASSUME IInv, [Next]_vars PROVE IInv'
  OBVIOUS
<1>1. TypeOK' /\ Counted'
  BY FlagTypeStep, RunTypeStep, ShownTypeStep, WorldTypeStep, ProcessTypeStep DEF IInv, TypeOK
<1>2. OffIsOver' /\ StateTellsRun'
  BY OffStep, StateStep DEF IInv
<1>3. CancelHeld' /\ StopKept' /\ MirrorLast' /\ Honest'
  BY CancelHeldStep, StopKeptStep, MirrorLastStep, HonestStep DEF IInv
<1>4. RowFirst' /\ LastRunIsLastRow'
  BY LastRowKept DEF IInv
<1>5. PauseKept'
  BY PauseKeptStep DEF IInv
<1> QED
  BY <1>1, <1>2, <1>3, <1>4, <1>5 DEF IInv

\* The variables stay in their types, and no more files are copied than found.
THEOREM TypeCorrect == Spec => []TypeOK
<1>1. IInv => TypeOK
  BY DEF IInv
<1> QED
  BY <1>1, IInvInit, IInvStep, PTL DEF Spec

\* The panel shows a run exactly while performRun has one.
THEOREM PanelTellsRun == Spec => []StateTellsRun
<1>1. IInv => StateTellsRun
  BY DEF IInv
<1> QED
  BY <1>1, IInvInit, IInvStep, PTL DEF Spec

\* A cancel holds to the end of its run unless a request takes it back.
THEOREM CancelHolds == Spec => []CancelSticks
<1>1. IInv => CancelSticks
  BY DEF IInv, Honest
<1> QED
  BY <1>1, IInvInit, IInvStep, PTL DEF Spec

\* A run that stopped early is not recorded as completed without a reason.
THEOREM CompletedIsExplained == Spec => []PartialExplained
<1>1. IInv => PartialExplained
  BY DEF IInv, Honest
<1> QED
  BY <1>1, IInvInit, IInvStep, PTL DEF Spec

\* A run that did not reach its last file removes nothing from the backup,
\* unless its walk broke off or its cancel was taken back.
THEOREM BackupKept == Spec => []NoPartialMirror
<1>1. IInv => NoPartialMirror
  BY DEF IInv, Honest
<1> QED
  BY <1>1, IInvInit, IInvStep, PTL DEF Spec

\* While the panel says paused nothing is copied, unless a requestSync took a
\* cancel back between the two reads of the flags in waitWhilePaused.
THEOREM PausedStays == Spec => []PausedIsStill
<1>1. IInv => PausedIsStill
  BY DEF IInv, PauseKept, PausedIsStill
<1> QED
  BY <1>1, IInvInit, IInvStep, PTL DEF Spec

\* The last run in the panel is the last row of sync_runs, through restarts; none
\* as long as no run has ended since a start that could not read the row.
THEOREM PanelTellsRow == Spec => []LastRunIsLastRow
<1>1. IInv => LastRunIsLastRow
  BY DEF IInv
<1> QED
  BY <1>1, IInvInit, IInvStep, PTL DEF Spec

=============================================================================
