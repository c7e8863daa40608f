---------------------------- MODULE EventWriter ----------------------------
(***************************************************************************)
(* The audit pipeline: EventRecorder::emit stamps an event on the Drogon   *)
(* thread that saw it, EventWriter::enqueue puts it on a bounded queue,    *)
(* one writer thread drains the queue, inserts each batch in one SQLite    *)
(* transaction and hands it to EventAnalyzer.  The process ends through    *)
(* gracefulShutdown or a crash and is started again by systemd.  A step is *)
(* what another thread can observe: a critical section of queueMutex_, one *)
(* access to an atomic, one SQLite statement.                              *)
(***************************************************************************)
EXTENDS Naturals, Sequences

CONSTANTS
    Threads,         \* Drogon threads that emit events
    MaxQueueSize,    \* kMaxQueueSize
    FlushBatchSize,  \* kFlushBatchSize
    Faulty,          \* the SQLite calls that may fail
    Crashes,         \* may the process be killed at any time?
    MaxEvents,       \* bound: events emitted
    MaxClock,        \* bound: last value of the system clock
    MaxStarts,       \* bound: times the process is started
    NoStamp          \* what a thread with no event in hand holds

SqliteCalls == {"open", "openAnalyzer", "begin", "prepare", "insert", "commit"}

ASSUME SizeAssumption == {MaxQueueSize, FlushBatchSize} \subseteq Nat \ {0}
ASSUME FaultAssumption == Faulty \subseteq SqliteCalls /\ Crashes \in BOOLEAN
ASSUME BoundAssumption == {MaxEvents, MaxClock, MaxStarts} \subseteq Nat

VARIABLES
    now,           \* system clock, in whole seconds
    inHand,        \* per thread: the timestamp of the event it is emitting
    emitted,       \* history: events emitted
    queue,         \* queue_
    dropped,       \* droppedEvents_
    accepted,      \* history: events enqueue accepted; they are numbered 1, 2, ...
    late,          \* history: those accepted while running_ was false
    pc,            \* where the writer thread is
    batch,         \* runLoop's batch, as flushBatch and analyze see it
    todo,          \* what of the batch has not reached sqlite3_step
    finalFlush,    \* is this the drain after the loop?
    inTxn,         \* the connection has a transaction open
    txn,           \* the rows of that transaction
    nas_events,    \* committed rows, in id order
    lost,          \* history: accepted events destroyed unwritten
    mainPc,        \* the call gracefulShutdown makes next
    running,       \* running_
    dbOpen,        \* EventWriter::db_ is a connection
    analyzerOpen,  \* EventAnalyzer::db_ is a connection
    starts,        \* history: times the process was started
    crashed        \* history: has a process been killed?

emitVars    == <<now, inHand, emitted>>
queueVars   == <<queue, dropped, accepted, late>>
writerVars  == <<pc, batch, todo, finalFlush>>
sqliteVars  == <<inTxn, txn, nas_events, lost>>
processVars == <<mainPc, running, dbOpen, analyzerOpen, starts, crashed>>
vars == <<emitVars, queueVars, writerVars, sqliteVars, processVars>>

Event == [seq : Nat, ts : Nat, by : Threads]
Seqs(s) == {s[i].seq : i \in 1..Len(s)}

\* Positions of the writer thread.  "none": it does not exist; "dozing": it
\* holds queueMutex_, found the predicate false and is about to block.
Flushing == {"begin", "prepare", "insert", "analyze", "detect"}
Resting  == {"test", "wait", "dozing", "sleep", "final", "done"}

\* "serve": no signal yet; "off": no process; otherwise the next call of
\* gracefulShutdown, where EventWriter::shutdown is split at its atomics.
ShuttingDown == {"EventAnalyzer", "AlertWriter", "EventWriter", "notify",
                 "join", "close", "quit"}
Alive == mainPc # "off"

\* What init() leaves: a connection that does not open starts no thread.
MayFail(call) == IF call \in Faulty THEN BOOLEAN ELSE {FALSE}
ThreadStart == IF dbOpen THEN "test" ELSE "none"

Init ==
    /\ now = 0 /\ inHand = [t \in Threads |-> NoStamp] /\ emitted = 0
    /\ queue = <<>> /\ dropped = 0 /\ accepted = 0 /\ late = {}
    /\ \E fails \in MayFail("open") : dbOpen = ~fails
    /\ \E fails \in MayFail("openAnalyzer") : analyzerOpen = ~fails
    /\ running = dbOpen /\ pc = ThreadStart
    /\ batch = <<>> /\ todo = <<>> /\ finalFlush = FALSE
    /\ inTxn = FALSE /\ txn = <<>> /\ nas_events = <<>> /\ lost = {}
    /\ mainPc = "serve" /\ starts = 1 /\ crashed = FALSE

-----------------------------------------------------------------------------
(* The threads that emit *)

Tick ==
    /\ now < MaxClock
    /\ now' = now + 1
    /\ UNCHANGED <<inHand, emitted, queueVars, writerVars, sqliteVars, processVars>>

\* EventRecorder::emit evaluates nowIso8601Utc() before enqueue takes the lock.
Emit(t) ==
    /\ Alive /\ inHand[t] = NoStamp /\ emitted < MaxEvents
    /\ inHand' = [inHand EXCEPT ![t] = now]
    /\ emitted' = emitted + 1
    /\ UNCHANGED <<now, queueVars, writerVars, sqliteVars, processVars>>

\* notify_one and notify_all reach the writer only when it is blocked.
Notified == IF pc = "sleep" THEN "wait" ELSE pc

FullLate == Len(queue) > MaxQueueSize                          \* mutant of Full
Full == Len(queue) >= MaxQueueSize

MovedFrom(t) == [seq |-> accepted + 1, ts |-> NoStamp, by |-> t] \* mutant of InHand
InHand(t) == [seq |-> accepted + 1, ts |-> inHand[t], by |-> t]

PushFront(e) == <<e>> \o queue                                 \* mutant of Push
Push(e) == Append(queue, e)

Enqueue(t) ==
    /\ Alive /\ inHand[t] # NoStamp
    /\ pc # "dozing"                       \* queueMutex_ is free
    /\ inHand' = [inHand EXCEPT ![t] = NoStamp]
    /\ \/ /\ Full
          /\ dropped' = dropped + 1
          /\ UNCHANGED <<queue, accepted, late, pc>>
       \/ /\ ~Full
          /\ queue' = Push(InHand(t))
          /\ accepted' = accepted + 1
          /\ late' = IF running THEN late ELSE late \cup {accepted + 1}
          /\ pc' = Notified
          /\ UNCHANGED dropped
    /\ UNCHANGED <<now, emitted, batch, todo, finalFlush, sqliteVars,
                   processVars>>

-----------------------------------------------------------------------------
(* The writer thread: runLoop *)

\* The test of the while loop, and wait_for with a false predicate: the mutex
\* is held until the thread blocks, so no enqueue can slip in, but shutdown()
\* takes no mutex and can.
Idle ==
    /\ \/ pc = "test" /\ pc' = IF running THEN "wait" ELSE "final"
       \/ pc = "wait" /\ queue = <<>> /\ running /\ pc' = "dozing"
       \/ pc = "dozing" /\ pc' = "sleep"
    /\ UNCHANGED <<emitVars, queueVars, batch, todo, finalFlush,
                   sqliteVars, processVars>>

BatchLen == IF Len(queue) < FlushBatchSize THEN Len(queue) ELSE FlushBatchSize

FinalLenOneBatch == BatchLen                               \* mutant of FinalLen
FinalLen == Len(queue)

CopiedNotPopped(n) == queue                               \* mutant of LeftAfter
LeftAfter(n) == SubSeq(queue, n + 1, Len(queue))

\* Move the first n events from the queue to the batch, in the critical
\* section, and flush them if there are any.
Take(n, ifNone) ==
    /\ batch' = SubSeq(queue, 1, n)
    /\ todo' = batch'
    /\ queue' = LeftAfter(n)
    /\ pc' = IF queue = <<>> THEN ifNone ELSE "begin"
    /\ UNCHANGED <<emitVars, dropped, accepted, late, sqliteVars,
                   processVars>>

\* wait_for returns because the predicate is true.
Drain ==
    /\ pc = "wait" /\ (queue # <<>> \/ ~running)
    /\ Take(BatchLen, "test")
    /\ UNCHANGED finalFlush

\* wait_for returns after kFlushIntervalMs, whatever the predicate says.
TimeoutNever == FALSE                                       \* mutant of Timeout
Timeout ==
    /\ pc = "sleep"
    /\ Take(BatchLen, "test")
    /\ UNCHANGED finalFlush

FinalDrain ==
    /\ pc = "final"
    /\ Take(FinalLen, "done")
    /\ finalFlush' = TRUE

-----------------------------------------------------------------------------
(* The writer thread: flushBatch.  db_ is never null here, see Owned. *)

EndFlush ==
    /\ pc' = IF finalFlush THEN "done" ELSE "test"
    /\ batch' = <<>> /\ todo' = <<>>
    /\ UNCHANGED finalFlush

\* SQLite discards the open transaction, and the events in gone with it.
RollBack(gone) ==
    /\ inTxn' = FALSE /\ txn' = <<>>
    /\ lost' = lost \cup Seqs(txn) \cup gone
    /\ UNCHANGED nas_events

\* The result of BEGIN is ignored; it fails when a transaction is still open.
Begin ==
    /\ pc = "begin" /\ pc' = "prepare"
    /\ \/ ~inTxn /\ inTxn' = TRUE
       \/ (inTxn \/ "begin" \in Faulty) /\ UNCHANGED inTxn
    /\ UNCHANGED <<emitVars, queueVars, batch, todo, finalFlush, txn,
                   nas_events, lost, processVars>>

\* When the statement cannot be prepared: ROLLBACK and return.
Prepare ==
    /\ pc = "prepare"
    /\ \/ pc' = "insert" /\ UNCHANGED <<batch, todo, finalFlush, sqliteVars>>
       \/ "prepare" \in Faulty /\ RollBack(Seqs(todo)) /\ EndFlush
    /\ UNCHANGED <<emitVars, queueVars, processVars>>

\* One sqlite3_step.  Outside a transaction the row commits by itself; a
\* failed step is only logged, and a severe error also rolls back.
Insert ==
    /\ pc = "insert" /\ todo # <<>>
    /\ todo' = Tail(todo)
    /\ \/ /\ inTxn /\ txn' = Append(txn, Head(todo))
          /\ UNCHANGED <<inTxn, nas_events, lost>>
       \/ /\ ~inTxn /\ nas_events' = Append(nas_events, Head(todo))
          /\ UNCHANGED <<inTxn, txn, lost>>
       \/ /\ "insert" \in Faulty /\ lost' = lost \cup {Head(todo).seq}
          /\ UNCHANGED <<inTxn, txn, nas_events>>
       \/ "insert" \in Faulty /\ inTxn /\ RollBack({Head(todo).seq})
    /\ UNCHANGED <<emitVars, queueVars, pc, batch, finalFlush, processVars>>

\* The result of COMMIT is ignored: it may leave the transaction open or roll
\* it back.  With no transaction open it is an error, and txn is empty.
CommitMissing == UNCHANGED sqliteVars               \* mutant of CommitOutcome
CommitOutcome ==
    \/ /\ inTxn' = FALSE /\ txn' = <<>> /\ nas_events' = nas_events \o txn
       /\ UNCHANGED lost
    \/ "commit" \in Faulty /\ UNCHANGED sqliteVars
    \/ "commit" \in Faulty /\ RollBack({})

Commit ==
    /\ pc = "insert" /\ todo = <<>> /\ pc' = "analyze"
    /\ CommitOutcome
    /\ UNCHANGED <<emitVars, queueVars, batch, todo, finalFlush, processVars>>

\* EventAnalyzer::analyze: nothing without a connection, else run the rules.
Analyze ==
    /\ \/ pc = "analyze" /\ ~analyzerOpen /\ EndFlush
       \/ /\ pc = "analyze" /\ analyzerOpen /\ pc' = "detect"
          /\ UNCHANGED <<batch, todo, finalFlush>>
       \/ pc = "detect" /\ EndFlush
    /\ UNCHANGED <<emitVars, queueVars, sqliteVars, processVars>>

-----------------------------------------------------------------------------
(* The main thread: gracefulShutdown, and the life of the process *)

MainStep(from, to) ==
    /\ mainPc = from /\ mainPc' = to
    /\ UNCHANGED <<emitVars, queueVars, batch, todo, finalFlush,
                   starts, crashed>>

\* The handler starts; SyncManager::shutdown() comes first, see SyncManager.
Signal ==
    /\ MainStep("serve", "EventAnalyzer")
    /\ UNCHANGED <<pc, sqliteVars, running, dbOpen, analyzerOpen>>

CloseAnalyzer ==
    /\ MainStep("EventAnalyzer", "AlertWriter")
    /\ analyzerOpen' = FALSE
    /\ UNCHANGED <<pc, sqliteVars, running, dbOpen>>

CloseAlerts ==
    /\ MainStep("AlertWriter", "EventWriter")
    /\ UNCHANGED <<pc, sqliteVars, running, dbOpen, analyzerOpen>>

\* if (!running_.exchange(false)) return;
StopRunning ==
    /\ MainStep("EventWriter", IF running THEN "notify" ELSE "quit")
    /\ running' = FALSE
    /\ UNCHANGED <<pc, sqliteVars, dbOpen, analyzerOpen>>

\* notify_all without queueMutex_: lost on a thread that has not blocked yet.
NotifyWriter ==
    /\ MainStep("notify", "join")
    /\ pc' = Notified
    /\ UNCHANGED <<sqliteVars, running, dbOpen, analyzerOpen>>

NotJoined == TRUE                                            \* mutant of Joined
Joined == pc = "done"

Join ==
    /\ MainStep("join", "close") /\ Joined
    /\ UNCHANGED <<pc, sqliteVars, running, dbOpen, analyzerOpen>>

\* sqlite3_close rolls back a transaction that is still open.
CloseDb ==
    /\ MainStep("close", "quit")
    /\ dbOpen' = FALSE
    /\ RollBack({})
    /\ UNCHANGED <<pc, running, analyzerOpen>>

\* The memory of the process is gone; the table stays.
ProcessGone ==
    /\ mainPc' = "off" /\ pc' = "none" /\ running' = FALSE
    /\ inHand' = [t \in Threads |-> NoStamp]
    /\ queue' = <<>> /\ batch' = <<>> /\ todo' = <<>> /\ finalFlush' = FALSE
    /\ dbOpen' = FALSE /\ analyzerOpen' = FALSE
    /\ UNCHANGED <<now, emitted, dropped, accepted, late, starts>>

\* drogon::app().quit() and the return of main(): the emitting threads end.
Exit ==
    /\ mainPc = "quit"
    /\ RollBack(Seqs(queue))
    /\ ProcessGone
    /\ UNCHANGED crashed

\* The rules use a connection the main thread has closed: a data race, and a
\* fault is one outcome of the undefined behaviour.
UsesClosedHandle == pc = "detect" /\ ~analyzerOpen

Crash ==
    /\ Alive /\ (Crashes \/ UsesClosedHandle)
    /\ crashed' = TRUE
    /\ RollBack(Seqs(todo) \cup Seqs(queue))
    /\ ProcessGone

\* CREATE TABLE IF NOT EXISTS: the rows of earlier runs are kept.
TableDropped == <<>>                               \* mutant of TableAfterSchema
TableAfterSchema == nas_events

\* systemd starts the process again; init() of each service.
Restart ==
    /\ mainPc = "off" /\ mainPc' = "serve"
    /\ starts < MaxStarts /\ starts' = starts + 1
    /\ \E fails \in MayFail("open") : dbOpen' = ~fails
    /\ \E fails \in MayFail("openAnalyzer") : analyzerOpen' = ~fails
    /\ running' = dbOpen' /\ pc' = ThreadStart' /\ dropped' = 0
    /\ nas_events' = TableAfterSchema
    /\ UNCHANGED <<emitVars, queue, accepted, late, batch, todo, finalFlush,
                   inTxn, txn, lost, crashed>>

-----------------------------------------------------------------------------
Writer ==
    \/ Idle \/ Drain \/ Timeout \/ FinalDrain
    \/ Begin \/ Prepare \/ Insert \/ Commit \/ Analyze

Shutdown ==
    \/ CloseAnalyzer \/ CloseAlerts \/ StopRunning \/ NotifyWriter
    \/ Join \/ CloseDb \/ Exit

Next ==
    \/ Tick
    \/ \E t \in Threads : Emit(t) \/ Enqueue(t)
    \/ Writer
    \/ Signal \/ Shutdown
    \/ Crash \/ Restart

Spec == Init /\ [][Next]_vars

\* The scheduler runs every thread that can take a step, the writer's timed
\* wait included, and gracefulShutdown goes on once it was entered.  Nothing
\* makes a signal, a request, a crash or a restart happen.
FairSpec ==
    /\ Spec
    /\ WF_vars(Writer)
    /\ WF_vars(Shutdown)
    /\ \A t \in Threads : WF_vars(Enqueue(t))

-----------------------------------------------------------------------------
(* Properties *)

TypeOK ==
    /\ now \in Nat /\ inHand \in [Threads -> Nat \cup {NoStamp}] /\ emitted \in Nat
    /\ queue \in Seq(Event) /\ dropped \in Nat /\ accepted \in Nat
    /\ late \subseteq Nat
    /\ pc \in Flushing \cup Resting \cup {"none"}
    /\ batch \in Seq(Event) /\ todo \in Seq(Event) /\ finalFlush \in BOOLEAN
    /\ inTxn \in BOOLEAN /\ txn \in Seq(Event) /\ nas_events \in Seq(Event)
    /\ lost \subseteq Nat
    /\ mainPc \in {"serve", "off"} \cup ShuttingDown
    /\ running \in BOOLEAN /\ dbOpen \in BOOLEAN /\ analyzerOpen \in BOOLEAN
    /\ starts \in Nat /\ crashed \in BOOLEAN

\* Every event enqueue accepted and nothing has destroyed, oldest first.
Pipeline == nas_events \o txn \o todo \o queue

\* nas_events is in the order in which enqueue accepted the events, whatever
\* SQLite refused and whenever the process died, and what is still on its way
\* comes after it (FIFO queue, one writer: EventWriter.h:12-20).
AcceptanceOrder ==
    \A i, j \in 1..Len(Pipeline) : i < j => Pipeline[i].seq < Pipeline[j].seq

\* An accepted event is in exactly one place: a committed row, a row of the
\* open transaction, the batch, the queue, or destroyed by a failed statement
\* or the end of the process.  No row is written twice, none vanishes between.
ExactlyOnce ==
    /\ Seqs(Pipeline) \cup lost = 1..accepted
    /\ Seqs(Pipeline) \cap lost = {}

\* The connection is open whenever the writer flushes, although shutdown()
\* closes it from another thread (EventWriter.cpp:133, 183-191), and a writer
\* that does not flush holds no part of a batch.
Owned ==
    /\ pc \in Flushing => dbOpen /\ Alive
    /\ pc \notin Flushing => todo = <<>>

\* Two events of one request thread are stored in the order, and with the
\* timestamps, in which that thread observed them (EventRecorder.cpp:23-28).
ThreadOrder ==
    \A i, j \in 1..Len(nas_events) :
        i < j /\ nas_events[i].by = nas_events[j].by
            => nas_events[i].ts <= nas_events[j].ts

\* A committed row stays, unchanged and at its place: "events are never deleted
\* or modified" (README.md:107), through failed flushes, crashes and restarts.
AppendOnly ==
    [][/\ Len(nas_events) <= Len(nas_events')
       /\ SubSeq(nas_events', 1, Len(nas_events)) = nas_events]_nas_events

\* With a database that works and no crash, only events accepted after
\* shutdown() cleared running_ are ever destroyed: the final drain takes all
\* the others (EventWriter.cpp:107-118).
DrainedBeforeExit == Faulty = {} /\ ~crashed => lost \subseteq late

\* With a database that works, the writer never rests on a transaction: a
\* reader of events.db sees every event the writer has taken off the queue.
DurableAtRest == Faulty = {} /\ pc \in Resting => ~inTxn /\ txn = <<>>

\* With a database that works, the rules are run on committed rows only, "the
\* events just committed" (EventAnalyzer.h:31-32): also by the final drain, and
\* with a batch taken while the one before was analyzed.
AnalyzesCommitted == Faulty = {} /\ pc = "detect" => Seqs(batch) \subseteq Seqs(nas_events)

\* The bound kMaxQueueSize sets on memory: what waits and what is being flushed
\* never exceed the queue and one batch, or two queues in the final drain, which
\* takes all of queue_ while enqueue fills it again (EventWriter.h:57-64).
BacklogBound ==
    Len(queue) + Len(todo) <=
        MaxQueueSize + IF finalFlush THEN MaxQueueSize ELSE FlushBatchSize

\* gracefulShutdown ends: join() returns although notify_all may hit a writer
\* that has not blocked yet (EventWriter.cpp:183-191, wait_for at 94).
ShutdownEnds == mainPc \in ShuttingDown ~> ~Alive

Numbers(s) == [i \in 1..Len(s) |-> s[i].seq]

Log == INSTANCE AuditLog WITH
    log     <- Numbers(nas_events),
    pending <- Numbers(txn \o todo \o queue),
    issued  <- accepted

\* The pipeline implements AuditLog: rows are added at the end, in the order of
\* acceptance, and an event on its way is stored or given up in the end.
ImplementsAuditLog == Log!FairSpec

=============================================================================
