------------------------ MODULE EventWriterDelivery ------------------------
(***************************************************************************)
(* What EventWriter does with the events it accepted: what is lost by a    *)
(* shutdown, what rests in a transaction, what the rules see, how much is   *)
(* held in memory, and that all of it is what AuditLog promises.  For every *)
(* size of the queue and of the batches, every set of threads, and every    *)
(* combination of faults and crashes where the property does not name one.  *)
(***************************************************************************)
EXTENDS EventWriterProofs

-----------------------------------------------------------------------------
(* Shutdown and the final drain *)

\* How far a shutdown has come by the time the final drain runs, and with a
\* database that works, where a transaction can be open.
Draining ==
    /\ pc = "final" \/ finalFlush => ~running
    /\ pc = "done" => finalFlush
    /\ finalFlush => Seqs(queue) \subseteq late
    /\ mainPc = "off" => ~finalFlush
    /\ Faulty = {} =>
          /\ inTxn <=> pc \in {"prepare", "insert"}
          /\ pc = "none" => mainPc = "off"
          /\ mainPc \in {"close", "quit"} => pc = "done"

LEMMA SeqsSubSeq ==
    ASSUME NEW s \in Seq(Event), NEW n \in 0..Len(s)
    PROVE  /\ Seqs(SubSeq(s, 1, n)) \subseteq Seqs(s)
           /\ Seqs(SubSeq(s, n + 1, Len(s))) \subseteq Seqs(s)
<1>1. /\ SubSeq(s, 1, n) \in Seq(Event) /\ SubSeq(s, n + 1, Len(s)) \in Seq(Event)
      /\ SubSeq(s, 1, n) \o SubSeq(s, n + 1, Len(s)) = s
  BY SplitSeq
<1>2. Seqs(SubSeq(s, 1, n) \o SubSeq(s, n + 1, Len(s)))
        = Seqs(SubSeq(s, 1, n)) \cup Seqs(SubSeq(s, n + 1, Len(s)))
  BY <1>1, SeqsConcat
<1> QED
  BY <1>1, <1>2

LEMMA DrainingInit == Init => Draining
  BY DEF Init, Draining, ThreadStart, MayFail

\* A drain takes from the front of the queue; the final one takes it all.
LEMMA TakeDraining ==
    ASSUME TypeOK, Stages, Draining,
           Drain \/ Timeout \/ FinalDrain
    PROVE  Draining'
<1> DEFINE n == IF FinalDrain THEN FinalLen ELSE BatchLen
<1>1. /\ UNCHANGED <<late, inTxn, running, mainPc>>
      /\ pc \in {"wait", "sleep", "final"}
      /\ finalFlush' = TRUE \/ (finalFlush' = finalFlush /\ ~FinalDrain)
  BY DEF Drain, Timeout, FinalDrain, Take, sqliteVars, processVars
<1>2. BatchLen \in 0..Len(queue) /\ FinalLen \in 0..Len(queue)
  BY BatchLenBound DEF TypeOK
<1>3. Seqs(queue') \subseteq Seqs(queue)
  <2>1. \E m \in 0..Len(queue) : queue' = SubSeq(queue, m + 1, Len(queue))
    BY <1>2 DEF Drain, Timeout, FinalDrain, Take, LeftAfter
  <2> QED
    BY <2>1, SeqsSubSeq DEF TypeOK
<1>4. CASE FinalDrain
  <2>1. queue' = <<>>
    <3>1. Len(queue) \in Nat
      BY LenProperties DEF TypeOK
    <3> QED
      BY <1>4, <3>1, SubSeqEmpty DEF FinalDrain, Take, LeftAfter, FinalLen
  <2>2. pc' \in {"begin", "done"} /\ pc = "final" /\ finalFlush' = TRUE
    BY <1>4 DEF FinalDrain, Take
  <2> QED
    BY <1>1, <2>1, <2>2, SeqsEmpty DEF Draining, Stages
<1>5. CASE ~FinalDrain
  <2>1. pc' \in {"begin", "test"} /\ finalFlush' = finalFlush
    BY <1>1, <1>5 DEF Drain, Timeout, Take
  <2>2. (Seqs(queue) \subseteq late)' <=> Seqs(queue') \subseteq late
    BY <1>1 DEF Seqs
  <2> QED
    BY <1>1, <1>3, <2>1, <2>2 DEF Draining, Stages
<1> QED
  BY <1>4, <1>5

LEMMA EnqueueDraining ==
    ASSUME TypeOK, Stages, Draining, NEW t \in Threads, Enqueue(t)
    PROVE  Draining'
<1>1. /\ UNCHANGED <<inTxn, running, mainPc, finalFlush>> /\ mainPc # "off"
      /\ pc' = pc \/ (pc = "sleep" /\ pc' = "wait")
  BY DEF Enqueue, Notified, sqliteVars, processVars, Alive
<1>2. CASE UNCHANGED <<queue, late, pc>>
  BY <1>1, <1>2 DEF Draining
<1>3. CASE queue' = Push(InHand(t)) /\ late' = IF running THEN late ELSE late \cup {accepted + 1}
  <2>1. InHand(t) \in Event /\ InHand(t).seq = accepted + 1
    BY DEF TypeOK, Enqueue, InHand, Event
  <2>2. queue' = queue \o <<InHand(t)>> /\ <<InHand(t)>> \in Seq(Event)
    BY <1>3, <2>1, AppendIsConcat DEF Push, TypeOK
  <2>3. Seqs(<<InHand(t)>>) = {accepted + 1}
    BY <2>1 DEF Seqs
  <2>4. Seqs(queue)' = Seqs(queue) \cup {accepted + 1}
    <3>1. Seqs(queue \o <<InHand(t)>>) = Seqs(queue) \cup Seqs(<<InHand(t)>>)
      BY <2>2, SeqsConcat DEF TypeOK
    <3>2. Seqs(queue)' = Seqs(queue \o <<InHand(t)>>)
      BY <2>2 DEF Seqs
    <3> QED
      BY <2>3, <3>1, <3>2
  <2> QED
    BY <1>1, <1>3, <2>4 DEF Draining
<1> QED
  BY <1>2, <1>3 DEF Enqueue

LEMMA DrainingStep == TypeOK /\ Stages /\ Draining /\ [Next]_vars => Draining'
<1> SUFFICES ASSUME TypeOK, Stages, Draining, [Next]_vars PROVE Draining'
  OBVIOUS
<1>1. CASE Drain \/ Timeout \/ FinalDrain
  BY <1>1, TakeDraining
<1>2. CASE \E t \in Threads : Enqueue(t)
  BY <1>2, EnqueueDraining
<1>3. CASE Exit \/ Crash
  BY <1>3, SeqsEmpty DEF Exit, Crash, ProcessGone, RollBack, Draining
<1>4. CASE Restart
  BY <1>4, SeqsEmpty DEF Restart, ThreadStart, MayFail, Draining, Stages
<1>5. ASSUME UNCHANGED <<queue, late>>,
             \/ Tick \/ \E t \in Threads : Emit(t)
             \/ Idle \/ Begin \/ Prepare \/ Insert \/ Commit \/ Analyze
             \/ Signal \/ CloseAnalyzer \/ CloseAlerts \/ StopRunning \/ NotifyWriter
             \/ Join \/ CloseDb \/ UNCHANGED vars
      PROVE  Draining'
  <2> USE DEF Draining
  <2>1. Seqs(queue)' = Seqs(queue)
    BY <1>5 DEF Seqs
  <2>2. CASE Tick \/ (\E t \in Threads : Emit(t)) \/ UNCHANGED vars
    BY <1>5, <2>1, <2>2 DEF Tick, Emit, vars, queueVars, writerVars, sqliteVars, processVars
  <2>3. CASE Idle \/ Analyze
    BY <1>5, <2>1, <2>3 DEF Idle, Analyze, EndFlush, sqliteVars, processVars
  <2>4. CASE Begin \/ Prepare
    BY <1>5, <2>1, <2>4 DEF Begin, Prepare, EndFlush, RollBack, sqliteVars, processVars
  <2>5. CASE Insert \/ Commit
    BY <1>5, <2>1, <2>5 DEF Insert, Commit, CommitOutcome, RollBack, sqliteVars, processVars
  <2>6. CASE Signal \/ CloseAnalyzer \/ CloseAlerts \/ StopRunning
    BY <1>5, <2>1, <2>6
    DEF Signal, CloseAnalyzer, CloseAlerts, StopRunning, MainStep, sqliteVars, Stages
  <2>7. CASE NotifyWriter \/ Join \/ CloseDb
    BY <1>5, <2>1, <2>7
    DEF NotifyWriter, Notified, Join, Joined, CloseDb, RollBack, MainStep, sqliteVars, Stages
  <2> QED
    BY <1>5, <2>2, <2>3, <2>4, <2>5, <2>6, <2>7
<1>6. Next \/ UNCHANGED vars =>
        \/ Drain \/ Timeout \/ FinalDrain \/ (\E t \in Threads : Enqueue(t))
        \/ Exit \/ Crash \/ Restart \/ UNCHANGED <<queue, late>>
  BY DEF Next, Writer, Shutdown, Tick, Emit, Idle, Begin, Prepare, Insert, Commit, Analyze,
     Signal, CloseAnalyzer, CloseAlerts, StopRunning, NotifyWriter, Join, CloseDb, MainStep,
     queueVars, vars
<1> QED
  BY <1>1, <1>2, <1>3, <1>4, <1>5, <1>6 DEF Next, Writer, Shutdown

LEMMA DrainedStep ==
    ASSUME TypeOK, Stages, Draining, DrainedBeforeExit, [Next]_vars
    PROVE  DrainedBeforeExit'
<1> SUFFICES ASSUME Faulty = {}, ~crashed' PROVE lost' \subseteq late'
  BY DEF DrainedBeforeExit
<1>1. ~crashed /\ ~Crash /\ late \subseteq late'
  BY DEF Next, Writer, Shutdown, Tick, Emit, Enqueue, Idle, Drain, Timeout, FinalDrain, Take,
     Begin, Prepare, Insert, Commit, Analyze, Signal, CloseAnalyzer, CloseAlerts, StopRunning,
     NotifyWriter, Join, CloseDb, Exit, Crash, ProcessGone, Restart, MainStep, vars, queueVars,
     processVars
<1>2. lost \subseteq late
  BY <1>1 DEF DrainedBeforeExit
<1>3. CASE CloseDb \/ Exit
  <2>1. pc = "done" /\ txn = <<>>
    BY <1>3 DEF CloseDb, Exit, MainStep, Draining, Stages
  <2>2. lost' = lost \/ lost' = lost \cup Seqs(queue)
    BY <1>3, <2>1, SeqsEmpty DEF CloseDb, Exit, RollBack
  <2>3. Seqs(queue) \subseteq late
    BY <2>1 DEF Draining
  <2> QED
    BY <1>1, <1>2, <2>2, <2>3
<1>4. CASE ~CloseDb /\ ~Exit
  <2>1. lost' = lost
    BY <1>1, <1>4
    DEF Next, Writer, Shutdown, Tick, Emit, Enqueue, Idle, Drain, Timeout, FinalDrain, Take,
        Begin, Prepare, Insert, Commit, CommitOutcome, Analyze, Signal, CloseAnalyzer,
        CloseAlerts, StopRunning, NotifyWriter, Join, Restart, vars, sqliteVars
  <2> QED
    BY <1>1, <1>2, <2>1
<1> QED
  BY <1>3, <1>4

-----------------------------------------------------------------------------
(* The batch that the rules get to see *)

\* With a database that works, each event of the batch is where the flush has
\* brought it, and behind the COMMIT it is a row.
BatchOnTheWay ==
    Faulty = {} =>
        /\ pc \in {"begin", "prepare", "insert"} =>
              Seqs(batch) \subseteq Seqs(nas_events) \cup Seqs(txn) \cup Seqs(todo)
        /\ pc \in {"analyze", "detect"} => Seqs(batch) \subseteq Seqs(nas_events)

LEMMA BatchStep ==
    ASSUME TypeOK, Stages, Draining, BatchOnTheWay, [Next]_vars
    PROVE  BatchOnTheWay'
<1> SUFFICES ASSUME Faulty = {} PROVE BatchOnTheWay'
  BY DEF BatchOnTheWay
<1>1. /\ nas_events \in Seq(Event) /\ txn \in Seq(Event)
      /\ todo \in Seq(Event) /\ batch \in Seq(Event)
  BY DEF TypeOK
<1>2. ASSUME UNCHANGED <<batch, nas_events, txn, todo>>,
             pc' = pc \/ pc' \in Resting \cup {"none"}
               \/ (pc \in {"begin", "prepare"} /\ pc' \in {"prepare", "insert"})
               \/ (pc = "analyze" /\ pc' = "detect")
      PROVE  BatchOnTheWay'
  <2>1. /\ Seqs(batch)' = Seqs(batch) /\ Seqs(nas_events)' = Seqs(nas_events)
        /\ Seqs(txn)' = Seqs(txn) /\ Seqs(todo)' = Seqs(todo)
    BY <1>2 DEF Seqs
  <2> QED
    BY <1>2, <2>1 DEF BatchOnTheWay, Resting
<1>3. CASE Drain \/ Timeout \/ FinalDrain
  <2>1. batch' = todo' /\ pc' \in {"begin", "test", "done"}
    BY <1>3 DEF Drain, Timeout, FinalDrain, Take
  <2>2. Seqs(batch)' = Seqs(todo)'
    BY <2>1 DEF Seqs
  <2> QED
    BY <2>1, <2>2 DEF BatchOnTheWay
<1>4. CASE Insert
  <2> DEFINE first == <<Head(todo)>>
  <2>1. /\ pc = "insert" /\ pc' = pc /\ batch' = batch /\ todo # <<>> /\ todo' = Tail(todo)
        /\ \/ txn' = Append(txn, Head(todo)) /\ nas_events' = nas_events
           \/ nas_events' = Append(nas_events, Head(todo)) /\ txn' = txn
    BY <1>4 DEF Insert
  <2>2. /\ Head(todo) \in Event /\ Tail(todo) \in Seq(Event) /\ first \in Seq(Event)
        /\ todo = first \o Tail(todo)
    BY <1>1, <2>1, HeadAndTail
  <2>3. Seqs(todo) = Seqs(first) \cup Seqs(Tail(todo))
    <3>1. Seqs(first \o Tail(todo)) = Seqs(first) \cup Seqs(Tail(todo))
      BY <2>2, SeqsConcat
    <3> QED
      BY <2>2, <3>1
  <2>4. \/ txn' = txn \o first /\ nas_events' = nas_events
        \/ nas_events' = nas_events \o first /\ txn' = txn
    BY <1>1, <2>1, <2>2, AppendIsConcat
  <2>5. /\ Seqs(txn \o first) = Seqs(txn) \cup Seqs(first)
        /\ Seqs(nas_events \o first) = Seqs(nas_events) \cup Seqs(first)
    BY <1>1, <2>2, SeqsConcat
  <2> HIDE DEF first
  <2>6. Seqs(todo)' = Seqs(Tail(todo)) /\ Seqs(batch)' = Seqs(batch)
    BY <2>1 DEF Seqs
  <2>7. \/ Seqs(txn)' = Seqs(txn) \cup Seqs(first) /\ Seqs(nas_events)' = Seqs(nas_events)
        \/ Seqs(nas_events)' = Seqs(nas_events) \cup Seqs(first) /\ Seqs(txn)' = Seqs(txn)
    <3>1. CASE txn' = txn \o first /\ nas_events' = nas_events
      <4>1. Seqs(txn)' = Seqs(txn \o first) /\ Seqs(nas_events)' = Seqs(nas_events)
        BY <3>1 DEF Seqs
      <4> QED
        BY <2>5, <4>1
    <3>2. CASE nas_events' = nas_events \o first /\ txn' = txn
      <4>1. Seqs(nas_events)' = Seqs(nas_events \o first) /\ Seqs(txn)' = Seqs(txn)
        BY <3>2 DEF Seqs
      <4> QED
        BY <2>5, <4>1
    <3> QED
      BY <2>4, <3>1, <3>2
  <2> QED
    BY <2>1, <2>3, <2>6, <2>7 DEF BatchOnTheWay
<1>5. CASE Commit
  <2>1. /\ pc = "insert" /\ pc' = "analyze" /\ batch' = batch /\ todo = <<>>
        /\ nas_events' = nas_events \o txn
    BY <1>5 DEF Commit, CommitOutcome
  <2>2. Seqs(nas_events \o txn) = Seqs(nas_events) \cup Seqs(txn)
    BY <1>1, SeqsConcat
  <2>3. Seqs(batch)' = Seqs(batch) /\ Seqs(nas_events)' = Seqs(nas_events \o txn)
    BY <2>1 DEF Seqs
  <2> QED
    BY <2>1, <2>2, <2>3, SeqsEmpty DEF BatchOnTheWay
<1>6. CASE Exit \/ Crash
  BY <1>6 DEF Exit, Crash, ProcessGone, BatchOnTheWay
<1>7. CASE CloseDb \/ Restart
  <2>1. pc' \in {"done", "test", "none"}
    BY <1>7 DEF CloseDb, Restart, MainStep, ThreadStart, Draining
  <2> QED
    BY <2>1 DEF BatchOnTheWay
<1>8. CASE Analyze \/ Prepare \/ Begin \/ Idle
  <2>1. pc' \in Resting \/ UNCHANGED <<batch, todo>>
    BY <1>8 DEF Analyze, Prepare, Begin, Idle, EndFlush, Resting
  <2>2. UNCHANGED <<nas_events, txn>>
    BY <1>8 DEF Analyze, Prepare, Begin, Idle, sqliteVars
  <2>3. \/ pc' \in Resting
        \/ pc = "begin" /\ pc' = "prepare"
        \/ pc = "prepare" /\ pc' = "insert"
        \/ pc = "analyze" /\ pc' = "detect"
    BY <1>8 DEF Analyze, Prepare, Begin, Idle, EndFlush, Resting
  <2>4. CASE pc' \in Resting
    BY <2>4 DEF BatchOnTheWay, Resting
  <2> QED
    BY <1>2, <2>1, <2>2, <2>3, <2>4
<1>9. CASE \/ Tick \/ \E t \in Threads : Emit(t) \/ Enqueue(t)
           \/ Signal \/ CloseAnalyzer \/ CloseAlerts \/ StopRunning \/ NotifyWriter \/ Join
           \/ UNCHANGED vars
  <2>1. UNCHANGED <<batch, nas_events, txn, todo>>
    BY <1>9 DEF Tick, Emit, Enqueue, Signal, CloseAnalyzer, CloseAlerts, StopRunning,
       NotifyWriter, Join, MainStep, writerVars, sqliteVars, vars
  <2>2. pc' \in {pc, "wait"}
    BY <1>9 DEF Tick, Emit, Enqueue, Signal, CloseAnalyzer, CloseAlerts, StopRunning,
       NotifyWriter, Join, Notified, writerVars, vars
  <2> QED
    BY <1>2, <2>1, <2>2 DEF Resting
<1> QED
  BY <1>3, <1>4, <1>5, <1>6, <1>7, <1>8, <1>9 DEF Next, Writer, Shutdown

-----------------------------------------------------------------------------
(* The memory that events take *)

Bounded ==
    /\ Len(queue) <= MaxQueueSize
    /\ Len(todo) <= IF finalFlush THEN MaxQueueSize ELSE FlushBatchSize

LEMMA BoundedStep ==
    ASSUME TypeOK, Stages, Draining, Bounded, [Next]_vars
    PROVE  Bounded'
<1>1. /\ Len(queue) \in Nat /\ Len(todo) \in Nat /\ Len(<<>>) = 0
      /\ MaxQueueSize \in Nat /\ FlushBatchSize \in Nat
  BY LenProperties, EmptySeq, SizeAssumption DEF TypeOK
<1>2. CASE \E t \in Threads : Enqueue(t)
  <2>1. PICK t \in Threads : Enqueue(t)
    BY <1>2
  <2>2. UNCHANGED <<todo, finalFlush>>
    BY <2>1 DEF Enqueue
  <2>3. queue' = queue \/ (~Full /\ queue' = Append(queue, InHand(t)))
    BY <2>1 DEF Enqueue, Push
  <2>4. InHand(t) \in Event
    BY <2>1 DEF Enqueue, TypeOK, InHand, Event
  <2>5. Len(Append(queue, InHand(t))) = Len(queue) + 1
    BY <2>4, AppendProperties DEF TypeOK
  <2> QED
    BY <1>1, <2>2, <2>3, <2>5 DEF Bounded, Full
<1>3. CASE Drain \/ Timeout \/ FinalDrain
  <2>1. PICK n \in 0..Len(queue) :
          /\ todo' = SubSeq(queue, 1, n) /\ queue' = SubSeq(queue, n + 1, Len(queue))
          /\ n <= FlushBatchSize \/ finalFlush'
    <3>1. BatchLen \in 0..Len(queue) /\ FinalLen \in 0..Len(queue) /\ BatchLen <= FlushBatchSize
      BY <1>1, BatchLenBound DEF TypeOK, BatchLen
    <3> QED
      BY <1>3, <3>1 DEF Drain, Timeout, FinalDrain, Take, LeftAfter
  <2>2. \A i \in 1..Len(queue) : queue[i] \in Event
    BY ElementOfSeq DEF TypeOK
  <2>3. Len(SubSeq(queue, 1, n)) = n /\ Len(SubSeq(queue, n + 1, Len(queue))) = Len(queue) - n
    BY <1>1, <2>2, SubSeqProperties
  <2> QED
    BY <1>1, <2>1, <2>3 DEF Bounded
<1>4. CASE Insert
  <2>1. todo # <<>> /\ todo' = Tail(todo) /\ UNCHANGED <<queue, finalFlush>>
    BY <1>4 DEF Insert, queueVars
  <2>2. Len(Tail(todo)) = Len(todo) - 1
    BY <2>1, HeadTailProperties DEF TypeOK
  <2> QED
    BY <1>1, <2>1, <2>2 DEF Bounded
<1>5. CASE Exit \/ Crash
  BY <1>1, <1>5 DEF Exit, Crash, ProcessGone, Bounded
<1>6. CASE ~Insert /\ ~Exit /\ ~Crash /\ ~Drain /\ ~Timeout /\ ~FinalDrain
           /\ ~\E t \in Threads : Enqueue(t)
  <2>1. queue' = queue /\ finalFlush' = finalFlush /\ todo' \in {todo, <<>>}
    BY <1>6
    DEF Next, Writer, Shutdown, Tick, Emit, Idle, Begin, Prepare, Commit, Analyze, EndFlush,
        Signal, CloseAnalyzer, CloseAlerts, StopRunning, NotifyWriter, Join, CloseDb, MainStep,
        Restart, vars, queueVars, writerVars
  <2> QED
    BY <1>1, <2>1 DEF Bounded
<1> QED
  BY <1>2, <1>3, <1>4, <1>5, <1>6

-----------------------------------------------------------------------------
(* The order of one thread's events *)

InOrder(s) == \A i, j \in 1..Len(s) : i < j /\ s[i].by = s[j].by => s[i].ts <= s[j].ts
StampedBy(s, t, last) == \A i \in 1..Len(s) : s[i].by = t => s[i].ts <= last

\* ThreadOrder speaks of rows; it holds of all events on their way, which are no
\* later than what their thread has in hand and than the clock.
Stamped ==
    /\ InOrder(Pipeline)
    /\ \A t \in Threads :
          /\ StampedBy(Pipeline, t, now)
          /\ inHand[t] # NoStamp => inHand[t] <= now /\ StampedBy(Pipeline, t, inHand[t])

\* The front of a concatenation, and what is left of it without its middle.
LEMMA Front ==
    ASSUME NEW s \in Seq(Event), NEW u \in Seq(Event), InOrder(s \o u)
    PROVE  InOrder(s)
<1>1. /\ Len(s) \in Nat /\ Len(u) \in Nat /\ Len(s \o u) = Len(s) + Len(u)
      /\ \A i \in 1..Len(s) + Len(u) :
            (s \o u)[i] = IF i <= Len(s) THEN s[i] ELSE u[i - Len(s)]
  BY ConcatProperties, LenProperties
<1>2. \A i \in 1..Len(s) : i \in 1..Len(s \o u) /\ (s \o u)[i] = s[i]
  BY <1>1
<1> QED
  BY <1>2 DEF InOrder

LEMMA WithoutMiddle ==
    ASSUME NEW s \in Seq(Event), NEW m \in Seq(Event), NEW u \in Seq(Event)
    PROVE  /\ InOrder(s \o (m \o u)) => InOrder(s \o u)
           /\ \A t, last : StampedBy(s \o (m \o u), t, last) => StampedBy(s \o u, t, last)
<1> DEFINE x == s \o (m \o u)
           y == s \o u
           at(i) == IF i <= Len(s) THEN i ELSE i + Len(m)
<1>1. m \o u \in Seq(Event) /\ Len(s) \in Nat /\ Len(m) \in Nat /\ Len(u) \in Nat
  BY ConcatProperties, LenProperties
<1>2. /\ Len(m \o u) = Len(m) + Len(u)
      /\ \A i \in 1..Len(m) + Len(u) :
            (m \o u)[i] = IF i <= Len(m) THEN m[i] ELSE u[i - Len(m)]
  BY ConcatProperties
<1>3. /\ Len(x) = Len(s) + Len(m \o u)
      /\ \A i \in 1..Len(s) + Len(m \o u) :
            x[i] = IF i <= Len(s) THEN s[i] ELSE (m \o u)[i - Len(s)]
  BY <1>1, ConcatProperties
<1>4. /\ Len(y) = Len(s) + Len(u)
      /\ \A i \in 1..Len(s) + Len(u) : y[i] = IF i <= Len(s) THEN s[i] ELSE u[i - Len(s)]
  BY ConcatProperties
<1> HIDE DEF x, y
<1>5. ASSUME NEW i \in 1..Len(y)
      PROVE  at(i) \in 1..Len(x) /\ y[i] = x[at(i)]
  <2>1. CASE i <= Len(s)
    BY <1>1, <1>2, <1>3, <1>4, <2>1
  <2>2. CASE ~(i <= Len(s))
    <3>1. i + Len(m) \in 1..Len(s) + Len(m \o u) /\ ~(i + Len(m) <= Len(s))
      BY <1>1, <1>2, <1>4, <2>2
    <3>2. x[i + Len(m)] = (m \o u)[i + Len(m) - Len(s)]
      BY <1>3, <3>1
    <3>3. /\ i + Len(m) - Len(s) \in 1..Len(m) + Len(u) /\ ~(i + Len(m) - Len(s) <= Len(m))
          /\ i + Len(m) - Len(s) - Len(m) = i - Len(s)
      BY <1>1, <1>4, <2>2
    <3>4. (m \o u)[i + Len(m) - Len(s)] = u[i - Len(s)]
      BY <1>2, <3>3
    <3> QED
      BY <1>3, <1>4, <2>2, <3>1, <3>2, <3>4
  <2> QED
    BY <2>1, <2>2
<1>6. \A i, j \in 1..Len(y) : i < j => at(i) < at(j)
  BY <1>1, <1>4
<1> HIDE DEF at
<1>7. InOrder(x) => InOrder(y)
  BY <1>5, <1>6 DEF InOrder
<1>8. \A t, last : StampedBy(x, t, last) => StampedBy(y, t, last)
  BY <1>5 DEF StampedBy
<1> QED
  BY <1>7, <1>8 DEF x, y

\* An event of t, stamped no earlier than those of t that are there.
LEMMA OneMore ==
    ASSUME NEW s \in Seq(Event), NEW e \in Event, InOrder(s), StampedBy(s, e.by, e.ts)
    PROVE  /\ InOrder(s \o <<e>>)
           /\ \A t, last : StampedBy(s, t, last) /\ (e.by = t => e.ts <= last)
                              => StampedBy(s \o <<e>>, t, last)
<1>1. /\ Len(s) \in Nat /\ Len(s \o <<e>>) = Len(s) + 1
      /\ \A i \in 1..Len(s) : (s \o <<e>>)[i] = s[i]
      /\ (s \o <<e>>)[Len(s) + 1] = e
  <2>1. s \o <<e>> = Append(s, e)
    BY AppendIsConcat
  <2> QED
    BY <2>1, AppendProperties, LenProperties
<1>2. \A i \in 1..Len(s \o <<e>>) : i \in 1..Len(s) \/ i = Len(s) + 1
  BY <1>1
<1>3. InOrder(s \o <<e>>)
  <2> SUFFICES ASSUME NEW i \in 1..Len(s \o <<e>>), NEW j \in 1..Len(s \o <<e>>), i < j,
                      (s \o <<e>>)[i].by = (s \o <<e>>)[j].by
               PROVE  (s \o <<e>>)[i].ts <= (s \o <<e>>)[j].ts
    BY DEF InOrder
  <2>1. i \in 1..Len(s)
    BY <1>1, <1>2
  <2>2. CASE j \in 1..Len(s)
    BY <1>1, <2>1, <2>2 DEF InOrder
  <2>3. CASE j = Len(s) + 1
    BY <1>1, <2>1, <2>3 DEF StampedBy
  <2> QED
    BY <1>2, <2>2, <2>3
<1>4. ASSUME NEW t, NEW last, StampedBy(s, t, last), e.by = t => e.ts <= last
      PROVE  StampedBy(s \o <<e>>, t, last)
  BY <1>1, <1>2, <1>4 DEF StampedBy
<1> QED
  BY <1>3, <1>4

LEMMA EventFields == \A s \in Seq(Event) : \A i \in 1..Len(s) : s[i].ts \in Nat
<1> TAKE s \in Seq(Event)
<1> TAKE i \in 1..Len(s)
<1>1. s[i] \in Event
  BY ElementOfSeq
<1> QED
  BY <1>1 DEF Event

LEMMA StampedStep ==
    ASSUME IInv, TypeOK', Stamped, [Next]_vars
    PROVE  Stamped'
<1>1. Pipeline \in Seq(Event) /\ now \in Nat /\ inHand \in [Threads -> Nat \cup {NoStamp}]
  BY PipelineType DEF IInv, TypeOK
<1>2. ASSUME NEW t \in Threads, Enqueue(t)
      PROVE  Stamped'
  <2> DEFINE e == InHand(t)
  <2>1. /\ inHand[t] # NoStamp /\ inHand' = [inHand EXCEPT ![t] = NoStamp] /\ now' = now
        /\ e.by = t /\ e.ts = inHand[t]
    BY <1>2 DEF Enqueue, InHand
  <2>2. CASE Pipeline' = Pipeline
    BY <1>1, <2>1, <2>2 DEF Stamped
  <2>3. CASE e \in Event /\ Pipeline' = Pipeline \o <<e>>
    <3>1. StampedBy(Pipeline, e.by, e.ts) /\ InOrder(Pipeline) /\ e.ts <= now
      BY <2>1 DEF Stamped
    <3>2. InOrder(Pipeline \o <<e>>)
      BY <1>1, <2>3, <3>1, OneMore
    <3>3. \A u, last : StampedBy(Pipeline, u, last) /\ (e.by = u => e.ts <= last)
                          => StampedBy(Pipeline \o <<e>>, u, last)
      BY <1>1, <2>3, <3>1, OneMore
    <3>4. InOrder(Pipeline)'
      BY <2>3, <3>2 DEF InOrder
    <3>5. ASSUME NEW u, NEW last, StampedBy(Pipeline \o <<e>>, u, last)
          PROVE  StampedBy(Pipeline', u, last)
      BY <2>3, <3>5
    <3> HIDE DEF e
    <3>6. ASSUME NEW u \in Threads
          PROVE  /\ StampedBy(Pipeline', u, now')
                 /\ inHand'[u] # NoStamp => inHand'[u] <= now' /\ StampedBy(Pipeline', u, inHand'[u])
      <4>1. StampedBy(Pipeline', u, now')
        BY <2>1, <3>1, <3>3, <3>5 DEF Stamped
      <4>2. ASSUME inHand'[u] # NoStamp
            PROVE  inHand'[u] <= now' /\ StampedBy(Pipeline', u, inHand'[u])
        <5>1. u # t /\ inHand'[u] = inHand[u]
          BY <1>1, <2>1, <4>2
        <5> QED
          BY <2>1, <3>3, <3>5, <4>2, <5>1 DEF Stamped
      <4> QED
        BY <4>1, <4>2
    <3> QED
      BY <3>4, <3>6 DEF Stamped, StampedBy
  <2> QED
    BY <1>2, <2>2, <2>3, EnqueuePipeline DEF Kept
<1>3. CASE ~\E t \in Threads : Enqueue(t)
  <2>1. /\ InOrder(Pipeline) => InOrder(Pipeline')
        /\ \A t, last : StampedBy(Pipeline, t, last) => StampedBy(Pipeline', t, last)
    <3>1. CASE Kept
      BY <3>1 DEF Kept
    <3>2. CASE Shrunk
      <4>1. PICK s \in Seq(Event), m \in Seq(Event), u \in Seq(Event) :
               Pipeline = (nas_events \o s) \o (m \o u) /\ Pipeline' = (nas_events \o s) \o u
        BY <3>2 DEF Shrunk
      <4>2. nas_events \o s \in Seq(Event)
        BY ConcatProperties DEF IInv, TypeOK
      <4> QED
        BY <4>1, <4>2, WithoutMiddle
    <3> QED
      BY <1>3, <3>1, <3>2, PipelineStep
  <2>2. /\ now' \in Nat /\ now <= now'
        /\ \A t \in Threads : inHand'[t] \in {inHand[t], now, NoStamp}
    <3>1. CASE Tick \/ \E t \in Threads : Emit(t)
      BY <1>1, <3>1 DEF Tick, Emit
    <3>2. CASE ~Tick /\ ~\E t \in Threads : Emit(t)
      <4>1. now' = now /\ (inHand' = inHand \/ inHand' = [t \in Threads |-> NoStamp])
        BY <1>3, <3>2
        DEF Next, Writer, Shutdown, Idle, Drain, Timeout, FinalDrain, Take, Begin, Prepare,
            Insert, Commit, Analyze, Signal, CloseAnalyzer, CloseAlerts, StopRunning,
            NotifyWriter, Join, CloseDb, Exit, Crash, ProcessGone, Restart, MainStep, vars, emitVars
      <4> QED
        BY <1>1, <4>1
    <3> QED
      BY <3>1, <3>2
  <2>3. Pipeline' \in Seq(Event)
    <3>1. (Pipeline \in Seq(Event))'
      BY PipelineType, PTL
    <3> QED
      BY <3>1
  <2>4. ASSUME NEW t \in Threads
        PROVE  /\ StampedBy(Pipeline', t, now')
               /\ inHand'[t] # NoStamp => inHand'[t] <= now' /\ StampedBy(Pipeline', t, inHand'[t])
    <3>1. StampedBy(Pipeline', t, now)
      BY <2>1 DEF Stamped
    <3>2. StampedBy(Pipeline', t, now')
      BY <1>1, <2>2, <2>3, <3>1, EventFields DEF StampedBy
    <3>3. ASSUME inHand'[t] # NoStamp
          PROVE  inHand'[t] <= now' /\ StampedBy(Pipeline', t, inHand'[t])
      <4>1. CASE inHand'[t] = now
        BY <1>1, <2>2, <3>1, <4>1
      <4>2. CASE inHand'[t] = inHand[t]
        BY <1>1, <2>1, <2>2, <3>3, <4>2 DEF Stamped
      <4> QED
        BY <2>2, <3>3, <4>1, <4>2
    <3> QED
      BY <3>2, <3>3
  <2>5. InOrder(Pipeline')
    BY <2>1 DEF Stamped
  <2> QED
    BY <2>4, <2>5 DEF Stamped, StampedBy, InOrder
<1> QED
  BY <1>2, <1>3

-----------------------------------------------------------------------------
(* What holds together in every reachable state *)

DeliveryInv ==
    IInv /\ Draining /\ DrainedBeforeExit /\ BatchOnTheWay /\ Bounded /\ Stamped

LEMMA DeliveryInit == Init => DeliveryInv
<1> SUFFICES ASSUME Init PROVE DeliveryInv
  OBVIOUS
<1>1. IInv /\ Draining
  BY IInvInit, DrainingInit
<1>2. DrainedBeforeExit /\ BatchOnTheWay
  <2>1. Seqs(batch) = {} /\ lost = {}
    BY SeqsEmpty DEF Init
  <2> QED
    BY <2>1 DEF DrainedBeforeExit, BatchOnTheWay
<1>3. Bounded
  BY EmptySeq, SizeAssumption DEF Init, Bounded
<1>4. Stamped
  <2>1. Pipeline = <<>> /\ \A t \in Threads : inHand[t] = NoStamp
    BY EmptySeq, ConcatEmptySeq DEF Init, Pipeline
  <2>2. \A i : i \notin 1..Len(<<>>)
    BY EmptySeq
  <2> QED
    BY <2>1, <2>2 DEF Stamped, InOrder, StampedBy
<1> QED
  BY <1>1, <1>2, <1>3, <1>4 DEF DeliveryInv

LEMMA DeliveryStep == DeliveryInv /\ [Next]_vars => DeliveryInv'
<1> SUFFICES ASSUME DeliveryInv, [Next]_vars PROVE DeliveryInv'
  OBVIOUS
<1>1. TypeOK /\ Stages /\ IInv' /\ TypeOK'
  BY IInvStep, TypeStep DEF DeliveryInv, IInv
<1> QED
  BY <1>1, DrainingStep, DrainedStep, BatchStep, BoundedStep, StampedStep DEF DeliveryInv

\* The final drain takes all that was accepted while the service was running.
THEOREM DrainTakesAll == Spec => []DrainedBeforeExit
<1>1. DeliveryInv => DrainedBeforeExit
  BY DEF DeliveryInv
<1> QED
  BY <1>1, DeliveryInit, DeliveryStep, PTL DEF Spec

\* Between two flushes no transaction is open, if the database works.
THEOREM RestsDurably == Spec => []DurableAtRest
<1>1. DeliveryInv => DurableAtRest
  BY DEF DeliveryInv, IInv, Stages, Draining, DurableAtRest, Resting
<1> QED
  BY <1>1, DeliveryInit, DeliveryStep, PTL DEF Spec

\* Each event the rules are run on is a row by then, if the database works.
THEOREM RulesSeeRows == Spec => []AnalyzesCommitted
<1>1. DeliveryInv => AnalyzesCommitted
  BY DEF DeliveryInv, BatchOnTheWay, AnalyzesCommitted
<1> QED
  BY <1>1, DeliveryInit, DeliveryStep, PTL DEF Spec

\* Queue and batch together stay within the two constants.
THEOREM BacklogBounded == Spec => []BacklogBound
<1>1. DeliveryInv => BacklogBound
  BY SizeAssumption, LenProperties DEF DeliveryInv, IInv, TypeOK, Bounded, BacklogBound
<1> QED
  BY <1>1, DeliveryInit, DeliveryStep, PTL DEF Spec

-----------------------------------------------------------------------------
(* The pipeline as AuditLog sees it: the table and what is on its way to it *)

OnTheWay == txn \o todo \o queue

LEMMA CancelLeft == \A s, t, v \in Seq(Event) : s \o t = s \o v => t = v
  BY ConcatSimplifications

LEMMA TableFirst ==
    TypeOK => OnTheWay \in Seq(Event) /\ Pipeline = nas_events \o OnTheWay
<1> SUFFICES ASSUME TypeOK
             PROVE  OnTheWay \in Seq(Event) /\ Pipeline = nas_events \o OnTheWay
  OBVIOUS
<1>1. /\ nas_events \in Seq(Event) /\ txn \in Seq(Event)
      /\ todo \in Seq(Event) /\ queue \in Seq(Event)
  BY DEF TypeOK
<1>2. txn \o todo \in Seq(Event) /\ OnTheWay \in Seq(Event)
  BY <1>1, ConcatProperties DEF OnTheWay
<1>3. (nas_events \o txn) \o todo = nas_events \o (txn \o todo)
  BY <1>1, Assoc
<1>4. (nas_events \o (txn \o todo)) \o queue = nas_events \o ((txn \o todo) \o queue)
  <2>1. Moves(nas_events, txn \o todo, queue)
    BY <1>1, <1>2, AssocFolded, Zenon
  <2> QED
    BY <2>1 DEF Moves
<1> QED
  BY <1>2, <1>3, <1>4 DEF Pipeline, OnTheWay

\* Rows are stored in the order, and with the timestamps, of their threads.
THEOREM ThreadsInOrder == Spec => []ThreadOrder
<1>1. DeliveryInv => ThreadOrder
  <2> SUFFICES ASSUME DeliveryInv PROVE ThreadOrder
    OBVIOUS
  <2>1. TypeOK /\ InOrder(Pipeline) /\ nas_events \in Seq(Event)
    BY DEF DeliveryInv, IInv, Stamped, TypeOK
  <2>2. OnTheWay \in Seq(Event) /\ InOrder(nas_events \o OnTheWay)
    BY <2>1, TableFirst
  <2>3. InOrder(nas_events)
    BY <2>1, <2>2, Front
  <2> QED
    BY <2>3 DEF InOrder, ThreadOrder
<1> QED
  BY <1>1, DeliveryInit, DeliveryStep, PTL DEF Spec

-----------------------------------------------------------------------------
(* Each step is a step of AuditLog, or none *)

LEMMA NumbersConcat ==
    ASSUME NEW s \in Seq(Event), NEW t \in Seq(Event)
    PROVE  /\ Numbers(s) \in Seq(Nat) /\ Len(Numbers(s)) = Len(s)
           /\ Numbers(s \o t) = Numbers(s) \o Numbers(t)
<1>1. ASSUME NEW x \in Seq(Event)
      PROVE  /\ Numbers(x) \in Seq(Nat) /\ Len(Numbers(x)) = Len(x)
             /\ \A i \in 1..Len(x) : Numbers(x)[i] = x[i].seq
  <2>1. Len(x) \in Nat
    BY LenProperties
  <2>2. \A i \in 1..Len(x) : x[i].seq \in Nat
    <3>1. \A i \in 1..Len(x) : x[i] \in Event
      BY ElementOfSeq
    <3> QED
      BY <3>1 DEF Event
  <2>3. Numbers(x) \in [1..Len(x) -> Nat]
    BY <2>2 DEF Numbers
  <2>4. Numbers(x) \in Seq(Nat)
    BY <2>1, <2>3, SeqDef
  <2>5. DOMAIN Numbers(x) = 1..Len(Numbers(x)) /\ Len(Numbers(x)) \in Nat
    BY <2>4, LenProperties
  <2>6. Len(Numbers(x)) = Len(x)
    BY <2>1, <2>3, <2>5
  <2> QED
    BY <2>4, <2>6 DEF Numbers
<1>2. /\ s \o t \in Seq(Event) /\ Len(s) \in Nat /\ Len(t) \in Nat
      /\ Len(s \o t) = Len(s) + Len(t)
      /\ \A i \in 1..Len(s) + Len(t) :
            (s \o t)[i] = IF i <= Len(s) THEN s[i] ELSE t[i - Len(s)]
  BY ConcatProperties, LenProperties
<1>3. /\ Numbers(s) \in Seq(Nat) /\ Len(Numbers(s)) = Len(s)
      /\ Numbers(t) \in Seq(Nat) /\ Len(Numbers(t)) = Len(t)
      /\ Numbers(s \o t) \in Seq(Nat) /\ Len(Numbers(s \o t)) = Len(s) + Len(t)
  BY <1>1, <1>2
<1>4. /\ Numbers(s) \o Numbers(t) \in Seq(Nat)
      /\ Len(Numbers(s) \o Numbers(t)) = Len(s) + Len(t)
      /\ \A i \in 1..Len(s) + Len(t) :
            (Numbers(s) \o Numbers(t))[i]
              = IF i <= Len(s) THEN Numbers(s)[i] ELSE Numbers(t)[i - Len(s)]
  BY <1>3, ConcatProperties
<1>5. ASSUME NEW i \in 1..Len(s) + Len(t)
      PROVE  Numbers(s \o t)[i] = (Numbers(s) \o Numbers(t))[i]
  <2>1. Numbers(s \o t)[i] = (s \o t)[i].seq
    BY <1>1, <1>2
  <2>2. CASE i <= Len(s)
    <3>1. i \in 1..Len(s)
      BY <1>2, <2>2
    <3> QED
      BY <1>1, <1>2, <1>4, <2>1, <2>2, <3>1
  <2>3. CASE ~(i <= Len(s))
    <3>1. i - Len(s) \in 1..Len(t)
      BY <1>2, <2>3
    <3>2. Numbers(t)[i - Len(s)] = t[i - Len(s)].seq
      BY <1>1, <3>1
    <3> QED
      BY <1>2, <1>4, <2>1, <2>3, <3>2
  <2> QED
    BY <2>2, <2>3
<1>6. Numbers(s \o t) = Numbers(s) \o Numbers(t)
  BY <1>3, <1>4, <1>5, SeqEqual
<1> QED
  BY <1>3, <1>6

LEMMA NumbersAssoc == \A a, b, c \in Seq(Nat) : Moves(a, b, c)
<1>1. \A a, b, c \in Seq(Nat) : (a \o b) \o c = a \o (b \o c)
  BY ConcatAssociative
<1> QED
  BY <1>1 DEF Moves

\* The two parts of a concatenation, as SubSeq finds them.
LEMMA PartsOfConcat ==
    ASSUME NEW s \in Seq(Nat), NEW t \in Seq(Nat)
    PROVE  /\ Len(s \o t) = Len(s) + Len(t)
           /\ SubSeq(s \o t, 1, Len(s)) = s
           /\ SubSeq(s \o t, Len(s) + 1, Len(s \o t)) = t
<1>1. /\ s \o t \in Seq(Nat) /\ Len(s) \in Nat /\ Len(t) \in Nat
      /\ Len(s \o t) = Len(s) + Len(t)
      /\ \A i \in 1..Len(s) + Len(t) :
            (s \o t)[i] = IF i <= Len(s) THEN s[i] ELSE t[i - Len(s)]
      /\ \A i \in 1..Len(s) + Len(t) : (s \o t)[i] \in Nat
  <2>1. s \o t \in Seq(Nat) /\ Len(s \o t) = Len(s) + Len(t)
    BY ConcatProperties
  <2>2. \A i \in 1..Len(s \o t) : (s \o t)[i] \in Nat
    BY <2>1, ElementOfSeq
  <2> QED
    BY <2>1, <2>2, ConcatProperties, LenProperties
<1>2. SubSeq(s \o t, 1, Len(s)) = s
  <2> DEFINE x == SubSeq(s \o t, 1, Len(s))
  <2>1. \A i \in 1..Len(s) : (s \o t)[i] \in Nat
    BY <1>1
  <2>2. /\ x \in Seq(Nat) /\ Len(x) = IF 1 <= Len(s) THEN Len(s) - 1 + 1 ELSE 0
        /\ \A i \in 1..Len(s) - 1 + 1 : x[i] = (s \o t)[1 + i - 1]
    BY <1>1, <2>1, SubSeqProperties
  <2> HIDE DEF x
  <2>3. Len(x) = Len(s) /\ \A i \in 1..Len(x) : x[i] = s[i]
    BY <1>1, <2>2
  <2>4. x = s
    BY <2>2, <2>3, SeqEqual
  <2> QED
    BY <2>4 DEF x
<1>3. SubSeq(s \o t, Len(s) + 1, Len(s \o t)) = t
  <2> DEFINE x == SubSeq(s \o t, Len(s) + 1, Len(s) + Len(t))
  <2>1. \A i \in Len(s) + 1..Len(s) + Len(t) : (s \o t)[i] \in Nat
    BY <1>1
  <2>2. /\ x \in Seq(Nat)
        /\ Len(x) = IF Len(s) + 1 <= Len(s) + Len(t)
                       THEN Len(s) + Len(t) - (Len(s) + 1) + 1 ELSE 0
        /\ \A i \in 1..Len(s) + Len(t) - (Len(s) + 1) + 1 :
              x[i] = (s \o t)[Len(s) + 1 + i - 1]
    BY <1>1, <2>1, SubSeqProperties
  <2> HIDE DEF x
  <2>3. Len(x) = Len(t)
    BY <1>1, <2>2
  <2>4. ASSUME NEW i \in 1..Len(x) PROVE x[i] = t[i]
    <3>1. i \in 1..Len(s) + Len(t) - (Len(s) + 1) + 1
      BY <1>1, <2>3
    <3>2. /\ Len(s) + 1 + i - 1 = Len(s) + i
          /\ Len(s) + i \in 1..Len(s) + Len(t) /\ ~(Len(s) + i <= Len(s))
          /\ Len(s) + i - Len(s) = i
      BY <1>1, <2>3
    <3>3. x[i] = (s \o t)[Len(s) + i]
      BY <2>2, <3>1, <3>2
    <3>4. (s \o t)[Len(s) + i]
            = IF Len(s) + i <= Len(s) THEN s[Len(s) + i] ELSE t[Len(s) + i - Len(s)]
      BY <3>2, ConcatProperties
    <3>5. (s \o t)[Len(s) + i] = t[i]
      BY <3>2, <3>4
    <3> QED
      BY <3>3, <3>5
  <2>5. x = t
    BY <2>2, <2>3, <2>4, SeqEqual
  <2> QED
    BY <1>1, <2>5 DEF x
<1> QED
  BY <1>1, <1>2, <1>3

\* A step that leaves the pipeline as it is moves its boundary, if anything.
LEMMA StoreStep ==
    ASSUME TypeOK, TypeOK', Kept, NEW new \in Seq(Event), nas_events' = nas_events \o new
    PROVE  [Log!Next]_(Log!vars)
<1>1. /\ OnTheWay \in Seq(Event) /\ OnTheWay' \in Seq(Event) /\ nas_events \in Seq(Event)
      /\ Pipeline = nas_events \o OnTheWay /\ Pipeline' = nas_events' \o OnTheWay'
  <2>1. (OnTheWay \in Seq(Event) /\ Pipeline = nas_events \o OnTheWay)'
    BY TableFirst, PTL
  <2> QED
    BY <2>1, TableFirst DEF TypeOK
<1>2. OnTheWay = new \o OnTheWay'
  <2>1. nas_events \o OnTheWay = (nas_events \o new) \o OnTheWay'
    BY <1>1 DEF Kept
  <2>2. (nas_events \o new) \o OnTheWay' = nas_events \o (new \o OnTheWay')
    BY <1>1, ConcatAssociative
  <2>3. new \o OnTheWay' \in Seq(Event)
    BY <1>1, ConcatProperties
  <2> QED
    BY <1>1, <2>1, <2>2, <2>3, CancelLeft
<1>3. /\ Numbers(nas_events)' = Numbers(nas_events) \o Numbers(new)
      /\ Numbers(OnTheWay) = Numbers(new) \o Numbers(OnTheWay')
      /\ Numbers(new) \in Seq(Nat) /\ Numbers(OnTheWay') \in Seq(Nat)
      /\ Numbers(nas_events) \in Seq(Nat)
  <2>1. Numbers(nas_events)' = Numbers(nas_events \o new)
    BY DEF Numbers
  <2>2. Numbers(OnTheWay) = Numbers(new \o OnTheWay')
    BY <1>2
  <2> QED
    BY <1>1, <2>1, <2>2, NumbersConcat
<1>4. Numbers(OnTheWay)' = Numbers(OnTheWay')
  BY DEF Numbers
<1>5. accepted' = accepted
  BY DEF Kept
<1> DEFINE n == Len(Numbers(new))
<1>6. /\ n \in Nat /\ Len(Numbers(OnTheWay)) = n + Len(Numbers(OnTheWay'))
      /\ Len(Numbers(OnTheWay')) \in Nat
      /\ SubSeq(Numbers(OnTheWay), 1, n) = Numbers(new)
      /\ SubSeq(Numbers(OnTheWay), n + 1, Len(Numbers(OnTheWay))) = Numbers(OnTheWay')
  BY <1>3, PartsOfConcat, LenProperties
<1>7. Log!Store(n)
  BY <1>3, <1>4, <1>5, <1>6 DEF Log!Store, OnTheWay
<1>8. CASE n = 0
  <2>1. Numbers(new) = <<>>
    BY <1>3, <1>8, EmptySeq
  <2>2. Numbers(nas_events)' = Numbers(nas_events) /\ Numbers(OnTheWay') = Numbers(OnTheWay)
    BY <1>3, <2>1, ConcatEmptySeq
  <2> QED
    BY <1>4, <1>5, <2>2 DEF Log!vars, OnTheWay
<1>9. CASE n # 0
  <2>1. n \in 1..Len(Numbers(OnTheWay))
    BY <1>6, <1>9
  <2> QED
    BY <1>7, <2>1 DEF Log!Next, Log!Decide, OnTheWay
<1> QED
  BY <1>8, <1>9

\* An enqueue that finds room is Accept.
LEMMA AcceptStep ==
    ASSUME TypeOK, TypeOK', Grown, nas_events' = nas_events
    PROVE  Log!Accept
<1>1. /\ OnTheWay \in Seq(Event) /\ OnTheWay' \in Seq(Event) /\ nas_events \in Seq(Event)
      /\ Pipeline = nas_events \o OnTheWay /\ Pipeline' = nas_events \o OnTheWay'
  <2>1. (OnTheWay \in Seq(Event) /\ Pipeline = nas_events \o OnTheWay)'
    BY TableFirst, PTL
  <2> QED
    BY <2>1, TableFirst DEF TypeOK
<1>2. PICK e \in Event : /\ Pipeline' = Pipeline \o <<e>> /\ e.seq = accepted + 1
                         /\ accepted' = accepted + 1
  BY DEF Grown
<1>3. <<e>> \in Seq(Event) /\ accepted \in Nat
  BY DEF TypeOK
<1>4. OnTheWay' = OnTheWay \o <<e>>
  <2>1. nas_events \o OnTheWay' = (nas_events \o OnTheWay) \o <<e>>
    BY <1>1, <1>2
  <2>2. (nas_events \o OnTheWay) \o <<e>> = nas_events \o (OnTheWay \o <<e>>)
    BY <1>1, <1>3, ConcatAssociative
  <2>3. OnTheWay \o <<e>> \in Seq(Event)
    BY <1>1, <1>3, ConcatProperties
  <2> QED
    BY <1>1, <2>1, <2>2, <2>3, CancelLeft
<1>5. Numbers(<<e>>) = <<accepted + 1>>
  <2>1. Len(<<e>>) = 1 /\ <<e>>[1] = e
    OBVIOUS
  <2>2. Numbers(<<e>>) = [i \in 1..1 |-> accepted + 1]
    BY <1>2, <2>1 DEF Numbers
  <2> QED
    BY <2>2
<1>6. Numbers(OnTheWay') = Append(Numbers(OnTheWay), accepted + 1)
  <2>1. Numbers(OnTheWay \o <<e>>) = Numbers(OnTheWay) \o <<accepted + 1>>
    BY <1>1, <1>3, <1>5, NumbersConcat
  <2>2. Numbers(OnTheWay) \in Seq(Nat) /\ accepted + 1 \in Nat
    BY <1>1, <1>3, NumbersConcat
  <2>3. Append(Numbers(OnTheWay), accepted + 1) = Numbers(OnTheWay) \o <<accepted + 1>>
    BY <2>2, AppendIsConcat
  <2> QED
    BY <1>4, <2>1, <2>3
<1>7. Numbers(OnTheWay)' = Numbers(OnTheWay') /\ Numbers(nas_events)' = Numbers(nas_events)
  BY DEF Numbers
<1> QED
  BY <1>2, <1>6, <1>7 DEF Log!Accept, OnTheWay

\* A rollback or a refused statement gives up a segment of what is on its way.
LEMMA GiveUpStep ==
    ASSUME TypeOK, TypeOK', Shrunk
    PROVE  [Log!Next]_(Log!vars)
<1>1. /\ OnTheWay \in Seq(Event) /\ OnTheWay' \in Seq(Event) /\ nas_events \in Seq(Event)
      /\ Pipeline = nas_events \o OnTheWay /\ Pipeline' = nas_events' \o OnTheWay'
  <2>1. (OnTheWay \in Seq(Event) /\ Pipeline = nas_events \o OnTheWay)'
    BY TableFirst, PTL
  <2> QED
    BY <2>1, TableFirst DEF TypeOK
<1>2. PICK s \in Seq(Event), t \in Seq(Event), u \in Seq(Event) :
         /\ Pipeline = (nas_events \o s) \o (t \o u) /\ Pipeline' = (nas_events \o s) \o u
         /\ nas_events' = nas_events /\ accepted' = accepted
  BY DEF Shrunk
<1>3. t \o u \in Seq(Event) /\ s \o (t \o u) \in Seq(Event) /\ s \o u \in Seq(Event)
  BY ConcatProperties
<1>4. OnTheWay = s \o (t \o u) /\ OnTheWay' = s \o u
  <2>1. /\ (nas_events \o s) \o (t \o u) = nas_events \o (s \o (t \o u))
        /\ (nas_events \o s) \o u = nas_events \o (s \o u)
    <3>1. Moves(nas_events, s, t \o u) /\ Moves(nas_events, s, u)
      BY <1>1, <1>3, AssocFolded, Zenon
    <3> QED
      BY <3>1 DEF Moves
  <2>2. /\ nas_events \o OnTheWay = nas_events \o (s \o (t \o u))
        /\ nas_events \o OnTheWay' = nas_events \o (s \o u)
    BY <1>1, <1>2, <2>1
  <2> QED
    BY <1>1, <1>3, <2>2, CancelLeft
<1> DEFINE a == Numbers(s)
           b == Numbers(t)
           c == Numbers(u)
<1>5. /\ a \in Seq(Nat) /\ b \in Seq(Nat) /\ c \in Seq(Nat)
      /\ Numbers(OnTheWay) = a \o (b \o c) /\ Numbers(OnTheWay') = a \o c
  BY <1>3, <1>4, NumbersConcat
<1>6. /\ Numbers(OnTheWay)' = Numbers(OnTheWay') /\ Numbers(nas_events)' = Numbers(nas_events)
      /\ accepted' = accepted
  BY <1>2 DEF Numbers
<1> HIDE DEF a, b, c
<1>7. /\ Len(a) \in Nat /\ Len(b) \in Nat /\ Len(c) \in Nat
      /\ a \o b \in Seq(Nat) /\ b \o c \in Seq(Nat)
      /\ Len(a \o b) = Len(a) + Len(b) /\ Len(b \o c) = Len(b) + Len(c)
      /\ a \o (b \o c) = (a \o b) \o c
  <2>1. /\ Len(a) \in Nat /\ Len(b) \in Nat /\ Len(c) \in Nat
        /\ a \o b \in Seq(Nat) /\ b \o c \in Seq(Nat)
        /\ Len(a \o b) = Len(a) + Len(b) /\ Len(b \o c) = Len(b) + Len(c)
    BY <1>5, ConcatProperties, LenProperties
  <2>2. Moves(a, b, c)
    BY <1>5, NumbersAssoc, Zenon
  <2> QED
    BY <2>1, <2>2 DEF Moves
<1> DEFINE m == Len(a) + 1
           n == Len(a) + Len(b)
<1>8. CASE b = <<>>
  <2>1. b \o c = c
    BY <1>5, <1>8, ConcatEmptySeq
  <2>2. Numbers(OnTheWay') = Numbers(OnTheWay)
    BY <1>5, <2>1
  <2> QED
    BY <1>6, <2>2 DEF Log!vars, OnTheWay
<1>9. CASE b # <<>>
  <2>1. Len(b) \in Nat \ {0}
    BY <1>5, <1>9, EmptySeq
  <2>2. Len(Numbers(OnTheWay)) = Len(a) + Len(b) + Len(c)
    BY <1>5, <1>7, PartsOfConcat
  <2>3. n \in 1..Len(Numbers(OnTheWay)) /\ m \in 1..n
    BY <1>7, <2>1, <2>2
  <2>4. SubSeq(Numbers(OnTheWay), 1, m - 1) = a
    <3>1. m - 1 = Len(a)
      BY <1>7
    <3> QED
      BY <1>5, <1>7, <3>1, PartsOfConcat
  <2>5. SubSeq(Numbers(OnTheWay), n + 1, Len(Numbers(OnTheWay))) = c
    BY <1>5, <1>7, PartsOfConcat
  <2>6. Log!GiveUp(m, n)
    BY <1>5, <1>6, <2>4, <2>5 DEF Log!GiveUp, OnTheWay
  <2> QED
    BY <2>3, <2>6 DEF Log!Next, Log!Decide, OnTheWay
<1> QED
  BY <1>8, <1>9

\* The pipeline implements AuditLog: what is on its way moves to the end of the
\* log from the front, in the order of acceptance, or is given up; the log only
\* grows.  (That nothing stays undecided is the fairness part of
\* ImplementsAuditLog.)
THEOREM RefinesAuditLog == Spec => Log!Spec
<1>1. Init => Log!Init
  <2> SUFFICES ASSUME Init PROVE Log!Init
    OBVIOUS
  <2>1. Numbers(<<>>) = <<>>
    <3>1. <<>> \in Seq(Event) /\ Len(<<>>) = 0
      BY EmptySeq
    <3>2. Numbers(<<>>) \in Seq(Nat) /\ Len(Numbers(<<>>)) = 0
      BY <3>1, NumbersConcat
    <3> QED
      BY <3>2, EmptySeq
  <2>2. OnTheWay = <<>>
    BY EmptySeq, ConcatEmptySeq DEF Init, OnTheWay
  <2> QED
    BY <2>1, <2>2 DEF Init, Log!Init, OnTheWay
<1>2. IInv /\ [Next]_vars => [Log!Next]_(Log!vars)
  <2> SUFFICES ASSUME IInv, [Next]_vars PROVE [Log!Next]_(Log!vars)
    OBVIOUS
  <2>1. TypeOK /\ TypeOK'
    BY TypeStep DEF IInv
  <2>2. CASE Kept
    BY <2>1, <2>2, RowsAdded, StoreStep
  <2>3. CASE Shrunk
    BY <2>1, <2>3, GiveUpStep
  <2>4. CASE Grown /\ nas_events' = nas_events
    BY <2>1, <2>4, AcceptStep DEF Log!Next
  <2> QED
    BY <2>1, <2>2, <2>3, <2>4, PipelineStep, EnqueuePipeline
<1> QED
  BY <1>1, <1>2, IInvInit, IInvStep, PTL DEF Spec, Log!Spec
=============================================================================
