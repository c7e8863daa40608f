------------------------- MODULE EventWriterProofs -------------------------
(* Proofs about EventWriter, for every size of the queue and of the batches, *)
(* every set of threads and every combination of faults and crashes.         *)
EXTENDS EventWriter, SequenceTheorems, TLAPS

-----------------------------------------------------------------------------
(* Sequences of events *)

\* A prefix and the rest of a sequence are sequences, and put together give it.
LEMMA SplitSeq ==
    ASSUME NEW S, NEW s \in Seq(S), NEW n \in 0..Len(s)
    PROVE  /\ SubSeq(s, 1, n) \in Seq(S)
           /\ SubSeq(s, n + 1, Len(s)) \in Seq(S)
           /\ SubSeq(s, 1, n) \o SubSeq(s, n + 1, Len(s)) = s
<1>1. Len(s) \in Nat /\ \A i \in 1..Len(s) : s[i] \in S
  BY ElementOfSeq, LenProperties
<1>2. SubSeq(s, 1, n) \in Seq(S)
  BY <1>1, SubSeqProperties
<1>3. SubSeq(s, n + 1, Len(s)) \in Seq(S)
  BY <1>1, SubSeqProperties
<1>4. SubSeq(s, 1, n) \o SubSeq(s, n + 1, Len(s)) = SubSeq(s, 1, Len(s))
  <2>1. 1 \in 1..Len(s)+1 /\ n \in 1-1..Len(s) /\ Len(s) \in n..Len(s)
    BY <1>1
  <2> QED
    BY <2>1, ConcatAdjacentSubSeq, Zenon
<1> QED
  BY <1>2, <1>3, <1>4, SubSeqFull

\* The drains take no more than what is queued.
LEMMA BatchLenBound ==
    ASSUME queue \in Seq(Event)
    PROVE  BatchLen \in 0..Len(queue) /\ FinalLen \in 0..Len(queue)
  BY SizeAssumption, LenProperties DEF BatchLen, FinalLen

-----------------------------------------------------------------------------
(* Types *)

LEMMA SeqsType == ASSUME NEW s \in Seq(Event) PROVE Seqs(s) \subseteq Nat
<1> SUFFICES ASSUME NEW i \in 1..Len(s) PROVE s[i].seq \in Nat
  BY DEF Seqs
<1>1. s[i] \in Event
  BY ElementOfSeq
<1> QED
  BY <1>1 DEF Event

LEMMA TakeType ==
    ASSUME TypeOK, NEW n \in 0..Len(queue), NEW p \in Resting, Take(n, p)
    PROVE  /\ batch' \in Seq(Event) /\ todo' \in Seq(Event) /\ queue' \in Seq(Event)
           /\ pc' \in Flushing \cup Resting \cup {"none"}
  BY SplitSeq DEF TypeOK, Take, LeftAfter, Flushing

LEMMA RollBackType ==
    ASSUME TypeOK, NEW g \in SUBSET Nat, RollBack(g)
    PROVE  /\ inTxn' \in BOOLEAN /\ txn' \in Seq(Event)
           /\ nas_events' \in Seq(Event) /\ lost' \subseteq Nat
  BY SeqsType, EmptySeq DEF TypeOK, RollBack

LEMMA TypeStep == TypeOK /\ [Next]_vars => TypeOK'
<1> SUFFICES ASSUME TypeOK, [Next]_vars PROVE TypeOK'
  OBVIOUS
<1> USE DEF TypeOK
<1>1. CASE Tick
  BY <1>1 DEF Tick, queueVars, writerVars, sqliteVars, processVars
<1>2. ASSUME NEW t \in Threads, Emit(t) PROVE TypeOK'
  BY <1>2 DEF Emit, queueVars, writerVars, sqliteVars, processVars
<1>3. ASSUME NEW t \in Threads, Enqueue(t) PROVE TypeOK'
  <2>1. inHand[t] \in Nat /\ InHand(t) \in Event
    BY <1>3 DEF Enqueue, InHand, Event
  <2>2. Push(InHand(t)) \in Seq(Event)
    BY <2>1, AppendProperties DEF Push
  <2>3. late' \subseteq Nat /\ accepted' \in Nat /\ dropped' \in Nat
    <3>1. accepted + 1 \in Nat /\ dropped + 1 \in Nat
      OBVIOUS
    <3> QED
      BY <1>3, <3>1 DEF Enqueue
  <2>4. queue' \in Seq(Event) /\ inHand' \in [Threads -> Nat \cup {NoStamp}]
    BY <1>3, <2>2 DEF Enqueue
  <2>5. pc' \in Flushing \cup Resting \cup {"none"}
    BY <1>3 DEF Enqueue, Notified, Resting
  <2> QED
    BY <1>3, <2>3, <2>4, <2>5 DEF Enqueue, sqliteVars, processVars
<1>4. CASE Idle
  BY <1>4 DEF Idle, Resting, emitVars, queueVars, sqliteVars, processVars
<1>5. CASE Drain
  BY <1>5, BatchLenBound, TakeType DEF Drain, Take, Resting, emitVars, sqliteVars, processVars
<1>6. CASE Timeout
  BY <1>6, BatchLenBound, TakeType DEF Timeout, Take, Resting, emitVars, sqliteVars, processVars
<1>7. CASE FinalDrain
  BY <1>7, BatchLenBound, TakeType DEF FinalDrain, Take, Resting, emitVars, sqliteVars, processVars
<1>8. CASE Begin
  BY <1>8 DEF Begin, Flushing, emitVars, queueVars, processVars
<1>9. CASE Prepare
  BY <1>9, RollBackType, SeqsType, EmptySeq
  DEF Prepare, EndFlush, Flushing, Resting, emitVars, queueVars, sqliteVars, processVars
<1>10. CASE Insert
  <2>1. Head(todo) \in Event /\ Tail(todo) \in Seq(Event) /\ Head(todo).seq \in Nat
    <3>1. Head(todo) \in Event /\ Tail(todo) \in Seq(Event)
      BY <1>10, HeadTailProperties DEF Insert
    <3> QED
      BY <3>1 DEF Event
  <2>2. inTxn' \in BOOLEAN /\ txn' \in Seq(Event) /\ nas_events' \in Seq(Event) /\ lost' \subseteq Nat
    <3>1. Append(txn, Head(todo)) \in Seq(Event) /\ Append(nas_events, Head(todo)) \in Seq(Event)
      BY <2>1, AppendProperties
    <3>2. {Head(todo).seq} \in SUBSET Nat
      BY <2>1
    <3> QED
      BY <1>10, <3>1, <3>2, RollBackType DEF Insert
  <2> QED
    BY <1>10, <2>1, <2>2 DEF Insert, emitVars, queueVars, processVars
<1>11. CASE Commit
  <2>1. inTxn' \in BOOLEAN /\ txn' \in Seq(Event) /\ nas_events' \in Seq(Event) /\ lost' \subseteq Nat
    <3>1. nas_events \o txn \in Seq(Event) /\ <<>> \in Seq(Event)
      BY ConcatProperties, EmptySeq
    <3> QED
      BY <1>11, <3>1, RollBackType DEF Commit, CommitOutcome, sqliteVars
  <2> QED
    BY <1>11, <2>1 DEF Commit, Flushing, emitVars, queueVars, processVars
<1>12. CASE Analyze
  BY <1>12, SeqsType, EmptySeq
  DEF Analyze, EndFlush, Flushing, Resting, emitVars, queueVars, sqliteVars, processVars
<1>13. CASE Signal \/ CloseAnalyzer \/ CloseAlerts \/ StopRunning \/ NotifyWriter \/ Join
  <2>1. UNCHANGED <<emitVars, queueVars, batch, todo, finalFlush, sqliteVars, dbOpen,
                    starts, crashed>>
    BY <1>13 DEF Signal, CloseAnalyzer, CloseAlerts, StopRunning, NotifyWriter, Join, MainStep
  <2>2. mainPc' \in ShuttingDown
    BY <1>13 DEF Signal, CloseAnalyzer, CloseAlerts, StopRunning, NotifyWriter, Join, MainStep,
       ShuttingDown
  <2>3. pc' = pc \/ pc' = Notified
    BY <1>13 DEF Signal, CloseAnalyzer, CloseAlerts, StopRunning, NotifyWriter, Join
  <2>4. running' \in {running, FALSE} /\ analyzerOpen' \in {analyzerOpen, FALSE}
    BY <1>13 DEF Signal, CloseAnalyzer, CloseAlerts, StopRunning, NotifyWriter, Join
  <2>5. pc' \in Flushing \cup Resting \cup {"none"}
    BY <2>3 DEF Notified, Resting
  <2> QED
    BY <2>1, <2>2, <2>4, <2>5 DEF emitVars, queueVars, sqliteVars
<1>14. CASE CloseDb
  BY <1>14, RollBackType DEF CloseDb, MainStep, ShuttingDown, emitVars, queueVars
<1>15. CASE Exit \/ Crash
  BY <1>15, RollBackType, SeqsType, EmptySeq DEF Exit, Crash, ProcessGone
<1>16. CASE Restart
  BY <1>16 DEF Restart, MayFail, ThreadStart, TableAfterSchema, Resting, emitVars
<1>17. CASE UNCHANGED vars
  BY <1>17 DEF vars, emitVars, queueVars, writerVars, sqliteVars, processVars
<1> QED
  BY <1>1, <1>2, <1>3, <1>4, <1>5, <1>6, <1>7, <1>8, <1>9, <1>10, <1>11, <1>12,
     <1>13, <1>14, <1>15, <1>16, <1>17 DEF Next, Writer, Shutdown

LEMMA TypeInit == Init => TypeOK
<1> SUFFICES ASSUME Init PROVE TypeOK
  OBVIOUS
<1>1. dbOpen \in BOOLEAN /\ analyzerOpen \in BOOLEAN /\ running \in BOOLEAN
  BY Zenon DEF Init
<1>2. pc \in Resting \cup {"none"}
  BY DEF Init, ThreadStart, Resting
<1> QED
  BY <1>1, <1>2, EmptySeq DEF Init, TypeOK

\* Every variable keeps the type its comment gives it.
THEOREM TypeCorrect == Spec => []TypeOK
  BY TypeInit, TypeStep, PTL DEF Spec

-----------------------------------------------------------------------------
(* The pipeline as one sequence.  Every step leaves it as it is, takes a     *)
(* segment out of it or adds the next event at its end.                      *)

Increasing(s) == \A i, j \in 1..Len(s) : i < j => s[i].seq < s[j].seq

\* The events of a concatenation are those of its parts.
LEMMA SeqsConcat ==
    ASSUME NEW s \in Seq(Event), NEW t \in Seq(Event)
    PROVE  Seqs(s \o t) = Seqs(s) \cup Seqs(t)
<1>1. /\ Len(s) \in Nat /\ Len(t) \in Nat /\ Len(s \o t) = Len(s) + Len(t)
      /\ \A i \in 1..Len(s) + Len(t) :
            (s \o t)[i] = IF i <= Len(s) THEN s[i] ELSE t[i - Len(s)]
  BY ConcatProperties, LenProperties
<1>2. ASSUME NEW x \in Seqs(s \o t) PROVE x \in Seqs(s) \cup Seqs(t)
  <2>1. PICK i \in 1..Len(s) + Len(t) : x = (s \o t)[i].seq
    BY <1>1, <1>2 DEF Seqs
  <2>2. CASE i <= Len(s)
    BY <1>1, <2>1, <2>2 DEF Seqs
  <2>3. CASE ~(i <= Len(s))
    <3>1. i - Len(s) \in 1..Len(t) /\ x = t[i - Len(s)].seq
      BY <1>1, <2>1, <2>3
    <3> QED
      BY <3>1 DEF Seqs
  <2> QED
    BY <2>2, <2>3
<1>3. ASSUME NEW x \in Seqs(s) PROVE x \in Seqs(s \o t)
  <2>1. PICK i \in 1..Len(s) : x = s[i].seq
    BY <1>3 DEF Seqs
  <2>2. i \in 1..Len(s \o t) /\ x = (s \o t)[i].seq
    BY <1>1, <2>1
  <2> QED
    BY <2>2 DEF Seqs
<1>4. ASSUME NEW x \in Seqs(t) PROVE x \in Seqs(s \o t)
  <2>1. PICK i \in 1..Len(t) : x = t[i].seq
    BY <1>4 DEF Seqs
  <2>2. Len(s) + i \in 1..Len(s \o t) /\ x = (s \o t)[Len(s) + i].seq
    BY <1>1, <2>1
  <2> QED
    BY <2>2 DEF Seqs
<1> QED
  BY <1>2, <1>3, <1>4

\* A concatenation is increasing when its parts are and the first ends below
\* the beginning of the second.
LEMMA IncreasingConcat ==
    ASSUME NEW s \in Seq(Event), NEW t \in Seq(Event)
    PROVE  Increasing(s \o t) <=>
              /\ Increasing(s) /\ Increasing(t)
              /\ \A x \in Seqs(s), y \in Seqs(t) : x < y
<1>1. /\ Len(s) \in Nat /\ Len(t) \in Nat /\ Len(s \o t) = Len(s) + Len(t)
      /\ \A i \in 1..Len(s) + Len(t) :
            (s \o t)[i] = IF i <= Len(s) THEN s[i] ELSE t[i - Len(s)]
  BY ConcatProperties, LenProperties
<1>2. ASSUME Increasing(s \o t) PROVE Increasing(s)
  <2> SUFFICES ASSUME NEW i \in 1..Len(s), NEW j \in 1..Len(s), i < j
               PROVE  s[i].seq < s[j].seq
    BY DEF Increasing
  <2>1. i \in 1..Len(s \o t) /\ j \in 1..Len(s \o t) /\ (s \o t)[i] = s[i] /\ (s \o t)[j] = s[j]
    BY <1>1
  <2>2. (s \o t)[i].seq < (s \o t)[j].seq
    BY <1>2, <2>1 DEF Increasing
  <2> QED
    BY <2>1, <2>2
<1>3. ASSUME Increasing(s \o t) PROVE Increasing(t)
  <2> SUFFICES ASSUME NEW i \in 1..Len(t), NEW j \in 1..Len(t), i < j
               PROVE  t[i].seq < t[j].seq
    BY DEF Increasing
  <2>1. /\ Len(s) + i \in 1..Len(s \o t) /\ Len(s) + j \in 1..Len(s \o t)
        /\ Len(s) + i < Len(s) + j
        /\ (s \o t)[Len(s) + i] = t[i] /\ (s \o t)[Len(s) + j] = t[j]
    BY <1>1
  <2>2. (s \o t)[Len(s) + i].seq < (s \o t)[Len(s) + j].seq
    BY <1>3, <2>1 DEF Increasing
  <2> QED
    BY <2>1, <2>2
<1>4. ASSUME Increasing(s \o t), NEW x \in Seqs(s), NEW y \in Seqs(t) PROVE x < y
  <2>1. PICK i \in 1..Len(s) : x = s[i].seq
    BY DEF Seqs
  <2>2. PICK j \in 1..Len(t) : y = t[j].seq
    BY DEF Seqs
  <2>3. /\ i \in 1..Len(s \o t) /\ Len(s) + j \in 1..Len(s \o t) /\ i < Len(s) + j
        /\ (s \o t)[i] = s[i] /\ (s \o t)[Len(s) + j] = t[j]
    BY <1>1
  <2>4. (s \o t)[i].seq < (s \o t)[Len(s) + j].seq
    BY <1>4, <2>3 DEF Increasing
  <2> QED
    BY <2>1, <2>2, <2>3, <2>4
<1>5. ASSUME Increasing(s), Increasing(t), \A x \in Seqs(s), y \in Seqs(t) : x < y
      PROVE  Increasing(s \o t)
  <2> SUFFICES ASSUME NEW i \in 1..Len(s \o t), NEW j \in 1..Len(s \o t), i < j
               PROVE  (s \o t)[i].seq < (s \o t)[j].seq
    BY DEF Increasing
  <2>1. CASE j <= Len(s)
    <3>1. i \in 1..Len(s) /\ j \in 1..Len(s) /\ (s \o t)[i] = s[i] /\ (s \o t)[j] = s[j]
      BY <1>1, <2>1
    <3> QED
      BY <1>5, <3>1 DEF Increasing
  <2>2. CASE i <= Len(s) /\ ~(j <= Len(s))
    <3>1. /\ i \in 1..Len(s) /\ j - Len(s) \in 1..Len(t)
          /\ (s \o t)[i] = s[i] /\ (s \o t)[j] = t[j - Len(s)]
      BY <1>1, <2>2
    <3>2. s[i].seq \in Seqs(s) /\ t[j - Len(s)].seq \in Seqs(t)
      BY <3>1 DEF Seqs
    <3> QED
      BY <1>5, <3>1, <3>2
  <2>3. CASE ~(i <= Len(s))
    <3>1. /\ i - Len(s) \in 1..Len(t) /\ j - Len(s) \in 1..Len(t)
          /\ i - Len(s) < j - Len(s)
          /\ (s \o t)[i] = t[i - Len(s)] /\ (s \o t)[j] = t[j - Len(s)]
      BY <1>1, <2>3
    <3> QED
      BY <1>5, <3>1 DEF Increasing
  <2> QED
    BY <1>1, <2>1, <2>2, <2>3
<1> QED
  BY <1>2, <1>3, <1>4, <1>5

\* What a step does to the pipeline; it is never cut before the end of the table.
Kept    == Pipeline' = Pipeline /\ lost' = lost /\ accepted' = accepted
Grown   == \E e \in Event :
              /\ Pipeline' = Pipeline \o <<e>> /\ e.seq = accepted + 1
              /\ lost' = lost /\ accepted' = accepted + 1
Shrunk  == \E s, t, u \in Seq(Event) :
              /\ Pipeline = (nas_events \o s) \o (t \o u) /\ Pipeline' = (nas_events \o s) \o u
              /\ nas_events' = nas_events
              /\ lost' = lost \cup Seqs(t) /\ accepted' = accepted

LEMMA PipelineType == TypeOK => Pipeline \in Seq(Event)
  BY ConcatProperties DEF TypeOK, Pipeline

LEMMA KeptOrder == AcceptanceOrder /\ ExactlyOnce /\ Kept => AcceptanceOrder' /\ ExactlyOnce'
<1> SUFFICES ASSUME AcceptanceOrder, ExactlyOnce, Kept PROVE AcceptanceOrder' /\ ExactlyOnce'
  OBVIOUS
<1>1. Pipeline' = Pipeline /\ lost' = lost /\ accepted' = accepted
  BY DEF Kept
<1>2. Seqs(Pipeline)' = Seqs(Pipeline)
  BY <1>1 DEF Seqs
<1>3. AcceptanceOrder'
  BY <1>1 DEF AcceptanceOrder
<1> QED
  BY <1>1, <1>2, <1>3 DEF ExactlyOnce

LEMMA GrownOrder ==
    ASSUME TypeOK, AcceptanceOrder, ExactlyOnce, Grown
    PROVE  AcceptanceOrder' /\ ExactlyOnce'
<1>1. PICK e \in Event : /\ Pipeline' = Pipeline \o <<e>> /\ e.seq = accepted + 1
                         /\ lost' = lost /\ accepted' = accepted + 1
  BY DEF Grown
<1>2. Pipeline \in Seq(Event) /\ <<e>> \in Seq(Event) /\ accepted \in Nat
  BY PipelineType DEF TypeOK
<1>3. Seqs(<<e>>) = {accepted + 1} /\ Increasing(<<e>>)
  <2>1. Len(<<e>>) = 1 /\ <<e>>[1] = e
    OBVIOUS
  <2> QED
    BY <1>1, <2>1 DEF Seqs, Increasing
<1>4. Seqs(Pipeline) \subseteq 1..accepted /\ lost \subseteq 1..accepted
  BY DEF ExactlyOnce
<1>5. Increasing(Pipeline) /\ \A x \in Seqs(Pipeline), y \in Seqs(<<e>>) : x < y
  BY <1>2, <1>3, <1>4 DEF AcceptanceOrder, Increasing
<1>6. Increasing(Pipeline \o <<e>>)
  BY <1>2, <1>3, <1>5, IncreasingConcat
<1>7. Seqs(Pipeline \o <<e>>) = Seqs(Pipeline) \cup {accepted + 1}
  BY <1>2, <1>3, SeqsConcat
<1>8. AcceptanceOrder'
  BY <1>1, <1>6 DEF AcceptanceOrder, Increasing
<1>9. Seqs(Pipeline)' = Seqs(Pipeline) \cup {accepted + 1}
  BY <1>1, <1>7 DEF Seqs
<1>10. 1..accepted + 1 = 1..accepted \cup {accepted + 1} /\ accepted + 1 \notin 1..accepted
  BY <1>2
<1> QED
  BY <1>1, <1>4, <1>8, <1>9, <1>10 DEF ExactlyOnce

LEMMA ShrunkOrder ==
    ASSUME TypeOK, AcceptanceOrder, ExactlyOnce, Shrunk
    PROVE  AcceptanceOrder' /\ ExactlyOnce'
<1>1. PICK s \in Seq(Event), t \in Seq(Event), u \in Seq(Event) :
              /\ Pipeline = s \o (t \o u) /\ Pipeline' = s \o u
              /\ lost' = lost \cup Seqs(t) /\ accepted' = accepted
  <2>1. \A s \in Seq(Event) : nas_events \o s \in Seq(Event)
    BY ConcatProperties DEF TypeOK
  <2> QED
    BY <2>1 DEF Shrunk
<1>2. t \o u \in Seq(Event) /\ s \o u \in Seq(Event)
  BY ConcatProperties
<1>3. Increasing(s \o (t \o u))
  BY <1>1 DEF AcceptanceOrder, Increasing
<1>4. Increasing(s) /\ Increasing(t \o u) /\ \A x \in Seqs(s), y \in Seqs(t \o u) : x < y
  BY <1>2, <1>3, IncreasingConcat
<1>5. Increasing(u) /\ \A x \in Seqs(t), y \in Seqs(u) : x < y
  BY <1>4, IncreasingConcat
<1>6. /\ Seqs(t \o u) = Seqs(t) \cup Seqs(u)
      /\ Seqs(s \o u) = Seqs(s) \cup Seqs(u)
      /\ Seqs(Pipeline) = Seqs(s) \cup Seqs(t) \cup Seqs(u)
  <2>1. Seqs(t \o u) = Seqs(t) \cup Seqs(u) /\ Seqs(s \o u) = Seqs(s) \cup Seqs(u)
    BY SeqsConcat
  <2>2. Seqs(s \o (t \o u)) = Seqs(s) \cup Seqs(t \o u)
    BY <1>2, SeqsConcat
  <2>3. Seqs(Pipeline) = Seqs(s \o (t \o u))
    BY <1>1, Zenon
  <2> QED
    BY <2>1, <2>2, <2>3
<1>7. Increasing(s \o u)
  BY <1>4, <1>5, <1>6, IncreasingConcat
<1>8. Seqs(s) \subseteq Nat /\ Seqs(t) \subseteq Nat /\ Seqs(u) \subseteq Nat
  BY SeqsType
<1>9. Seqs(t) \cap (Seqs(s) \cup Seqs(u)) = {}
  <2>1. \A x, y \in Nat : x < y => x # y
    OBVIOUS
  <2> QED
    BY <1>4, <1>5, <1>6, <1>8, <2>1
<1>10. Seqs(Pipeline)' = Seqs(s) \cup Seqs(u)
  BY <1>1, <1>6 DEF Seqs
<1>11. AcceptanceOrder'
  BY <1>1, <1>7 DEF AcceptanceOrder, Increasing
<1>12. /\ Seqs(Pipeline) \cup lost = 1..accepted
       /\ Seqs(Pipeline) \cap lost = {}
  BY DEF ExactlyOnce
<1>13. Seqs(Pipeline)' \cup lost' = 1..accepted'
  BY <1>1, <1>6, <1>10, <1>12, Zenon
<1>14. Seqs(Pipeline)' \cap lost' = {}
  BY <1>1, <1>6, <1>9, <1>10, <1>12, Zenon
<1> QED
  BY <1>11, <1>13, <1>14 DEF ExactlyOnce

-----------------------------------------------------------------------------
(* The inductive invariant                                                   *)

\* Owned is not inductive: that the connection is still there when the writer
\* flushes follows from how far shutdown() has come, and that no event is left
\* out when a flush ends or a row is inserted from what is in todo and txn.
Stages ==
    /\ pc \notin {"none", "done"} => dbOpen /\ mainPc \notin {"close", "quit", "off"}
    /\ mainPc \in {"serve", "EventAnalyzer", "AlertWriter", "EventWriter"} =>
          (running <=> pc # "none")
    /\ pc \notin {"begin", "prepare", "insert"} => todo = <<>>
    /\ ~inTxn => txn = <<>>

IInv == TypeOK /\ Stages /\ AcceptanceOrder /\ ExactlyOnce

LEMMA KeptByParts ==
    ASSUME UNCHANGED <<nas_events, txn, todo, queue, lost, accepted>>
    PROVE  Kept
  BY DEF Kept, Pipeline

LEMMA Assoc ==
    \A a, b, c \in Seq(Event) : (a \o b) \o c = a \o (b \o c)
  BY ConcatAssociative

\* The same facts with the equation folded, which is how the provers find the
\* sequences to apply them to.
Moves(a, b, c) == (a \o b) \o c = a \o (b \o c)

LEMMA AssocFolded == \A a, b, c \in Seq(Event) : Moves(a, b, c)
  BY Assoc DEF Moves

\* The segment b \o g of a sequence of four parts.
InThree(a, b, g, r) == (a \o b) \o (g \o r) = a \o ((b \o g) \o r)

LEMMA Excise == \A a, b, g, r \in Seq(Event) : InThree(a, b, g, r)
<1> TAKE a, b, g, r \in Seq(Event)
<1>1. g \o r \in Seq(Event)
  BY ConcatProperties
<1>2. \A x \in Seq(Event) : (a \o b) \o x = a \o (b \o x)
  BY Assoc, Zenon
<1>3. (b \o g) \o r = b \o (g \o r)
  BY Assoc, Zenon
<1> QED
  BY <1>1, <1>2, <1>3, Zenon DEF InThree

LEMMA TakeKeeps ==
    ASSUME TypeOK, NEW n \in 0..Len(queue), NEW p, Take(n, p), todo = <<>>
    PROVE  Kept
<1>1. todo' = SubSeq(queue, 1, n) /\ queue' = SubSeq(queue, n + 1, Len(queue))
  BY DEF Take, LeftAfter
<1>2. todo' \in Seq(Event) /\ queue' \in Seq(Event)
  BY <1>1, SplitSeq DEF TypeOK
<1>7. todo' \o queue' = queue
  BY <1>1, SplitSeq DEF TypeOK
<1>3. nas_events \o txn \in Seq(Event)
  BY ConcatProperties DEF TypeOK
<1>4. ((nas_events \o txn) \o todo') \o queue' = (nas_events \o txn) \o queue
  <2>1. ((nas_events \o txn) \o todo') \o queue' = (nas_events \o txn) \o (todo' \o queue')
    BY <1>2, <1>3, Assoc, Zenon
  <2> QED
    BY <1>7, <2>1, Zenon
<1>5. (nas_events \o txn) \o todo = nas_events \o txn
  BY <1>3, ConcatEmptySeq
<1>6. UNCHANGED <<nas_events, txn, lost, accepted>>
  BY DEF Take, sqliteVars
<1> QED
  BY <1>4, <1>5, <1>6 DEF Kept, Pipeline

\* The pipeline in two halves: what SQLite holds and what the process holds.
LEMMA Halves ==
    ASSUME TypeOK
    PROVE  Pipeline = (nas_events \o txn) \o (todo \o queue)
<1>1. /\ nas_events \in Seq(Event) /\ txn \in Seq(Event)
      /\ todo \in Seq(Event) /\ queue \in Seq(Event)
  BY DEF TypeOK
<1>2. nas_events \o txn \in Seq(Event)
  BY <1>1, ConcatProperties
<1>3. ((nas_events \o txn) \o todo) \o queue = (nas_events \o txn) \o (todo \o queue)
  BY <1>1, <1>2, ConcatAssociative
<1> QED
  BY <1>3 DEF Pipeline

LEMMA HalvesNext ==
    ASSUME TypeOK'
    PROVE  Pipeline' = ((nas_events \o txn) \o (todo \o queue))'
<1>1. /\ nas_events' \in Seq(Event) /\ txn' \in Seq(Event)
      /\ todo' \in Seq(Event) /\ queue' \in Seq(Event)
  BY DEF TypeOK
<1>2. nas_events' \o txn' \in Seq(Event)
  BY <1>1, ConcatProperties
<1>3. ((nas_events' \o txn') \o todo') \o queue' = (nas_events' \o txn') \o (todo' \o queue')
  BY <1>1, <1>2, ConcatAssociative
<1> QED
  BY <1>3 DEF Pipeline

\* A rollback takes the open transaction and what follows it out of the pipeline.
LEMMA RollBackShrinks ==
    ASSUME TypeOK, TypeOK', NEW g \in Seq(Event), NEW r \in Seq(Event),
           RollBack(Seqs(g)), accepted' = accepted,
           todo \o queue = g \o r, (todo \o queue)' = r
    PROVE  Shrunk
<1>1. nas_events \in Seq(Event) /\ txn \in Seq(Event)
  BY DEF TypeOK
<1>2. nas_events' = nas_events /\ txn' = <<>> /\ lost' = lost \cup Seqs(txn) \cup Seqs(g)
  BY DEF RollBack
<1>3. txn \o g \in Seq(Event) /\ Seqs(txn \o g) = Seqs(txn) \cup Seqs(g)
  BY <1>1, SeqsConcat, ConcatProperties
<1>4. (nas_events \o txn) \o (g \o r) = nas_events \o ((txn \o g) \o r)
  <2>1. InThree(nas_events, txn, g, r)
    BY <1>1, Excise, Zenon
  <2> QED
    BY <2>1 DEF InThree
<1>5. Pipeline = nas_events \o ((txn \o g) \o r)
  BY <1>4, Halves
<1>6. Pipeline' = (nas_events \o <<>>) \o r
  <2>1. Pipeline' = ((nas_events \o txn) \o (todo \o queue))'
    BY HalvesNext
  <2> QED
    BY <1>2, <2>1
<1>7. nas_events \o <<>> = nas_events /\ <<>> \in Seq(Event)
  BY <1>1, ConcatEmptySeq, EmptySeq
<1> QED
  BY <1>1, <1>2, <1>3, <1>5, <1>6, <1>7 DEF Shrunk

LEMMA HeadAndTail ==
    ASSUME NEW s \in Seq(Event), s # <<>>
    PROVE  /\ Head(s) \in Event /\ Tail(s) \in Seq(Event) /\ <<Head(s)>> \in Seq(Event)
           /\ s = <<Head(s)>> \o Tail(s)
           /\ Seqs(<<Head(s)>>) = {Head(s).seq}
<1>1. Len(s) \in Nat \ {0}
  BY EmptySeq
<1>2. Head(s) \in Event /\ Tail(s) \in Seq(Event) /\ <<Head(s)>> \in Seq(Event)
  BY HeadTailProperties
<1>3. s = SubSeq(s, 1, Len(s)) /\ Tail(s) = SubSeq(s, 2, Len(s)) /\ Head(s) = s[1]
  BY SubSeqFull, TailIsSubSeq
<1>4. SubSeq(s, 1, Len(s)) = <<s[1]>> \o SubSeq(s, 1 + 1, Len(s))
  BY <1>1, SubSeqRecursiveFirst
<1>5. Len(<<Head(s)>>) = 1 /\ <<Head(s)>>[1] = Head(s)
  OBVIOUS
<1> QED
  BY <1>2, <1>3, <1>4, <1>5 DEF Seqs

\* How far the two threads have come.
LEMMA StagesStep == TypeOK /\ Stages /\ [Next]_vars => Stages'
<1> SUFFICES ASSUME TypeOK, Stages, [Next]_vars PROVE Stages'
  OBVIOUS
<1> USE DEF Stages
<1>1. ASSUME NEW n \in 0..Len(queue), NEW p \in {"test", "done"}, Take(n, p),
             pc \in {"wait", "sleep", "final"}
      PROVE  Stages'
  <2>1. queue = <<>> => SubSeq(queue, 1, n) = <<>>
    BY SplitSeq DEF TypeOK
  <2>2. pc' = "begin" \/ (pc' = p /\ todo' = <<>>)
    BY <1>1, <2>1 DEF Take
  <2> QED
    BY <1>1, <2>2 DEF Take, sqliteVars, processVars
<1>2. CASE Tick \/ \E t \in Threads : Emit(t)
  BY <1>2 DEF Tick, Emit, writerVars, sqliteVars, processVars
<1>3. CASE \E t \in Threads : Enqueue(t)
  BY <1>3 DEF Enqueue, Notified, sqliteVars, processVars
<1>4. CASE Idle
  BY <1>4 DEF Idle, sqliteVars, processVars
<1>5. CASE Drain \/ Timeout \/ FinalDrain
  <2>1. BatchLen \in 0..Len(queue) /\ FinalLen \in 0..Len(queue)
    BY BatchLenBound DEF TypeOK
  <2> QED
    BY <1>1, <1>5, <2>1 DEF Drain, Timeout, FinalDrain
<1>6. CASE Begin \/ Prepare
  BY <1>6 DEF Begin, Prepare, EndFlush, RollBack, sqliteVars, processVars
<1>7. CASE Insert \/ Commit
  BY <1>7 DEF Insert, Commit, CommitOutcome, RollBack, sqliteVars, processVars
<1>8. CASE Analyze
  BY <1>8 DEF Analyze, EndFlush, sqliteVars, processVars
<1>9. CASE Signal \/ CloseAnalyzer \/ CloseAlerts \/ StopRunning \/ NotifyWriter
  BY <1>9 DEF Signal, CloseAnalyzer, CloseAlerts, StopRunning, NotifyWriter, Notified,
     MainStep, sqliteVars
<1>10. CASE Join \/ CloseDb
  BY <1>10 DEF Join, Joined, CloseDb, RollBack, MainStep, sqliteVars
<1>11. CASE Exit \/ Crash
  BY <1>11 DEF Exit, Crash, ProcessGone, RollBack
<1>12. CASE Restart
  BY <1>12 DEF Restart, ThreadStart, MayFail
<1>13. CASE UNCHANGED vars
  BY <1>13 DEF vars, writerVars, sqliteVars, processVars
<1> QED
  BY <1>2, <1>3, <1>4, <1>5, <1>6, <1>7, <1>8, <1>9, <1>10, <1>11, <1>12, <1>13
  DEF Next, Writer, Shutdown

-----------------------------------------------------------------------------
(* Each action on the pipeline *)

LEMMA SeqsEmpty == Seqs(<<>>) = {}
  BY EmptySeq DEF Seqs

LEMMA EnqueuePipeline ==
    ASSUME IInv, NEW t \in Threads, Enqueue(t)
    PROVE  /\ nas_events' = nas_events
           /\ \/ Kept
              \/ Grown /\ InHand(t) \in Event /\ Pipeline' = Pipeline \o <<InHand(t)>>
<1>1. CASE Full
  BY <1>1, KeptByParts DEF Enqueue, sqliteVars
<1>2. CASE ~Full
  <2>1. InHand(t) \in Event /\ InHand(t).seq = accepted + 1
    BY DEF IInv, TypeOK, Enqueue, InHand, Event
  <2>2. queue' = queue \o <<InHand(t)>>
    <3>1. queue' = Append(queue, InHand(t))
      BY <1>2 DEF Enqueue, Push
    <3> QED
      BY <2>1, <3>1, AppendIsConcat DEF IInv, TypeOK
  <2>3. UNCHANGED <<nas_events, txn, todo, lost>> /\ accepted' = accepted + 1
    BY <1>2 DEF Enqueue, sqliteVars
  <2>4. /\ nas_events \o txn \o todo \in Seq(Event)
        /\ queue \in Seq(Event) /\ <<InHand(t)>> \in Seq(Event)
    BY <2>1, ConcatProperties DEF IInv, TypeOK
  <2>5. (nas_events \o txn \o todo) \o (queue \o <<InHand(t)>>) = Pipeline \o <<InHand(t)>>
    BY <2>4, Assoc, Zenon DEF Pipeline
  <2>6. Pipeline' = Pipeline \o <<InHand(t)>>
    BY <2>2, <2>3, <2>5 DEF Pipeline
  <2> QED
    BY <2>1, <2>3, <2>6 DEF Grown
<1> QED
  BY <1>1, <1>2

LEMMA DrainPipeline == IInv /\ (Drain \/ Timeout \/ FinalDrain) => Kept
<1> SUFFICES ASSUME IInv, Drain \/ Timeout \/ FinalDrain PROVE Kept
  OBVIOUS
<1>1. BatchLen \in 0..Len(queue) /\ FinalLen \in 0..Len(queue)
  BY BatchLenBound DEF IInv, TypeOK
<1>2. todo = <<>>
  BY DEF IInv, Stages, Drain, Timeout, FinalDrain
<1> QED
  BY <1>1, <1>2, TakeKeeps DEF IInv, Drain, Timeout, FinalDrain

LEMMA PreparePipeline == IInv /\ TypeOK' /\ Prepare => Kept \/ Shrunk
<1> SUFFICES ASSUME IInv, TypeOK', Prepare PROVE Kept \/ Shrunk
  OBVIOUS
<1>1. CASE pc' = "insert" /\ UNCHANGED <<batch, todo, finalFlush, sqliteVars>>
  BY <1>1, KeptByParts DEF Prepare, queueVars, sqliteVars
<1>2. CASE RollBack(Seqs(todo)) /\ EndFlush
  <2>1. todo \in Seq(Event) /\ queue \in Seq(Event)
    BY DEF IInv, TypeOK
  <2>2. (todo \o queue)' = queue /\ accepted' = accepted
    BY <1>2, <2>1, ConcatEmptySeq DEF Prepare, EndFlush, queueVars
  <2> QED
    BY <1>2, <2>1, <2>2, RollBackShrinks DEF IInv
<1> QED
  BY <1>1, <1>2 DEF Prepare

LEMMA CommitPipeline == IInv /\ TypeOK' /\ Commit => Kept \/ Shrunk
<1> SUFFICES ASSUME IInv, TypeOK', Commit PROVE Kept \/ Shrunk
  OBVIOUS
<1>1. UNCHANGED <<todo, queue, accepted>>
  BY DEF Commit, queueVars
<1>2. CASE txn' = <<>> /\ nas_events' = nas_events \o txn /\ UNCHANGED lost
  <2>1. (nas_events \o txn) \o <<>> = nas_events \o txn
    BY ConcatProperties, ConcatEmptySeq DEF IInv, TypeOK
  <2> QED
    BY <1>1, <1>2, <2>1 DEF Kept, Pipeline
<1>3. CASE UNCHANGED sqliteVars
  BY <1>1, <1>3, KeptByParts DEF sqliteVars
<1>4. CASE RollBack({})
  <2>1. <<>> \in Seq(Event) /\ todo \o queue \in Seq(Event)
    BY EmptySeq, ConcatProperties DEF IInv, TypeOK
  <2>2. todo \o queue = <<>> \o (todo \o queue) /\ (todo \o queue)' = todo \o queue
    BY <1>1, <2>1, ConcatEmptySeq
  <2> QED
    BY <1>1, <1>4, <2>1, <2>2, SeqsEmpty, RollBackShrinks DEF IInv
<1> QED
  BY <1>2, <1>3, <1>4 DEF Commit, CommitOutcome

LEMMA ClosePipeline == IInv /\ TypeOK' /\ CloseDb => Shrunk
<1> SUFFICES ASSUME IInv, TypeOK', CloseDb PROVE Shrunk
  OBVIOUS
<1>1. UNCHANGED <<todo, queue, accepted>> /\ RollBack({})
  BY DEF CloseDb, MainStep, queueVars
<1>2. <<>> \in Seq(Event) /\ todo \o queue \in Seq(Event)
  BY EmptySeq, ConcatProperties DEF IInv, TypeOK
<1>3. todo \o queue = <<>> \o (todo \o queue) /\ (todo \o queue)' = todo \o queue
  BY <1>1, <1>2, ConcatEmptySeq
<1> QED
  BY <1>1, <1>2, <1>3, SeqsEmpty, RollBackShrinks DEF IInv

LEMMA EndPipeline == IInv /\ TypeOK' /\ (Exit \/ Crash) => Shrunk
<1> SUFFICES ASSUME IInv, TypeOK', Exit \/ Crash PROVE Shrunk
  OBVIOUS
<1>1. /\ todo \in Seq(Event) /\ queue \in Seq(Event)
      /\ todo \o queue \in Seq(Event) /\ <<>> \in Seq(Event)
  BY EmptySeq, ConcatProperties DEF IInv, TypeOK
<1>2. (todo \o queue)' = <<>> /\ accepted' = accepted
  BY EmptySeq, ConcatEmptySeq DEF Exit, Crash, ProcessGone
<1>3. RollBack(Seqs(todo \o queue))
  <2>1. CASE Exit
    <3>1. todo \o queue = queue
      BY <1>1, <2>1, ConcatEmptySeq DEF Exit, IInv, Stages
    <3> QED
      BY <2>1, <3>1 DEF Exit
  <2>2. CASE Crash
    BY <1>1, <2>2, SeqsConcat DEF Crash
  <2> QED
    BY <2>1, <2>2
<1>4. todo \o queue = (todo \o queue) \o <<>>
  BY <1>1, ConcatEmptySeq
<1> QED
  BY <1>1, <1>2, <1>3, <1>4, RollBackShrinks DEF IInv

LEMMA InsertPipeline == IInv /\ TypeOK' /\ Insert => Kept \/ Shrunk
<1> SUFFICES ASSUME IInv, TypeOK', Insert PROVE Kept \/ Shrunk
  OBVIOUS
<1> DEFINE first == <<Head(todo)>>
           rest  == Tail(todo) \o queue
<1>1. /\ nas_events \in Seq(Event) /\ txn \in Seq(Event) /\ todo \in Seq(Event)
      /\ queue \in Seq(Event) /\ nas_events \o txn \in Seq(Event) /\ todo # <<>>
  BY ConcatProperties DEF IInv, TypeOK, Insert
<1>2. /\ Tail(todo) \in Seq(Event) /\ first \in Seq(Event) /\ Head(todo) \in Event
      /\ todo = first \o Tail(todo) /\ Seqs(first) = {Head(todo).seq}
  BY <1>1, HeadAndTail
<1>3. rest \in Seq(Event)
  BY <1>1, <1>2, ConcatProperties
<1>4. todo \o queue = first \o rest
  <2>1. (first \o Tail(todo)) \o queue = first \o (Tail(todo) \o queue)
    <3>1. Moves(first, Tail(todo), queue)
      BY <1>1, <1>2, AssocFolded, Zenon
    <3> QED
      BY <3>1 DEF Moves
  <2> QED
    BY <1>2, <2>1
<1>5. (todo \o queue)' = rest /\ accepted' = accepted
  BY DEF Insert, queueVars
<1>6. /\ Pipeline = (nas_events \o txn) \o (first \o rest)
      /\ Pipeline' = (nas_events \o txn)' \o rest
  <2>1. Pipeline' = ((nas_events \o txn) \o (todo \o queue))'
    BY HalvesNext
  <2>2. Pipeline = (nas_events \o txn) \o (todo \o queue)
    BY Halves DEF IInv
  <2> QED
    BY <1>4, <1>5, <2>1, <2>2
<1> HIDE DEF first, rest
<1>7. ASSUME (nas_events \o txn)' = (nas_events \o txn) \o first, UNCHANGED lost
      PROVE  Kept
  <2>1. ((nas_events \o txn) \o first) \o rest = (nas_events \o txn) \o (first \o rest)
    BY <1>1, <1>2, <1>3, Assoc, Zenon
  <2> QED
    BY <1>5, <1>6, <1>7, <2>1 DEF Kept
<1>8. CASE inTxn /\ txn' = Append(txn, Head(todo)) /\ UNCHANGED <<inTxn, nas_events, lost>>
  <2>1. txn' = txn \o first
    BY <1>1, <1>2, <1>8, AppendIsConcat DEF first
  <2>2. (nas_events \o txn) \o first = nas_events \o (txn \o first)
    <3>1. Moves(nas_events, txn, first)
      BY <1>1, <1>2, AssocFolded, Zenon
    <3> QED
      BY <3>1 DEF Moves
  <2> QED
    BY <1>7, <1>8, <2>1, <2>2
<1>9. CASE ~inTxn /\ nas_events' = Append(nas_events, Head(todo)) /\ UNCHANGED <<inTxn, txn, lost>>
  <2>1. nas_events' = nas_events \o first
    BY <1>1, <1>2, <1>9, AppendIsConcat DEF first
  <2>2. nas_events' \in Seq(Event)
    BY DEF TypeOK
  <2>3. txn = <<>> /\ txn' = <<>>
    BY <1>9 DEF IInv, Stages
  <2>4. nas_events' \o <<>> = nas_events' /\ nas_events \o <<>> = nas_events
    BY <1>1, <2>2, ConcatEmptySeq
  <2> QED
    BY <1>7, <1>9, <2>1, <2>3, <2>4
<1>10. CASE lost' = lost \cup {Head(todo).seq} /\ UNCHANGED <<inTxn, txn, nas_events>>
  <2>1. Pipeline' = (nas_events \o txn) \o rest
    BY <1>6, <1>10
  <2> QED
    BY <1>1, <1>2, <1>3, <1>5, <1>6, <1>10, <2>1 DEF Shrunk
<1>11. CASE RollBack({Head(todo).seq})
  BY <1>2, <1>3, <1>4, <1>5, <1>11, RollBackShrinks DEF IInv
<1> QED
  BY <1>8, <1>9, <1>10, <1>11 DEF Insert

\* The steps that move no event.
LEMMA OtherPipeline ==
    ASSUME IInv,
           \/ Tick \/ \E t \in Threads : Emit(t)
           \/ Idle \/ Begin \/ Analyze
           \/ Signal \/ CloseAnalyzer \/ CloseAlerts \/ StopRunning \/ NotifyWriter \/ Join
           \/ UNCHANGED vars
    PROVE  Kept
<1>1. CASE Tick \/ (\E t \in Threads : Emit(t)) \/ Idle \/ Begin
  BY <1>1, KeptByParts DEF Tick, Emit, Idle, Begin, queueVars, writerVars, sqliteVars
<1>2. CASE Analyze
  BY <1>2, KeptByParts DEF IInv, Stages, Analyze, EndFlush, queueVars, sqliteVars
<1>3. CASE Signal \/ CloseAnalyzer \/ CloseAlerts \/ StopRunning \/ NotifyWriter \/ Join
  BY <1>3, KeptByParts
  DEF Signal, CloseAnalyzer, CloseAlerts, StopRunning, NotifyWriter, Join, MainStep,
      queueVars, sqliteVars
<1>4. CASE UNCHANGED vars
  BY <1>4, KeptByParts DEF vars, queueVars, writerVars, sqliteVars
<1> QED
  BY <1>1, <1>2, <1>3, <1>4

LEMMA RestartPipeline == Restart => Kept
  BY KeptByParts DEF Restart, TableAfterSchema

\* Only an enqueue adds to the pipeline.
LEMMA PipelineStep ==
    ASSUME IInv, TypeOK', [Next]_vars
    PROVE  Kept \/ Shrunk \/ \E t \in Threads : Enqueue(t)
  BY DrainPipeline, PreparePipeline, InsertPipeline, CommitPipeline,
     ClosePipeline, EndPipeline, OtherPipeline, RestartPipeline
  DEF Next, Writer, Shutdown

LEMMA IInvStep == IInv /\ [Next]_vars => IInv'
<1> SUFFICES ASSUME IInv, [Next]_vars PROVE IInv'
  OBVIOUS
<1>1. TypeOK' /\ Stages'
  BY TypeStep, StagesStep DEF IInv
<1>2. Kept \/ Grown \/ Shrunk
  BY <1>1, EnqueuePipeline, PipelineStep
<1>3. AcceptanceOrder' /\ ExactlyOnce'
  BY <1>2, KeptOrder, GrownOrder, ShrunkOrder DEF IInv
<1> QED
  BY <1>1, <1>3 DEF IInv

LEMMA IInvInit == Init => IInv
<1> SUFFICES ASSUME Init PROVE IInv
  OBVIOUS
<1>1. TypeOK
  BY TypeInit
<1>2. Stages
  BY DEF Init, Stages, ThreadStart
<1>3. Pipeline = <<>> /\ lost = {} /\ accepted = 0
  BY EmptySeq, ConcatEmptySeq DEF Init, Pipeline
<1>4. AcceptanceOrder
  BY <1>3 DEF AcceptanceOrder
<1>5. ExactlyOnce
  BY <1>3, SeqsEmpty DEF ExactlyOnce
<1> QED
  BY <1>1, <1>2, <1>4, <1>5 DEF IInv

\* nas_events is in acceptance order, and nothing that is still on its way will
\* be inserted before a row that is there, whatever fails.
THEOREM OrderKept == Spec => []AcceptanceOrder
<1>1. IInv => AcceptanceOrder
  BY DEF IInv
<1> QED
  BY <1>1, IInvInit, IInvStep, PTL DEF Spec

\* Every accepted event is in one place: no row is doubled, none vanishes.
THEOREM OncePerEvent == Spec => []ExactlyOnce
<1>1. IInv => ExactlyOnce
  BY DEF IInv
<1> QED
  BY <1>1, IInvInit, IInvStep, PTL DEF Spec

\* The writer never flushes on a connection shutdown() has closed.
THEOREM OwnedByWriter == Spec => []Owned
<1>1. IInv => Owned
  BY DEF IInv, Stages, Owned, Alive, TypeOK, Flushing, Resting
<1> QED
  BY <1>1, IInvInit, IInvStep, PTL DEF Spec

\* Rows are added behind those that are there, if at all.
LEMMA RowsAdded ==
    ASSUME IInv, [Next]_vars
    PROVE  \E new \in Seq(Event) : nas_events' = nas_events \o new
<1>1. CASE Insert /\ nas_events' # nas_events
  <2>1. nas_events' = Append(nas_events, Head(todo)) /\ Head(todo) \in Event
    BY <1>1, HeadAndTail DEF IInv, TypeOK, Insert, RollBack
  <2>2. nas_events' = nas_events \o <<Head(todo)>> /\ <<Head(todo)>> \in Seq(Event)
    BY <2>1, AppendIsConcat DEF IInv, TypeOK
  <2> QED
    BY <2>2
<1>2. CASE nas_events' = nas_events
  <2>1. nas_events \o <<>> = nas_events /\ <<>> \in Seq(Event)
    BY ConcatEmptySeq, EmptySeq DEF IInv, TypeOK
  <2> QED
    BY <1>2, <2>1
<1>3. CASE Commit /\ nas_events' # nas_events
  BY <1>3 DEF Commit, CommitOutcome, RollBack, sqliteVars, IInv, TypeOK
<1>4. CASE ~Insert /\ ~Commit
  <2>1. nas_events' = nas_events
    BY <1>4
    DEF Next, Writer, Shutdown, Tick, Emit, Enqueue, Idle, Drain, Timeout, FinalDrain, Take,
        Begin, Prepare, Analyze, RollBack, Signal, CloseAnalyzer, CloseAlerts, StopRunning,
        NotifyWriter, Join, CloseDb, Exit, Crash, Restart, TableAfterSchema, vars, sqliteVars
  <2> QED
    BY <1>2, <2>1
<1> QED
  BY <1>1, <1>2, <1>3, <1>4

\* A committed row is neither removed nor changed, by any step.
THEOREM RowsStay == Spec => AppendOnly
<1>1. IInv /\ [Next]_vars =>
        [/\ Len(nas_events) <= Len(nas_events')
         /\ SubSeq(nas_events', 1, Len(nas_events)) = nas_events]_nas_events
  <2> SUFFICES ASSUME IInv, [Next]_vars, nas_events' # nas_events
               PROVE  /\ Len(nas_events) <= Len(nas_events')
                      /\ SubSeq(nas_events', 1, Len(nas_events)) = nas_events
    OBVIOUS
  <2>1. \E new \in Seq(Event) : nas_events' = nas_events \o new
    BY RowsAdded
  <2>2. PICK new \in Seq(Event) : nas_events' = nas_events \o new
    BY <2>1
  <2>3. Len(nas_events) <= Len(nas_events')
    BY <2>2, ConcatProperties, LenProperties DEF IInv, TypeOK
  <2>4. SubSeq(nas_events \o new, 1, Len(nas_events)) = nas_events
    <3>1. nas_events \in Seq(Event) /\ Len(nas_events) \in Nat
      BY LenProperties DEF IInv, TypeOK
    <3>2. CASE nas_events = <<>>
      <4>1. Len(nas_events) = 0 /\ SubSeq(nas_events \o new, 1, 0) = <<>>
        BY <3>1, <3>2, EmptySeq, SubSeqEmpty
      <4> QED
        BY <3>2, <4>1
    <3>3. CASE nas_events # <<>>
      <4>1. Len(nas_events) \in 1..Len(nas_events) /\ 1 \in 1..Len(nas_events)
        BY <3>1, <3>3, EmptySeq
      <4>2. SubSeq(nas_events \o new, 1, Len(nas_events)) = SubSeq(nas_events, 1, Len(nas_events))
        BY <3>1, <4>1, SubSeqOfConcat1
      <4> QED
        BY <3>1, <4>2, SubSeqFull
    <3> QED
      BY <3>2, <3>3
  <2> QED
    BY <2>2, <2>3, <2>4
<1> QED
  BY <1>1, IInvInit, IInvStep, PTL DEF Spec, AppendOnly
=============================================================================
