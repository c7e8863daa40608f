------------------------------ MODULE Reports ------------------------------
(***************************************************************************)
(* EventsController and AlertsController: what the dashboard reads while     *)
(* EventWriter appends to nas_events, AlertWriter to nas_alerts, and clients *)
(* change the status of alerts.  A SELECT sees one snapshot, so it is one    *)
(* step; the walk through the pages, which is the client's, is many, and a   *)
(* change of status is answered after its lock is released.                  *)
(***************************************************************************)
EXTENDS Integers, FiniteSetsExt, SequencesExt

CONSTANTS
    Threads,     \* handler threads that emit events
    Kinds,       \* what is emitted: type, result, and actor_user or NoActor
    NoActor,     \* NULL
    Severities,  \* of the alerts that fire
    Ids,         \* ids that the clients who change the status of alerts name
    Filters,     \* for each table, the conditions asked for by the walks
    Windows,     \* the windows asked for by reports
    Asked,       \* the limits asked for
    Cap,         \* the largest pages, 1000 and 500, and the most actors, 50
    Faulty,      \* "step": a sqlite3_step may fail
    MaxRows,     \* bound: events emitted and alerts fired
    MaxClock,    \* bound: seconds
    MaxPatches,  \* bound: changes of status asked for
    MaxMade      \* bound: all of these

ASSUME ReportsAssumption ==
    /\ \A k \in Kinds : k.result \in {"success", "failure"}
    /\ Faulty \subseteq {"step"} /\ Asked \subseteq Int
    /\ DOMAIN Cap = {"events", "alerts", "actors"} /\ \A t \in DOMAIN Cap : Cap[t] \in Nat \ {0}
    /\ \A f \in Windows : f.to \in Int
    /\ {MaxRows, MaxClock, MaxPatches, MaxMade} \subseteq Nat

VARIABLES
    clock,     \* the system clock
    stamped,   \* what each thread has stamped and not yet queued
    queue,     \* EventWriter's queue, and its batch
    table,     \* nas_events and nas_alerts; a row's id is its place
    lock,      \* who writes alerts.db
    changes,   \* changes of status in progress
    last,      \* history: for each alert, the changes answered ok and not replaced
    made,      \* history: events emitted and alerts fired; changes sent
    walk,      \* history: a client's walk through the pages of a table
    report     \* history: a report; bound: a walk and changes, or one report

vars == <<clock, stamped, queue, table, lock, changes, last, made, walk, report>>

Nothing == [none |-> TRUE]
Statuses == {"open", "investigating", "dismissed"}
Unchanged == [no |-> 0, status |-> "open"]
Forever == MaxClock + 1
Never == -1
InBound == made.rows + made.patches < MaxMade
MayFail(call) == IF call \in Faulty THEN BOOLEAN ELSE {FALSE}

Init ==
    /\ clock = 0 /\ stamped = [t \in Threads |-> Nothing] /\ queue = <<>>
    /\ table = [events |-> <<>>, alerts |-> <<>>]
    /\ lock = "free" /\ changes = {}
    /\ last = [id \in Ids \cup 1..MaxRows |-> {Unchanged}]
    /\ made = [rows |-> 0, patches |-> 0]
    /\ walk = Nothing /\ report = Nothing

-----------------------------------------------------------------------------
(* The writers *)

Tick ==
    /\ clock < MaxClock /\ clock' = clock + 1
    /\ UNCHANGED <<stamped, queue, table, lock, changes, last, made, walk, report>>

\* An event is stamped by the thread of its request, then queued.
Stamp(t) ==
    /\ stamped[t] = Nothing /\ made.rows < MaxRows /\ InBound /\ made' = [made EXCEPT !.rows = @ + 1]
    /\ \E k \in Kinds : stamped' = [stamped EXCEPT ![t] =
          [at |-> clock, type |-> k.type, result |-> k.result, actor |-> k.actor]]
    /\ UNCHANGED <<clock, queue, table, lock, changes, last, walk, report>>

Enqueue(t) ==
    /\ stamped[t] # Nothing
    /\ queue' = Append(queue, stamped[t]) /\ stamped' = [stamped EXCEPT ![t] = Nothing]
    /\ UNCHANGED <<clock, table, lock, changes, last, made, walk, report>>

\* A batch is one transaction.
Flush ==
    /\ queue # <<>> /\ queue' = <<>> /\ table' = [table EXCEPT !.events = @ \o queue]
    /\ UNCHANGED <<clock, stamped, lock, changes, last, made, walk, report>>

\* writeAlert: no busy timeout is set, so an INSERT while a client writes is
\* refused, logged, and not tried again.
FireAlert ==
    /\ lock # "AlertWriter" /\ made.rows < MaxRows /\ InBound /\ made' = [made EXCEPT !.rows = @ + 1]
    /\ lock' = IF lock = "free" THEN "AlertWriter" ELSE lock
    /\ UNCHANGED <<clock, stamped, queue, table, changes, last, walk, report>>

InsertAlert ==
    /\ lock = "AlertWriter" /\ lock' = "free"
    /\ \E s \in Severities, fails \in MayFail("step") : table' = IF fails THEN table ELSE
          [table EXCEPT !.alerts = Append(@, [severity |-> s, status |-> "open",
                                              resolved_at |-> Never, at |-> clock])]
    /\ UNCHANGED <<clock, stamped, queue, changes, last, made, walk, report>>

-----------------------------------------------------------------------------
(* Queries *)

ToIncluded(row, f) ==                                          \* mutant of Matches
    (\A column \in DOMAIN f.equal : row[column] = f.equal[column]) /\ row.at \in f.from..f.to
Matches(row, f) ==
    /\ \A column \in DOMAIN f.equal : row[column] = f.equal[column]
    /\ f.from <= row.at /\ row.at < f.to
Found(rows, f) == {id \in DOMAIN rows : Matches(rows[id], f)}

Unclamped(asked, cap) == Min({cap, asked})                     \* mutant of Limit
Limit(asked, cap) == Min({cap, Max({1, asked})})

\* WHERE, ORDER BY id DESC, LIMIT, OFFSET: the ids of a page.  A page that ends
\* early has the newest of its ids.
Place(ids, id) == Cardinality({x \in ids : x > id})
LimitOffset(ids, limit, offset) == {id \in ids : Place(ids, id) \in offset..offset + limit - 1}
FilteredLast(rows, f, limit, offset) ==                        \* mutant of Page
    {id \in LimitOffset(DOMAIN rows, limit, offset) : Matches(rows[id], f)}
Page(rows, f, limit, offset) == LimitOffset(Found(rows, f), limit, offset)

\* What a report lists: the rows, the groups by type and result, or the groups
\* by actor.  Its totals are sums over what it lists.
Group(rows, of, key) ==
    [key |-> key, total |-> Cardinality(of),
     failures |-> Cardinality({id \in of : rows[id].result = "failure"})]
ByType(row) == <<row.type, row.result>>
Items(kind, rows, f) ==
    LET found == Found(rows, f) IN
    CASE kind = "csv" -> found
      [] kind = "types" ->
           {Group(rows, {x \in found : ByType(rows[x]) = ByType(rows[id])}, ByType(rows[id])) :
              id \in found}
      [] kind = "actors" ->
           {Group(rows, {x \in found : rows[x].actor = rows[id].actor}, rows[id].actor) :
              id \in {x \in found : rows[x].actor # NoActor}}

\* ORDER BY id ASC, none, and ORDER BY total DESC.
Precedes(kind, x, y) ==
    CASE kind = "csv" -> x < y
      [] kind = "types" -> FALSE
      [] kind = "actors" -> x.total > y.total

\* The loop over the SELECT takes a step that fails for its end: what is read is
\* the beginning of the list, up to its limit or to the failure.
IsRead(kind, items, limit, read, fails) ==
    LET size == Min({limit, Cardinality(items)}) IN
    /\ read \subseteq items
    /\ \A x \in read, y \in items \ read : ~Precedes(kind, y, x)
    /\ IF fails THEN Cardinality(read) < size ELSE Cardinality(read) = size

-----------------------------------------------------------------------------
(* Requests *)

\* A client asks for pages until one is not full.  A step of the SELECT that
\* fails is taken for its end.
StartWalk ==
    /\ walk = Nothing /\ report = Nothing
    /\ \E t \in DOMAIN table, asked \in Asked : \E f \in Filters[t] :
          walk' = [table |-> t, filter |-> f, limit |-> Limit(asked, Cap[t]), offset |-> 0,
                   old |-> Found(table[t], f), got |-> {},
                   left |-> FALSE, cut |-> FALSE, done |-> FALSE]
    /\ UNCHANGED <<clock, stamped, queue, table, lock, changes, last, made, report>>

NextPage ==
    /\ walk # Nothing /\ ~walk.done
    /\ LET first(n) == Page(table[walk.table], walk.filter, n, walk.offset)
           size == Cardinality(first(walk.limit))
       IN  \E fails \in MayFail("step"), n \in 0..size :
             /\ fails <=> n < size
             /\ walk' = [walk EXCEPT !.got = @ \cup first(n), !.offset = @ + walk.limit,
                                     !.done = n < walk.limit, !.cut = @ \/ fails]
    /\ UNCHANGED <<clock, stamped, queue, table, lock, changes, last, made, report>>

\* The history says whether everything stamped before the end of the window is
\* in the table.
Settled(f) ==
    /\ f.to <= clock
    /\ \A e \in Range(queue) \cup Range(stamped) : e # Nothing => e.at >= f.to
\* Only the summary by actor has a limit; MaxRows is none.
Limits(kind) == IF kind = "actors" THEN {Limit(asked, Cap.actors) : asked \in Asked} ELSE {MaxRows}
Report ==
    /\ walk = Nothing /\ report = Nothing /\ made.patches = 0
    /\ \E kind \in {"csv", "types", "actors"}, f \in Windows, fails \in MayFail("step") :
          LET items == Items(kind, table.events, f) IN
          \E limit \in Limits(kind), read \in SUBSET items :
             /\ IsRead(kind, items, limit, read, fails)
             /\ report' = [kind |-> kind, filter |-> f, limit |-> limit, read |-> read,
                           cut |-> fails, settled |-> Settled(f)]
    /\ UNCHANGED <<clock, stamped, queue, table, lock, changes, last, made, walk>>

\* PATCH: a client sends it, knowing of the answers there have been.
AskPatch ==
    /\ report = Nothing /\ made.patches < MaxPatches /\ InBound
    /\ made' = [made EXCEPT !.patches = @ + 1]
    /\ \E id \in Ids, s \in Statuses : changes' = changes \cup
          {[no |-> made.patches + 1, id |-> id, status |-> s, replaces |-> last[id],
            at |-> "sent", ok |-> FALSE]}
    /\ UNCHANGED <<clock, stamped, queue, table, lock, last, walk, report>>

\* Whatever fails, or changes no row, is answered 404.
NotChecked(done, rows) == TRUE                                 \* mutant of Ok
Ok(done, rows) == done /\ rows > 0
Becomes(c, at, ok) == changes' = (changes \ {c}) \cup {[c EXCEPT !.at = at, !.ok = ok]}

\* The UPDATE takes the lock or finds it taken; no busy timeout is set.
BeginUpdate(c) ==
    /\ c.at = "sent"
    /\ \/ lock = "free" /\ lock' = "patch" /\ Becomes(c, "writing", FALSE)
       \/ lock # "free" /\ Becomes(c, "closed", Ok(FALSE, 0)) /\ UNCHANGED lock
    /\ UNCHANGED <<clock, stamped, queue, table, last, made, walk, report>>

Updated(row, s) ==
    [row EXCEPT !.status = s, !.resolved_at = IF s = "dismissed" THEN clock ELSE Never]
Update(c) ==
    /\ c.at = "writing" /\ lock' = "free"
    /\ \E fails \in MayFail("step") :
          IF fails \/ c.id \notin DOMAIN table.alerts
          THEN Becomes(c, "closed", Ok(~fails, 0)) /\ UNCHANGED <<table, walk>>
          ELSE LET new == Updated(table.alerts[c.id], c.status) IN
               /\ Becomes(c, "closed", Ok(TRUE, 1))
               /\ table' = [table EXCEPT !.alerts[c.id] = new]
               /\ walk' = IF /\ walk # Nothing /\ walk.table = "alerts"
                             /\ Matches(table.alerts[c.id], walk.filter)
                             /\ ~Matches(new, walk.filter)
                          THEN [walk EXCEPT !.left = TRUE] ELSE walk
    /\ UNCHANGED <<clock, stamped, queue, last, made, report>>

\* The answer follows when the connection is closed: the answers of two clients
\* may come in the other order than their changes.  An answer that says ok
\* replaces those that were there when its request was sent.
Answer(c) ==
    /\ c.at = "closed" /\ changes' = changes \ {c}
    /\ last' = IF c.ok
               THEN [last EXCEPT ![c.id] = (@ \ c.replaces) \cup {[no |-> c.no, status |-> c.status]}]
               ELSE last
    /\ UNCHANGED <<clock, stamped, queue, table, lock, made, walk, report>>

Next ==
    \/ Tick \/ Flush \/ FireAlert \/ InsertAlert
    \/ StartWalk \/ NextPage \/ Report \/ AskPatch
    \/ \E c \in changes : BeginUpdate(c) \/ Update(c) \/ Answer(c)
    \/ \E t \in Threads : Stamp(t) \/ Enqueue(t)

Spec == Init /\ [][Next]_vars

-----------------------------------------------------------------------------
(* Properties *)

\* Types; a page holds at least one row (EventsController.cpp:101) and a write
\* lock is held by one who writes.
TypeOK ==
    /\ clock \in 0..MaxClock /\ Len(table.events) + Len(table.alerts) <= made.rows
    /\ \A id \in DOMAIN table.alerts :
          table.alerts[id].status \in Statuses /\ table.alerts[id].resolved_at \in {Never} \cup 0..clock
    /\ lock \in {"free", "AlertWriter", "patch"}
    /\ \A c \in changes : c.at = "writing" => lock = "patch" /\ \A d \in changes : d.at = c.at => d = c
    /\ walk # Nothing => walk.limit \in 1..Cap[walk.table] /\ walk.got \subseteq DOMAIN table[walk.table]

\* A walk by OFFSET through a table that grows meanwhile may meet a row twice; it
\* never misses one that was there when it began, unless a change of status takes
\* a row out of what is asked for, or a failed step ends a page early
\* (EventsController.cpp:99-131, AlertsController.cpp:85-112).
PagesCover ==
    walk # Nothing /\ walk.done /\ ~walk.left /\ ~walk.cut => walk.old \subseteq walk.got

\* A report of a window that is past and has nothing of it queued is final:
\* whatever is recorded later, the table still gives what was read, all of it if
\* no step failed, and otherwise with what a failing step left out
\* (EventsController.cpp:184-218, 274-302, 313-345: the inclusive from and the
\* exclusive to, the order, the limit, and the loops).
WindowFinal ==
    report # Nothing /\ report.settled =>
        IsRead(report.kind, Items(report.kind, table.events, report.filter),
               report.limit, report.read, report.cut)

\* With any number of clients and AlertWriter in each other's way, an alert has
\* the status of a change that was answered ok, and that none sent after this
\* answer has replaced by another, or of one made and about to be answered so;
\* and resolved_at is set as long as that is a dismissal (AlertsController.cpp:
\* 211-231).
LastAnswerHolds ==
    \A id \in DOMAIN table.alerts :
        LET row == table.alerts[id] IN
        /\ \E c \in last[id] \cup {d \in changes : d.id = id /\ d.ok} : row.status = c.status
        /\ row.resolved_at # Never <=> row.status = "dismissed"
=============================================================================
