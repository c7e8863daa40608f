--------------------------- MODULE ReportsProofs ---------------------------
(***************************************************************************)
(* What the dashboard is told, for any number of rows, threads, changes and  *)
(* seconds, whatever fails.  An answer to a change of status stays true       *)
(* (IInv: the events play no part in it); a report of a window that is past   *)
(* is final (EInv, which follows the events from their stamp to the table); a *)
(* walk through the pages misses nothing (WInv, about the places of ids in a  *)
(* list that grows).                                                          *)
(***************************************************************************)
EXTENDS Reports, Induction, SequenceTheorems, FiniteSetTheorems

Row == [severity : Severities, status : Statuses, resolved_at : {Never} \cup Nat, at : Nat]
Said == [no : Nat, status : Statuses]
Change == [no : Nat, id : Ids, status : Statuses, replaces : SUBSET Said,
           at : {"sent", "writing", "closed"}, ok : BOOLEAN]

\* The table of alerts, the changes and the answers given about them.
AlertTypes ==
    /\ clock \in Nat
    /\ table = [events |-> table.events, alerts |-> table.alerts]
    /\ table.alerts \in Seq(Row)
    /\ changes \in SUBSET Change
    /\ last \in [Ids \cup 1..MaxRows -> SUBSET Said]
    /\ made = [rows |-> made.rows, patches |-> made.patches] /\ made.rows \in 0..MaxRows
    /\ made.patches \in Nat

\* Who holds the lock does what he took it for; what AlertWriter has still to
\* insert is counted among the rows made.
LockTypes ==
    /\ lock \in {"free", "AlertWriter", "patch"}
    /\ \A c, d \in changes : c.at = "writing" => lock = "patch" /\ (d.at = "writing" => d = c)
    /\ Len(table.alerts) + (IF lock = "AlertWriter" THEN 1 ELSE 0) <= made.rows

\* A change has a number of its own, and is ok when it is made; no answer to it is
\* known while it is in progress.
Numbers ==
    /\ \A c \in changes : c.no \in 1..made.patches /\ (c.ok => c.at = "closed")
    /\ \A c, d \in changes : c.no = d.no => c = d
    /\ \A c \in changes : \A x \in c.replaces :
          x.no <= made.patches /\ \A d \in changes : x.no # d.no
    /\ \A id \in DOMAIN last : \A x \in last[id] :
          x.no <= made.patches /\ \A d \in changes : x.no # d.no

\* An alert that is not there has not been changed.
Fresh ==
    \A id \in 1..MaxRows : id \notin DOMAIN table.alerts =>
        last[id] = {Unchanged} /\ \A c \in changes : c.ok => c.id # id

\* The change that gave an alert its status is answered, or about to be; none that
\* has been made since was sent after that answer.
Told(id) == last[id] \cup {d \in changes : d.id = id /\ d.ok}
Stands(c, id) == \A d \in changes : d.id = id /\ d.ok => \A x \in d.replaces : x.no # c.no
StatusTold ==
    \A id \in DOMAIN table.alerts :
        /\ \E c \in Told(id) : table.alerts[id].status = c.status /\ Stands(c, id)
        /\ table.alerts[id].resolved_at # Never <=> table.alerts[id].status = "dismissed"

IInv == AlertTypes /\ LockTypes /\ Numbers /\ Fresh /\ StatusTold

-----------------------------------------------------------------------------

\* The invariant holds before the first request.
LEMMA InitIInv == Init => IInv
<1> SUFFICES ASSUME Init PROVE IInv
  OBVIOUS
<1>1. /\ clock = 0 /\ table = [events |-> <<>>, alerts |-> <<>>] /\ lock = "free" /\ changes = {}
      /\ last = [id \in Ids \cup 1..MaxRows |-> {Unchanged}]
      /\ made = [rows |-> 0, patches |-> 0]
  BY DEF Init
<1>2. Unchanged \in Said /\ Unchanged.no = 0
  BY DEF Unchanged, Said, Statuses
<1>3. table.alerts = <<>> /\ DOMAIN table.alerts = {} /\ Len(table.alerts) = 0
  BY <1>1
<1>4. AlertTypes
  BY <1>1, <1>2, <1>3, ReportsAssumption DEF AlertTypes
<1>5. LockTypes /\ Numbers
  BY <1>1, <1>2, <1>3 DEF LockTypes, Numbers
<1>6. Fresh /\ StatusTold
  BY <1>1, <1>3 DEF Fresh, StatusTold
<1> QED
  BY <1>4, <1>5, <1>6 DEF IInv

\* Steps that touch neither the alerts nor the changes keep it.
LEMMA ElsewhereKeeps ==
  ASSUME IInv, UNCHANGED <<changes, last>>, clock' \in Nat, lock' \in {"free", "AlertWriter", "patch"},
         lock = "patch" => lock' = "patch",
         table' = [events |-> table'.events, alerts |-> table'.alerts],
         table'.alerts = table.alerts,
         made' = [rows |-> made'.rows, patches |-> made.patches],
         made'.rows \in made.rows..MaxRows,
         lock' = "AlertWriter" /\ lock # "AlertWriter" => made'.rows = made.rows + 1
  PROVE  IInv'
<1>1. AlertTypes'
  BY DEF IInv, AlertTypes
<1>2. LockTypes'
  BY DEF IInv, AlertTypes, LockTypes
<1>3. Numbers'
  <2>1. made'.patches = made.patches
    OBVIOUS
  <2> QED
    BY <2>1 DEF IInv, Numbers
<1>4. Fresh' /\ StatusTold'
  BY DEF IInv, Fresh, StatusTold, Told, Stands
<1> QED BY <1>1, <1>2, <1>3, <1>4 DEF IInv

\* A row is added by the one that holds the lock for it, with an id that no change
\* has reached.
LEMMA InsertKeeps == IInv /\ InsertAlert => IInv'
<1> SUFFICES ASSUME IInv, InsertAlert PROVE IInv'
  OBVIOUS
<1> DEFINE old == table.alerts  new == table'.alerts
<1>1. PICK s \in Severities, fails \in MayFail("step") : table' = IF fails THEN table ELSE
          [table EXCEPT !.alerts = Append(@, [severity |-> s, status |-> "open",
                                              resolved_at |-> Never, at |-> clock])]
  BY DEF InsertAlert
<1> DEFINE row == [severity |-> s, status |-> "open", resolved_at |-> Never, at |-> clock]
<1>2. /\ lock = "AlertWriter" /\ lock' = "free"
      /\ UNCHANGED <<clock, changes, last, made>>
  BY DEF InsertAlert
<1>3. CASE table' = table
  BY <1>2, <1>3, ElsewhereKeeps, ReportsAssumption DEF IInv, AlertTypes
<1>4. CASE table' = [table EXCEPT !.alerts = Append(@, row)]
  <2>1. /\ table' = [events |-> table.events, alerts |-> Append(table.alerts, row)]
        /\ table'.events = table.events
        /\ new = Append(old, row)
    BY <1>4 DEF IInv, AlertTypes
  <2>2. row \in Row /\ row.status = "open" /\ row.resolved_at = Never
    BY DEF IInv, AlertTypes, Row, Statuses
  <2>3. old \in Seq(Row)
    BY DEF IInv, AlertTypes
  <2>4. /\ new \in Seq(Row) /\ Len(new) = Len(old) + 1
        /\ \A id \in 1..Len(old) : new[id] = old[id]
        /\ new[Len(old) + 1] = row
    BY <2>1, <2>2, <2>3
  <2>5. DOMAIN old = 1..Len(old) /\ DOMAIN new = 1..Len(old) + 1 /\ Len(old) \in Nat
    BY <2>3, <2>4
  <2>6. Len(old) + 1 <= made.rows /\ made.rows \in 0..MaxRows /\ MaxRows \in Nat
    BY <1>2, ReportsAssumption DEF IInv, AlertTypes, LockTypes
  <2>7. AlertTypes'
    BY <2>1, <2>4, <1>2 DEF IInv, AlertTypes
  <2>8. LockTypes'
    BY <2>4, <2>5, <1>2, <2>6 DEF IInv, LockTypes
  <2>9. Numbers'
    BY <1>2 DEF IInv, Numbers
  <2>10. Fresh'
    BY <1>2, <2>5 DEF IInv, Fresh
  <2>11. Len(old) + 1 \in 1..MaxRows /\ Len(old) + 1 \notin DOMAIN old
    BY <2>5, <2>6
  <2>12. last[Len(old) + 1] = {Unchanged} /\ \A c \in changes : c.ok => c.id # Len(old) + 1
    BY <2>11 DEF IInv, Fresh
  <2>13. StatusTold'
    <3> SUFFICES ASSUME NEW id \in 1..Len(old) + 1
                 PROVE  /\ \E c \in Told(id) : new[id].status = c.status /\ Stands(c, id)
                        /\ new[id].resolved_at # Never <=> new[id].status = "dismissed"
      BY <2>5, <1>2 DEF StatusTold, Told, Stands
    <3>1. CASE id = Len(old) + 1
      <4>1. Unchanged \in Told(id) /\ Unchanged.status = "open" /\ Stands(Unchanged, id)
        BY <3>1, <2>12 DEF Told, Stands, Unchanged
      <4> QED BY <3>1, <4>1, <2>2, <2>4
    <3>2. CASE id # Len(old) + 1
      <4>1. id \in 1..Len(old)
        BY <3>2, <2>5
      <4> QED BY <4>1, <2>4, <2>5 DEF IInv, StatusTold
    <3> QED BY <3>1, <3>2
  <2> QED BY <2>7, <2>8, <2>9, <2>10, <2>13 DEF IInv
<1> QED BY <1>1, <1>3, <1>4

-----------------------------------------------------------------------------
(* A change on its way *)

\* What is said of numbers, of alerts not there, and of the others survives when one
\* change that was not made comes further.
LEMMA BecomesKeeps ==
  ASSUME IInv, NEW c \in changes, ~c.ok, NEW at \in {"sent", "writing", "closed"},
         NEW ok \in BOOLEAN, ~ok \/ (at = "closed" /\ c.id \in DOMAIN table.alerts),
         Becomes(c, at, ok), UNCHANGED <<last, made>>,
         DOMAIN table'.alerts = DOMAIN table.alerts
  PROVE  /\ changes' \in SUBSET Change /\ Numbers' /\ Fresh'
         /\ \E d \in changes' : /\ d.no = c.no /\ d.id = c.id /\ d.status = c.status
                                /\ d.at = at /\ d.ok = ok
                                /\ changes' = (changes \ {c}) \cup {d}
         /\ \A id \in DOMAIN table.alerts : \A e \in Told(id) :
               Stands(e, id) /\ c.id # id => e \in Told(id)' /\ Stands(e, id)'
<1>1. PICK d : d = [c EXCEPT !.at = at, !.ok = ok]
  OBVIOUS
<1>2. changes' = (changes \ {c}) \cup {d}
  BY <1>1 DEF Becomes
<1>3. c \in Change /\ changes \in SUBSET Change
  BY DEF IInv, AlertTypes
<1>4. /\ d \in Change /\ d.no = c.no /\ d.id = c.id /\ d.status = c.status
      /\ d.replaces = c.replaces /\ d.at = at /\ d.ok = ok
  <2>1. PICK n \in Nat, i \in Ids, s \in Statuses, r \in SUBSET Said,
             a \in {"sent", "writing", "closed"}, o \in BOOLEAN :
          c = [no |-> n, id |-> i, status |-> s, replaces |-> r, at |-> a, ok |-> o]
    BY <1>3 DEF Change
  <2>2. d = [[c EXCEPT !.at = at] EXCEPT !.ok = ok]
    BY <1>1, <2>1
  <2>3. [c EXCEPT !.at = at]
          = [no |-> n, id |-> i, status |-> s, replaces |-> r, at |-> at, ok |-> o]
    BY <2>1
  <2>4. d = [no |-> n, id |-> i, status |-> s, replaces |-> r, at |-> at, ok |-> ok]
    BY <2>2, <2>3
  <2> QED BY <2>1, <2>4 DEF Change
<1>5. changes' \in SUBSET Change
  BY <1>2, <1>3, <1>4
<1>6. Numbers'
  BY <1>2, <1>4 DEF IInv, Numbers
<1>7. Fresh'
  BY <1>2, <1>4 DEF IInv, Fresh
<1>8. ASSUME NEW id \in DOMAIN table.alerts, NEW e \in Told(id), Stands(e, id), c.id # id
      PROVE  e \in Told(id)' /\ Stands(e, id)'
  <2>1. e \in Told(id)'
    BY <1>2, <1>8 DEF Told
  <2>2. Stands(e, id)'
    BY <1>2, <1>4, <1>8 DEF Stands
  <2> QED BY <2>1, <2>2
<1> QED BY <1>2, <1>4, <1>5, <1>6, <1>7, <1>8

\* A change that is not made leaves what is told.
LEMMA NoneMade ==
  ASSUME NEW c \in changes, ~c.ok, NEW d, ~d.ok, changes' = (changes \ {c}) \cup {d},
         UNCHANGED last
  PROVE  \A id \in DOMAIN table.alerts : \A e \in Told(id) :
            Stands(e, id) => e \in Told(id)' /\ Stands(e, id)'
  BY DEF Told, Stands

\* The fields of an updated row.
LEMMA UpdatedFields ==
  ASSUME NEW r \in Row, NEW s, NEW at
  PROVE  [r EXCEPT !.status = s, !.resolved_at = at]
            = [severity |-> r.severity, status |-> s, resolved_at |-> at, at |-> r.at]
<1>1. PICK a \in Severities, b \in Statuses, c \in {Never} \cup Nat, d \in Nat :
        r = [severity |-> a, status |-> b, resolved_at |-> c, at |-> d]
  BY DEF Row
<1>2. [r EXCEPT !.status = s, !.resolved_at = at]
        = [[r EXCEPT !.status = s] EXCEPT !.resolved_at = at]
  BY DEF Row
<1>3. [r EXCEPT !.status = s] = [severity |-> a, status |-> s, resolved_at |-> c, at |-> d]
  BY <1>1
<1>4. [[severity |-> a, status |-> s, resolved_at |-> c, at |-> d] EXCEPT !.resolved_at = at]
        = [severity |-> a, status |-> s, resolved_at |-> at, at |-> d]
  OBVIOUS
<1> QED BY <1>1, <1>2, <1>3, <1>4

LEMMA UpdatedRow ==
  ASSUME NEW r \in Row, NEW s \in Statuses, clock \in Nat
  PROVE  /\ Updated(r, s) \in Row /\ Updated(r, s).status = s
         /\ Updated(r, s).resolved_at # Never <=> s = "dismissed"
         /\ Updated(r, s).resolved_at \in {Never} \cup 0..clock
<1> DEFINE at == IF s = "dismissed" THEN clock ELSE Never
<1>1. Updated(r, s) = [severity |-> r.severity, status |-> s, resolved_at |-> at, at |-> r.at]
  <2>1. \A x \in Row : [x EXCEPT !.status = s, !.resolved_at = at]
          = [severity |-> x.severity, status |-> s, resolved_at |-> at, at |-> x.at]
    BY UpdatedFields
  <2> QED BY <2>1 DEF Updated
<1>2. at \in {Never} \cup Nat /\ (at # Never <=> s = "dismissed") /\ at \in {Never} \cup 0..clock
  BY DEF Never
<1>3. r.severity \in Severities /\ r.at \in Nat
  BY DEF Row
<1> HIDE DEF at
<1>4. [severity |-> r.severity, status |-> s, resolved_at |-> at, at |-> r.at] \in Row
  BY <1>2, <1>3 DEF Row
<1> QED BY <1>1, <1>2, <1>4

\* A client sends a change: none knows of an answer to it.
LEMMA AskKeeps == IInv /\ AskPatch => IInv'
<1> SUFFICES ASSUME IInv, AskPatch PROVE IInv'
  OBVIOUS
<1>1. PICK id \in Ids, s \in Statuses : changes' = changes \cup
        {[no |-> made.patches + 1, id |-> id, status |-> s, replaces |-> last[id],
          at |-> "sent", ok |-> FALSE]}
  BY DEF AskPatch
<1>2. PICK d : d = [no |-> made.patches + 1, id |-> id, status |-> s, replaces |-> last[id],
                    at |-> "sent", ok |-> FALSE]
  OBVIOUS
<1>3. /\ UNCHANGED <<clock, table, lock, last>>
      /\ made' = [rows |-> made.rows, patches |-> made.patches + 1]
  BY DEF AskPatch, IInv, AlertTypes
<1>4. /\ changes' = changes \cup {d}
      /\ d.no = made.patches + 1 /\ d.replaces = last[id] /\ d.at = "sent" /\ d.ok = FALSE
  BY <1>1, <1>2
<1>5. d \in Change /\ id \in DOMAIN last /\ made.patches \in Nat
  <2>1. last[id] \in SUBSET Said /\ id \in DOMAIN last /\ made.patches + 1 \in Nat
    BY DEF IInv, AlertTypes
  <2> QED BY <1>2, <2>1 DEF Change, IInv, AlertTypes
<1>6. AlertTypes'
  BY <1>3, <1>4, <1>5 DEF IInv, AlertTypes
<1>7. LockTypes'
  BY <1>3, <1>4 DEF IInv, LockTypes
<1>8. Numbers'
  <2>1. made'.patches = made.patches + 1
    BY <1>3
  <2>2. /\ \A c \in changes : c.no \in 1..made'.patches /\ c.no # d.no
        /\ d.no \in 1..made'.patches
    BY <1>4, <1>5, <2>1 DEF IInv, Numbers
  <2>3. /\ \A c \in changes : \A x \in c.replaces : x \in Said /\ x.no <= made.patches
        /\ \A i \in DOMAIN last : \A x \in last[i] : x \in Said /\ x.no <= made.patches
    BY DEF IInv, Numbers, AlertTypes, Change
  <2>4. /\ \A c \in changes : \A x \in c.replaces : x.no <= made'.patches /\ x.no # d.no
        /\ \A i \in DOMAIN last : \A x \in last[i] : x.no <= made'.patches /\ x.no # d.no
    BY <1>4, <1>5, <2>1, <2>3 DEF Said
  <2> QED BY <1>3, <1>4, <1>5, <2>2, <2>4 DEF IInv, Numbers
<1>9. Fresh'
  BY <1>3, <1>4 DEF IInv, Fresh
<1>10. StatusTold'
  BY <1>3, <1>4 DEF IInv, StatusTold, Told, Stands
<1> QED BY <1>6, <1>7, <1>8, <1>9, <1>10 DEF IInv

\* It takes the lock, or is refused.
LEMMA BeginKeeps == ASSUME IInv, NEW c \in changes, BeginUpdate(c) PROVE IInv'
<1>1. /\ c.at = "sent" /\ UNCHANGED <<clock, table, last, made>>
      /\ \/ lock = "free" /\ lock' = "patch" /\ Becomes(c, "writing", FALSE)
         \/ lock # "free" /\ Becomes(c, "closed", FALSE) /\ UNCHANGED lock
  BY DEF BeginUpdate, Ok
<1>2. ~c.ok
  BY <1>1 DEF IInv, Numbers
<1>3. PICK at \in {"writing", "closed"} :
        /\ Becomes(c, at, FALSE)
        /\ \/ at = "writing" /\ lock = "free" /\ lock' = "patch"
           \/ at = "closed" /\ UNCHANGED lock
  BY <1>1
<1>4. PICK d \in changes' : d.at = at /\ ~d.ok /\ changes' = (changes \ {c}) \cup {d}
  <2>1. PICK ok \in BOOLEAN : ok = FALSE /\ ~ok /\ Becomes(c, at, ok)
    BY <1>3
  <2>2. \E d \in changes' : /\ d.no = c.no /\ d.id = c.id /\ d.status = c.status
                           /\ d.at = at /\ d.ok = ok
                           /\ changes' = (changes \ {c}) \cup {d}
    <3>1. /\ UNCHANGED <<last, made>> /\ DOMAIN table'.alerts = DOMAIN table.alerts
          /\ at \in {"sent", "writing", "closed"}
      BY <1>1
    <3> QED BY <1>2, <2>1, <3>1, BecomesKeeps
  <2> QED BY <2>1, <2>2
<1>8. changes' \in SUBSET Change /\ Numbers' /\ Fresh'
  <2>1. PICK ok \in BOOLEAN : ok = FALSE /\ ~ok /\ Becomes(c, at, ok)
    BY <1>3
  <2> QED BY <1>1, <1>2, <2>1, BecomesKeeps
<1>9. \A id \in DOMAIN table.alerts : \A e \in Told(id) :
         Stands(e, id) => e \in Told(id)' /\ Stands(e, id)'
  BY <1>1, <1>2, <1>4, NoneMade
<1>5. AlertTypes'
  BY <1>1, <1>8 DEF IInv, AlertTypes
<1>6. LockTypes'
  BY <1>1, <1>3, <1>4 DEF IInv, LockTypes
<1>7. StatusTold'
  BY <1>1, <1>9 DEF IInv, StatusTold
<1> QED BY <1>8, <1>5, <1>6, <1>7 DEF IInv

\* What an UPDATE does to the alerts: it changes one row, or none.
LEMMA UpdateCases ==
    ASSUME IInv, NEW c \in changes, Update(c)
    PROVE  \/ table' = table /\ walk' = walk /\ Becomes(c, "closed", FALSE)
           \/ LET new == Updated(table.alerts[c.id], c.status) IN
              /\ c.id \in DOMAIN table.alerts
              /\ table' = [events |-> table'.events, alerts |-> table'.alerts]
              /\ table'.events = table.events
              /\ table'.alerts = [table.alerts EXCEPT ![c.id] = new]
              /\ new \in Row /\ new.status = c.status
              /\ new.resolved_at # Never <=> c.status = "dismissed"
              /\ new.resolved_at \in {Never} \cup 0..clock
              /\ Becomes(c, "closed", TRUE)
              /\ walk' = IF /\ walk # Nothing /\ walk.table = "alerts"
                            /\ Matches(table.alerts[c.id], walk.filter)
                            /\ ~Matches(new, walk.filter)
                         THEN [walk EXCEPT !.left = TRUE] ELSE walk
<1> DEFINE new == Updated(table.alerts[c.id], c.status)
<1>1. \/ table' = table /\ walk' = walk /\ Becomes(c, "closed", FALSE)
      \/ /\ c.id \in DOMAIN table.alerts
         /\ table' = [table EXCEPT !.alerts[c.id] = new]
         /\ Becomes(c, "closed", TRUE)
         /\ walk' = IF /\ walk # Nothing /\ walk.table = "alerts"
                       /\ Matches(table.alerts[c.id], walk.filter)
                       /\ ~Matches(new, walk.filter)
                    THEN [walk EXCEPT !.left = TRUE] ELSE walk
  <2>1. \A done \in BOOLEAN : Ok(done, 0) = FALSE
    BY DEF Ok
  <2>2. Ok(TRUE, 1) = TRUE
    BY DEF Ok
  <2>3. MayFail("step") \subseteq BOOLEAN
    BY DEF MayFail
  <2> QED BY <2>1, <2>2, <2>3 DEF Update
<1>2. CASE c.id \in DOMAIN table.alerts /\ table' = [table EXCEPT !.alerts[c.id] = new]
  <2>1. table = [events |-> table.events, alerts |-> table.alerts]
    BY DEF IInv, AlertTypes
  <2>2. table' = [events |-> table.events, alerts |-> [table.alerts EXCEPT ![c.id] = new]]
    BY <1>2, <2>1
  <2>3. table.alerts[c.id] \in Row /\ c.status \in Statuses /\ clock \in Nat
    BY <1>2 DEF IInv, AlertTypes, Change
  <2>4. /\ new \in Row /\ new.status = c.status
        /\ new.resolved_at # Never <=> c.status = "dismissed"
        /\ new.resolved_at \in {Never} \cup 0..clock
    BY <2>3, UpdatedRow
  <2> HIDE DEF new
  <2>5. /\ table' = [events |-> table'.events, alerts |-> table'.alerts]
        /\ table'.events = table.events
        /\ table'.alerts = [table.alerts EXCEPT ![c.id] = new]
    BY <2>2
  <2> QED BY <1>1, <1>2, <2>4, <2>5 DEF new
<1> QED BY <1>1, <1>2

\* A change that is made is the status of its alert, and about to be answered.
LEMMA UpdateKeeps == ASSUME IInv, NEW c \in changes, Update(c) PROVE IInv'
<1> DEFINE id == c.id  s == c.status  old == table.alerts  new == table'.alerts
           row == Updated(old[id], s)
<1>1. /\ c.at = "writing" /\ lock' = "free" /\ UNCHANGED <<clock, made, last>>
      /\ id \in Ids /\ s \in Statuses
  BY DEF Update, IInv, AlertTypes, Change
<1>2. ~c.ok /\ lock = "patch" /\ \A d \in changes : d.at = "writing" => d = c
  BY <1>1 DEF IInv, Numbers, LockTypes
<1>3. old \in Seq(Row) /\ DOMAIN old = 1..Len(old) /\ Len(old) \in Nat
  BY DEF IInv, AlertTypes
<1>4. CASE table' = table /\ Becomes(c, "closed", FALSE)
  <2>1. PICK d \in changes' : d.at = "closed" /\ ~d.ok /\ changes' = (changes \ {c}) \cup {d}
    <3>1. PICK ok \in BOOLEAN : ok = FALSE /\ ~ok /\ Becomes(c, "closed", ok)
      BY <1>4
    <3>2. \E d \in changes' : /\ d.no = c.no /\ d.id = id /\ d.status = s
                             /\ d.at = "closed" /\ d.ok = ok
                             /\ changes' = (changes \ {c}) \cup {d}
      <4>1. UNCHANGED <<last, made>> /\ DOMAIN table'.alerts = DOMAIN table.alerts
        BY <1>1, <1>4
      <4> QED BY <1>2, <3>1, <4>1, BecomesKeeps
    <3> QED BY <3>1, <3>2
  <2>5. changes' \in SUBSET Change /\ Numbers' /\ Fresh'
    <3>1. PICK ok \in BOOLEAN : ok = FALSE /\ ~ok /\ Becomes(c, "closed", ok)
      BY <1>4
    <3> QED BY <1>1, <1>2, <1>4, <3>1, BecomesKeeps
  <2>6. \A i \in DOMAIN old : \A e \in Told(i) :
           Stands(e, i) => e \in Told(i)' /\ Stands(e, i)'
    BY <1>1, <1>2, <2>1, NoneMade
  <2>2. AlertTypes'
    BY <1>1, <1>4, <2>5 DEF IInv, AlertTypes
  <2>3. LockTypes'
    BY <1>1, <1>2, <1>4, <2>1 DEF IInv, LockTypes
  <2>4. StatusTold'
    BY <1>1, <1>4, <2>6 DEF IInv, StatusTold
  <2> QED BY <2>2, <2>3, <2>4, <2>5 DEF IInv
<1>5. CASE /\ id \in DOMAIN old
           /\ table' = [events |-> table'.events, alerts |-> table'.alerts]
           /\ new = [old EXCEPT ![id] = row]
           /\ row \in Row /\ row.status = s
           /\ row.resolved_at # Never <=> s = "dismissed"
           /\ Becomes(c, "closed", TRUE)
  <2> HIDE DEF row
  <2>1. /\ new \in Seq(Row) /\ Len(new) = Len(old) /\ DOMAIN new = DOMAIN old
        /\ new[id] = row
        /\ \A i \in DOMAIN old : i # id => new[i] = old[i]
    BY <1>3, <1>5
  <2>2. /\ changes' \in SUBSET Change /\ Numbers' /\ Fresh'
        /\ \E d \in changes' : /\ d.no = c.no /\ d.id = id /\ d.status = s
                               /\ d.at = "closed" /\ d.ok = TRUE
                               /\ changes' = (changes \ {c}) \cup {d}
        /\ \A i \in DOMAIN old : \A e \in Told(i) :
              Stands(e, i) /\ id # i => e \in Told(i)' /\ Stands(e, i)'
    BY <1>1, <1>2, <1>5, <2>1, BecomesKeeps
  <2>3. AlertTypes'
    BY <1>1, <1>5, <2>1, <2>2 DEF IInv, AlertTypes
  <2>4. LockTypes'
    BY <1>1, <1>2, <2>1, <2>2 DEF IInv, LockTypes
  <2>5. StatusTold'
    <3> SUFFICES ASSUME NEW i \in DOMAIN old
                 PROVE  /\ \E e \in Told(i)' : new[i].status = e.status /\ Stands(e, i)'
                        /\ new[i].resolved_at # Never <=> new[i].status = "dismissed"
      BY <2>1 DEF StatusTold
    <3>1. CASE i = id
      <4>1. PICK d \in changes' : d.no = c.no /\ d.id = id /\ d.status = s /\ d.ok = TRUE
        BY <2>2
      <4>2. d \in Told(id)'
        BY <4>1 DEF Told
      <4>3. Stands(d, id)'
        BY <4>1, <2>2 DEF Stands, Numbers
      <4> QED BY <3>1, <4>1, <4>2, <4>3, <1>5, <2>1
    <3>2. CASE i # id
      <4>1. PICK e \in Told(i) : old[i].status = e.status /\ Stands(e, i)
        BY DEF IInv, StatusTold
      <4>2. e \in Told(i)' /\ Stands(e, i)'
        BY <2>2, <3>2, <4>1
      <4>3. old[i].resolved_at # Never <=> old[i].status = "dismissed"
        BY DEF IInv, StatusTold
      <4> QED BY <2>1, <3>2, <4>1, <4>2, <4>3
    <3> QED BY <3>1, <3>2
  <2> QED BY <2>2, <2>3, <2>4, <2>5 DEF IInv
<1> QED BY <1>4, <1>5, UpdateCases

\* The answer takes the place of those that were known when it was asked for, none
\* of which is the one that gave the alert its status.
LEMMA AnswerKeeps == ASSUME IInv, NEW c \in changes, Answer(c) PROVE IInv'
<1> DEFINE id == c.id  said == [no |-> c.no, status |-> c.status]
<1>1. /\ c.at = "closed" /\ changes' = changes \ {c}
      /\ UNCHANGED <<clock, table, lock, made>>
      /\ last' = IF c.ok THEN [last EXCEPT ![id] = (@ \ c.replaces) \cup {said}] ELSE last
  BY DEF Answer
<1>2. /\ c \in Change /\ changes \in SUBSET Change
      /\ last \in [Ids \cup 1..MaxRows -> SUBSET Said] /\ id \in Ids
  BY DEF IInv, AlertTypes, Change
<1>3. said \in Said /\ said.no = c.no /\ said.status = c.status
  BY <1>2 DEF Said, Change
<1> HIDE DEF said
<1>4. LockTypes'
  BY <1>1 DEF IInv, LockTypes
<1>5. /\ last' \in [Ids \cup 1..MaxRows -> SUBSET Said]
      /\ \A i \in Ids \cup 1..MaxRows : last'[i] \subseteq last[i] \cup {said}
      /\ \A i \in Ids \cup 1..MaxRows : ~c.ok \/ i # id => last'[i] = last[i]
      /\ c.ok => last'[id] = (last[id] \ c.replaces) \cup {said}
  BY <1>1, <1>2, <1>3
<1>6. AlertTypes'
  BY <1>1, <1>5 DEF IInv, AlertTypes
<1>7. Numbers'
  <2>1. c.no <= made.patches /\ \A d \in changes' : d.no # c.no
    BY <1>1 DEF IInv, Numbers
  <2>2. DOMAIN last' = DOMAIN last /\ DOMAIN last = Ids \cup 1..MaxRows
    BY <1>2, <1>5
  <2>3. \A i \in DOMAIN last' : \A x \in last'[i] :
           x.no <= made.patches /\ \A d \in changes' : x.no # d.no
    <3> SUFFICES ASSUME NEW i \in DOMAIN last', NEW x \in last'[i]
                 PROVE  x.no <= made.patches /\ \A d \in changes' : x.no # d.no
      OBVIOUS
    <3>1. x \in last[i] \/ x = said
      BY <1>5, <2>2
    <3> QED BY <1>1, <1>3, <2>1, <2>2, <3>1 DEF IInv, Numbers
  <2> QED BY <1>1, <2>3 DEF IInv, Numbers
<1>8. Fresh'
  <2> SUFFICES ASSUME NEW i \in 1..MaxRows, i \notin DOMAIN table.alerts
               PROVE  last'[i] = {Unchanged} /\ \A d \in changes' : d.ok => d.id # i
    BY <1>1 DEF Fresh
  <2>1. last[i] = {Unchanged} /\ \A d \in changes : d.ok => d.id # i
    BY DEF IInv, Fresh
  <2>2. ~c.ok \/ i # id
    BY <2>1
  <2> QED BY <1>1, <1>5, <2>1, <2>2
<1>9. StatusTold'
  <2> SUFFICES ASSUME NEW i \in DOMAIN table.alerts
               PROVE  \E e \in Told(i)' : table.alerts[i].status = e.status /\ Stands(e, i)'
    BY <1>1 DEF IInv, StatusTold
  <2>1. PICK e \in Told(i) : table.alerts[i].status = e.status /\ Stands(e, i)
    BY DEF IInv, StatusTold
  <2>2. Stands(e, i)'
    BY <1>1, <2>1 DEF Stands
  <2>3. i \in Ids \cup 1..MaxRows
    BY LenProperties, ReportsAssumption DEF IInv, AlertTypes, LockTypes
  <2>4. CASE e = c /\ c.ok /\ c.id = i
    <3>1. said \in Told(i)' /\ table.alerts[i].status = said.status
      BY <1>3, <1>5, <2>1, <2>4 DEF Told
    <3>2. Stands(said, i)'
      BY <1>3, <2>2, <2>4 DEF Stands
    <3> QED BY <3>1, <3>2
  <2>5. CASE e \in changes /\ e # c /\ e.ok /\ e.id = i
    <3>1. e \in Told(i)'
      BY <1>1, <2>5 DEF Told
    <3> QED BY <2>1, <2>2, <3>1
  <2>6. CASE e \in last[i]
    <3>1. e \notin c.replaces \/ ~c.ok \/ i # id
      BY <2>1 DEF Stands
    <3>2. e \in last'[i]
      BY <1>5, <2>3, <2>6, <3>1
    <3> QED BY <2>1, <2>2, <3>2 DEF Told
  <2> QED BY <2>1, <2>4, <2>5, <2>6 DEF Told
<1> QED BY <1>4, <1>6, <1>7, <1>8, <1>9 DEF IInv

-----------------------------------------------------------------------------

\* The rest of the system.
LEMMA StepKeeps == IInv /\ [Next]_vars => IInv'
<1> SUFFICES ASSUME IInv, [Next]_vars PROVE IInv'
  OBVIOUS
<1>1. /\ clock \in Nat /\ MaxRows \in Nat /\ made.rows \in 0..MaxRows
      /\ lock \in {"free", "AlertWriter", "patch"}
      /\ table = [events |-> table.events, alerts |-> table.alerts]
      /\ made = [rows |-> made.rows, patches |-> made.patches]
  BY ReportsAssumption DEF IInv, AlertTypes, LockTypes
<1>2. CASE Tick
  <2>1. clock' \in Nat /\ UNCHANGED <<lock, changes, last, table, made>>
    BY <1>1, <1>2 DEF Tick
  <2> QED BY <2>1, <1>1, ElsewhereKeeps
<1>3. CASE Flush
  <2>1. UNCHANGED <<lock, changes, last, clock, made>>
    BY <1>3 DEF Flush
  <2>2. table' = [events |-> table.events \o queue, alerts |-> table.alerts]
    BY <1>1, <1>3 DEF Flush
  <2> QED BY <2>1, <2>2, <1>1, ElsewhereKeeps
<1>4. CASE FireAlert
  <2>1. /\ UNCHANGED <<clock, table, changes, last>>
        /\ lock # "AlertWriter" /\ made.rows < MaxRows
        /\ lock' = IF lock = "free" THEN "AlertWriter" ELSE lock
    BY <1>4 DEF FireAlert
  <2>2. made' = [rows |-> made.rows + 1, patches |-> made.patches]
    BY <1>1, <1>4 DEF FireAlert
  <2> QED BY <1>1, <2>1, <2>2, ElsewhereKeeps
<1>5. CASE InsertAlert
  BY <1>5, InsertKeeps
<1>6. CASE StartWalk \/ NextPage \/ Report
  <2>1. UNCHANGED <<lock, changes, last, clock, made, table>>
    BY <1>6 DEF StartWalk, NextPage, Report
  <2> QED BY <2>1, <1>1, ElsewhereKeeps
<1>7. CASE AskPatch
  BY <1>7, AskKeeps
<1>8. ASSUME NEW c \in changes, BeginUpdate(c) \/ Update(c) \/ Answer(c)
      PROVE  IInv'
  BY <1>8, BeginKeeps, UpdateKeeps, AnswerKeeps
<1>9. ASSUME NEW t \in Threads, Stamp(t)
      PROVE  IInv'
  <2>1. UNCHANGED <<lock, changes, last, clock, table>>
    BY <1>9 DEF Stamp
  <2>2. made' = [rows |-> made.rows + 1, patches |-> made.patches] /\ made.rows < MaxRows
    BY <1>1, <1>9 DEF Stamp
  <2> QED BY <2>1, <2>2, <1>1, ElsewhereKeeps
<1>10. ASSUME NEW t \in Threads, Enqueue(t)
       PROVE  IInv'
  <2>1. UNCHANGED <<lock, changes, last, clock, made, table>>
    BY <1>10 DEF Enqueue
  <2> QED BY <2>1, <1>1, ElsewhereKeeps
<1>11. CASE UNCHANGED vars
  <2>1. UNCHANGED <<lock, changes, last, clock, made, table>>
    BY <1>11 DEF vars
  <2> QED BY <2>1, <1>1, ElsewhereKeeps
<1> QED BY <1>2, <1>3, <1>4, <1>5, <1>6, <1>7, <1>8, <1>9, <1>10, <1>11 DEF Next

\* With any number of clients, alerts and refusals an alert has the status of a change
\* that was answered ok and not replaced, or that is made and about to be answered
\* so, however the answers and the changes are ordered (AlertsController.cpp:211-231;
\* AlertWriter.cpp:143-174 beside it).
THEOREM AnswersHold == Spec => []LastAnswerHolds
<1>1. IInv => LastAnswerHolds
  BY DEF IInv, StatusTold, Told, LastAnswerHolds
<1> QED BY InitIInv, StepKeeps, <1>1, PTL DEF Spec

-----------------------------------------------------------------------------
(* What is on its way to the tables *)

EventRow == [at : Nat, type : {k.type : k \in Kinds}, result : {"success", "failure"},
             actor : {k.actor : k \in Kinds}]

\* Events before and in their table; alerts are dated by the clock.
RowTypes ==
    /\ clock \in 0..MaxClock
    /\ table.events \in Seq(EventRow) /\ queue \in Seq(EventRow)
    /\ stamped \in [Threads -> EventRow \cup {Nothing}]
    /\ \A id \in DOMAIN table.alerts : table.alerts[id].resolved_at \in {Never} \cup 0..clock

\* Each row that was made is in one place at most.
Held == {t \in Threads : stamped[t] # Nothing}
Inserting == IF lock = "AlertWriter" THEN 1 ELSE 0
Budget ==
    /\ IsFiniteSet(Held)
    /\ Len(table.events) + Len(queue) + Cardinality(Held) + Len(table.alerts) + Inserting
         <= made.rows

\* Nothing of a settled report's window is still to come, and the table gives what
\* was read of it.
Given(rows) == IsRead(report.kind, Items(report.kind, rows, report.filter),
                      report.limit, report.read, report.cut)
ReportHolds ==
    report # Nothing /\ report.settled =>
        /\ report.filter \in Windows /\ report.filter.to <= clock
        /\ \A i \in 1..Len(queue) : queue[i].at >= report.filter.to
        /\ \A t \in Threads : stamped[t] # Nothing => stamped[t].at >= report.filter.to
        /\ report.kind \in {"csv", "types", "actors"}
        /\ Given(table.events)

EInv == IInv /\ RowTypes /\ Budget /\ ReportHolds

LEMMA NothingElse == Nothing \notin EventRow
  BY DEF Nothing, EventRow

LEMMA Counts ==
    ASSUME EInv
    PROVE  /\ Len(table.events) \in Nat /\ Len(queue) \in Nat /\ Len(table.alerts) \in Nat
           /\ Cardinality(Held) \in Nat /\ Inserting \in {0, 1} /\ made.rows \in Nat
           /\ clock \in Nat /\ MaxClock \in Nat
           /\ table = [events |-> table.events, alerts |-> table.alerts]
           /\ made = [rows |-> made.rows, patches |-> made.patches]
<1>1. Len(table.events) \in Nat /\ Len(queue) \in Nat /\ Len(table.alerts) \in Nat
  BY LenProperties DEF EInv, RowTypes, IInv, AlertTypes
<1>2. Cardinality(Held) \in Nat
  BY FS_CardinalityType DEF EInv, Budget
<1>3. Inserting \in {0, 1}
  BY DEF Inserting
<1> QED
  BY <1>1, <1>2, <1>3, ReportsAssumption DEF EInv, IInv, AlertTypes, RowTypes

LEMMA InitEInv == Init => EInv
<1> SUFFICES ASSUME Init PROVE EInv
  OBVIOUS
<1>1. /\ clock = 0 /\ stamped = [t \in Threads |-> Nothing] /\ queue = <<>>
      /\ table.events = <<>> /\ table.alerts = <<>> /\ lock = "free"
      /\ made.rows = 0 /\ report = Nothing
  BY DEF Init
<1>2. Held = {}
  BY <1>1 DEF Held
<1>3. RowTypes
  BY <1>1, EmptySeq, ReportsAssumption DEF RowTypes
<1>4. Budget
  BY <1>1, <1>2, EmptySeq, FS_EmptySet DEF Budget, Inserting
<1> QED
  BY <1>1, <1>3, <1>4, InitIInv DEF EInv, ReportHolds

\* What a window finds, it finds in a longer table; what lies outside adds nothing.
LEMMA FoundIn ==
    ASSUME NEW S, NEW rows \in Seq(S), NEW f
    PROVE  /\ Found(rows, f) \subseteq 1..Len(rows) /\ Len(rows) \in Nat
           /\ \A id \in 1..Len(rows) : id \in Found(rows, f) <=> Matches(rows[id], f)
  BY LenProperties DEF Found

LEMMA FoundAppended ==
    ASSUME NEW S, NEW rows \in Seq(S), NEW more \in Seq(S), NEW f
    PROVE  /\ Found(rows, f) \subseteq Found(rows \o more, f)
           /\ (\A i \in 1..Len(more) : ~Matches(more[i], f)) =>
                 Found(rows \o more, f) = Found(rows, f)
<1> DEFINE new == rows \o more
<1>1. /\ new \in Seq(S) /\ Len(new) = Len(rows) + Len(more)
      /\ Len(rows) \in Nat /\ Len(more) \in Nat
      /\ \A i \in 1..Len(rows) + Len(more) :
            new[i] = IF i <= Len(rows) THEN rows[i] ELSE more[i - Len(rows)]
  BY ConcatProperties, LenProperties
<1> HIDE DEF new
<1>2. /\ \A id \in 1..Len(rows) : id \in 1..Len(new) /\ new[id] = rows[id]
      /\ \A id \in 1..Len(new) : id \notin 1..Len(rows) =>
            id - Len(rows) \in 1..Len(more) /\ new[id] = more[id - Len(rows)]
  <2>1. \A id \in 1..Len(rows) : id \in 1..Len(rows) + Len(more) /\ id <= Len(rows)
    BY <1>1
  <2>2. \A id \in 1..Len(rows) + Len(more) : id \notin 1..Len(rows) =>
          id - Len(rows) \in 1..Len(more) /\ ~(id <= Len(rows))
    BY <1>1
  <2> QED
    BY <1>1, <2>1, <2>2
<1>3. /\ Found(rows, f) \subseteq 1..Len(rows) /\ Found(new, f) \subseteq 1..Len(new)
      /\ \A id \in 1..Len(rows) : id \in Found(rows, f) <=> Matches(rows[id], f)
      /\ \A id \in 1..Len(new) : id \in Found(new, f) <=> Matches(new[id], f)
  BY <1>1, FoundIn
<1>4. Found(rows, f) \subseteq Found(new, f)
  BY <1>2, <1>3
<1>5. ASSUME \A i \in 1..Len(more) : ~Matches(more[i], f) PROVE Found(new, f) \subseteq Found(rows, f)
  BY <1>2, <1>3, <1>5
<1> QED
  BY <1>4, <1>5 DEF new

\* What a report lists depends on the rows it found alone.
LEMMA ItemsKept ==
    ASSUME NEW rows \in Seq(EventRow), NEW more \in Seq(EventRow), NEW f,
           \A i \in 1..Len(more) : ~Matches(more[i], f),
           NEW kind \in {"csv", "types", "actors"}
    PROVE  Items(kind, rows \o more, f) = Items(kind, rows, f)
<1> DEFINE new == rows \o more
           F == Found(rows, f)
<1>1. Found(new, f) = F
  BY FoundAppended
<1>2. \A id \in F : new[id] = rows[id]
  <2>1. F \subseteq 1..Len(rows) /\ Len(rows) \in Nat
    BY FoundIn
  <2>2. \A id \in 1..Len(rows) : new[id] = rows[id]
    BY <2>1, ConcatProperties, LenProperties
  <2> QED
    BY <2>1, <2>2
<1> HIDE DEF new, F
<1>3. ASSUME NEW of \in SUBSET F, NEW key PROVE Group(new, of, key) = Group(rows, of, key)
  <2>1. {id \in of : new[id].result = "failure"} = {id \in of : rows[id].result = "failure"}
    BY <1>2
  <2> QED
    BY <2>1 DEF Group
<1>4. CASE kind = "csv"
  BY <1>1, <1>4 DEF Items, F, new
<1>5. CASE kind = "types"
  <2> DEFINE Of(t, id) == {x \in F : ByType(t[x]) = ByType(t[id])}
             G(t) == {Group(t, Of(t, id), ByType(t[id])) : id \in F}
  <2>1. Items(kind, new, f) = G(new) /\ Items(kind, rows, f) = G(rows)
    BY <1>1, <1>5 DEF Items, F
  <2>2. ASSUME NEW id \in F
        PROVE  Group(new, Of(new, id), ByType(new[id])) = Group(rows, Of(rows, id), ByType(rows[id]))
    <3>1. Of(new, id) = Of(rows, id) /\ Of(rows, id) \in SUBSET F
      BY <1>2
    <3>2. ByType(new[id]) = ByType(rows[id])
      BY <1>2
    <3> HIDE DEF Of
    <3> QED
      BY <1>3, <3>1, <3>2
  <2> HIDE DEF Of
  <2> QED
    BY <2>1, <2>2 DEF new
<1>6. CASE kind = "actors"
  <2> DEFINE Of(t, id) == {x \in F : t[x].actor = t[id].actor}
             With(t) == {x \in F : t[x].actor # NoActor}
             G(t) == {Group(t, Of(t, id), t[id].actor) : id \in With(t)}
  <2>1. Items(kind, new, f) = G(new) /\ Items(kind, rows, f) = G(rows)
    BY <1>1, <1>6 DEF Items, F
  <2>2. ASSUME NEW id \in F
        PROVE  Group(new, Of(new, id), new[id].actor) = Group(rows, Of(rows, id), rows[id].actor)
    <3>1. Of(new, id) = Of(rows, id) /\ Of(rows, id) \in SUBSET F
      BY <1>2
    <3>2. new[id].actor = rows[id].actor
      BY <1>2
    <3> HIDE DEF Of
    <3> QED
      BY <1>3, <3>1, <3>2
  <2>3. With(new) = With(rows) /\ With(rows) \subseteq F
    BY <1>2
  <2> HIDE DEF Of, With
  <2> QED
    BY <2>1, <2>2, <2>3 DEF new
<1> QED
  BY <1>4, <1>5, <1>6

-----------------------------------------------------------------------------
(* The steps of those who write *)

\* What the alerts and their lock do not touch.
EventsRest == UNCHANGED <<stamped, queue, report>> /\ table'.events = table.events

LEMMA TickE == EInv /\ Tick => EInv'
<1> SUFFICES ASSUME EInv, Tick PROVE EInv'
  OBVIOUS
<1>1. /\ clock' = clock + 1 /\ clock < MaxClock
      /\ UNCHANGED <<stamped, queue, table, lock, made, report>>
  BY DEF Tick
<1>2. IInv'
  BY StepKeeps DEF EInv, Next
<1>3. clock' \in 0..MaxClock /\ clock \in 0..clock'
  BY <1>1, Counts
<1>4. RowTypes'
  <2>1. \A at : at \in {Never} \cup 0..clock => at \in {Never} \cup 0..clock'
    BY <1>3, <1>1, Counts
  <2> QED
    BY <1>1, <1>3, <2>1 DEF EInv, RowTypes
<1>5. Budget'
  BY <1>1 DEF EInv, Budget, Held, Inserting
<1>6. ReportHolds'
  <2>1. \A f \in Windows : f.to <= clock => f.to <= clock'
    BY <1>1, <1>3, Counts, ReportsAssumption
  <2> QED
    BY <1>1, <2>1 DEF EInv, ReportHolds, Given
<1> QED
  BY <1>2, <1>4, <1>5, <1>6 DEF EInv

LEMMA StampE == ASSUME EInv, NEW t \in Threads, Stamp(t) PROVE EInv'
<1>1. /\ stamped[t] = Nothing
      /\ UNCHANGED <<clock, queue, table, lock, report>>
      /\ made' = [made EXCEPT !.rows = @ + 1]
  BY DEF Stamp
<1>2. made'.rows = made.rows + 1
  <2>1. made = [rows |-> made.rows, patches |-> made.patches]
    BY Counts
  <2> QED
    BY <1>1, <2>1
<1>3. PICK k \in Kinds : stamped' = [stamped EXCEPT ![t] =
          [at |-> clock, type |-> k.type, result |-> k.result, actor |-> k.actor]]
  BY DEF Stamp
<1> DEFINE row == [at |-> clock, type |-> k.type, result |-> k.result, actor |-> k.actor]
<1>4. row \in EventRow /\ row # Nothing /\ row.at = clock
  BY Counts, ReportsAssumption DEF EventRow, Nothing
<1> HIDE DEF row
<1>5. /\ stamped \in [Threads -> EventRow \cup {Nothing}]
      /\ stamped' = [stamped EXCEPT ![t] = row]
  BY <1>3 DEF EInv, RowTypes, row
<1>6. IInv'
  BY StepKeeps DEF EInv, Next
<1>7. RowTypes'
  BY <1>1, <1>4, <1>5 DEF EInv, RowTypes
<1>8. Held' = Held \cup {t} /\ t \notin Held
  BY <1>1, <1>4, <1>5 DEF Held
<1>9. Budget'
  <2>1. IsFiniteSet(Held') /\ Cardinality(Held') = Cardinality(Held) + 1
    BY <1>8, FS_AddElement DEF EInv, Budget
  <2> QED
    BY <1>1, <1>2, <2>1, Counts DEF EInv, Budget, Inserting
<1>10. ReportHolds'
  <2> SUFFICES ASSUME report # Nothing, report.settled PROVE ReportHolds'
    BY <1>1 DEF ReportHolds, Given
  <2>1. /\ report.filter \in Windows /\ report.filter.to <= clock
        /\ \A i \in 1..Len(queue) : queue[i].at >= report.filter.to
        /\ \A x \in Threads : stamped[x] # Nothing => stamped[x].at >= report.filter.to
        /\ report.kind \in {"csv", "types", "actors"} /\ Given(table.events)
    BY DEF EInv, ReportHolds
  <2>2. clock >= report.filter.to
    BY <2>1, Counts, ReportsAssumption
  <2>3. \A x \in Threads : stamped'[x] # Nothing => stamped'[x].at >= report.filter.to
    BY <1>4, <1>5, <2>1, <2>2
  <2> QED
    BY <1>1, <2>1, <2>3 DEF ReportHolds, Given
<1> QED
  BY <1>6, <1>7, <1>9, <1>10 DEF EInv

LEMMA EnqueueE == ASSUME EInv, NEW t \in Threads, Enqueue(t) PROVE EInv'
<1>1. /\ stamped[t] # Nothing /\ queue' = Append(queue, stamped[t])
      /\ stamped' = [stamped EXCEPT ![t] = Nothing]
      /\ UNCHANGED <<clock, table, lock, made, report>>
  BY DEF Enqueue
<1>2. IInv'
  BY StepKeeps DEF EInv, Next
<1>3. stamped \in [Threads -> EventRow \cup {Nothing}] /\ queue \in Seq(EventRow)
  BY DEF EInv, RowTypes
<1>4. stamped[t] \in EventRow
  BY <1>1, <1>3
<1>5. /\ queue' \in Seq(EventRow) /\ Len(queue') = Len(queue) + 1
      /\ \A i \in 1..Len(queue) : queue'[i] = queue[i]
      /\ queue'[Len(queue) + 1] = stamped[t]
  BY <1>1, <1>3, <1>4, AppendProperties
<1>6. RowTypes'
  BY <1>1, <1>3, <1>5 DEF EInv, RowTypes
<1>7. Held' = Held \ {t} /\ t \in Held
  BY <1>1, <1>3 DEF Held
<1>8. Budget'
  <2>1. IsFiniteSet(Held') /\ Cardinality(Held') = Cardinality(Held) - 1
    BY <1>7, FS_RemoveElement DEF EInv, Budget
  <2> QED
    BY <1>1, <1>5, <2>1, Counts DEF EInv, Budget, Inserting
<1>9. ReportHolds'
  <2> SUFFICES ASSUME report # Nothing, report.settled PROVE ReportHolds'
    BY <1>1 DEF ReportHolds, Given
  <2>1. /\ report.filter \in Windows /\ report.filter.to <= clock
        /\ \A i \in 1..Len(queue) : queue[i].at >= report.filter.to
        /\ \A x \in Threads : stamped[x] # Nothing => stamped[x].at >= report.filter.to
        /\ report.kind \in {"csv", "types", "actors"} /\ Given(table.events)
    BY DEF EInv, ReportHolds
  <2>2. \A i \in 1..Len(queue) + 1 : i \in 1..Len(queue) \/ i = Len(queue) + 1
    BY Counts
  <2>3. \A i \in 1..Len(queue') : queue'[i].at >= report.filter.to
    BY <1>1, <1>5, <2>1, <2>2
  <2>4. \A x \in Threads : stamped'[x] # Nothing => stamped'[x].at >= report.filter.to
    BY <1>1, <1>3, <2>1
  <2> QED
    BY <1>1, <2>1, <2>3, <2>4 DEF ReportHolds, Given
<1> QED
  BY <1>2, <1>6, <1>8, <1>9 DEF EInv

\* The batch lands in the table; a report that is settled expects none of it.
LEMMA FlushE == EInv /\ Flush => EInv'
<1> SUFFICES ASSUME EInv, Flush PROVE EInv'
  OBVIOUS
<1>1. /\ queue' = <<>> /\ table' = [table EXCEPT !.events = @ \o queue]
      /\ UNCHANGED <<clock, stamped, lock, made, report>>
  BY DEF Flush
<1>2. table'.events = table.events \o queue /\ table'.alerts = table.alerts
  <2>1. table = [events |-> table.events, alerts |-> table.alerts]
    BY Counts
  <2> QED
    BY <1>1, <2>1
<1>3. IInv'
  BY StepKeeps DEF EInv, Next
<1>4. table.events \in Seq(EventRow) /\ queue \in Seq(EventRow)
  BY DEF EInv, RowTypes
<1>5. /\ table.events \o queue \in Seq(EventRow)
      /\ Len(table.events \o queue) = Len(table.events) + Len(queue)
  BY <1>4, ConcatProperties
<1>6. RowTypes'
  BY <1>1, <1>2, <1>5, EmptySeq DEF EInv, RowTypes
<1>7. Budget'
  <2>1. Held' = Held /\ Inserting' = Inserting
    BY <1>1 DEF Held, Inserting
  <2> QED
    BY <1>1, <1>2, <1>5, <2>1, EmptySeq, Counts DEF EInv, Budget
<1>8. ReportHolds'
  <2> SUFFICES ASSUME report # Nothing, report.settled PROVE ReportHolds'
    BY <1>1 DEF ReportHolds, Given
  <2> DEFINE f == report.filter
  <2>1. /\ f \in Windows /\ f.to <= clock
        /\ \A i \in 1..Len(queue) : queue[i].at >= f.to
        /\ \A x \in Threads : stamped[x] # Nothing => stamped[x].at >= f.to
        /\ report.kind \in {"csv", "types", "actors"} /\ Given(table.events)
    BY DEF EInv, ReportHolds
  <2>2. \A i \in 1..Len(queue) : ~Matches(queue[i], f)
    <3> SUFFICES ASSUME NEW i \in 1..Len(queue) PROVE ~(queue[i].at < f.to)
      BY DEF Matches
    <3>1. queue[i] \in EventRow
      BY <1>4, ElementOfSeq
    <3>2. queue[i].at \in Nat /\ f.to \in Int
      BY <3>1, <2>1, ReportsAssumption DEF EventRow
    <3> QED
      BY <2>1, <3>2
  <2>3. Items(report.kind, table.events \o queue, f) = Items(report.kind, table.events, f)
    BY <1>4, <2>1, <2>2, ItemsKept
  <2>4. \A i \in 1..Len(queue') : queue'[i].at >= f.to
    BY <1>1, EmptySeq
  <2> QED
    BY <1>1, <1>2, <2>1, <2>3, <2>4 DEF ReportHolds, Given
<1> QED
  BY <1>3, <1>6, <1>7, <1>8 DEF EInv

\* Steps that leave the events alone keep what is said of them.
LEMMA AlertsE ==
    ASSUME EInv, IInv', EventsRest, UNCHANGED clock,
           Len(table'.alerts) + Inserting' - (Len(table.alerts) + Inserting)
             <= made'.rows - made.rows,
           \A id \in DOMAIN table'.alerts :
              table'.alerts[id].resolved_at \in {Never} \cup 0..clock
    PROVE  EInv'
<1>1. RowTypes'
  BY DEF EInv, RowTypes, EventsRest
<1>2. Held' = Held
  BY DEF EventsRest, Held
<1>3. Len(table'.alerts) \in Nat /\ Inserting' \in {0, 1} /\ made'.rows \in Nat
  BY LenProperties, ReportsAssumption DEF IInv, AlertTypes, Inserting
<1>4. Budget'
  <2>1. Len(table.events) + Len(queue) + Cardinality(Held) + Len(table'.alerts) + Inserting'
          <= made'.rows
    <3>1. Len(table.events) + Len(queue) + Cardinality(Held) + Len(table.alerts) + Inserting
            <= made.rows
      BY DEF EInv, Budget
    <3>2. PICK e \in Nat, q \in Nat, h \in Nat, a \in Nat, i \in Nat, m \in Nat :
            /\ e = Len(table.events) /\ q = Len(queue) /\ h = Cardinality(Held)
            /\ a = Len(table.alerts) /\ i = Inserting /\ m = made.rows
      BY Counts
    <3>3. PICK b \in Nat, j \in Nat, n \in Nat :
            b = Len(table'.alerts) /\ j = Inserting' /\ n = made'.rows
      BY <1>3
    <3>4. e + q + h + a + i <= m
      BY <3>1, <3>2
    <3>5. b + j - (a + i) <= n - m
      BY <3>2, <3>3
    <3>6. e + q + h + b + j <= n
      BY <3>4, <3>5
    <3> QED
      BY <3>2, <3>3, <3>6
  <2> QED
    BY <1>2, <2>1 DEF EInv, Budget, EventsRest
<1>5. ReportHolds'
  BY DEF EInv, ReportHolds, Given, EventsRest
<1> QED
  BY <1>1, <1>4, <1>5 DEF EInv

LEMMA FireE == EInv /\ FireAlert => EInv'
<1> SUFFICES ASSUME EInv, FireAlert PROVE EInv'
  OBVIOUS
<1>1. /\ lock # "AlertWriter" /\ lock' = IF lock = "free" THEN "AlertWriter" ELSE lock
      /\ made' = [made EXCEPT !.rows = @ + 1]
      /\ UNCHANGED <<clock, stamped, queue, table, report>>
  BY DEF FireAlert
<1>2. made'.rows = made.rows + 1
  <2>1. made = [rows |-> made.rows, patches |-> made.patches]
    BY Counts
  <2> QED
    BY <1>1, <2>1
<1>3. Inserting = 0 /\ Inserting' \in {0, 1}
  BY <1>1 DEF Inserting
<1>4. Len(table'.alerts) + Inserting' - (Len(table.alerts) + Inserting) <= made'.rows - made.rows
  BY <1>1, <1>2, <1>3, Counts
<1>5. /\ EventsRest
      /\ \A id \in DOMAIN table'.alerts :
            table'.alerts[id].resolved_at \in {Never} \cup 0..clock
  BY <1>1 DEF EInv, RowTypes, EventsRest
<1>6. IInv'
  BY StepKeeps DEF EInv, Next
<1> QED
  BY <1>1, <1>4, <1>5, <1>6, AlertsE

LEMMA InsertE == EInv /\ InsertAlert => EInv'
<1> SUFFICES ASSUME EInv, InsertAlert PROVE EInv'
  OBVIOUS
<1>1. /\ lock = "AlertWriter" /\ lock' = "free"
      /\ UNCHANGED <<clock, stamped, queue, made, report>>
  BY DEF InsertAlert
<1>2. PICK s \in Severities, fails \in MayFail("step") : table' = IF fails THEN table ELSE
          [table EXCEPT !.alerts = Append(@, [severity |-> s, status |-> "open",
                                              resolved_at |-> Never, at |-> clock])]
  BY DEF InsertAlert
<1>3. Inserting = 1 /\ Inserting' = 0
  BY <1>1 DEF Inserting
<1>4. IInv'
  BY StepKeeps DEF EInv, Next
<1> DEFINE row == [severity |-> s, status |-> "open", resolved_at |-> Never, at |-> clock]
<1>5. CASE table' = table
  <2>1. /\ EventsRest
        /\ \A id \in DOMAIN table'.alerts :
              table'.alerts[id].resolved_at \in {Never} \cup 0..clock
    BY <1>1, <1>5 DEF EInv, RowTypes, EventsRest
  <2>2. Len(table'.alerts) + Inserting' - (Len(table.alerts) + Inserting) <= made'.rows - made.rows
    BY <1>1, <1>3, <1>5, Counts
  <2> QED
    BY <1>1, <1>4, <2>1, <2>2, AlertsE
<1>6. CASE table' = [table EXCEPT !.alerts = Append(@, row)]
  <2>1. table'.alerts = Append(table.alerts, row) /\ table'.events = table.events
    <3>1. table = [events |-> table.events, alerts |-> table.alerts]
      BY Counts
    <3> QED
      BY <1>6, <3>1
  <2>2. row \in Row /\ row.resolved_at = Never
    BY Counts DEF Row, Statuses
  <2> HIDE DEF row
  <2>3. table.alerts \in Seq(Row) /\ DOMAIN table.alerts = 1..Len(table.alerts)
    BY LenProperties DEF EInv, IInv, AlertTypes
  <2>4. /\ Len(table'.alerts) = Len(table.alerts) + 1
        /\ DOMAIN table'.alerts = 1..Len(table.alerts) + 1
        /\ \A i \in 1..Len(table.alerts) : table'.alerts[i] = table.alerts[i]
        /\ table'.alerts[Len(table.alerts) + 1] = row
    BY <2>1, <2>2, <2>3, AppendProperties, LenProperties
  <2>5. \A id \in DOMAIN table'.alerts :
           table'.alerts[id].resolved_at \in {Never} \cup 0..clock
    <3>1. \A id \in DOMAIN table'.alerts : id \in 1..Len(table.alerts) \/ id = Len(table.alerts) + 1
      BY <2>4, Counts
    <3>2. \A id \in 1..Len(table.alerts) :
             table.alerts[id].resolved_at \in {Never} \cup 0..clock
      BY <2>3 DEF EInv, RowTypes
    <3> QED
      BY <2>2, <2>4, <3>1, <3>2
  <2>6. EventsRest
    BY <1>1, <2>1 DEF EventsRest
  <2>7. Len(table'.alerts) + Inserting' - (Len(table.alerts) + Inserting) <= made'.rows - made.rows
    BY <1>1, <1>3, <2>4, Counts
  <2> QED
    BY <1>1, <1>4, <2>5, <2>6, <2>7, AlertsE
<1> QED
  BY <1>2, <1>5, <1>6

\* A change that is sent, refused or answered leaves the tables alone.
LEMMA ChangesE ==
    ASSUME EInv, AskPatch \/ \E c \in changes : BeginUpdate(c) \/ Answer(c)
    PROVE  EInv'
<1>1. /\ UNCHANGED <<clock, stamped, queue, table, report>>
      /\ lock' = lock \/ (lock = "free" /\ lock' = "patch")
      /\ made' = made \/ made' = [made EXCEPT !.patches = @ + 1]
  BY DEF AskPatch, BeginUpdate, Answer
<1>2. made'.rows = made.rows
  <2>1. made = [rows |-> made.rows, patches |-> made.patches]
    BY Counts
  <2> QED
    BY <1>1, <2>1
<1>3. Inserting' = Inserting
  BY <1>1 DEF Inserting
<1>4. /\ EventsRest
      /\ \A id \in DOMAIN table'.alerts :
            table'.alerts[id].resolved_at \in {Never} \cup 0..clock
  BY <1>1 DEF EInv, RowTypes, EventsRest
<1>5. IInv'
  BY StepKeeps DEF EInv, Next
<1>6. Len(table'.alerts) + Inserting' - (Len(table.alerts) + Inserting) <= made'.rows - made.rows
  BY <1>1, <1>2, <1>3, Counts
<1> QED
  BY <1>1, <1>4, <1>5, <1>6, AlertsE

LEMMA UpdateE == ASSUME EInv, NEW c \in changes, Update(c) PROVE EInv'
<1>1. /\ c.at = "writing" /\ lock' = "free"
      /\ UNCHANGED <<clock, stamped, queue, made, report>>
  BY DEF Update
<1>2. IInv'
  BY StepKeeps DEF EInv, Next
<1>3. Inserting' = 0 /\ Inserting = 0
  BY <1>1 DEF Inserting, EInv, IInv, LockTypes
<1>4. CASE table' = table
  <2>1. /\ EventsRest
        /\ \A id \in DOMAIN table'.alerts :
              table'.alerts[id].resolved_at \in {Never} \cup 0..clock
    BY <1>1, <1>4 DEF EInv, RowTypes, EventsRest
  <2>2. Len(table'.alerts) + Inserting' - (Len(table.alerts) + Inserting) <= made'.rows - made.rows
    BY <1>1, <1>3, <1>4, Counts
  <2> QED
    BY <1>1, <1>2, <1>3, <2>1, <2>2, AlertsE
<1>5. ASSUME NEW id \in DOMAIN table.alerts, NEW new \in Row,
             new.resolved_at \in {Never} \cup 0..clock,
             table'.events = table.events,
             table'.alerts = [table.alerts EXCEPT ![id] = new]
      PROVE  EInv'
  <2>1. table.alerts \in Seq(Row)
    BY DEF EInv, IInv, AlertTypes
  <2>2. /\ Len(table'.alerts) = Len(table.alerts) /\ DOMAIN table'.alerts = DOMAIN table.alerts
        /\ \A x \in DOMAIN table.alerts : table'.alerts[x] = IF x = id THEN new ELSE table.alerts[x]
    BY <1>5, <2>1, ExceptSeq
  <2>3. /\ EventsRest
        /\ \A x \in DOMAIN table'.alerts :
              table'.alerts[x].resolved_at \in {Never} \cup 0..clock
    BY <1>1, <1>5, <2>2 DEF EInv, RowTypes, EventsRest
  <2>4. Len(table'.alerts) + Inserting' - (Len(table.alerts) + Inserting) <= made'.rows - made.rows
    BY <1>1, <1>3, <2>2, Counts
  <2> QED
    BY <1>1, <1>2, <1>3, <2>3, <2>4, AlertsE
<1> QED
  BY <1>4, <1>5, UpdateCases DEF EInv

\* A report is settled when nothing of its window is stamped or queued.
LEMMA ReportE == EInv /\ Report => EInv'
<1> SUFFICES ASSUME EInv, Report PROVE EInv'
  OBVIOUS
<1>1. UNCHANGED <<clock, stamped, queue, table, lock, made>>
  BY DEF Report
<1>2. PICK kind \in {"csv", "types", "actors"}, f \in Windows, fails \in MayFail("step") :
        \E limit \in Limits(kind), read \in SUBSET Items(kind, table.events, f) :
           /\ IsRead(kind, Items(kind, table.events, f), limit, read, fails)
           /\ report' = [kind |-> kind, filter |-> f, limit |-> limit, read |-> read,
                         cut |-> fails, settled |-> Settled(f)]
  BY DEF Report
<1>3. IInv'
  BY StepKeeps DEF EInv, Next
<1>4. RowTypes' /\ Budget'
  BY <1>1 DEF EInv, RowTypes, Budget, Held, Inserting
<1>5. ASSUME Settled(f)
      PROVE  /\ f.to <= clock
             /\ \A i \in 1..Len(queue) : queue[i].at >= f.to
             /\ \A t \in Threads : stamped[t] # Nothing => stamped[t].at >= f.to
  <2>1. stamped \in [Threads -> EventRow \cup {Nothing}] /\ queue \in Seq(EventRow)
    BY DEF EInv, RowTypes
  <2>2. /\ \A i \in 1..Len(queue) : queue[i] \in Range(queue) /\ queue[i] # Nothing
        /\ \A t \in Threads : stamped[t] \in Range(stamped)
    BY <2>1, LenProperties, ElementOfSeq, NothingElse DEF Range
  <2> QED
    BY <1>5, <2>2 DEF Settled
<1>6. /\ report'.filter = f /\ report'.kind = kind /\ report'.settled = Settled(f)
      /\ IsRead(kind, Items(kind, table.events, f), report'.limit, report'.read, report'.cut)
  BY <1>2
<1>7. Given(table.events)'
  BY <1>1, <1>6 DEF Given
<1>8. ReportHolds'
  BY <1>1, <1>2, <1>5, <1>6, <1>7 DEF ReportHolds
<1> QED
  BY <1>3, <1>4, <1>8 DEF EInv

LEMMA StepEInv == EInv /\ [Next]_vars => EInv'
<1> SUFFICES ASSUME EInv, [Next]_vars PROVE EInv'
  OBVIOUS
<1>1. ASSUME UNCHANGED <<clock, stamped, queue, table, lock, made, report>> PROVE EInv'
  <2>1. IInv'
    BY StepKeeps DEF EInv
  <2>2. RowTypes' /\ Budget' /\ ReportHolds'
    BY <1>1 DEF EInv, RowTypes, Budget, Held, Inserting, ReportHolds, Given
  <2> QED
    BY <2>1, <2>2 DEF EInv
<1>2. StartWalk \/ NextPage \/ UNCHANGED vars =>
        UNCHANGED <<clock, stamped, queue, table, lock, made, report>>
  BY DEF StartWalk, NextPage, vars
<1> QED
  BY <1>1, <1>2, TickE, FlushE, FireE, InsertE, ReportE, ChangesE, UpdateE, StampE, EnqueueE DEF Next

LEMMA EventsSafe == Spec => []EInv
  BY InitEInv, StepEInv, PTL DEF Spec

\* A report of a window that is past, when nothing of it is stamped or queued, lists
\* what this window will ever give, all of it or, after a step that failed, the
\* beginning (EventsController.cpp:184-218, 274-302, 313-345; EventRecorder's emit
\* stamps a row before it queues it).
THEOREM WindowIsFinal == Spec => []WindowFinal
<1>1. EInv => WindowFinal
  BY DEF EInv, ReportHolds, Given, WindowFinal
<1> QED
  BY <1>1, EventsSafe, PTL

-----------------------------------------------------------------------------
(* Pages *)

\* The next newer id comes one place earlier, so the places have no gap.
LEMMA PlaceType ==
    ASSUME NEW F, IsFiniteSet(F), NEW id
    PROVE  Place(F, id) \in Nat /\ IsFiniteSet({x \in F : x > id})
<1>1. {x \in F : x > id} \in SUBSET F
  OBVIOUS
<1> QED
  BY <1>1, FS_Subset, FS_CardinalityType DEF Place

LEMMA PlaceBefore ==
    ASSUME NEW F \in SUBSET Nat, IsFiniteSet(F), NEW id \in F, Place(F, id) # 0
    PROVE  \E x \in F : Place(F, x) = Place(F, id) - 1
<1> DEFINE A == {x \in F : x > id}
<1>1. IsFiniteSet(A) /\ Place(F, id) = Cardinality(A)
  BY PlaceType DEF Place
<1>2. A # {} /\ A \in SUBSET Nat
  BY <1>1, FS_EmptySet
<1>3. PICK x \in A : \A y \in A : x <= y
  BY <1>2, LeastNumber
<1>4. {y \in F : y > x} = A \ {x}
  <2>1. id \in Nat /\ x \in Nat /\ x > id /\ x \in F
    BY <1>3
  <2>2. ASSUME NEW y \in F PROVE y > x <=> y > id /\ y # x
    <3>1. y \in Nat /\ (y > id => x <= y)
      BY <1>3
    <3> QED
      BY <2>1, <3>1
  <2> QED
    BY <2>2
<1>5. Cardinality(A \ {x}) = Cardinality(A) - 1
  BY <1>1, <1>3, FS_RemoveElement
<1> QED
  BY <1>1, <1>3, <1>4, <1>5 DEF Place

LEMMA PlacesHaveNoGap ==
    ASSUME NEW F \in SUBSET Nat, IsFiniteSet(F), NEW id \in F,
           NEW k \in Nat, k <= Place(F, id)
    PROVE  \E x \in F : Place(F, x) = k
<1> DEFINE T == {n \in Nat : n >= k /\ \E x \in F : Place(F, x) = n}
<1>1. \A x \in F : Place(F, x) \in Nat
  BY PlaceType
<1>2. T \in SUBSET Nat /\ Place(F, id) \in T
  BY <1>1
<1>3. PICK n \in T : \A m \in T : n <= m
  <2> HIDE DEF T
  <2> QED
    BY <1>2, LeastNumber
<1>4. PICK x \in F : Place(F, x) = n
  OBVIOUS
<1>5. CASE n = k
  BY <1>4, <1>5
<1>6. CASE n # k
  <2>1. n \in Nat /\ n > k /\ n - 1 \in Nat /\ n - 1 >= k
    BY <1>6
  <2>2. \E y \in F : Place(F, y) = n - 1
    BY <1>4, <2>1, PlaceBefore
  <2>3. n - 1 \in T
    BY <2>1, <2>2
  <2> QED
    BY <1>3, <2>1, <2>3
<1> QED
  BY <1>5, <1>6

\* A page that is not full is the last one.
LEMMA ShortPageIsLast ==
    ASSUME NEW F \in SUBSET Nat, IsFiniteSet(F), NEW limit \in Nat, NEW offset \in Nat,
           Cardinality(LimitOffset(F, limit, offset)) < limit,
           NEW id \in F
    PROVE  Place(F, id) < offset + Cardinality(LimitOffset(F, limit, offset))
<1> DEFINE P == LimitOffset(F, limit, offset)
           n == Cardinality(P)
           Q == {x \in P : Place(F, x) \in offset..offset + n}
           f == [x \in Q |-> Place(F, x)]
<1>1. IsFiniteSet(P) /\ n \in Nat /\ IsFiniteSet(Q) /\ Cardinality(Q) \in Nat /\ Cardinality(Q) <= n
  <2>1. P \in SUBSET F /\ Q \in SUBSET P
    BY DEF LimitOffset
  <2> QED
    BY <2>1, FS_Subset, FS_CardinalityType
<1>2. Place(F, id) \in Nat /\ \A x \in F : Place(F, x) \in Nat
  BY PlaceType
<1>3. SUFFICES ASSUME Place(F, id) >= offset + n PROVE FALSE
  <2> HIDE DEF n
  <2> QED
    BY <1>1, <1>2 DEF n
<1>4. n < limit
  OBVIOUS
<1> HIDE DEF n
<1>5. \A k \in offset..offset + n : \E x \in Q : Place(F, x) = k
  <2> SUFFICES ASSUME NEW k \in offset..offset + n PROVE \E x \in Q : Place(F, x) = k
    OBVIOUS
  <2>1. k \in Nat /\ k <= Place(F, id) /\ k \in offset..offset + limit - 1
    BY <1>1, <1>2, <1>3, <1>4
  <2>2. PICK x \in F : Place(F, x) = k
    BY <2>1, PlacesHaveNoGap
  <2> QED
    BY <2>1, <2>2 DEF LimitOffset
<1>6. f \in Surjection(Q, offset..offset + n)
  <2> HIDE DEF Q
  <2>1. \A x \in Q : Place(F, x) \in offset..offset + n
    BY DEF Q
  <2> QED
    BY <1>5, <2>1 DEF Surjection
<1>7. Cardinality(offset..offset + n) = n + 1
  <2>1. offset \in Int /\ offset + n \in Int
    BY <1>1
  <2>2. \A a, b \in Int : Cardinality(a..b) = IF a > b THEN 0 ELSE b - a + 1
    BY FS_Interval
  <2>3. PICK b \in Int : b = offset + n
    BY <2>1
  <2>4. b - offset + 1 = n + 1 /\ ~(offset > b)
    BY <1>1, <2>3
  <2>5. Cardinality(offset..b) = n + 1
    BY <2>1, <2>2, <2>4
  <2> QED
    BY <2>3, <2>5
<1>8. Cardinality(offset..offset + n) <= Cardinality(Q)
  <2> HIDE DEF Q, f
  <2> QED
    BY <1>1, <1>6, FS_Surjection
<1> QED
  BY <1>1, <1>7, <1>8

\* Rows that are added push others down the list.
LEMMA PlacesGrow ==
    ASSUME NEW F, NEW G, IsFiniteSet(G), F \subseteq G, NEW id
    PROVE  Place(F, id) <= Place(G, id)
<1>1. IsFiniteSet({x \in G : x > id}) /\ {x \in F : x > id} \in SUBSET {x \in G : x > id}
  BY PlaceType
<1> QED
  BY <1>1, FS_Subset DEF Place

\* Each page has at least one row and at most as many as the cap allows.
LEMMA LimitInCap ==
    ASSUME NEW asked \in Int, NEW cap \in Nat \ {0}
    PROVE  Limit(asked, cap) \in 1..cap
<1> DEFINE m == Max({1, asked})
<1>1. m = IF asked >= 1 THEN asked ELSE 1
  <2>1. \E x \in {1, asked} : \A y \in {1, asked} : x >= y
    OBVIOUS
  <2>2. m \in {1, asked} /\ \A y \in {1, asked} : m >= y
    BY <2>1 DEF Max
  <2> QED
    BY <2>2
<1> HIDE DEF m
<1>2. m \in Int /\ m >= 1
  BY <1>1
<1> DEFINE l == Min({cap, m})
<1>3. l = IF cap <= m THEN cap ELSE m
  <2>1. \E x \in {cap, m} : \A y \in {cap, m} : x <= y
    BY <1>2
  <2>2. l \in {cap, m} /\ \A y \in {cap, m} : l <= y
    BY <2>1 DEF Min
  <2> QED
    BY <1>2, <2>2
<1>4. Limit(asked, cap) = l
  BY DEF Limit, m
<1> QED
  BY <1>2, <1>3, <1>4

-----------------------------------------------------------------------------
(* The walk *)

\* What a walk asks for, and what it has got.
WalkTypes ==
    walk # Nothing =>
        /\ walk = [table |-> walk.table, filter |-> walk.filter, limit |-> walk.limit,
                   offset |-> walk.offset, old |-> walk.old, got |-> walk.got,
                   left |-> walk.left, cut |-> walk.cut, done |-> walk.done]
        /\ walk.table \in {"events", "alerts"}
        /\ walk.limit \in 1..Cap[walk.table] /\ walk.offset \in Nat
        /\ walk.got \subseteq DOMAIN table[walk.table]

\* Each row that was there at the beginning was got, or is still ahead, however
\* far the rows that were added meanwhile have pushed it down.
Ahead(w, F) ==
    /\ w.old \subseteq F
    /\ \A id \in w.old : id \in w.got \/ (~w.done /\ Place(F, id) >= w.offset)
WalkCovers ==
    walk # Nothing /\ ~walk.left /\ ~walk.cut =>
        Ahead(walk, Found(table[walk.table], walk.filter))

WInv == EInv /\ WalkTypes /\ WalkCovers

\* The tables are sequences, and what is found in them are finitely many ids.
LEMMA Tables ==
    ASSUME EInv, NEW t \in {"events", "alerts"}, NEW f
    PROVE  /\ DOMAIN table = {"events", "alerts"}
           /\ DOMAIN table[t] = 1..Len(table[t]) /\ Len(table[t]) \in Nat
           /\ Found(table[t], f) \subseteq DOMAIN table[t]
           /\ Found(table[t], f) \in SUBSET Nat /\ IsFiniteSet(Found(table[t], f))
<1>1. table = [events |-> table.events, alerts |-> table.alerts]
  BY Counts
<1>2. table.events \in Seq(EventRow) /\ table.alerts \in Seq(Row)
  BY DEF EInv, RowTypes, IInv, AlertTypes
<1>3. \E S : table[t] \in Seq(S)
  <2>1. CASE t = "events"
    BY <1>2, <2>1
  <2>2. CASE t = "alerts"
    BY <1>2, <2>2
  <2> QED
    BY <2>1, <2>2
<1>4. DOMAIN table[t] = 1..Len(table[t]) /\ Len(table[t]) \in Nat
  BY <1>3, LenProperties
<1>5. Found(table[t], f) \in SUBSET (1..Len(table[t]))
  BY <1>3, FoundIn
<1>6. IsFiniteSet(1..Len(table[t]))
  BY <1>4, FS_Interval
<1>7. IsFiniteSet(Found(table[t], f))
  BY <1>5, <1>6, FS_Subset
<1>8. DOMAIN table = {"events", "alerts"}
  BY <1>1
<1> QED
  BY <1>4, <1>5, <1>7, <1>8

LEMMA FinitelyMany ==
    EInv => \A t \in {"events", "alerts"} : \A f : IsFiniteSet(Found(table[t], f))
  BY Tables

LEMMA FinitelyManyNext ==
    EInv' => \A t \in {"events", "alerts"} : \A f : IsFiniteSet(Found(table'[t], f))
<1>1. (EInv => \A t \in {"events", "alerts"} : \A f : IsFiniteSet(Found(table[t], f)))'
  BY FinitelyMany, PTL
<1> QED
  BY <1>1

LEMMA InitWInv == Init => WInv
<1>1. Init => walk = Nothing
  BY DEF Init
<1> QED
  BY <1>1, InitEInv DEF WInv, WalkTypes, WalkCovers

\* A walk that is not at work loses nothing to a table that only grows.
LEMMA WalkRests ==
    ASSUME WInv, EInv', UNCHANGED walk,
           \A t \in {"events", "alerts"} : DOMAIN table[t] \subseteq DOMAIN table'[t],
           walk # Nothing =>
              Found(table[walk.table], walk.filter) \subseteq Found(table'[walk.table], walk.filter)
    PROVE  WInv'
<1>1. WalkTypes'
  BY DEF WInv, WalkTypes
<1>2. WalkCovers'
  <2> SUFFICES ASSUME walk # Nothing, ~walk.left, ~walk.cut
               PROVE  Ahead(walk, Found(table'[walk.table], walk.filter))
    BY DEF WalkCovers
  <2> DEFINE F == Found(table[walk.table], walk.filter)
             G == Found(table'[walk.table], walk.filter)
  <2>1. walk.table \in {"events", "alerts"} /\ walk.offset \in Nat
    BY DEF WInv, WalkTypes
  <2>2. Ahead(walk, F)
    BY DEF WInv, WalkCovers
  <2>3. IsFiniteSet(F) /\ EInv
    BY <2>1, Tables DEF WInv
  <2>4. IsFiniteSet(G)
    <3>1. \A t \in {"events", "alerts"} : \A f : IsFiniteSet(Found(table'[t], f))
      BY FinitelyManyNext
    <3> QED
      BY <2>1, <3>1
  <2> HIDE DEF F, G
  <2>5. F \subseteq G
    BY DEF F, G
  <2>6. \A id : Place(F, id) \in Nat /\ Place(G, id) \in Nat /\ Place(F, id) <= Place(G, id)
    BY <2>3, <2>4, <2>5, PlaceType, PlacesGrow
  <2>7. Ahead(walk, G)
    <3>1. \A id : Place(F, id) >= walk.offset => Place(G, id) >= walk.offset
      BY <2>1, <2>6
    <3> QED
      BY <2>2, <2>5, <3>1 DEF Ahead
  <2> QED
    BY <2>7 DEF G
<1> QED
  BY <1>1, <1>2 DEF WInv

\* Rows are added at the end.
LEMMA FoundGrows ==
    ASSUME NEW S, NEW rows \in Seq(S), NEW new \in Seq(S), Len(rows) <= Len(new),
           \A i \in 1..Len(rows) : new[i] = rows[i], NEW f
    PROVE  /\ DOMAIN rows \subseteq DOMAIN new
           /\ Found(rows, f) \subseteq Found(new, f)
<1>1. /\ DOMAIN rows = 1..Len(rows) /\ Len(rows) \in Nat
      /\ DOMAIN new = 1..Len(new) /\ Len(new) \in Nat
  BY LenProperties
<1>2. \A i \in 1..Len(rows) : i \in 1..Len(new)
  BY <1>1
<1> QED
  BY <1>1, <1>2 DEF Found

LEMMA FlushW == WInv /\ Flush => WInv'
<1> SUFFICES ASSUME WInv, Flush PROVE WInv'
  OBVIOUS
<1>1. table' = [table EXCEPT !.events = @ \o queue] /\ walk' = walk
  BY DEF Flush
<1>2. table'.events = table.events \o queue /\ table'.alerts = table.alerts
  <2>1. table = [events |-> table.events, alerts |-> table.alerts]
    BY Counts DEF WInv
  <2> QED
    BY <1>1, <2>1
<1>3. table.events \in Seq(EventRow) /\ queue \in Seq(EventRow)
  BY DEF WInv, EInv, RowTypes
<1>4. /\ table'.events \in Seq(EventRow) /\ Len(table.events) <= Len(table'.events)
      /\ \A i \in 1..Len(table.events) : table'.events[i] = table.events[i]
  <2>1. /\ table'.events \in Seq(EventRow)
        /\ Len(table'.events) = Len(table.events) + Len(queue)
        /\ \A i \in 1..Len(table.events) + Len(queue) :
              table'.events[i] = IF i <= Len(table.events) THEN table.events[i]
                                 ELSE queue[i - Len(table.events)]
    BY <1>2, <1>3, ConcatProperties
  <2>2. Len(table.events) \in Nat /\ Len(queue) \in Nat
    BY <1>3, LenProperties
  <2>3. \A i \in 1..Len(table.events) : i \in 1..Len(table.events) + Len(queue)
                                        /\ i <= Len(table.events)
    BY <2>2
  <2> QED
    BY <2>1, <2>2, <2>3
<1>5. \A t \in {"events", "alerts"} : \A f : /\ DOMAIN table[t] \subseteq DOMAIN table'[t]
                                             /\ Found(table[t], f) \subseteq Found(table'[t], f)
  <2> SUFFICES ASSUME NEW t \in {"events", "alerts"}, NEW f
               PROVE  /\ DOMAIN table[t] \subseteq DOMAIN table'[t]
                      /\ Found(table[t], f) \subseteq Found(table'[t], f)
    OBVIOUS
  <2>1. CASE t = "events"
    <3>1. /\ DOMAIN table.events \subseteq DOMAIN table'.events
          /\ Found(table.events, f) \subseteq Found(table'.events, f)
      BY <1>3, <1>4, FoundGrows
    <3> QED
      BY <2>1, <3>1
  <2>2. CASE t = "alerts"
    BY <1>2, <2>2
  <2> QED
    BY <2>1, <2>2
<1>6. walk # Nothing => walk.table \in {"events", "alerts"}
  BY DEF WInv, WalkTypes
<1>7. EInv'
  BY StepEInv DEF WInv, Next
<1> QED
  BY <1>1, <1>5, <1>6, <1>7, WalkRests

LEMMA InsertW == WInv /\ InsertAlert => WInv'
<1> SUFFICES ASSUME WInv, InsertAlert PROVE WInv'
  OBVIOUS
<1>1. PICK s \in Severities, fails \in MayFail("step") : table' = IF fails THEN table ELSE
          [table EXCEPT !.alerts = Append(@, [severity |-> s, status |-> "open",
                                              resolved_at |-> Never, at |-> clock])]
  BY DEF InsertAlert
<1> DEFINE row == [severity |-> s, status |-> "open", resolved_at |-> Never, at |-> clock]
<1>8. EInv' /\ walk' = walk
  BY StepEInv DEF WInv, Next, InsertAlert
<1>9. table' = table => WInv'
  BY <1>8, WalkRests
<1>10. SUFFICES ASSUME table' = [table EXCEPT !.alerts = Append(@, row)] PROVE WInv'
  BY <1>1, <1>9
<1>2. table'.alerts = Append(table.alerts, row) /\ table'.events = table.events
  <2>1. table = [events |-> table.events, alerts |-> table.alerts]
    BY Counts DEF WInv
  <2> QED
    BY <1>10, <2>1
<1>3. row \in Row
  BY Counts DEF Row, Statuses, WInv
<1> HIDE DEF row
<1>4. table.alerts \in Seq(Row)
  BY DEF WInv, EInv, IInv, AlertTypes
<1>5. /\ table'.alerts \in Seq(Row) /\ Len(table.alerts) <= Len(table'.alerts)
      /\ \A i \in 1..Len(table.alerts) : table'.alerts[i] = table.alerts[i]
  <2>1. Len(table.alerts) \in Nat
    BY <1>4, LenProperties
  <2> QED
    BY <1>2, <1>3, <1>4, <2>1, AppendProperties
<1>6. \A t \in {"events", "alerts"} : \A f : /\ DOMAIN table[t] \subseteq DOMAIN table'[t]
                                             /\ Found(table[t], f) \subseteq Found(table'[t], f)
  <2> SUFFICES ASSUME NEW t \in {"events", "alerts"}, NEW f
               PROVE  /\ DOMAIN table[t] \subseteq DOMAIN table'[t]
                      /\ Found(table[t], f) \subseteq Found(table'[t], f)
    OBVIOUS
  <2>1. CASE t = "alerts"
    <3>1. /\ DOMAIN table.alerts \subseteq DOMAIN table'.alerts
          /\ Found(table.alerts, f) \subseteq Found(table'.alerts, f)
      BY <1>4, <1>5, FoundGrows
    <3> QED
      BY <2>1, <3>1
  <2>2. CASE t = "events"
    BY <1>2, <2>2
  <2> QED
    BY <2>1, <2>2
<1>7. walk # Nothing => walk.table \in {"events", "alerts"}
  BY DEF WInv, WalkTypes
<1> QED
  BY <1>2, <1>6, <1>7, <1>8, WalkRests

\* A change of status that takes a row out of what a walk asks for is noted with
\* the walk; any other takes none out.
LEMMA UpdateW == ASSUME WInv, NEW c \in changes, Update(c) PROVE WInv'
<1>1. EInv /\ EInv'
  BY StepEInv DEF WInv, Next
<1>2. walk # Nothing => walk.table \in {"events", "alerts"}
  BY DEF WInv, WalkTypes
<1>3. CASE table' = table /\ walk' = walk
  BY <1>1, <1>3, WalkRests
<1>4. ASSUME NEW id \in DOMAIN table.alerts, NEW new \in Row,
             table'.events = table.events,
             table'.alerts = [table.alerts EXCEPT ![id] = new],
             walk' = IF walk # Nothing /\ walk.table = "alerts"
                        /\ Matches(table.alerts[id], walk.filter) /\ ~Matches(new, walk.filter)
                     THEN [walk EXCEPT !.left = TRUE] ELSE walk
      PROVE  WInv'
  <2>1. /\ DOMAIN table'.alerts = DOMAIN table.alerts
        /\ \A x \in DOMAIN table.alerts : table'.alerts[x] = IF x = id THEN new ELSE table.alerts[x]
    BY <1>4
  <2>2. \A t \in {"events", "alerts"} : DOMAIN table[t] \subseteq DOMAIN table'[t]
    BY <1>4, <2>1
  <2>3. CASE walk # Nothing /\ walk.table = "alerts"
             /\ Matches(table.alerts[id], walk.filter) /\ ~Matches(new, walk.filter)
    <3>1. walk' = [walk EXCEPT !.left = TRUE]
      BY <1>4, <2>3
    <3>2. /\ walk = [table |-> walk.table, filter |-> walk.filter, limit |-> walk.limit,
                     offset |-> walk.offset, old |-> walk.old, got |-> walk.got,
                     left |-> walk.left, cut |-> walk.cut, done |-> walk.done]
          /\ walk.table \in {"events", "alerts"}
          /\ walk.limit \in 1..Cap[walk.table] /\ walk.offset \in Nat
          /\ walk.got \subseteq DOMAIN table[walk.table]
      BY <2>3 DEF WInv, WalkTypes
    <3>3. walk' = [table |-> walk.table, filter |-> walk.filter, limit |-> walk.limit,
                   offset |-> walk.offset, old |-> walk.old, got |-> walk.got,
                   left |-> TRUE, cut |-> walk.cut, done |-> walk.done]
      BY <3>1, <3>2
    <3>4. WalkTypes'
      BY <2>2, <3>2, <3>3 DEF WalkTypes
    <3>5. WalkCovers'
      BY <3>3 DEF WalkCovers
    <3> QED
      BY <1>1, <3>4, <3>5 DEF WInv
  <2>4. CASE ~(walk # Nothing /\ walk.table = "alerts"
               /\ Matches(table.alerts[id], walk.filter) /\ ~Matches(new, walk.filter))
    <3>1. walk' = walk
      BY <1>4, <2>4
    <3>2. walk # Nothing =>
            Found(table[walk.table], walk.filter) \subseteq Found(table'[walk.table], walk.filter)
      <4> SUFFICES ASSUME walk # Nothing
                   PROVE  Found(table[walk.table], walk.filter)
                             \subseteq Found(table'[walk.table], walk.filter)
        OBVIOUS
      <4>1. CASE walk.table = "events"
        BY <1>4, <4>1
      <4>2. CASE walk.table = "alerts"
        <5>1. Matches(table.alerts[id], walk.filter) => Matches(new, walk.filter)
          BY <2>4, <4>2
        <5>2. Found(table.alerts, walk.filter) \subseteq Found(table'.alerts, walk.filter)
          BY <2>1, <5>1 DEF Found
        <5> QED
          BY <4>2, <5>2
      <4> QED
        BY <1>2, <4>1, <4>2
    <3> QED
      BY <1>1, <2>2, <3>1, <3>2, WalkRests
  <2> QED
    BY <2>3, <2>4
<1> QED
  <2>1. \/ table' = table /\ walk' = walk
        \/ LET id == c.id  new == Updated(table.alerts[c.id], c.status) IN
              /\ id \in DOMAIN table.alerts
              /\ table'.events = table.events
              /\ table'.alerts = [table.alerts EXCEPT ![id] = new]
              /\ new \in Row
              /\ walk' = IF /\ walk # Nothing /\ walk.table = "alerts"
                            /\ Matches(table.alerts[id], walk.filter) /\ ~Matches(new, walk.filter)
                         THEN [walk EXCEPT !.left = TRUE] ELSE walk
    BY <1>1, UpdateCases DEF EInv
  <2> QED
    BY <1>3, <1>4, <2>1

\* A walk begins with everything ahead.
LEMMA StartW == WInv /\ StartWalk => WInv'
<1> SUFFICES ASSUME WInv, StartWalk PROVE WInv'
  OBVIOUS
<1>1. EInv /\ EInv' /\ table' = table
  BY StepEInv DEF WInv, Next, StartWalk
<1>2. PICK t \in DOMAIN table, asked \in Asked : \E f \in Filters[t] :
        walk' = [table |-> t, filter |-> f, limit |-> Limit(asked, Cap[t]), offset |-> 0,
                 old |-> Found(table[t], f), got |-> {},
                 left |-> FALSE, cut |-> FALSE, done |-> FALSE]
  BY DEF StartWalk
<1>3. PICK f \in Filters[t] :
        walk' = [table |-> t, filter |-> f, limit |-> Limit(asked, Cap[t]), offset |-> 0,
                 old |-> Found(table[t], f), got |-> {},
                 left |-> FALSE, cut |-> FALSE, done |-> FALSE]
  BY <1>2
<1>4. t \in {"events", "alerts"} /\ IsFiniteSet(Found(table[t], f))
  <2>1. DOMAIN table = {"events", "alerts"}
    BY <1>1, Tables
  <2> QED
    BY <1>1, <2>1, Tables
<1>5. Limit(asked, Cap[t]) \in 1..Cap[t]
  BY <1>4, LimitInCap, ReportsAssumption
<1> DEFINE l == Limit(asked, Cap[t])
           F == Found(table[t], f)
<1> HIDE DEF l, F
<1>6. walk' = [table |-> t, filter |-> f, limit |-> l, offset |-> 0, old |-> F, got |-> {},
               left |-> FALSE, cut |-> FALSE, done |-> FALSE]
  BY <1>3 DEF l, F
<1>7. WalkTypes'
  BY <1>4, <1>5, <1>6 DEF WalkTypes, l
<1>8. \A id : Place(F, id) \in Nat
  BY <1>4, PlaceType DEF F
<1>9. Ahead(walk', F)
  <2>1. \A id : Place(F, id) >= 0
    BY <1>8
  <2> QED
    BY <1>6, <2>1 DEF Ahead
<1>10. WalkCovers'
  <2>1. Found(table'[walk'.table], walk'.filter) = F
    BY <1>1, <1>6 DEF F
  <2> QED
    BY <1>9, <2>1 DEF WalkCovers
<1> QED
  BY <1>1, <1>7, <1>10 DEF WInv

\* What was ahead is on the page or still ahead, and behind a page that is not
\* full there is nothing.
LEMMA PageMovesOn ==
    ASSUME NEW F \in SUBSET Nat, IsFiniteSet(F), NEW w, NEW u, Ahead(w, F), ~w.done,
           NEW limit \in Nat \ {0}, NEW offset \in Nat, w.offset = offset,
           NEW n, n = Cardinality(LimitOffset(F, limit, offset)),
           u.old = w.old, u.got = w.got \cup LimitOffset(F, n, offset),
           u.offset = offset + limit, u.done = (n < limit)
    PROVE  Ahead(u, F)
<1>1. n \in Nat
  <2>1. LimitOffset(F, limit, offset) \in SUBSET F
    BY DEF LimitOffset
  <2> QED
    BY <2>1, FS_Subset, FS_CardinalityType
<1>2. \A id \in F : Place(F, id) \in Nat
  BY PlaceType
<1>3. n < limit => \A id \in F : Place(F, id) < offset + n
  BY ShortPageIsLast
<1> SUFFICES ASSUME NEW id \in w.old, id \notin u.got
             PROVE  ~u.done /\ Place(F, id) >= u.offset
  BY DEF Ahead
<1>4. id \in F /\ Place(F, id) >= offset
  BY DEF Ahead
<1>5. ~(Place(F, id) \in offset..offset + n - 1)
  BY <1>4 DEF LimitOffset
<1>6. Place(F, id) >= offset + n
  BY <1>1, <1>2, <1>4, <1>5
<1>7. ~(n < limit)
  BY <1>1, <1>2, <1>3, <1>4, <1>6
<1>8. Place(F, id) >= offset + limit
  BY <1>1, <1>2, <1>4, <1>6, <1>7
<1> QED
  BY <1>7, <1>8

LEMMA NextPageW == WInv /\ NextPage => WInv'
<1> SUFFICES ASSUME WInv, NextPage PROVE WInv'
  OBVIOUS
<1>1. EInv /\ EInv' /\ table' = table /\ walk # Nothing /\ ~walk.done
  BY StepEInv DEF WInv, Next, NextPage
<1> DEFINE rows == table[walk.table]
           F == Found(rows, walk.filter)
           size == Cardinality(LimitOffset(F, walk.limit, walk.offset))
<1>2. PICK fails \in MayFail("step"), n \in 0..size :
        /\ fails <=> n < size
        /\ walk' = [walk EXCEPT !.got = @ \cup LimitOffset(F, n, walk.offset),
                                !.offset = @ + walk.limit,
                                !.done = n < walk.limit, !.cut = @ \/ fails]
  BY DEF NextPage, Page
<1>3. /\ walk = [table |-> walk.table, filter |-> walk.filter, limit |-> walk.limit,
                 offset |-> walk.offset, old |-> walk.old, got |-> walk.got,
                 left |-> walk.left, cut |-> walk.cut, done |-> walk.done]
      /\ walk.table \in {"events", "alerts"}
      /\ walk.limit \in 1..Cap[walk.table] /\ walk.offset \in Nat
      /\ walk.got \subseteq DOMAIN rows
  BY <1>1 DEF WInv, WalkTypes
<1>4. F \in SUBSET Nat /\ IsFiniteSet(F) /\ F \subseteq DOMAIN rows
  BY <1>1, <1>3, Tables
<1> DEFINE got == walk.got \cup LimitOffset(F, n, walk.offset)
           done == n < walk.limit
           cut == walk.cut \/ fails
<1>5. got \subseteq DOMAIN rows
  BY <1>3, <1>4 DEF LimitOffset
<1>6. Cap[walk.table] \in Nat \ {0}
  BY <1>3, ReportsAssumption
<1>7. walk.limit \in Nat \ {0} /\ walk.offset + walk.limit \in Nat
  BY <1>3, <1>6
<1> HIDE DEF got, done, cut, F, size
<1>8. walk' = [walk EXCEPT !.got = got, !.offset = walk.offset + walk.limit,
                           !.done = done, !.cut = cut]
  BY <1>2 DEF got, done, cut
<1>9. walk' = [table |-> walk.table, filter |-> walk.filter, limit |-> walk.limit,
               offset |-> walk.offset + walk.limit, old |-> walk.old, got |-> got,
               left |-> walk.left, cut |-> cut, done |-> done]
  BY <1>3, <1>8
<1>10. WalkTypes'
  BY <1>1, <1>3, <1>5, <1>7, <1>9 DEF WalkTypes
<1>11. WalkCovers'
  <2> SUFFICES ASSUME ~walk.left, ~cut PROVE Ahead(walk', F)
    BY <1>1, <1>9 DEF WalkCovers, F
  <2>1. ~walk.cut /\ ~fails
    BY DEF cut
  <2>2. Ahead(walk, F)
    BY <1>1, <2>1 DEF WInv, WalkCovers, F
  <2>3. size \in Nat
    <3>1. LimitOffset(F, walk.limit, walk.offset) \in SUBSET F
      BY DEF LimitOffset
    <3> QED
      BY <1>4, <3>1, FS_Subset, FS_CardinalityType DEF size
  <2>4. n = size
    BY <1>2, <2>1, <2>3
  <2>5. /\ walk'.old = walk.old /\ walk'.got = walk.got \cup LimitOffset(F, n, walk.offset)
        /\ walk'.offset = walk.offset + walk.limit /\ walk'.done = (n < walk.limit)
    BY <1>9 DEF got, done
  <2> QED
    BY <1>1, <1>3, <1>4, <1>7, <2>2, <2>4, <2>5, PageMovesOn DEF size
<1> QED
  BY <1>1, <1>10, <1>11 DEF WInv

LEMMA StepWInv == WInv /\ [Next]_vars => WInv'
<1> SUFFICES ASSUME WInv, [Next]_vars PROVE WInv'
  OBVIOUS
<1>1. EInv'
  BY StepEInv DEF WInv
<1>2. UNCHANGED <<table, walk>> => WInv'
  BY <1>1, WalkRests
<1>3. Tick \/ FireAlert \/ AskPatch \/ Report \/ UNCHANGED vars => UNCHANGED <<table, walk>>
  BY DEF Tick, FireAlert, AskPatch, Report, vars
<1>5. \A c \in changes : BeginUpdate(c) \/ Answer(c) => UNCHANGED <<table, walk>>
  BY DEF BeginUpdate, Answer
<1>4. \A t \in Threads : Stamp(t) \/ Enqueue(t) => UNCHANGED <<table, walk>>
  BY DEF Stamp, Enqueue
<1> QED
  BY <1>2, <1>3, <1>4, <1>5, FlushW, InsertW, UpdateW, StartW, NextPageW DEF Next

\* The invariant of all three parts.
LEMMA Inductive == Spec => []WInv
  BY InitWInv, StepWInv, PTL DEF Spec

\* A walk through the pages, however many rows are written and statuses changed
\* between one request and the next, returns every row that was there when it
\* began, unless one was taken out of the filter or a read failed
\* (EventsController.cpp:99-131, AlertsController.cpp:85-112).
THEOREM PagesCovered == Spec => []PagesCover
<1>1. WInv => PagesCover
  BY DEF WInv, WalkCovers, Ahead, PagesCover
<1> QED
  BY <1>1, Inductive, PTL

\* The types, the bound on the rows, and that a page asks for at least one row.
THEOREM TypeCorrect == Spec => []TypeOK
<1> SUFFICES ASSUME WInv PROVE TypeOK
  BY Inductive, PTL
<1>1. EInv
  BY DEF WInv
<1>2. Len(table.events) + Len(table.alerts) <= made.rows
  <2>1. Len(table.events) + Len(queue) + Cardinality(Held) + Len(table.alerts) + Inserting
          <= made.rows
    BY <1>1 DEF EInv, Budget
  <2> QED
    BY <1>1, <2>1, Counts
<1>3. \A id \in DOMAIN table.alerts : table.alerts[id].status \in Statuses
  <2>1. table.alerts \in Seq(Row) /\ DOMAIN table.alerts = 1..Len(table.alerts)
    BY <1>1, LenProperties DEF EInv, IInv, AlertTypes
  <2>2. \A id \in DOMAIN table.alerts : table.alerts[id] \in Row
    BY <2>1, ElementOfSeq
  <2>3. \A r \in Row : r.status \in Statuses
    BY DEF Row
  <2> QED
    BY <2>2, <2>3
<1>4. /\ clock \in 0..MaxClock
      /\ \A id \in DOMAIN table.alerts : table.alerts[id].resolved_at \in {Never} \cup 0..clock
      /\ lock \in {"free", "AlertWriter", "patch"}
      /\ \A c \in changes :
            c.at = "writing" => lock = "patch" /\ \A d \in changes : d.at = c.at => d = c
  BY <1>1 DEF EInv, RowTypes, IInv, LockTypes
<1>5. walk # Nothing => walk.limit \in 1..Cap[walk.table] /\ walk.got \subseteq DOMAIN table[walk.table]
  BY DEF WInv, WalkTypes
<1> QED
  BY <1>2, <1>3, <1>4, <1>5 DEF TypeOK
=============================================================================
