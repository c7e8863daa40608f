--------------------------- MODULE EventAnalyzer ---------------------------
(***************************************************************************)
(* The detection rules: the writer thread commits a batch of events and    *)
(* hands it to EventAnalyzer::analyze, whose rules count committed rows in *)
(* a window and leave alerts, each rule at most once per cooldown.  The    *)
(* process ends at any time and comes back; rows and alerts stay, the      *)
(* cooldowns do not.                                                       *)
(* Thresholds, windows and cooldowns are the ones of the code.  Events     *)
(* that differ in nothing come as one burst of n.  A timestamp is a number *)
(* of seconds; SQL compares timestamps as strings, see Since and Until.    *)
(***************************************************************************)
EXTENDS Naturals, Sequences, FiniteSets, SequencesExt

CONSTANTS
    Bursts,      \* bursts of events that may happen: [type, ip, user, result, traversal, n]
    OldRows,     \* tables nas_events there may be before the first start
    TrustedIps,  \* trustedIps_
    Pauses,      \* lengths of time between two steps
    Faulty,      \* what may fail
    Midnight,    \* seconds from the start to the end of the first day
    MaxBursts,   \* bound: bursts that happen
    MaxTime,     \* bound: last value of the clock
    MaxStarts    \* bound: times the process is started

Types == {"auth.login.failure", "auth.login.success", "file.delete",
          "dir.delete", "file.download"}
Burst == [type : Types, ip : STRING, user : STRING,
          result : {"success", "failure"}, traversal : BOOLEAN, n : Nat \ {0}]

Row == [ts : Nat, type : Types, ip : STRING, user : STRING,
        result : {"success", "failure"}, traversal : BOOLEAN, n : Nat \ {0}]

\* The clock starts later than any window is long.
Begin == 1000

ASSUME BurstAssumption == Bursts \subseteq Burst
ASSUME OldAssumption == \A table \in OldRows :
    table \in Seq(Row) /\ \A i \in 1..Len(table) : table[i].ts < Begin
ASSUME BoundAssumption ==
    /\ Pauses \subseteq Nat /\ {Midnight, MaxBursts, MaxTime, MaxStarts} \subseteq Nat
    /\ Faulty \subseteq {"alter", "openAlerts", "openAnalyzer", "insertAlert"}

VARIABLES
    now,           \* system clock, in seconds of UTC
    nas_events,    \* committed rows: bursts with the timestamp ts
    batch,         \* what of the batch analyze has still to look at
    lastFired,     \* lastFired_: [rule, key, at]
    nas_alerts,    \* rows of nas_alerts: [rule, key, at, life]
    claimed_user,  \* does nas_events have the column claimed_user?
    alertsOpen,    \* AlertWriter::db_ is a connection
    analyzerOpen,  \* EventAnalyzer::db_ is a connection
    happened,      \* history: bursts so far
    starts,        \* history: times the process was started
    marked,        \* history: did a start mark the migration as applied?
    cleanStart     \* history: was there a start at which no call failed?

startVars == <<claimed_user, alertsOpen, analyzerOpen, starts, marked, cleanStart>>
dbVars == <<nas_events, startVars>>
vars == <<now, batch, lastFired, nas_alerts, happened, dbVars>>

MayFail(what) == IF what \in Faulty THEN BOOLEAN ELSE {FALSE}

-----------------------------------------------------------------------------
(* The rules *)

Rule(id, threshold, window, cooldown) ==
    [id |-> id, threshold |-> threshold, window |-> window, cooldown |-> cooldown]

\* The second condition of BF-004 (100 in 15 minutes) is tested only where the
\* first has already held, and changes nothing.
BruteForce == <<Rule("BF-001", 5, 60, 120), Rule("BF-002", 10, 60, 120),
                Rule("BF-003", 20, 60, 120), Rule("BF-004", 50, 300, 300)>>
MassDelete == <<Rule("MD-001", 20, 60, 120), Rule("MD-002", 50, 60, 120),
                Rule("MD-003", 100, 300, 300), Rule("MD-004", 500, 600, 600)>>
Traversal == <<Rule("PT-001", 5, 60, 180), Rule("PT-002", 20, 300, 300)>>
Download == <<Rule("DX-001", 50, 300, 300), Rule("DX-002", 200, 600, 600)>>
BF005 == Rule("BF-005", 10, 600, 300)
BF006 == Rule("BF-006", 3, 300, 300)
MD005 == Rule("MD-005", 50, 300, 300)
DX003 == Rule("DX-003", 30, 300, 300)

Families == {BruteForce, MassDelete, Traversal, Download}
Rules == (UNION {Range(f) : f \in Families}) \cup {BF005, BF006, MD005, DX003}

\* Rows hold "2026-06-20T14:03:11Z", datetime() returns "2026-06-20 14:03:11":
\* with equal dates the strings differ first at 'T' > ' ', whatever the time.
Day == 86400
Date(t) == IF t < Midnight THEN 0 ELSE 1 + (t - Midnight) \div Day

\* timestamp_utc >= datetime(t, '-w seconds')
SinceNextDay(ts, t, w) == Date(ts) > Date(t - w)            \* mutant of Since
Since(ts, t, w) == Date(ts) >= Date(t - w)
\* timestamp_utc <= datetime(t, '+w seconds')
Until(ts, t, w) == Date(ts) < Date(t + w)

\* COUNT(*): how many events the rows stand for that pass the test.
Total(weight, n) == LET sum[i \in 0..n] == IF i = 0 THEN 0 ELSE sum[i - 1] + weight[i] IN sum[n]
Weights(Test(_)) == [i \in DOMAIN nas_events |->
                        IF Test(nas_events[i]) THEN nas_events[i].n ELSE 0]
Count(Test(_)) == Total(Weights(Test), Len(nas_events))

IsFailure(r, ip) == r.type = "auth.login.failure" /\ r.ip = ip
IsDelete(r, user) == r.type \in {"file.delete", "dir.delete"} /\ r.user = user
IsDownload(r, user) == r.type = "file.download" /\ r.user = user
IsTraversal(r, ip) == r.result = "failure" /\ r.traversal /\ r.ip = ip

\* shouldFire
AlwaysCooled(r, key) == TRUE                                 \* mutant of ShouldFire
ShouldFire(r, key) ==
    \A f \in lastFired : f.rule = r.id /\ f.key = key => now - f.at >= r.cooldown

Alert(id, key) == [rule |-> id, key |-> key, at |-> now]
Once(r, key, holds) == IF holds /\ ShouldFire(r, key) THEN {Alert(r.id, key)} ELSE {}

\* Each event of a burst walks through the table from the lowest rule and stops
\* at the first that applies and is not in its cooldown, which starts then: n
\* events take the first n of them.
Applies(r, key, counted) == counted[r] >= r.threshold /\ ShouldFire(r, key)
FirstOf(n, family, key, counted) ==
    {j \in 1..Len(family) :
        /\ Applies(family[j], key, counted)
        /\ Cardinality({i \in 1..j - 1 : Applies(family[i], key, counted)}) < n}
StopsForGood(family, n, key, counted) ==                     \* mutant of Escalate
    {Alert(family[j].id, key) : j \in FirstOf(1, family, key, counted)}
Escalate(family, n, key, counted) ==
    {Alert(family[j].id, key) : j \in FirstOf(n, family, key, counted)}

ByIp(e) == e.ip \notin TrustedIps

CheckBF001_004(e) ==
    Escalate(BruteForce, e.n, e.ip, [r \in Range(BruteForce) |->
        Count(LAMBDA x : IsFailure(x, e.ip) /\ Since(x.ts, now, r.window))])

CheckMD001_004(e) ==
    Escalate(MassDelete, e.n, e.user, [r \in Range(MassDelete) |->
        Count(LAMBDA x : IsDelete(x, e.user) /\ Since(x.ts, now, r.window))])

CheckPT001_002(e) ==
    Escalate(Traversal, e.n, e.ip, [r \in Range(Traversal) |->
        Count(LAMBDA x : IsTraversal(x, e.ip) /\ Since(x.ts, now, r.window))])

CheckDX001_002(e) ==
    Escalate(Download, e.n, e.user, [r \in Range(Download) |->
        Count(LAMBDA x : IsDownload(x, e.user) /\ Since(x.ts, now, r.window))])

CheckBF005(e) ==
    Once(BF005, e.ip, BF005.threshold <=
        Count(LAMBDA x : IsFailure(x, e.ip) /\ x.ts < e.ts
                         /\ Since(x.ts, e.ts, BF005.window)))

\* claimed_user, NULL or empty: the login named no user.
Nobody == ""

\* For each claimed user, and whoever caused the check; trusted addresses count.
\* A row from before the migration names nobody.
Sprayed(u) ==
    u # Nobody /\ BF006.threshold <= Cardinality({x.ip : x \in {y \in Range(nas_events) :
        y.type = "auth.login.failure" /\ y.user = u /\ Since(y.ts, now, BF006.window)}})
CheckBF006ByIp(e) ==                                        \* mutant of CheckBF006
    Once(BF006, e.ip, \E x \in Range(nas_events) : Sprayed(x.user))
CheckBF006(e) ==
    UNION {Once(BF006, u, Sprayed(u)) : u \in {x.user : x \in Range(nas_events)}}

CheckMD005(e) ==
    Once(MD005, e.user, MD005.threshold <=
        Count(LAMBDA x : IsDelete(x, e.user) /\ x.ts > e.ts
                         /\ Until(x.ts, e.ts, MD005.window)))

CheckDX003(e) ==
    Once(DX003, e.user, DX003.threshold <=
        Count(LAMBDA x : IsDownload(x, e.user) /\ x.result = "success" /\ x.ts > e.ts
                         /\ Until(x.ts, e.ts, DX003.window)))

\* checkMD006 asks nobody: neither the cooldown nor the result of the deletion.
CheckMD006(e) == {Alert("MD-006", e.user)}

When(condition, alerts) == IF condition THEN alerts ELSE {}

\* What the body of analyze's loop fires for the events of one burst.
Fired(e) ==
    UNION {When(e.type = "auth.login.failure" /\ ByIp(e),
                CheckBF001_004(e) \cup CheckBF006(e)),
           When(e.type = "auth.login.success" /\ ByIp(e), CheckBF005(e)),
           When(e.type = "auth.login.success", CheckMD005(e) \cup CheckDX003(e)),
           When(e.type \in {"file.delete", "dir.delete"}, CheckMD001_004(e)),
           When(e.type = "dir.delete", CheckMD006(e)),
           When(e.result = "failure" /\ e.traversal /\ ByIp(e), CheckPT001_002(e)),
           When(e.type = "file.download" /\ e.result = "success", CheckDX001_002(e))}

\* markFired, which checkMD006 does not call.
MarkTwice(fired) ==                                         \* mutant of MarkFired
    lastFired \cup {a \in fired : a.rule # "MD-006"}
MarkFired(fired) ==
    LET marks == {a \in fired : a.rule # "MD-006"} IN
    {f \in lastFired : \A a \in marks : <<f.rule, f.key>> # <<a.rule, a.key>>} \cup marks

-----------------------------------------------------------------------------
(* The steps *)

\* The column is missing in a database that no start has migrated, and its
\* failed logins name no user.
Init ==
    /\ now = Begin /\ nas_events \in OldRows /\ batch = <<>>
    /\ claimed_user \in BOOLEAN
    /\ ~claimed_user => \A i \in 1..Len(nas_events) :
          nas_events[i].type = "auth.login.failure" => nas_events[i].user = Nobody
    /\ lastFired = {} /\ nas_alerts = {} /\ happened = 0 /\ starts = 0
    /\ alertsOpen = FALSE /\ analyzerOpen = FALSE
    /\ marked = FALSE /\ cleanStart = FALSE

Running == starts > 0

\* The guard of the migration is a table of alerts.db, but is asked for in
\* events.db, where the SELECT fails and the mark is lost.
GuardRead == marked                                      \* mutant of AlreadyApplied
AlreadyApplied == FALSE

\* AlertWriter::init and EventAnalyzer::init.  Without alerts.db the migration
\* of events.db is not tried; where the column exists ALTER TABLE fails, and
\* nothing comes of it.  Whatever came of it, the migration is marked as
\* applied.  lastFired_ starts empty.
Start ==
    /\ starts < MaxStarts /\ starts' = starts + 1
    /\ \E noAlerts \in MayFail("openAlerts"), noAlter \in MayFail("alter") :
          LET tried == ~noAlerts /\ ~AlreadyApplied IN
          /\ alertsOpen' = ~noAlerts
          /\ claimed_user' = (claimed_user \/ (tried /\ ~noAlter))
          /\ marked' = (marked \/ tried)
          /\ cleanStart' = (cleanStart \/ ~(noAlerts \/ noAlter))
    /\ \E fails \in MayFail("openAnalyzer") : analyzerOpen' = ~fails
    /\ lastFired' = {} /\ batch' = <<>>
    /\ UNCHANGED <<now, nas_events, nas_alerts, happened>>

Wait ==
    /\ batch = <<>> /\ Running
    /\ \E d \in Pauses : now' = now + d /\ now' <= MaxTime
    /\ UNCHANGED <<batch, lastFired, nas_alerts, happened, dbVars>>

\* flushBatch commits one or two bursts, stamped in this second or the one
\* before.  Without the column its INSERT cannot be prepared and the batch is gone.
Stamp(burst, t) ==
    [ts |-> t, type |-> burst.type, ip |-> burst.ip, user |-> burst.user,
     result |-> burst.result, traversal |-> burst.traversal, n |-> burst.n]
Flush ==
    /\ Running /\ batch = <<>>
    /\ \E b \in SeqOf(Bursts, 2) \ {<<>>} :
          /\ happened + Len(b) <= MaxBursts /\ happened' = happened + Len(b)
          /\ \E before \in {0, 1} :
                LET rows == [i \in 1..Len(b) |->
                                Stamp(b[i], IF i = 1 THEN now - before ELSE now)]
                IN  IF claimed_user
                    THEN nas_events' = nas_events \o rows /\ batch' = rows
                    ELSE UNCHANGED <<nas_events, batch>>
    /\ UNCHANGED <<now, lastFired, nas_alerts, startVars>>

\* The events of one burst.  A rule is marked as fired whether or not
\* writeAlert could insert its alert.
Analyze ==
    /\ batch # <<>> /\ batch' = Tail(batch)
    /\ LET fired == IF analyzerOpen THEN Fired(Head(batch)) ELSE {}
           rows  == {[rule |-> a.rule, key |-> a.key, at |-> a.at, life |-> starts] : a \in fired}
       IN  /\ lastFired' = MarkFired(fired)
           /\ \E written \in IF "insertAlert" \in Faulty THEN SUBSET rows ELSE {rows} :
                 nas_alerts' = nas_alerts \cup IF alertsOpen THEN written ELSE {}
    /\ UNCHANGED <<now, happened, dbVars>>

Next == Start \/ Wait \/ Flush \/ Analyze

Spec == Init /\ [][Next]_vars

-----------------------------------------------------------------------------
(* Properties *)

TypeOK ==
    /\ now \in Nat /\ happened \in Nat /\ starts \in Nat
    /\ \A i \in 1..Len(nas_events) : nas_events[i].ts \in Nat /\ nas_events[i].n \in Nat \ {0}
    /\ Len(batch) <= 2 /\ (batch # <<>> => IsSuffix(batch, nas_events))
    /\ \A f, g \in lastFired : f.at \in Begin..now
                               /\ (<<f.rule, f.key>> = <<g.rule, g.key>> => f = g)
    /\ \A a \in nas_alerts : a.at \in Begin..now /\ a.life \in 1..starts
    /\ {claimed_user, alertsOpen, analyzerOpen, marked, cleanStart} \subseteq BOOLEAN

\* What the tables in comments and AlertTypes.h mean: a window that ends at t
\* and is w seconds long.
Within(ts, t, w) == ts <= t /\ t <= ts + w

Counts(family, key, x) ==
    CASE family = BruteForce -> IsFailure(x, key)
      [] family = MassDelete -> IsDelete(x, key)
      [] family = Traversal  -> IsTraversal(x, key)
      [] family = Download   -> IsDownload(x, key)

Documented(family, r, key, t) ==
    r.threshold <= Count(LAMBDA x : Counts(family, key, x) /\ Within(x.ts, t, r.window))

\* The family an event is tested for, if any, and the key of its cooldown.
Tested(family, e) ==
    CASE family = BruteForce -> e.type = "auth.login.failure" /\ ByIp(e)
      [] family = MassDelete -> e.type \in {"file.delete", "dir.delete"}
      [] family = Traversal  -> e.result = "failure" /\ e.traversal /\ ByIp(e)
      [] family = Download   -> e.type = "file.download" /\ e.result = "success"
Key(family, e) == IF family \in {BruteForce, Traversal} THEN e.ip ELSE e.user

Analyzed == batch # <<>> /\ batch' = Tail(batch) /\ analyzerOpen /\ starts' = starts
Quiet(r, key) == \E f \in lastFired' : f.rule = r.id /\ f.key = key /\ now - f.at < r.cooldown

\* No burst is overlooked: an event that completes what the lowest rule of its
\* family describes finds one of the family fired less than its cooldown ago,
\* across midnight, after restarts, whatever fired before (EventAnalyzer.cpp:
\* 151-175, 264-284, 459-474, 500-515).
BurstNoticed ==
    [][Analyzed => \A family \in Families :
         LET e == Head(batch) k == Key(family, e) IN
         Tested(family, e) /\ (\E r \in Range(family) : Documented(family, r, k, now))
             => \E r \in Range(family) : Quiet(r, k)]_vars

\* Stopping at the first rule that fires hides no higher one for long: after as
\* many events as the family has rules, each rule whose condition holds has
\* fired less than its cooldown ago (the same loops).
BurstEscalates ==
    [][Analyzed => \A family \in Families :
         LET e == Head(batch) k == Key(family, e) IN
         Tested(family, e) /\ e.n >= Len(family)
             => \A r \in Range(family) : Documented(family, r, k, now) => Quiet(r, k)]_vars

\* A login that succeeds after ten failures of its address in earlier seconds of
\* the last ten minutes has its alert, and so has a user name that three
\* addresses tried (EventAnalyzer.cpp:180-239).
LoginAttackNoticed ==
    [][Analyzed =>
         LET e == Head(batch)
             failures == {x \in Range(nas_events) : x.type = "auth.login.failure"}
         IN  /\ e.type = "auth.login.success" /\ ByIp(e)
                /\ BF005.threshold <= Count(LAMBDA x : IsFailure(x, e.ip) /\ x.ts < e.ts
                                                       /\ Within(x.ts, e.ts, BF005.window))
                  => Quiet(BF005, e.ip)
             /\ e.type = "auth.login.failure" /\ ByIp(e)
                  => \A u \in {x.user : x \in failures} \ {Nobody} :
                       Cardinality({x.ip : x \in {y \in failures :
                           y.user = u /\ Within(y.ts, now, BF006.window)}}) >= BF006.threshold
                         => Quiet(BF006, u)]_vars

\* One rule leaves two alerts for one key within its cooldown only if the process
\* was started in between (EventAnalyzer.h:20-22, EventAnalyzer.cpp:415-433).
CooldownHolds ==
    \A r \in Rules : \A a, b \in {x \in nas_alerts : x.rule = r.id} :
        a.key = b.key /\ a.life = b.life /\ a.at < b.at => b.at - a.at >= r.cooldown

\* A migration that failed is made good: one start at which alerts.db opens and
\* ALTER TABLE does not fail of its own accord is enough, before or after starts
\* at which they do and for a database with old rows, that no later event is
\* refused for want of the column (AlertWriter.cpp:25-33, 87-131;
\* EventWriter.cpp:140-152).
EventsStored ==
    [][happened' > happened /\ cleanStart => Len(nas_events') > Len(nas_events)]_vars

-----------------------------------------------------------------------------
(* What docs and comments say, and the code does not do *)

\* ">=5 failures/60s from same IP" (AlertTypes.h:30-32), ">=5 traversal failures/60s
\* same IP" (AlertTypes.h:46-47), ">=50 downloads/5min same actor" (AlertTypes.h:50-51).
AlertMeansBurst ==
    \A family \in {SubSeq(BruteForce, 1, 3), Traversal, Download} :
        \A r \in Range(family) : \A a \in {x \in nas_alerts : x.rule = r.id} :
            r.threshold <= Count(LAMBDA x :
                Within(x.ts, a.at, r.window) /\
                CASE family = Traversal -> IsTraversal(x, a.key)
                  [] family = Download  -> IsDownload(x, a.key)
                  [] OTHER              -> IsFailure(x, a.key))
=============================================================================
