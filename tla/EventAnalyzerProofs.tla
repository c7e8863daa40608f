------------------------ MODULE EventAnalyzerProofs ------------------------
(***************************************************************************)
(* What the rules promise, for every set of bursts and addresses, every    *)
(* bound and every fault.  IInv says where rows, batch, marks and alerts   *)
(* stand: above all that each alert of this life has a mark at least as    *)
(* young, which is what keeps a rule quiet, and that rows were stored only *)
(* where the column was.  The three promises about attacks need two facts  *)
(* more about every event looked at: what SQL counts is at least what the  *)
(* tables describe (TablesCount), and a table one of whose rules applies   *)
(* fires one or has one in its cooldown (OneFires, AllFire).               *)
(***************************************************************************)
EXTENDS EventAnalyzer, Induction, SequenceTheorems, FiniteSetTheorems

LEMMA RangeOfTwo == ASSUME NEW a, NEW b PROVE Range(<<a, b>>) = {a, b}
<1>1. DOMAIN <<a, b>> = 1..2 /\ 1..2 = {1, 2}
  OBVIOUS
<1>2. Range(<<a, b>>) = {<<a, b>>[i] : i \in {1, 2}}
  BY <1>1 DEF Range
<1> QED
  BY <1>2

LEMMA RangeOfFour ==
    ASSUME NEW a, NEW b, NEW c, NEW d
    PROVE  Range(<<a, b, c, d>>) = {a, b, c, d}
<1>1. DOMAIN <<a, b, c, d>> = 1..4 /\ 1..4 = {1, 2, 3, 4}
  OBVIOUS
<1>2. Range(<<a, b, c, d>>) = {<<a, b, c, d>>[i] : i \in {1, 2, 3, 4}}
  BY <1>1 DEF Range
<1> QED
  BY <1>2

LEMMA TableOfRules ==
    Rules = {Rule("BF-001", 5, 60, 120), Rule("BF-002", 10, 60, 120),
             Rule("BF-003", 20, 60, 120), Rule("BF-004", 50, 300, 300),
             Rule("MD-001", 20, 60, 120), Rule("MD-002", 50, 60, 120),
             Rule("MD-003", 100, 300, 300), Rule("MD-004", 500, 600, 600),
             Rule("PT-001", 5, 60, 180), Rule("PT-002", 20, 300, 300),
             Rule("DX-001", 50, 300, 300), Rule("DX-002", 200, 600, 600),
             Rule("BF-005", 10, 600, 300), Rule("BF-006", 3, 300, 300),
             Rule("MD-005", 50, 300, 300), Rule("DX-003", 30, 300, 300)}
<1>1. UNION {Range(f) : f \in Families} =
        Range(BruteForce) \cup Range(MassDelete) \cup Range(Traversal) \cup Range(Download)
  BY DEF Families
<1>2. /\ Range(BruteForce) = {Rule("BF-001", 5, 60, 120), Rule("BF-002", 10, 60, 120),
                              Rule("BF-003", 20, 60, 120), Rule("BF-004", 50, 300, 300)}
      /\ Range(MassDelete) = {Rule("MD-001", 20, 60, 120), Rule("MD-002", 50, 60, 120),
                              Rule("MD-003", 100, 300, 300), Rule("MD-004", 500, 600, 600)}
      /\ Range(Traversal) = {Rule("PT-001", 5, 60, 180), Rule("PT-002", 20, 300, 300)}
      /\ Range(Download) = {Rule("DX-001", 50, 300, 300), Rule("DX-002", 200, 600, 600)}
  BY RangeOfTwo, RangeOfFour DEF BruteForce, MassDelete, Traversal, Download
<1>3. Rules = Range(BruteForce) \cup Range(MassDelete) \cup Range(Traversal) \cup Range(Download)
                \cup {BF005, BF006, MD005, DX003}
  BY <1>1 DEF Rules
<1> QED
  BY <1>2, <1>3 DEF BF005, BF006, MD005, DX003

LEMMA RuleNumbers ==
    \A r \in Rules : /\ r.cooldown \in Nat /\ r.cooldown > 0 /\ r.id # "MD-006"
                     /\ r.threshold \in Nat /\ r.threshold > 0
                     /\ r.window \in 1..600
  BY TableOfRules DEF Rule

\* What the column rule_id may say.
Names == {r.id : r \in Rules} \cup {"MD-006"}

LEMMA RuleNames == \A r, q \in Rules : r.id = q.id => r = q
  BY TableOfRules DEF Rule

-----------------------------------------------------------------------------
(* Sums *)

LEMMA TotalIs ==
    ASSUME NEW n \in Nat, NEW w \in [1..n -> Nat]
    PROVE  \E f \in [0..n -> Nat] :
              Total(w, n) = f[n] /\ f[0] = 0 /\ \A i \in 1..n : f[i] = f[i - 1] + w[i]
<1> DEFINE step == [i \in 1..n |-> [m \in Nat |-> m + w[i]]]
           sum == CHOOSE f : f = [i \in 0..n |-> IF i = 0 THEN 0 ELSE f[i - 1] + w[i]]
<1>1. step \in [1..n -> [Nat -> Nat]]
  OBVIOUS
<1>2. \A i \in 1..n, m \in Nat : step[i][m] = m + w[i]
  OBVIOUS
<1> HIDE DEF step
<1>3. PICK g \in [0..n -> Nat] : g[0] = 0 /\ \A i \in 1..n : g[i] = step[i][g[i - 1]]
  <2>1. 0 \in Nat /\ IsStep(step, n, Nat)
    BY <1>1 DEF IsStep
  <2>2. \E g : Computes(g, n, Nat, 0, step)
    BY <2>1, StepByStep
  <2> QED
    BY <2>2 DEF Computes
<1>4. g = [i \in 0..n |-> IF i = 0 THEN 0 ELSE g[i - 1] + w[i]]
  <2>1. \A i \in 1..n : i - 1 \in 0..n /\ g[i - 1] \in Nat
    OBVIOUS
  <2>2. \A i \in 1..n : g[i] = g[i - 1] + w[i]
    BY <1>2, <1>3, <2>1
  <2>3. \A i \in 0..n : i = 0 \/ (i # 0 /\ i \in 1..n)
    OBVIOUS
  <2>4. \A i \in 0..n : g[i] = IF i = 0 THEN 0 ELSE g[i - 1] + w[i]
    BY <1>3, <2>2, <2>3
  <2> QED
    BY <2>4
<1>5. sum = [i \in 0..n |-> IF i = 0 THEN 0 ELSE sum[i - 1] + w[i]]
  BY <1>4
<1>6. Total(w, n) = sum[n]
  BY DEF Total
<1> HIDE DEF sum
<1>7. sum[0] = 0 /\ \A i \in 1..n : sum[i] = sum[i - 1] + w[i]
  BY <1>5
<1>8. \A i \in 0..n : sum[i] \in Nat
  <2> DEFINE S == {i \in Nat : i <= n => sum[i] \in Nat}
  <2>1. 0 \in S
    BY <1>7
  <2>2. ASSUME NEW i \in S PROVE i + 1 \in S
    <3> SUFFICES ASSUME i + 1 <= n PROVE sum[i + 1] \in Nat
      OBVIOUS
    <3>1. i + 1 \in 1..n /\ i + 1 - 1 = i /\ sum[i] \in Nat /\ w[i + 1] \in Nat
      OBVIOUS
    <3> QED
      BY <1>7, <3>1
  <2> HIDE DEF S
  <2>3. S \in SUBSET Nat
    BY DEF S
  <2>4. \A i \in Nat : i \in S
    BY <2>1, <2>2, <2>3, SetInduction
  <2> QED
    BY <2>4 DEF S
<1>9. sum \in [0..n -> Nat]
  BY <1>5, <1>8
<1> QED
  BY <1>6, <1>7, <1>9

LEMMA TotalGrows ==
    ASSUME NEW n \in Nat, NEW v \in [1..n -> Nat], NEW w \in [1..n -> Nat],
           \A i \in 1..n : v[i] <= w[i]
    PROVE  Total(v, n) <= Total(w, n) /\ Total(v, n) \in Nat /\ Total(w, n) \in Nat
<1>1. PICK f \in [0..n -> Nat] :
        Total(v, n) = f[n] /\ f[0] = 0 /\ \A i \in 1..n : f[i] = f[i - 1] + v[i]
  BY TotalIs
<1>2. PICK g \in [0..n -> Nat] :
        Total(w, n) = g[n] /\ g[0] = 0 /\ \A i \in 1..n : g[i] = g[i - 1] + w[i]
  BY TotalIs
<1> DEFINE S == {i \in Nat : i <= n => f[i] <= g[i]}
<1>3. 0 \in S
  BY <1>1, <1>2
<1>4. ASSUME NEW i \in S PROVE i + 1 \in S
  <2> SUFFICES ASSUME i + 1 <= n PROVE f[i + 1] <= g[i + 1]
    OBVIOUS
  <2>1. i + 1 \in 1..n /\ i \in 0..n /\ i + 1 - 1 = i /\ f[i] <= g[i]
    OBVIOUS
  <2>2. f[i + 1] = f[i] + v[i + 1] /\ g[i + 1] = g[i] + w[i + 1] /\ v[i + 1] <= w[i + 1]
    BY <1>1, <1>2, <2>1
  <2>3. f[i] \in Nat /\ g[i] \in Nat /\ v[i + 1] \in Nat /\ w[i + 1] \in Nat
    BY <2>1
  <2> QED
    BY <2>1, <2>2, <2>3
<1> HIDE DEF S
<1>5. S \in SUBSET Nat
  BY DEF S
<1>6. n \in S
  BY <1>3, <1>4, <1>5, SetInduction
<1>7. n \in 0..n /\ f[n] <= g[n]
  BY <1>6 DEF S
<1> QED
  BY <1>1, <1>2, <1>7

-----------------------------------------------------------------------------
(* What the rules fire *)

\* Every mark is younger than the clock, and one of a rule and a key.
Marks ==
    /\ lastFired \subseteq [rule : Names, key : STRING, at : Begin..now]
    /\ \A f, g \in lastFired : f.rule = g.rule /\ f.key = g.key => f = g

Rows ==
    /\ now \in Nat /\ now >= Begin
    /\ nas_events \in Seq(Row)
    /\ batch \in Seq(Row) /\ Len(batch) <= 2 /\ \A i \in 1..Len(batch) : batch[i].ts >= Begin - 1

\* An alert of a rule that is not in its cooldown; checkMD006 asks for none.
FiredNow(a) ==
    /\ a \in [rule : Names, key : STRING, at : {now}]
    /\ \/ a.rule = "MD-006"
       \/ \E r \in Rules : r.id = a.rule /\ ShouldFire(r, a.key)

LEMMA FamilyRules ==
    /\ \A family \in Families :
          /\ Len(family) \in {2, 4} /\ \A j \in 1..Len(family) : family[j] \in Rules
          /\ Range(family) = {family[j] : j \in 1..Len(family)}
    /\ {BF005, BF006, MD005, DX003} \subseteq Rules
<1>1. ASSUME NEW family \in Families
      PROVE  /\ Len(family) \in {2, 4} /\ DOMAIN family = 1..Len(family)
             /\ Range(family) \subseteq Rules
  <2>1. Range(family) \subseteq Rules
    BY DEF Rules
  <2>2. /\ Len(BruteForce) = 4 /\ Len(MassDelete) = 4 /\ Len(Traversal) = 2 /\ Len(Download) = 2
        /\ DOMAIN BruteForce = 1..4 /\ DOMAIN MassDelete = 1..4
        /\ DOMAIN Traversal = 1..2 /\ DOMAIN Download = 1..2
    BY DEF BruteForce, MassDelete, Traversal, Download
  <2> QED
    BY <2>1, <2>2 DEF Families
<1>2. \A family \in Families : Range(family) = {family[j] : j \in 1..Len(family)}
  BY <1>1 DEF Range
<1>3. {BF005, BF006, MD005, DX003} \subseteq Rules
  BY DEF Rules
<1> QED
  BY <1>1, <1>2, <1>3

LEMMA AlertFields ==
    ASSUME NEW id, NEW key
    PROVE  Alert(id, key).rule = id /\ Alert(id, key).key = key /\ Alert(id, key).at = now
  BY DEF Alert

LEMMA AlertNow ==
    ASSUME NEW r \in Rules, NEW key \in STRING, ShouldFire(r, key)
    PROVE  FiredNow(Alert(r.id, key))
<1>1. Alert(r.id, key) \in [rule : Names, key : STRING, at : {now}]
  BY DEF Alert, Names
<1> QED
  BY <1>1, AlertFields DEF FiredNow

LEMMA EscalateNow ==
    ASSUME NEW family \in Families, NEW n, NEW key \in STRING, NEW counted,
           NEW a \in Escalate(family, n, key, counted)
    PROVE  FiredNow(a)
<1>1. PICK j \in 1..Len(family) :
        a = Alert(family[j].id, key) /\ Applies(family[j], key, counted)
  BY DEF Escalate, FirstOf
<1> QED
  BY <1>1, FamilyRules, AlertNow DEF Applies

LEMMA OnceNow ==
    ASSUME NEW r \in Rules, NEW key \in STRING, NEW holds, NEW a \in Once(r, key, holds)
    PROVE  FiredNow(a)
<1>1. a = Alert(r.id, key) /\ ShouldFire(r, key)
  BY DEF Once
<1> QED
  BY <1>1, AlertNow

\* The four tables, each with what it counted.
LEMMA TablesNow ==
    ASSUME NEW e
    PROVE  /\ \E c : CheckBF001_004(e) = Escalate(BruteForce, e.n, e.ip, c)
           /\ \E c : CheckMD001_004(e) = Escalate(MassDelete, e.n, e.user, c)
           /\ \E c : CheckPT001_002(e) = Escalate(Traversal, e.n, e.ip, c)
           /\ \E c : CheckDX001_002(e) = Escalate(Download, e.n, e.user, c)
<1>1. \E c : CheckBF001_004(e) = Escalate(BruteForce, e.n, e.ip, c)
  BY DEF CheckBF001_004, Count, Weights
<1>2. \E c : CheckMD001_004(e) = Escalate(MassDelete, e.n, e.user, c)
  BY DEF CheckMD001_004, Count, Weights
<1>3. \E c : CheckPT001_002(e) = Escalate(Traversal, e.n, e.ip, c)
  BY DEF CheckPT001_002, Count, Weights
<1>4. \E c : CheckDX001_002(e) = Escalate(Download, e.n, e.user, c)
  BY DEF CheckDX001_002, Count, Weights
<1> QED
  BY <1>1, <1>2, <1>3, <1>4

\* The two that look at what follows a login, and the one that looks back.
LEMMA LoginsNow ==
    ASSUME NEW e
    PROVE  /\ \E holds : CheckBF005(e) = Once(BF005, e.ip, holds)
           /\ \E holds : CheckMD005(e) = Once(MD005, e.user, holds)
           /\ \E holds : CheckDX003(e) = Once(DX003, e.user, holds)
<1>1. \E holds : CheckBF005(e) = Once(BF005, e.ip, holds)
  BY DEF CheckBF005, Count, Weights
<1>2. \E holds : CheckMD005(e) = Once(MD005, e.user, holds)
  BY DEF CheckMD005, Count, Weights
<1>3. \E holds : CheckDX003(e) = Once(DX003, e.user, holds)
  BY DEF CheckDX003, Count, Weights
<1> QED
  BY <1>1, <1>2, <1>3

LEMMA SprayNow ==
    ASSUME Rows, NEW e, NEW a \in CheckBF006(e)
    PROVE  FiredNow(a)
<1>1. PICK x \in Range(nas_events) : a \in Once(BF006, x.user, Sprayed(x.user))
  BY DEF CheckBF006
<1>2. x \in Row
  BY ElementOfSeq DEF Rows, Range
<1>3. x.user \in STRING
  BY <1>2 DEF Row
<1> QED
  BY <1>1, <1>3, FamilyRules, OnceNow

LEMMA FiredAreNow ==
    ASSUME Rows, NEW e \in Row, NEW a \in Fired(e)
    PROVE  FiredNow(a)
<1>1. e.ip \in STRING /\ e.user \in STRING
  BY DEF Row
<1>2. \/ a \in CheckBF001_004(e) \/ a \in CheckMD001_004(e)
      \/ a \in CheckPT001_002(e) \/ a \in CheckDX001_002(e)
      \/ a \in CheckBF005(e) \/ a \in CheckBF006(e)
      \/ a \in CheckMD005(e) \/ a \in CheckDX003(e) \/ a \in CheckMD006(e)
  BY DEF Fired, When
<1>3. CASE \/ a \in CheckBF001_004(e) \/ a \in CheckMD001_004(e)
           \/ a \in CheckPT001_002(e) \/ a \in CheckDX001_002(e)
  <2>1. {BruteForce, MassDelete, Traversal, Download} \subseteq Families
    BY DEF Families
  <2>2. /\ \E c : CheckBF001_004(e) = Escalate(BruteForce, e.n, e.ip, c)
        /\ \E c : CheckMD001_004(e) = Escalate(MassDelete, e.n, e.user, c)
        /\ \E c : CheckPT001_002(e) = Escalate(Traversal, e.n, e.ip, c)
        /\ \E c : CheckDX001_002(e) = Escalate(Download, e.n, e.user, c)
    BY TablesNow
  <2>3. PICK family \in Families, key \in STRING :
          \E c : a \in Escalate(family, e.n, key, c)
    BY <1>1, <1>3, <2>1, <2>2
  <2> QED
    BY <2>3, EscalateNow
<1>4. CASE a \in CheckBF005(e) \/ a \in CheckMD005(e) \/ a \in CheckDX003(e)
  <2>1. {BF005, MD005, DX003} \subseteq Rules
    BY FamilyRules
  <2>2. /\ \E holds : CheckBF005(e) = Once(BF005, e.ip, holds)
        /\ \E holds : CheckMD005(e) = Once(MD005, e.user, holds)
        /\ \E holds : CheckDX003(e) = Once(DX003, e.user, holds)
    BY LoginsNow
  <2>3. PICK r \in Rules, key \in STRING : \E holds : a \in Once(r, key, holds)
    BY <1>1, <1>4, <2>1, <2>2
  <2> QED
    BY <2>3, OnceNow
<1>5. CASE a \in CheckBF006(e)
  BY <1>5, SprayNow
<1>6. CASE a \in CheckMD006(e)
  <2>1. a = Alert("MD-006", e.user) /\ "MD-006" \in Names
    BY <1>6 DEF CheckMD006, Names
  <2> QED
    BY <1>1, <2>1 DEF Alert, FiredNow
<1> QED
  BY <1>2, <1>3, <1>4, <1>5, <1>6

\* markFired leaves one mark of each rule and key, and the clock's.
LEMMA MarksKept ==
    ASSUME Rows, Marks, NEW fired, \A a \in fired : FiredNow(a), lastFired' = MarkFired(fired),
           now' = now
    PROVE  /\ Marks'
           /\ \A a \in fired : a.rule # "MD-006" => a \in lastFired'
           /\ \A f \in lastFired : \E g \in lastFired' :
                 g.rule = f.rule /\ g.key = f.key /\ g.at >= f.at
<1> DEFINE marks == {a \in fired : a.rule # "MD-006"}
<1>1. /\ lastFired' = {f \in lastFired :
                        \A a \in marks : <<f.rule, f.key>> # <<a.rule, a.key>>} \cup marks
      /\ now \in Nat /\ now >= Begin /\ now' = now /\ Begin \in Nat
  BY DEF MarkFired, Rows, Begin
<1>2. \A a \in marks : a \in [rule : Names, key : STRING, at : {now}]
  BY DEF FiredNow
<1>3. \A a \in marks : a \in [rule : Names, key : STRING, at : Begin..now]
  BY <1>1, <1>2
<1>4. \A a, b \in marks : a.rule = b.rule /\ a.key = b.key => a = b
  BY <1>2
<1>5. \A f \in lastFired : f \in [rule : Names, key : STRING, at : Begin..now]
  BY DEF Marks
<1>6. Marks'
  <2>1. lastFired' \subseteq [rule : Names, key : STRING, at : Begin..now]
    BY <1>1, <1>3, <1>5
  <2>2. \A f, g \in lastFired' : f.rule = g.rule /\ f.key = g.key => f = g
    BY <1>1, <1>4 DEF Marks
  <2> QED
    BY <1>1, <2>1, <2>2 DEF Marks
<1>7. ASSUME NEW f \in lastFired
      PROVE  \E g \in lastFired' : g.rule = f.rule /\ g.key = f.key /\ g.at >= f.at
  <2>1. f.at \in Begin..now
    BY <1>5
  <2>2. CASE \E a \in marks : <<f.rule, f.key>> = <<a.rule, a.key>>
    <3>1. PICK a \in marks : f.rule = a.rule /\ f.key = a.key
      BY <2>2
    <3>2. a.at = now /\ a \in lastFired'
      BY <1>1, <1>2
    <3> QED
      BY <1>1, <2>1, <3>1, <3>2
  <2>3. CASE \A a \in marks : <<f.rule, f.key>> # <<a.rule, a.key>>
    <3>1. f \in lastFired'
      BY <1>1, <2>3
    <3> QED
      BY <1>1, <2>1, <3>1
  <2> QED
    BY <2>2, <2>3
<1> QED
  BY <1>1, <1>6, <1>7
-----------------------------------------------------------------------------
(* The invariant *)

\* batch is the end of nas_events.
Tailing ==
    /\ Len(batch) <= Len(nas_events)
    /\ \A i \in 1..Len(batch) : batch[i] = nas_events[Len(nas_events) - Len(batch) + i]

\* An alert of this life has its mark, set then or later.
AlertsMarked ==
    \A a \in nas_alerts : a.life = starts /\ a.rule # "MD-006" =>
        \E f \in lastFired : f.rule = a.rule /\ f.key = a.key /\ f.at >= a.at

Alerts == nas_alerts \subseteq [rule : Names, key : STRING, at : Begin..now, life : 1..starts]

Flags ==
    /\ happened \in Nat /\ starts \in Nat
    /\ claimed_user \in BOOLEAN /\ alertsOpen \in BOOLEAN /\ analyzerOpen \in BOOLEAN
    /\ marked \in BOOLEAN /\ cleanStart \in BOOLEAN

\* A start at which no call failed has left the column, and no start drops it.
Migrated == cleanStart = TRUE => claimed_user = TRUE

\* A batch is at work only after a start.
AtWork == batch # <<>> => starts > 0

IInv == Rows /\ Marks /\ Tailing /\ Alerts /\ Flags /\ Migrated /\ AtWork /\ AlertsMarked

LEMMA InitIInv == Init => IInv
<1> SUFFICES ASSUME Init PROVE IInv
  OBVIOUS
<1>1. /\ now = 1000 /\ nas_events \in Seq(Row) /\ batch = <<>> /\ lastFired = {}
      /\ nas_alerts = {} /\ happened = 0 /\ claimed_user \in BOOLEAN /\ starts = 0
      /\ alertsOpen = FALSE /\ analyzerOpen = FALSE /\ marked = FALSE /\ cleanStart = FALSE
  BY OldAssumption DEF Init, Begin
<1>2. Rows /\ Tailing
  <2>1. Len(batch) = 0 /\ batch \in Seq(Row) /\ Len(nas_events) \in Nat
    BY <1>1, EmptySeq, LenProperties
  <2> QED
    BY <1>1, <2>1 DEF Rows, Tailing, Begin
<1>3. Marks /\ Alerts /\ Migrated /\ AtWork /\ AlertsMarked
  BY <1>1 DEF Marks, Alerts, Migrated, AtWork, AlertsMarked
<1>4. Flags
  BY <1>1 DEF Flags
<1> QED
  BY <1>2, <1>3, <1>4 DEF IInv

LEMMA FaultIsBoolean == \A what : MayFail(what) \subseteq BOOLEAN
  BY DEF MayFail

LEMMA StartKeeps == IInv /\ Start => IInv'
<1> SUFFICES ASSUME IInv, Start PROVE IInv'
  OBVIOUS
<1>1. /\ starts' = starts + 1 /\ lastFired' = {} /\ batch' = <<>>
      /\ now' = now /\ nas_events' = nas_events /\ nas_alerts' = nas_alerts
      /\ happened' = happened
  BY DEF Start
<1>2. PICK noAlerts \in BOOLEAN, noAlter \in BOOLEAN, fails \in BOOLEAN :
        /\ alertsOpen' = ~noAlerts /\ analyzerOpen' = ~fails
        /\ claimed_user' = (claimed_user \/ (~noAlerts /\ ~noAlter))
        /\ marked' = (marked \/ ~noAlerts)
        /\ cleanStart' = (cleanStart \/ ~(noAlerts \/ noAlter))
  <2>1. \E noAlerts \in BOOLEAN, noAlter \in BOOLEAN :
          /\ alertsOpen' = ~noAlerts
          /\ claimed_user' = (claimed_user \/ (~noAlerts /\ ~noAlter))
          /\ marked' = (marked \/ ~noAlerts)
          /\ cleanStart' = (cleanStart \/ ~(noAlerts \/ noAlter))
    BY FaultIsBoolean, Zenon DEF Start, AlreadyApplied
  <2>2. \E fails \in BOOLEAN : analyzerOpen' = ~fails
    BY FaultIsBoolean DEF Start
  <2> QED
    BY <2>1, <2>2
<1>3. /\ claimed_user' \in BOOLEAN /\ marked' \in BOOLEAN /\ cleanStart' \in BOOLEAN
      /\ cleanStart' = TRUE => cleanStart = TRUE \/ claimed_user' = TRUE
      /\ claimed_user = TRUE => claimed_user' = TRUE
  BY <1>2, Zenon DEF IInv, Flags
<1>4. Flags'
  BY <1>1, <1>2, <1>3 DEF IInv, Flags
<1>5. Migrated' /\ AtWork'
  BY <1>1, <1>3 DEF IInv, Migrated, AtWork
<1>6. Rows' /\ Tailing' /\ Marks'
  <2>1. Rows'
    BY <1>1, EmptySeq DEF IInv, Rows
  <2>2. Len(batch') = 0 /\ Len(nas_events) \in Nat /\ nas_events' = nas_events
    BY <1>1, LenProperties DEF IInv, Rows
  <2>3. Tailing'
    BY <2>2 DEF Tailing
  <2>4. Marks'
    BY <1>1 DEF Marks
  <2> QED
    BY <2>1, <2>3, <2>4
<1>7. Alerts' /\ AlertsMarked'
  <2>1. starts \in Nat /\ 1..starts \subseteq 1..starts + 1
    BY DEF IInv, Flags
  <2>2. \A a \in nas_alerts : a \in [rule : Names, key : STRING, at : Begin..now, life : 1..starts]
    BY DEF IInv, Alerts
  <2>3. \A a \in nas_alerts : a.life # starts + 1
    BY <2>1, <2>2
  <2>4. Alerts'
    BY <1>1, <2>1, <2>2 DEF Alerts
  <2>5. AlertsMarked'
    BY <1>1, <2>3 DEF AlertsMarked
  <2> QED
    BY <2>4, <2>5
<1> QED
  BY <1>4, <1>5, <1>6, <1>7 DEF IInv

LEMMA WaitKeeps == IInv /\ Wait => IInv'
<1> SUFFICES ASSUME IInv, Wait PROVE IInv'
  OBVIOUS
<1>1. PICK d \in Nat : now' = now + d
  BY BoundAssumption DEF Wait
<1>2. /\ batch' = batch /\ lastFired' = lastFired /\ nas_alerts' = nas_alerts
      /\ happened' = happened /\ nas_events' = nas_events /\ claimed_user' = claimed_user
      /\ alertsOpen' = alertsOpen /\ analyzerOpen' = analyzerOpen /\ starts' = starts
      /\ marked' = marked /\ cleanStart' = cleanStart
  BY DEF Wait, dbVars, startVars
<1>3. now \in Nat /\ now' \in Nat /\ now' >= now /\ now >= Begin /\ now' >= Begin /\ Begin \in Nat
      /\ Begin..now \subseteq Begin..now'
  BY <1>1 DEF IInv, Rows, Begin
<1>4. Rows'
  BY <1>2, <1>3 DEF IInv, Rows
<1>5. Marks'
  <2>1. \A f \in lastFired : f \in [rule : Names, key : STRING, at : Begin..now]
    BY DEF IInv, Marks
  <2>2. \A f \in lastFired : f \in [rule : Names, key : STRING, at : Begin..now']
    BY <1>3, <2>1
  <2> QED
    BY <1>2, <2>2 DEF IInv, Marks
<1>6. Alerts'
  <2>1. \A a \in nas_alerts : a \in [rule : Names, key : STRING, at : Begin..now, life : 1..starts]
    BY DEF IInv, Alerts
  <2>2. \A a \in nas_alerts : a \in [rule : Names, key : STRING, at : Begin..now', life : 1..starts]
    BY <1>3, <2>1
  <2> QED
    BY <1>2, <2>2 DEF Alerts
<1>7. Tailing' /\ Flags' /\ Migrated' /\ AtWork' /\ AlertsMarked'
  BY <1>2 DEF IInv, Tailing, Flags, Migrated, AtWork, AlertsMarked
<1> QED
  BY <1>4, <1>5, <1>6, <1>7 DEF IInv

\* What flushBatch stores.
LEMMA RowsOfFlush ==
    ASSUME IInv, Flush
    PROVE  /\ happened \in Nat /\ happened' \in Nat /\ happened' > happened
           /\ \/ /\ claimed_user = FALSE /\ nas_events' = nas_events /\ batch' = batch
              \/ /\ claimed_user = TRUE /\ nas_events' = nas_events \o batch'
                 /\ batch' \in Seq(Row) /\ Len(batch') \in 1..2
                 /\ \A i \in 1..Len(batch') : batch'[i].ts >= Begin - 1
<1>1. PICK b \in SeqOf(Bursts, 2) \ {<<>>} :
        /\ happened' = happened + Len(b)
        /\ \E before \in {0, 1} :
              LET rows == [i \in 1..Len(b) |-> Stamp(b[i], IF i = 1 THEN now - before ELSE now)]
              IN  IF claimed_user
                  THEN nas_events' = nas_events \o rows /\ batch' = rows
                  ELSE UNCHANGED <<nas_events, batch>>
  BY DEF Flush
<1>2. PICK before \in {0, 1} :
        IF claimed_user
        THEN /\ nas_events' = nas_events \o
                  [i \in 1..Len(b) |-> Stamp(b[i], IF i = 1 THEN now - before ELSE now)]
             /\ batch' = [i \in 1..Len(b) |-> Stamp(b[i], IF i = 1 THEN now - before ELSE now)]
        ELSE nas_events' = nas_events /\ batch' = batch
  BY <1>1
<1>3. PICK m \in 0..2 : b \in [1..m -> Bursts]
  BY DEF SeqOf
<1>4. b \in Seq(Bursts) /\ Len(b) = m /\ m \in 1..2
  <2>1. b \in Seq(Bursts) /\ Len(b) = m
    BY <1>3
  <2>2. m # 0
    BY <2>1, EmptySeq
  <2> QED
    BY <2>1, <2>2
<1>5. ASSUME NEW i \in 1..m, NEW t \in Nat PROVE Stamp(b[i], t) \in Row
  <2>1. b[i] \in Burst
    BY <1>3, BurstAssumption
  <2> QED
    BY <2>1 DEF Stamp, Row, Burst
<1> DEFINE rows == [i \in 1..m |-> Stamp(b[i], IF i = 1 THEN now - before ELSE now)]
<1>6. \A i \in 1..m : /\ (IF i = 1 THEN now - before ELSE now) \in Nat
                       /\ (IF i = 1 THEN now - before ELSE now) >= Begin - 1
  BY DEF IInv, Rows, Begin
<1>7. \A i \in 1..m : rows[i] \in Row /\ rows[i].ts >= Begin - 1
  <2> SUFFICES ASSUME NEW i \in 1..m PROVE rows[i] \in Row /\ rows[i].ts >= Begin - 1
    OBVIOUS
  <2>1. PICK t \in Nat : t = (IF i = 1 THEN now - before ELSE now) /\ t >= Begin - 1
    BY <1>6
  <2>2. rows[i] = Stamp(b[i], t)
    BY <2>1
  <2>3. Stamp(b[i], t).ts = t
    BY DEF Stamp
  <2> QED
    BY <1>5, <2>1, <2>2, <2>3
<1>8. DOMAIN rows = 1..m
  OBVIOUS
<1>9. CASE claimed_user = TRUE
  <2>1. nas_events' = nas_events \o rows /\ batch' = rows
    BY <1>2, <1>4, <1>9
  <2> HIDE DEF rows
  <2>2. rows = [i \in 1..m |-> rows[i]]
    BY DEF rows
  <2>3. rows \in [1..m -> Row]
    BY <1>7, <2>2
  <2>4. rows \in Seq(Row) /\ Len(rows) = m
    BY <2>3, <1>4
  <2>5. happened \in Nat /\ happened' \in Nat /\ happened' > happened
    BY <1>1, <1>4 DEF IInv, Flags
  <2> QED
    BY <1>4, <1>7, <1>9, <2>1, <2>4, <2>5
<1>10. CASE claimed_user = FALSE
  <2>1. nas_events' = nas_events /\ batch' = batch
    BY <1>2, <1>10
  <2>2. happened \in Nat /\ happened' \in Nat /\ happened' > happened
    BY <1>1, <1>4 DEF IInv, Flags
  <2> QED
    BY <1>10, <2>1, <2>2
<1> QED
  BY <1>9, <1>10 DEF IInv, Flags

LEMMA FlushKeeps == IInv /\ Flush => IInv'
<1> SUFFICES ASSUME IInv, Flush PROVE IInv'
  OBVIOUS
<1>1. /\ now' = now /\ lastFired' = lastFired /\ nas_alerts' = nas_alerts
      /\ claimed_user' = claimed_user /\ alertsOpen' = alertsOpen
      /\ analyzerOpen' = analyzerOpen /\ starts' = starts
      /\ marked' = marked /\ cleanStart' = cleanStart
  BY DEF Flush, startVars
<1>2. Marks' /\ Alerts' /\ AlertsMarked'
  BY <1>1 DEF IInv, Marks, Alerts, AlertsMarked
<1>3. Flags'
  BY <1>1, RowsOfFlush DEF IInv, Flags
<1>4. CASE claimed_user = FALSE
  <2>1. nas_events' = nas_events /\ batch' = batch
    BY <1>4, RowsOfFlush
  <2> QED
    BY <1>1, <1>2, <1>3, <2>1 DEF IInv, Rows, Tailing, Migrated, AtWork
<1>5. CASE claimed_user = TRUE
  <2>1. /\ nas_events' = nas_events \o batch' /\ batch' \in Seq(Row) /\ Len(batch') \in 1..2
        /\ \A i \in 1..Len(batch') : batch'[i].ts >= Begin - 1
    BY <1>5, RowsOfFlush
  <2>2. nas_events \in Seq(Row)
    BY DEF IInv, Rows
  <2>3. /\ nas_events' \in Seq(Row) /\ Len(nas_events') = Len(nas_events) + Len(batch')
        /\ \A i \in 1..Len(nas_events') :
              nas_events'[i] = IF i <= Len(nas_events) THEN nas_events[i]
                                                       ELSE batch'[i - Len(nas_events)]
    BY <2>1, <2>2, ConcatProperties
  <2>4. Len(nas_events) \in Nat /\ Len(batch') \in Nat
    BY <2>1, <2>2, LenProperties
  <2>6. Rows'
    <3>1. now' \in Nat /\ now' >= Begin
      BY <1>1 DEF IInv, Rows
    <3>2. Len(batch') <= 2
      BY <2>1
    <3> QED
      BY <2>1, <2>3, <3>1, <3>2 DEF Rows
  <2>7. Tailing'
    <3>1. ASSUME NEW i \in 1..Len(batch')
          PROVE  batch'[i] = nas_events'[Len(nas_events') - Len(batch') + i]
      <4>1. Len(nas_events') - Len(batch') + i = Len(nas_events) + i
            /\ Len(nas_events) + i \in 1..Len(nas_events')
            /\ ~(Len(nas_events) + i <= Len(nas_events))
            /\ Len(nas_events) + i - Len(nas_events) = i
        BY <2>3, <2>4
      <4> QED
        BY <2>3, <4>1
    <3> QED
      BY <2>3, <2>4, <3>1 DEF Tailing
  <2>8. Migrated' /\ AtWork'
    <3>1. starts > 0
      BY DEF Flush, Running
    <3> QED
      BY <1>1, <1>5, <3>1 DEF IInv, Migrated, AtWork
  <2> QED
    BY <1>2, <1>3, <2>6, <2>7, <2>8 DEF IInv
<1> QED
  BY <1>4, <1>5 DEF IInv, Flags
\* What analyze leaves for one burst: its alerts, each with the number of the start.
LEMMA AlertsOfAnalyze ==
    ASSUME IInv, Analyze
    PROVE  \E fired :
              /\ \A g \in fired : FiredNow(g)
              /\ lastFired' = MarkFired(fired)
              /\ \A a \in nas_alerts' : \/ a \in nas_alerts
                                        \/ \E g \in fired : a = [rule |-> g.rule, key |-> g.key,
                                                                 at |-> g.at, life |-> starts]
<1> DEFINE fired == IF analyzerOpen THEN Fired(Head(batch)) ELSE {}
           rows == {[rule |-> a.rule, key |-> a.key, at |-> a.at, life |-> starts] : a \in fired}
<1>1. batch \in Seq(Row) /\ batch # <<>>
  BY DEF IInv, Rows, Analyze
<1>2. Head(batch) \in Row
  BY <1>1, HeadTailProperties
<1>3. \A g \in fired : FiredNow(g)
  BY <1>2, FiredAreNow DEF IInv
<1>4. lastFired' = MarkFired(fired)
  BY DEF Analyze
<1>5. \E written \in IF "insertAlert" \in Faulty THEN SUBSET rows ELSE {rows} :
          nas_alerts' = nas_alerts \cup IF alertsOpen THEN written ELSE {}
  BY DEF Analyze
<1> HIDE DEF fired
<1>6. \A a \in nas_alerts' : a \in nas_alerts \/ a \in rows
  BY <1>5
<1> QED
  BY <1>3, <1>4, <1>6

LEMMA AnalyzeKeeps == IInv /\ Analyze => IInv'
<1> SUFFICES ASSUME IInv, Analyze PROVE IInv'
  OBVIOUS
<1>1. /\ batch # <<>> /\ batch' = Tail(batch) /\ now' = now /\ happened' = happened
      /\ nas_events' = nas_events /\ claimed_user' = claimed_user /\ alertsOpen' = alertsOpen
      /\ analyzerOpen' = analyzerOpen /\ starts' = starts
      /\ marked' = marked /\ cleanStart' = cleanStart
  BY DEF Analyze, dbVars, startVars
<1>2. PICK fired :
        /\ \A g \in fired : FiredNow(g)
        /\ lastFired' = MarkFired(fired)
        /\ \A a \in nas_alerts' : \/ a \in nas_alerts
                                  \/ \E g \in fired : a = [rule |-> g.rule, key |-> g.key,
                                                           at |-> g.at, life |-> starts]
  BY AlertsOfAnalyze
<1>3. /\ Marks' /\ (\A a \in fired : a.rule # "MD-006" => a \in lastFired')
      /\ \A f \in lastFired : \E g \in lastFired' :
            g.rule = f.rule /\ g.key = f.key /\ g.at >= f.at
  BY <1>1, <1>2, MarksKept DEF IInv
<1>4. now \in Nat /\ now >= Begin /\ Begin \in Nat /\ starts \in Nat
  BY DEF IInv, Rows, Flags, Begin
<1>5. batch \in Seq(Row) /\ Len(batch) \in 1..2 /\ Len(nas_events) \in Nat
  <2>1. batch \in Seq(Row) /\ nas_events \in Seq(Row) /\ Len(batch) <= 2
    BY DEF IInv, Rows
  <2>2. Len(batch) \in Nat /\ Len(nas_events) \in Nat /\ Len(batch) # 0
    BY <1>1, <2>1, LenProperties, EmptySeq
  <2>3. \A m \in Nat : m <= 2 /\ m # 0 => m \in 1..2
    OBVIOUS
  <2>4. Len(batch) \in 1..2
    BY <2>1, <2>2, <2>3
  <2> QED
    BY <2>1, <2>2, <2>4
<1>6. /\ batch' \in Seq(Row) /\ Len(batch') = Len(batch) - 1
      /\ \A i \in 1..Len(batch') : batch'[i] = batch[i + 1] /\ i + 1 \in 1..Len(batch)
  <2>1. /\ Tail(batch) \in Seq(Row) /\ Len(Tail(batch)) = Len(batch) - 1
        /\ \A i \in 1..Len(Tail(batch)) : Tail(batch)[i] = batch[i + 1]
    BY <1>1, <1>5, HeadTailProperties
  <2> QED
    BY <1>1, <1>5, <2>1
<1>7. Rows'
  <2>1. \A i \in 1..Len(batch') : batch'[i].ts >= Begin - 1
    BY <1>6 DEF IInv, Rows
  <2>2. Len(batch') <= 2
    BY <1>5, <1>6
  <2> QED
    BY <1>1, <1>6, <2>1, <2>2 DEF IInv, Rows
<1>8. Tailing'
  <2>1. Len(batch') <= Len(nas_events)
    BY <1>5, <1>6 DEF IInv, Tailing
  <2>2. ASSUME NEW i \in 1..Len(batch')
        PROVE  batch'[i] = nas_events[Len(nas_events) - Len(batch') + i]
    <3>1. batch[i + 1] = nas_events[Len(nas_events) - Len(batch) + (i + 1)]
      BY <1>6 DEF IInv, Tailing
    <3>2. Len(nas_events) - Len(batch) + (i + 1) = Len(nas_events) - Len(batch') + i
      BY <1>5, <1>6
    <3> QED
      BY <1>6, <3>1, <3>2
  <2> QED
    BY <1>1, <2>1, <2>2 DEF Tailing
<1>9. Alerts' /\ AlertsMarked'
  <2>1. ASSUME NEW a \in nas_alerts'
        PROVE  /\ a \in [rule : Names, key : STRING, at : Begin..now, life : 1..starts]
               /\ a.life = starts /\ a.rule # "MD-006" =>
                     \E f \in lastFired' : f.rule = a.rule /\ f.key = a.key /\ f.at >= a.at
    <3>1. CASE a \in nas_alerts
      <4>1. a \in [rule : Names, key : STRING, at : Begin..now, life : 1..starts]
        BY <3>1 DEF IInv, Alerts
      <4>2. ASSUME a.life = starts, a.rule # "MD-006"
            PROVE  \E f \in lastFired' : f.rule = a.rule /\ f.key = a.key /\ f.at >= a.at
        <5>1. PICK f \in lastFired : f.rule = a.rule /\ f.key = a.key /\ f.at >= a.at
          BY <3>1, <4>2 DEF IInv, AlertsMarked
        <5>2. PICK g \in lastFired' : g.rule = f.rule /\ g.key = f.key /\ g.at >= f.at
          BY <1>3
        <5>3. f.at \in Nat /\ g.at \in Nat /\ a.at \in Nat
          BY <1>1, <1>3, <1>4, <4>1 DEF IInv, Marks
        <5> QED
          BY <5>1, <5>2, <5>3
      <4> QED
        BY <4>1, <4>2
    <3>2. CASE a \notin nas_alerts
      <4>1. PICK g \in fired : a = [rule |-> g.rule, key |-> g.key, at |-> g.at, life |-> starts]
        BY <1>2, <3>2
      <4>2. g \in [rule : Names, key : STRING, at : {now}]
        BY <1>2 DEF FiredNow
      <4>3. starts \in 1..starts
        <5>1. starts # 0
          BY <1>1, <1>4 DEF IInv, AtWork
        <5> QED
          BY <1>4, <5>1
      <4>4. a \in [rule : Names, key : STRING, at : Begin..now, life : 1..starts]
        BY <1>4, <4>1, <4>2, <4>3
      <4>5. a.rule # "MD-006" => g \in lastFired' /\ g.rule = a.rule /\ g.key = a.key /\ g.at >= a.at
        BY <1>3, <1>4, <4>1, <4>2
      <4> QED
        BY <4>4, <4>5
    <3> QED
      BY <3>1, <3>2
  <2>2. Alerts'
    BY <1>1, <2>1 DEF Alerts
  <2>3. AlertsMarked'
    BY <1>1, <2>1 DEF AlertsMarked
  <2> QED
    BY <2>2, <2>3
<1>10. Flags' /\ Migrated' /\ AtWork'
  BY <1>1 DEF IInv, Flags, Migrated, AtWork
<1> QED
  BY <1>3, <1>7, <1>8, <1>9, <1>10 DEF IInv

LEMMA NextKeeps == IInv /\ [Next]_vars => IInv'
<1> SUFFICES ASSUME IInv, [Next]_vars PROVE IInv'
  OBVIOUS
<1>1. CASE UNCHANGED vars
  BY <1>1 DEF vars, dbVars, startVars, IInv, Rows, Marks, Tailing, Alerts, Flags, Migrated, AtWork,
             AlertsMarked
<1> QED
  BY <1>1, StartKeeps, WaitKeeps, FlushKeeps, AnalyzeKeeps DEF Next

\* IInv holds in every state: the basis of what follows.
THEOREM Inductive == Spec => []IInv
<1> QED
  BY InitIInv, NextKeeps, PTL DEF Spec

-----------------------------------------------------------------------------
(* What follows *)

LEMMA SuffixByIndex ==
    ASSUME NEW S, NEW s \in Seq(S), NEW t \in Seq(S), Len(s) <= Len(t),
           \A i \in 1..Len(s) : s[i] = t[Len(t) - Len(s) + i]
    PROVE  IsSuffix(s, t)
<1>1. Len(s) \in Nat /\ Len(t) \in Nat
  BY LenProperties
<1> DEFINE rs == Reverse(s) rt == Reverse(t)
<1>2. /\ rs = [i \in 1..Len(s) |-> s[(Len(s) - i) + 1]]
      /\ rt = [i \in 1..Len(t) |-> t[(Len(t) - i) + 1]]
  BY DEF Reverse
<1> HIDE DEF rs, rt
<1>3. rs \in Seq(S) /\ rt \in Seq(S) /\ Len(rs) = Len(s) /\ Len(rt) = Len(t)
  <2>1. \A i \in 1..Len(s) : s[(Len(s) - i) + 1] \in S
    BY <1>1, ElementOfSeq
  <2>2. \A i \in 1..Len(t) : t[(Len(t) - i) + 1] \in S
    BY <1>1, ElementOfSeq
  <2>3. rs \in [1..Len(s) -> S] /\ rt \in [1..Len(t) -> S]
    BY <1>2, <2>1, <2>2
  <2>4. \A n \in Nat : \A f \in [1..n -> S] : f \in Seq(S) /\ Len(f) = n
    OBVIOUS
  <2> QED
    BY <1>1, <2>3, <2>4
<1>4. \A i \in 1..Len(s) : rs[i] = rt[i]
  <2> SUFFICES ASSUME NEW i \in 1..Len(s) PROVE rs[i] = rt[i]
    OBVIOUS
  <2>1. i \in 1..Len(t) /\ (Len(s) - i) + 1 \in 1..Len(s)
        /\ Len(t) - Len(s) + ((Len(s) - i) + 1) = (Len(t) - i) + 1
    BY <1>1
  <2> QED
    BY <1>2, <2>1
<1>5. /\ SubSeq(rs, 1, Len(rs)) \in Seq(S) /\ SubSeq(rt, 1, Len(rs)) \in Seq(S)
      /\ Len(SubSeq(rs, 1, Len(rs))) = Len(s) /\ Len(SubSeq(rt, 1, Len(rs))) = Len(s)
      /\ \A i \in 1..Len(s) : SubSeq(rs, 1, Len(rs))[i] = rs[i] /\ SubSeq(rt, 1, Len(rs))[i] = rt[i]
  BY <1>1, <1>3
<1>6. SubSeq(rs, 1, Len(rs)) = SubSeq(rt, 1, Len(rs))
  BY <1>4, <1>5, SeqEqual
<1> QED
  BY <1>3, <1>6 DEF IsSuffix, IsPrefix, rs, rt
LEMMA TypesFollow == IInv => TypeOK
<1> SUFFICES ASSUME IInv PROVE TypeOK
  OBVIOUS
<1>1. now \in Nat /\ happened \in Nat /\ starts \in Nat
  BY DEF IInv, Rows, Flags
<1>2. nas_events \in Seq(Row) /\ batch \in Seq(Row) /\ Len(batch) <= 2
  BY DEF IInv, Rows
<1>3. ASSUME NEW i \in 1..Len(nas_events)
      PROVE  nas_events[i].ts \in Nat /\ nas_events[i].n \in Nat \ {0}
  <2>1. nas_events[i] \in Row
    BY <1>2, ElementOfSeq
  <2> QED
    BY <2>1 DEF Row
<1>4. IsSuffix(batch, nas_events)
  BY <1>2, SuffixByIndex DEF IInv, Tailing
<1>5. \A f, g \in lastFired : /\ f.at \in Begin..now
                              /\ <<f.rule, f.key>> = <<g.rule, g.key>> => f = g
  <2>1. \A f \in lastFired : f \in [rule : Names, key : STRING, at : Begin..now]
    BY DEF IInv, Marks
  <2>2. \A f, g \in lastFired : f.rule = g.rule /\ f.key = g.key => f = g
    BY DEF IInv, Marks
  <2> QED
    BY <2>1, <2>2
<1>6. \A a \in nas_alerts : a.at \in Begin..now /\ a.life \in 1..starts
  <2>1. \A a \in nas_alerts : a \in [rule : Names, key : STRING, at : Begin..now, life : 1..starts]
    BY DEF IInv, Alerts
  <2> QED
    BY <2>1
<1>7. {claimed_user, alertsOpen, analyzerOpen, marked, cleanStart} \subseteq BOOLEAN
  BY DEF IInv, Flags
<1> QED
  BY <1>1, <1>2, <1>3, <1>4, <1>5, <1>6, <1>7 DEF TypeOK

\* Rows are numbers and strings, the batch is the end of nas_events, no mark and
\* no alert is younger than the clock, and a rule has one mark for each key.
THEOREM TypeCorrect == Spec => []TypeOK
<1> QED
  BY Inductive, TypesFollow, PTL

LEMMA CooldownStep == IInv /\ CooldownHolds /\ [Next]_vars => CooldownHolds'
<1> SUFFICES ASSUME IInv, CooldownHolds, [Next]_vars PROVE CooldownHolds'
  OBVIOUS
<1>1. CASE nas_alerts' = nas_alerts
  BY <1>1 DEF CooldownHolds
<1>2. CASE Analyze
  <2> SUFFICES ASSUME NEW r \in Rules, NEW a \in nas_alerts', NEW b \in nas_alerts',
                      a.rule = r.id, b.rule = r.id,
                      a.key = b.key, a.life = b.life, a.at < b.at
               PROVE  b.at - a.at >= r.cooldown
    BY DEF CooldownHolds
  <2>1. PICK fired :
          /\ \A g \in fired : FiredNow(g)
          /\ \A x \in nas_alerts' : \/ x \in nas_alerts
                                    \/ \E g \in fired : x = [rule |-> g.rule, key |-> g.key,
                                                             at |-> g.at, life |-> starts]
    BY <1>2, AlertsOfAnalyze
  <2>2. now \in Nat /\ Begin \in Nat /\ r.cooldown \in Nat /\ r.id # "MD-006"
    BY RuleNumbers DEF IInv, Rows, Begin
  <2>3. \A x \in nas_alerts : x \in [rule : Names, key : STRING, at : Begin..now, life : 1..starts]
    BY DEF IInv, Alerts
  <2>4. CASE a \in nas_alerts /\ b \in nas_alerts
    BY <2>4 DEF CooldownHolds
  <2>5. CASE a \notin nas_alerts
    <3>1. a.at = now
      BY <2>1, <2>5 DEF FiredNow
    <3>2. b.at \in Nat /\ b.at <= now
      BY <2>1, <2>2, <2>3 DEF FiredNow
    <3> QED
      BY <2>2, <3>1, <3>2
  <2>6. CASE a \in nas_alerts /\ b \notin nas_alerts
    <3>1. PICK g \in fired : b = [rule |-> g.rule, key |-> g.key, at |-> g.at, life |-> starts]
      BY <2>1, <2>6
    <3>2. b.at = now /\ b.life = starts /\ g.rule = r.id /\ g.key = a.key
      BY <2>1, <3>1 DEF FiredNow
    <3>3. ShouldFire(r, a.key)
      <4>1. PICK q \in Rules : q.id = r.id /\ ShouldFire(q, a.key)
        BY <2>1, <2>2, <3>2 DEF FiredNow
      <4> QED
        BY <4>1, RuleNames
    <3>4. PICK f \in lastFired : f.rule = r.id /\ f.key = a.key /\ f.at >= a.at
      BY <2>2, <2>6, <3>2 DEF IInv, AlertsMarked
    <3>5. now - f.at >= r.cooldown
      BY <3>3, <3>4 DEF ShouldFire
    <3>6. f.at \in Nat /\ a.at \in Nat
      BY <2>2, <2>3, <2>6 DEF IInv, Marks
    <3> QED
      BY <2>2, <3>2, <3>4, <3>5, <3>6
  <2> QED
    BY <2>4, <2>5, <2>6
<1>3. CASE Start \/ Wait \/ Flush \/ UNCHANGED vars
  <2>1. nas_alerts' = nas_alerts
    BY <1>3 DEF Start, Wait, Flush, vars
  <2> QED
    BY <1>1, <2>1
<1> QED
  BY <1>2, <1>3 DEF Next

\* One rule leaves two alerts for one key within its cooldown only if the process
\* was started in between: shouldFire and markFired, for every table of rules.
THEOREM CooldownKept == Spec => []CooldownHolds
<1>1. Init => CooldownHolds
  BY DEF Init, CooldownHolds
<1> QED
  BY <1>1, Inductive, CooldownStep, PTL DEF Spec

LEMMA StoredStep ==
    IInv /\ [Next]_vars =>
        [happened' > happened /\ cleanStart => Len(nas_events') > Len(nas_events)]_vars
<1> SUFFICES ASSUME IInv, [Next]_vars, happened' > happened, cleanStart = TRUE
             PROVE  Len(nas_events') > Len(nas_events)
  <2>1. IInv => cleanStart \in BOOLEAN
    BY DEF IInv, Flags
  <2> QED
    BY <2>1
<1>1. CASE Flush
  <2>1. claimed_user = TRUE
    BY DEF IInv, Migrated
  <2>2. nas_events' = nas_events \o batch' /\ batch' \in Seq(Row) /\ Len(batch') \in 1..2
    BY <1>1, <2>1, RowsOfFlush
  <2>3. Len(nas_events') = Len(nas_events) + Len(batch') /\ Len(nas_events) \in Nat
    BY <2>2, ConcatProperties, LenProperties DEF IInv, Rows
  <2>4. PICK n \in 1..2 : Len(batch') = n
    BY <2>2
  <2>5. Len(nas_events') = Len(nas_events) + n
    BY <2>3, <2>4
  <2> QED
    BY <2>3, <2>5
<1>2. CASE Start \/ Wait \/ Analyze \/ UNCHANGED vars
  <2>1. happened' = happened /\ happened \in Nat
    BY <1>2 DEF Start, Wait, Analyze, vars, IInv, Flags
  <2> QED
    BY <2>1
<1> QED
  BY <1>1, <1>2 DEF Next

\* After one start at which nothing failed no event is refused, whatever the starts
\* before and after it were like and whatever the guard was told.
THEOREM MigrationIsMadeGood == Spec => EventsStored
<1> QED
  BY Inductive, StoredStep, PTL DEF Spec, EventsStored

-----------------------------------------------------------------------------
(* No burst is overlooked *)

\* A window of SQL is never shorter than the one the tables describe.
LEMMA WithinIsSince ==
    ASSUME NEW t \in Nat, t >= Begin - 1, NEW w \in 1..600, NEW ts \in Nat, Within(ts, t, w)
    PROVE  Since(ts, t, w)
<1>1. t - w \in Nat /\ t - w <= ts /\ Midnight \in Nat
  BY BoundAssumption DEF Begin, Within
<1>2. \A a, b \in Nat : a <= b => Date(a) <= Date(b) /\ Date(a) \in Nat /\ Date(b) \in Nat
  <2> SUFFICES ASSUME NEW a \in Nat, NEW b \in Nat, a <= b
               PROVE  Date(a) <= Date(b) /\ Date(a) \in Nat /\ Date(b) \in Nat
    OBVIOUS
  <2>1. CASE a < Midnight /\ b < Midnight
    BY <2>1 DEF Date
  <2>2. CASE a < Midnight /\ ~(b < Midnight)
    <3>1. b - Midnight \in Nat
      BY <1>1, <2>2
    <3>2. (b - Midnight) \div 86400 \in Nat
      BY <3>1
    <3> QED
      BY <2>2, <3>2 DEF Date, Day
  <2>3. CASE ~(a < Midnight)
    <3>1. a - Midnight \in Nat /\ b - Midnight \in Nat /\ a - Midnight <= b - Midnight
          /\ ~(b < Midnight)
      BY <1>1, <2>3
    <3>2. (a - Midnight) \div 86400 \in Nat /\ (b - Midnight) \div 86400 \in Nat
          /\ (a - Midnight) \div 86400 <= (b - Midnight) \div 86400
      BY <3>1
    <3> QED
      BY <2>3, <3>1, <3>2 DEF Date, Day
  <2> QED
    BY <2>1, <2>2, <2>3
<1> QED
  BY <1>1, <1>2 DEF Since

LEMMA FamiliesDiffer ==
    /\ BruteForce # MassDelete /\ BruteForce # Traversal /\ BruteForce # Download
    /\ MassDelete # Traversal /\ MassDelete # Download /\ Traversal # Download
<1>1. /\ BruteForce[1].id = "BF-001" /\ MassDelete[1].id = "MD-001"
      /\ Traversal[1].id = "PT-001" /\ Download[1].id = "DX-001"
  BY DEF BruteForce, MassDelete, Traversal, Download, Rule
<1> QED
  BY <1>1

LEMMA CountsOf ==
    ASSUME NEW key, NEW x
    PROVE  /\ Counts(BruteForce, key, x) = IsFailure(x, key)
           /\ Counts(MassDelete, key, x) = IsDelete(x, key)
           /\ Counts(Traversal, key, x) = IsTraversal(x, key)
           /\ Counts(Download, key, x) = IsDownload(x, key)
BY FamiliesDiffer DEF Counts

\* The window of a rule that ends now, or at the login of a row, counts what the
\* tables describe and perhaps more of the same day: S are the rows that count.
RowWeights(S) == [i \in DOMAIN nas_events |-> IF i \in S THEN nas_events[i].n ELSE 0]
Near(t, w) == {i \in DOMAIN nas_events : Within(nas_events[i].ts, t, w)}
Far(t, w) == {i \in DOMAIN nas_events : Since(nas_events[i].ts, t, w)}

LEMMA MoreCounted ==
    ASSUME IInv, NEW t \in Nat, t >= Begin - 1, NEW w \in 1..600, NEW threshold \in Nat,
           NEW S \in SUBSET (DOMAIN nas_events),
           threshold <= Total(RowWeights(S \cap Near(t, w)), Len(nas_events))
    PROVE  Total(RowWeights(S \cap Far(t, w)), Len(nas_events)) >= threshold
<1> DEFINE N == Len(nas_events)
           v == RowWeights(S \cap Near(t, w))
           u == RowWeights(S \cap Far(t, w))
<1>1. nas_events \in Seq(Row) /\ N \in Nat /\ DOMAIN nas_events = 1..N
  BY LenProperties DEF IInv, Rows
<1>2. \A i \in 1..N : nas_events[i].n \in Nat /\ nas_events[i].ts \in Nat
  <2>1. \A i \in 1..N : nas_events[i] \in Row
    BY <1>1, ElementOfSeq
  <2> QED
    BY <2>1 DEF Row
<1>3. Near(t, w) \subseteq Far(t, w)
  BY <1>1, <1>2, WithinIsSince DEF Near, Far
<1>4. v \in [1..N -> Nat] /\ u \in [1..N -> Nat]
  BY <1>1, <1>2 DEF RowWeights
<1>5. \A i \in 1..N : v[i] <= u[i]
  BY <1>1, <1>2, <1>3 DEF RowWeights
<1>6. threshold <= Total(v, N)
  OBVIOUS
<1> HIDE DEF v, u, N
<1>7. Total(v, N) <= Total(u, N) /\ Total(v, N) \in Nat /\ Total(u, N) \in Nat
  BY <1>1, <1>4, <1>5, TotalGrows
<1>8. Total(u, N) >= threshold
  BY <1>6, <1>7
<1> QED
  BY <1>8 DEF u, N

LEMMA MoreFailures ==
    ASSUME IInv, NEW key, NEW t \in Nat, t >= Begin - 1,
           NEW w \in 1..600, NEW threshold \in Nat,
           threshold <= Count(LAMBDA x : IsFailure(x, key) /\ Within(x.ts, t, w))
    PROVE  Count(LAMBDA x : IsFailure(x, key) /\ Since(x.ts, t, w)) >= threshold
<1> DEFINE S == {i \in DOMAIN nas_events : IsFailure(nas_events[i], key)}
<1>1. Weights(LAMBDA x : IsFailure(x, key) /\ Within(x.ts, t, w)) = RowWeights(S \cap Near(t, w))
  BY DEF Weights, RowWeights, Near
<1>2. Weights(LAMBDA x : IsFailure(x, key) /\ Since(x.ts, t, w)) = RowWeights(S \cap Far(t, w))
  BY DEF Weights, RowWeights, Far
<1>3. S \in SUBSET (DOMAIN nas_events)
  OBVIOUS
<1> HIDE DEF S
<1>4. threshold <= Total(RowWeights(S \cap Near(t, w)), Len(nas_events))
  BY <1>1 DEF Count
<1>5. Total(RowWeights(S \cap Far(t, w)), Len(nas_events)) >= threshold
  BY <1>3, <1>4, MoreCounted
<1> QED
  BY <1>2, <1>5 DEF Count

LEMMA MoreDeletes ==
    ASSUME IInv, NEW key, NEW t \in Nat, t >= Begin - 1,
           NEW w \in 1..600, NEW threshold \in Nat,
           threshold <= Count(LAMBDA x : IsDelete(x, key) /\ Within(x.ts, t, w))
    PROVE  Count(LAMBDA x : IsDelete(x, key) /\ Since(x.ts, t, w)) >= threshold
<1> DEFINE S == {i \in DOMAIN nas_events : IsDelete(nas_events[i], key)}
<1>1. Weights(LAMBDA x : IsDelete(x, key) /\ Within(x.ts, t, w)) = RowWeights(S \cap Near(t, w))
  BY DEF Weights, RowWeights, Near
<1>2. Weights(LAMBDA x : IsDelete(x, key) /\ Since(x.ts, t, w)) = RowWeights(S \cap Far(t, w))
  BY DEF Weights, RowWeights, Far
<1>3. S \in SUBSET (DOMAIN nas_events)
  OBVIOUS
<1> HIDE DEF S
<1>4. threshold <= Total(RowWeights(S \cap Near(t, w)), Len(nas_events))
  BY <1>1 DEF Count
<1>5. Total(RowWeights(S \cap Far(t, w)), Len(nas_events)) >= threshold
  BY <1>3, <1>4, MoreCounted
<1> QED
  BY <1>2, <1>5 DEF Count

LEMMA MoreTraversals ==
    ASSUME IInv, NEW key, NEW t \in Nat, t >= Begin - 1,
           NEW w \in 1..600, NEW threshold \in Nat,
           threshold <= Count(LAMBDA x : IsTraversal(x, key) /\ Within(x.ts, t, w))
    PROVE  Count(LAMBDA x : IsTraversal(x, key) /\ Since(x.ts, t, w)) >= threshold
<1> DEFINE S == {i \in DOMAIN nas_events : IsTraversal(nas_events[i], key)}
<1>1. Weights(LAMBDA x : IsTraversal(x, key) /\ Within(x.ts, t, w)) = RowWeights(S \cap Near(t, w))
  BY DEF Weights, RowWeights, Near
<1>2. Weights(LAMBDA x : IsTraversal(x, key) /\ Since(x.ts, t, w)) = RowWeights(S \cap Far(t, w))
  BY DEF Weights, RowWeights, Far
<1>3. S \in SUBSET (DOMAIN nas_events)
  OBVIOUS
<1> HIDE DEF S
<1>4. threshold <= Total(RowWeights(S \cap Near(t, w)), Len(nas_events))
  BY <1>1 DEF Count
<1>5. Total(RowWeights(S \cap Far(t, w)), Len(nas_events)) >= threshold
  BY <1>3, <1>4, MoreCounted
<1> QED
  BY <1>2, <1>5 DEF Count

LEMMA MoreDownloads ==
    ASSUME IInv, NEW key, NEW t \in Nat, t >= Begin - 1,
           NEW w \in 1..600, NEW threshold \in Nat,
           threshold <= Count(LAMBDA x : IsDownload(x, key) /\ Within(x.ts, t, w))
    PROVE  Count(LAMBDA x : IsDownload(x, key) /\ Since(x.ts, t, w)) >= threshold
<1> DEFINE S == {i \in DOMAIN nas_events : IsDownload(nas_events[i], key)}
<1>1. Weights(LAMBDA x : IsDownload(x, key) /\ Within(x.ts, t, w)) = RowWeights(S \cap Near(t, w))
  BY DEF Weights, RowWeights, Near
<1>2. Weights(LAMBDA x : IsDownload(x, key) /\ Since(x.ts, t, w)) = RowWeights(S \cap Far(t, w))
  BY DEF Weights, RowWeights, Far
<1>3. S \in SUBSET (DOMAIN nas_events)
  OBVIOUS
<1> HIDE DEF S
<1>4. threshold <= Total(RowWeights(S \cap Near(t, w)), Len(nas_events))
  BY <1>1 DEF Count
<1>5. Total(RowWeights(S \cap Far(t, w)), Len(nas_events)) >= threshold
  BY <1>3, <1>4, MoreCounted
<1> QED
  BY <1>2, <1>5 DEF Count

LEMMA MoreFailuresBefore ==
    ASSUME IInv, NEW key, NEW t \in Nat, t >= Begin - 1,
           NEW w \in 1..600, NEW threshold \in Nat,
           threshold <= Count(LAMBDA x : IsFailure(x, key) /\ x.ts < t /\ Within(x.ts, t, w))
    PROVE  Count(LAMBDA x : IsFailure(x, key) /\ x.ts < t /\ Since(x.ts, t, w)) >= threshold
<1> DEFINE S == {i \in DOMAIN nas_events : IsFailure(nas_events[i], key) /\ nas_events[i].ts < t}
<1>1. Weights(LAMBDA x : IsFailure(x, key) /\ x.ts < t /\ Within(x.ts, t, w)) = RowWeights(S \cap Near(t, w))
  BY DEF Weights, RowWeights, Near
<1>2. Weights(LAMBDA x : IsFailure(x, key) /\ x.ts < t /\ Since(x.ts, t, w)) = RowWeights(S \cap Far(t, w))
  BY DEF Weights, RowWeights, Far
<1>3. S \in SUBSET (DOMAIN nas_events)
  OBVIOUS
<1> HIDE DEF S
<1>4. threshold <= Total(RowWeights(S \cap Near(t, w)), Len(nas_events))
  BY <1>1 DEF Count
<1>5. Total(RowWeights(S \cap Far(t, w)), Len(nas_events)) >= threshold
  BY <1>3, <1>4, MoreCounted
<1> QED
  BY <1>2, <1>5 DEF Count

\* What the four tables walk through counts at least what is documented.
LEMMA TablesCount ==
    ASSUME IInv, NEW e \in Row
    PROVE  \A family \in Families : Tested(family, e) =>
              \E c : /\ Escalate(family, e.n, Key(family, e), c) \subseteq Fired(e)
                     /\ \A r \in Range(family) :
                           Documented(family, r, Key(family, e), now) => c[r] >= r.threshold
<1> DEFINE Served(family) ==
        \E c : /\ Escalate(family, e.n, Key(family, e), c) \subseteq Fired(e)
               /\ \A r \in Range(family) :
                     Documented(family, r, Key(family, e), now) => c[r] >= r.threshold
<1>1. {BruteForce, MassDelete, Traversal, Download} = Families
  BY DEF Families
<1>2. /\ \A family \in Families : \A r \in Range(family) :
            r.window \in 1..600 /\ r.threshold \in Nat
      /\ now \in Nat /\ now >= Begin - 1
  <2>1. now \in Nat /\ now >= Begin - 1
    BY DEF IInv, Rows, Begin
  <2> QED
    BY <2>1, RuleNumbers DEF Rules
<1>3. /\ Key(BruteForce, e) = e.ip /\ Key(Traversal, e) = e.ip
      /\ Key(MassDelete, e) = e.user /\ Key(Download, e) = e.user
  BY FamiliesDiffer DEF Key
<1>4. ASSUME Tested(BruteForce, e) PROVE Served(BruteForce)
  <2> DEFINE c == [r \in Range(BruteForce) |->
                      Count(LAMBDA x : IsFailure(x, e.ip) /\ Since(x.ts, now, r.window))]
  <2>1. CheckBF001_004(e) = Escalate(BruteForce, e.n, e.ip, c)
    BY DEF CheckBF001_004, Count, Weights
  <2>2. CheckBF001_004(e) \subseteq Fired(e)
    BY <1>4, FamiliesDiffer DEF Fired, When, Tested
  <2>3. ASSUME NEW r \in Range(BruteForce), Documented(BruteForce, r, e.ip, now)
        PROVE  c[r] >= r.threshold
    <3>1. r.threshold <= Count(LAMBDA x : IsFailure(x, e.ip) /\ Within(x.ts, now, r.window))
      BY <2>3, CountsOf DEF Documented, Count, Weights
    <3>2. c[r] = Count(LAMBDA x : IsFailure(x, e.ip) /\ Since(x.ts, now, r.window))
      BY DEF Count, Weights
    <3>3. r.window \in 1..600 /\ r.threshold \in Nat /\ now \in Nat /\ now >= Begin - 1
      BY <1>1, <1>2
    <3>4. Count(LAMBDA x : IsFailure(x, e.ip) /\ Since(x.ts, now, r.window)) >= r.threshold
      BY <3>1, <3>3, MoreFailures DEF Count, Weights
    <3> QED
      BY <3>2, <3>4
  <2> HIDE DEF c
  <2> QED
    BY <1>3, <2>1, <2>2, <2>3
<1>5. ASSUME Tested(MassDelete, e) PROVE Served(MassDelete)
  <2> DEFINE c == [r \in Range(MassDelete) |->
                      Count(LAMBDA x : IsDelete(x, e.user) /\ Since(x.ts, now, r.window))]
  <2>1. CheckMD001_004(e) = Escalate(MassDelete, e.n, e.user, c)
    BY DEF CheckMD001_004, Count, Weights
  <2>2. CheckMD001_004(e) \subseteq Fired(e)
    BY <1>5, FamiliesDiffer DEF Fired, When, Tested
  <2>3. ASSUME NEW r \in Range(MassDelete), Documented(MassDelete, r, e.user, now)
        PROVE  c[r] >= r.threshold
    <3>1. r.threshold <= Count(LAMBDA x : IsDelete(x, e.user) /\ Within(x.ts, now, r.window))
      BY <2>3, CountsOf DEF Documented, Count, Weights
    <3>2. c[r] = Count(LAMBDA x : IsDelete(x, e.user) /\ Since(x.ts, now, r.window))
      BY DEF Count, Weights
    <3>3. r.window \in 1..600 /\ r.threshold \in Nat /\ now \in Nat /\ now >= Begin - 1
      BY <1>1, <1>2
    <3>4. Count(LAMBDA x : IsDelete(x, e.user) /\ Since(x.ts, now, r.window)) >= r.threshold
      BY <3>1, <3>3, MoreDeletes DEF Count, Weights
    <3> QED
      BY <3>2, <3>4
  <2> HIDE DEF c
  <2> QED
    BY <1>3, <2>1, <2>2, <2>3
<1>6. ASSUME Tested(Traversal, e) PROVE Served(Traversal)
  <2> DEFINE c == [r \in Range(Traversal) |->
                      Count(LAMBDA x : IsTraversal(x, e.ip) /\ Since(x.ts, now, r.window))]
  <2>1. CheckPT001_002(e) = Escalate(Traversal, e.n, e.ip, c)
    BY DEF CheckPT001_002, Count, Weights
  <2>2. CheckPT001_002(e) \subseteq Fired(e)
    BY <1>6, FamiliesDiffer DEF Fired, When, Tested
  <2>3. ASSUME NEW r \in Range(Traversal), Documented(Traversal, r, e.ip, now)
        PROVE  c[r] >= r.threshold
    <3>1. r.threshold <= Count(LAMBDA x : IsTraversal(x, e.ip) /\ Within(x.ts, now, r.window))
      BY <2>3, CountsOf DEF Documented, Count, Weights
    <3>2. c[r] = Count(LAMBDA x : IsTraversal(x, e.ip) /\ Since(x.ts, now, r.window))
      BY DEF Count, Weights
    <3>3. r.window \in 1..600 /\ r.threshold \in Nat /\ now \in Nat /\ now >= Begin - 1
      BY <1>1, <1>2
    <3>4. Count(LAMBDA x : IsTraversal(x, e.ip) /\ Since(x.ts, now, r.window)) >= r.threshold
      BY <3>1, <3>3, MoreTraversals DEF Count, Weights
    <3> QED
      BY <3>2, <3>4
  <2> HIDE DEF c
  <2> QED
    BY <1>3, <2>1, <2>2, <2>3
<1>7. ASSUME Tested(Download, e) PROVE Served(Download)
  <2> DEFINE c == [r \in Range(Download) |->
                      Count(LAMBDA x : IsDownload(x, e.user) /\ Since(x.ts, now, r.window))]
  <2>1. CheckDX001_002(e) = Escalate(Download, e.n, e.user, c)
    BY DEF CheckDX001_002, Count, Weights
  <2>2. CheckDX001_002(e) \subseteq Fired(e)
    BY <1>7, FamiliesDiffer DEF Fired, When, Tested
  <2>3. ASSUME NEW r \in Range(Download), Documented(Download, r, e.user, now)
        PROVE  c[r] >= r.threshold
    <3>1. r.threshold <= Count(LAMBDA x : IsDownload(x, e.user) /\ Within(x.ts, now, r.window))
      BY <2>3, CountsOf DEF Documented, Count, Weights
    <3>2. c[r] = Count(LAMBDA x : IsDownload(x, e.user) /\ Since(x.ts, now, r.window))
      BY DEF Count, Weights
    <3>3. r.window \in 1..600 /\ r.threshold \in Nat /\ now \in Nat /\ now >= Begin - 1
      BY <1>1, <1>2
    <3>4. Count(LAMBDA x : IsDownload(x, e.user) /\ Since(x.ts, now, r.window)) >= r.threshold
      BY <3>1, <3>3, MoreDownloads DEF Count, Weights
    <3> QED
      BY <3>2, <3>4
  <2> HIDE DEF c
  <2> QED
    BY <1>3, <2>1, <2>2, <2>3
<1> HIDE DEF Served
<1>8. \A family \in Families : Tested(family, e) => Served(family)
  BY <1>1, <1>4, <1>5, <1>6, <1>7
<1> QED
  BY <1>8 DEF Served
\* A mark younger than the cooldown, seen by shouldFire or set by markFired, is
\* what makes a rule quiet after the step.
LEMMA QuietAfter ==
    ASSUME IInv, Analyze, analyzerOpen, NEW r \in Rules, NEW key,
           \/ Alert(r.id, key) \in Fired(Head(batch))
           \/ ~ShouldFire(r, key)
    PROVE  Quiet(r, key)
<1> DEFINE fired == Fired(Head(batch))
<1>1. batch \in Seq(Row) /\ batch # <<>> /\ now' = now /\ lastFired' = MarkFired(fired)
  BY DEF IInv, Rows, Analyze
<1>2. Head(batch) \in Row
  BY <1>1, HeadTailProperties
<1>3. \A g \in fired : FiredNow(g)
  BY <1>2, FiredAreNow DEF IInv
<1> HIDE DEF fired
<1>4. /\ Marks' /\ (\A a \in fired : a.rule # "MD-006" => a \in lastFired')
      /\ \A f \in lastFired : \E g \in lastFired' :
            g.rule = f.rule /\ g.key = f.key /\ g.at >= f.at
  BY <1>1, <1>3, MarksKept DEF IInv
<1>5. now \in Nat /\ Begin \in Nat /\ r.cooldown \in Nat /\ r.cooldown > 0 /\ r.id # "MD-006"
  BY RuleNumbers DEF IInv, Rows, Begin
<1>6. CASE Alert(r.id, key) \in fired
  <2> DEFINE a == Alert(r.id, key)
  <2>1. a.rule = r.id /\ a.key = key /\ a.at = now
    BY AlertFields
  <2> HIDE DEF a
  <2>2. a \in lastFired'
    BY <1>4, <1>5, <1>6, <2>1 DEF a
  <2>3. now - a.at < r.cooldown
    BY <1>5, <2>1
  <2> QED
    BY <2>1, <2>2, <2>3 DEF Quiet
<1>7. CASE ~ShouldFire(r, key)
  <2>1. PICK f \in lastFired : f.rule = r.id /\ f.key = key /\ ~(now - f.at >= r.cooldown)
    BY <1>7 DEF ShouldFire
  <2>2. PICK g \in lastFired' : g.rule = f.rule /\ g.key = f.key /\ g.at >= f.at
    BY <1>4
  <2>3. f.at \in Nat /\ g.at \in Nat
    BY <1>1, <1>4, <1>5 DEF IInv, Marks
  <2>4. now - g.at < r.cooldown
    BY <1>5, <2>1, <2>2, <2>3
  <2> QED
    BY <2>1, <2>2, <2>4 DEF Quiet
<1> QED
  BY <1>6, <1>7 DEF fired

\* A table one of whose rules applies fires one, or has one in its cooldown.
LEMMA OneFires ==
    ASSUME NEW family \in Families, NEW n \in Nat \ {0}, NEW key, NEW c,
           NEW r \in Range(family), c[r] >= r.threshold
    PROVE  \E q \in Range(family) :
              Alert(q.id, key) \in Escalate(family, n, key, c) \/ ~ShouldFire(q, key)
<1>1. Len(family) \in Nat /\ Range(family) = {family[j] : j \in 1..Len(family)}
  <2>1. \A m \in {2, 4} : m \in Nat
    OBVIOUS
  <2>2. Len(family) \in {2, 4} /\ Range(family) = {family[j] : j \in 1..Len(family)}
    BY FamilyRules
  <2> QED
    BY <2>1, <2>2
<1> DEFINE T == {j \in 1..Len(family) : Applies(family[j], key, c)}
<1>2. CASE T # {}
  <2>1. T \in SUBSET Nat
    BY <1>1
  <2> HIDE DEF T
  <2>2. PICK j \in T : \A i \in T : j <= i
    BY <1>2, <2>1, LeastNumber
  <2> USE DEF T
  <2>3. {i \in 1..j - 1 : Applies(family[i], key, c)} = {}
    BY <1>1, <2>2
  <2>4. Cardinality({i \in 1..j - 1 : Applies(family[i], key, c)}) < n
    <3>1. Cardinality({}) = 0 /\ 0 < n
      BY FS_EmptySet
    <3> QED
      BY <2>3, <3>1, Zenon
  <2>5. j \in FirstOf(n, family, key, c)
    BY <2>4 DEF FirstOf
  <2>6. Alert(family[j].id, key) \in Escalate(family, n, key, c)
    BY <2>5 DEF Escalate
  <2> QED
    BY <1>1, <2>6
<1>3. CASE T = {}
  <2>1. ~ShouldFire(r, key)
    BY <1>1, <1>3 DEF Applies
  <2> QED
    BY <2>1
<1> QED
  BY <1>2, <1>3

\* As many events as the table has rules reach each of its rules.
LEMMA AllFire ==
    ASSUME NEW family \in Families, NEW n \in Nat, n >= Len(family), NEW key, NEW c,
           NEW r \in Range(family), c[r] >= r.threshold
    PROVE  Alert(r.id, key) \in Escalate(family, n, key, c) \/ ~ShouldFire(r, key)
<1>1. Len(family) \in Nat /\ Range(family) = {family[j] : j \in 1..Len(family)}
  <2>1. \A m \in {2, 4} : m \in Nat
    OBVIOUS
  <2>2. Len(family) \in {2, 4} /\ Range(family) = {family[j] : j \in 1..Len(family)}
    BY FamilyRules
  <2> QED
    BY <2>1, <2>2
<1> SUFFICES ASSUME ShouldFire(r, key)
             PROVE  Alert(r.id, key) \in Escalate(family, n, key, c)
  OBVIOUS
<1>2. PICK j \in 1..Len(family) : r = family[j]
  BY <1>1
<1>3. j \in Nat /\ j - 1 \in Int /\ 1 \in Int /\ j - 1 < n /\ j >= 1
  BY <1>1
<1> DEFINE before == {i \in 1..j - 1 : Applies(family[i], key, c)}
<1>4. IsFiniteSet(1..j - 1) /\ Cardinality(1..j - 1) = j - 1
  <2>1. Cardinality(1..j - 1) = IF 1 > j - 1 THEN 0 ELSE (j - 1) - 1 + 1
    BY <1>3, FS_Interval
  <2>2. IsFiniteSet(1..j - 1)
    BY <1>3, FS_Interval
  <2> QED
    BY <1>3, <2>1, <2>2
<1>5. IsFiniteSet(before) /\ Cardinality(before) <= j - 1 /\ Cardinality(before) \in Nat
  <2>1. before \in SUBSET (1..j - 1)
    OBVIOUS
  <2> HIDE DEF before
  <2>2. IsFiniteSet(before) /\ Cardinality(before) <= Cardinality(1..j - 1)
    BY <1>4, <2>1, FS_Subset
  <2> QED
    BY <1>4, <2>2, FS_CardinalityType
<1>6. Cardinality(before) < n
  BY <1>3, <1>5
<1>7. j \in FirstOf(n, family, key, c)
  BY <1>2, <1>6 DEF FirstOf, Applies
<1> QED
  BY <1>2, <1>7 DEF Escalate

\* A step that takes a burst of the batch, with the analyzer open, is analyze's.
LEMMA AnalyzedIsAnalyze ==
    ASSUME IInv, [Next]_vars, Analyzed
    PROVE  Analyze /\ analyzerOpen /\ Head(batch) \in Row /\ now \in Nat /\ now >= Begin - 1
<1>1. batch # <<>> /\ batch' = Tail(batch) /\ analyzerOpen /\ starts' = starts
  BY DEF Analyzed
<1>2. batch \in Seq(Row) /\ now \in Nat /\ now >= Begin /\ starts \in Nat
  BY DEF IInv, Rows, Flags
<1>3. Head(batch) \in Row /\ Len(Tail(batch)) = Len(batch) - 1 /\ Len(batch) \in Nat
  BY <1>1, <1>2, HeadTailProperties, LenProperties
<1>4. batch' # batch
  <2>1. SUFFICES ASSUME batch' = batch PROVE FALSE
    OBVIOUS
  <2>2. Len(batch) = Len(batch) - 1
    BY <1>1, <1>3, <2>1
  <2> QED
    BY <1>3, <2>2
<1>5. ~Start
  BY <1>1, <1>2 DEF Start
<1>6. ~Wait /\ ~Flush /\ ~UNCHANGED vars
  BY <1>1, <1>4 DEF Wait, Flush, vars
<1>7. Analyze
  BY <1>5, <1>6 DEF Next
<1> QED
  BY <1>1, <1>2, <1>3, <1>7 DEF Begin

LEMMA NoticedStep ==
    ASSUME IInv, [Next]_vars, Analyzed, NEW family \in Families,
           Tested(family, Head(batch)),
           NEW r \in Range(family), Documented(family, r, Key(family, Head(batch)), now)
    PROVE  \E q \in Range(family) : Quiet(q, Key(family, Head(batch)))
<1> DEFINE e == Head(batch)
           k == Key(family, e)
<1>1. Analyze /\ analyzerOpen /\ e \in Row
  BY AnalyzedIsAnalyze
<1>2. PICK c : /\ Escalate(family, e.n, k, c) \subseteq Fired(e)
               /\ \A q \in Range(family) : Documented(family, q, k, now) => c[q] >= q.threshold
  BY <1>1, TablesCount
<1>3. e.n \in Nat \ {0} /\ c[r] >= r.threshold
  BY <1>1, <1>2 DEF Row
<1> HIDE DEF k
<1>4. PICK q \in Range(family) : Alert(q.id, k) \in Escalate(family, e.n, k, c) \/ ~ShouldFire(q, k)
  BY <1>3, OneFires
<1>5. q \in Rules
  BY DEF Rules
<1>6. Quiet(q, k)
  BY <1>1, <1>2, <1>4, <1>5, QuietAfter
<1> QED
  BY <1>6 DEF k

LEMMA EscalatesStep ==
    ASSUME IInv, [Next]_vars, Analyzed, NEW family \in Families,
           Tested(family, Head(batch)), Head(batch).n >= Len(family),
           NEW r \in Range(family), Documented(family, r, Key(family, Head(batch)), now)
    PROVE  Quiet(r, Key(family, Head(batch)))
<1> DEFINE e == Head(batch)
           k == Key(family, e)
<1>1. Analyze /\ analyzerOpen /\ e \in Row
  BY AnalyzedIsAnalyze
<1>2. PICK c : /\ Escalate(family, e.n, k, c) \subseteq Fired(e)
               /\ \A q \in Range(family) : Documented(family, q, k, now) => c[q] >= q.threshold
  BY <1>1, TablesCount
<1>3. e.n \in Nat /\ c[r] >= r.threshold
  BY <1>1, <1>2 DEF Row
<1> HIDE DEF k
<1>4. Alert(r.id, k) \in Escalate(family, e.n, k, c) \/ ~ShouldFire(r, k)
  BY <1>3, AllFire
<1>5. r \in Rules
  BY DEF Rules
<1>6. Quiet(r, k)
  BY <1>1, <1>2, <1>4, <1>5, QuietAfter
<1> QED
  BY <1>6 DEF k

\* No burst is overlooked: an event that completes what a rule of its family
\* describes finds one of the family fired less than its cooldown ago, across
\* midnight, after restarts, whatever fired before.
THEOREM NoBurstOverlooked == Spec => BurstNoticed
<1>1. IInv /\ [Next]_vars =>
        [Analyzed => \A family \in Families :
           LET e == Head(batch) k == Key(family, e) IN
           Tested(family, e) /\ (\E r \in Range(family) : Documented(family, r, k, now))
               => \E r \in Range(family) : Quiet(r, k)]_vars
  BY NoticedStep
<1> QED
  BY <1>1, Inductive, PTL DEF Spec, BurstNoticed

\* Stopping at the first rule that fires hides no higher one for long: after as
\* many events as the family has rules, each rule whose condition holds has fired
\* less than its cooldown ago.
THEOREM EveryRuleReached == Spec => BurstEscalates
<1>1. IInv /\ [Next]_vars =>
        [Analyzed => \A family \in Families :
           LET e == Head(batch) k == Key(family, e) IN
           Tested(family, e) /\ e.n >= Len(family)
               => \A r \in Range(family) : Documented(family, r, k, now) => Quiet(r, k)]_vars
  BY EscalatesStep
<1> QED
  BY <1>1, Inductive, PTL DEF Spec, BurstEscalates
\* The tables do not count the burst's own second, and neither does BF-005.
LEMMA LoginCounts ==
    ASSUME IInv, NEW e \in Row, e.ts >= Begin - 1,
           e.type = "auth.login.success", ByIp(e),
           BF005.threshold <= Count(LAMBDA x : IsFailure(x, e.ip) /\ x.ts < e.ts
                                               /\ Within(x.ts, e.ts, BF005.window))
    PROVE  Alert(BF005.id, e.ip) \in Fired(e) \/ ~ShouldFire(BF005, e.ip)
<1>1. e.ts \in Nat /\ BF005 \in Rules /\ BF005.threshold \in Nat /\ BF005.window \in 1..600
  BY RuleNumbers, FamilyRules DEF Row
<1>2. Count(LAMBDA x : IsFailure(x, e.ip) /\ x.ts < e.ts
                       /\ Since(x.ts, e.ts, BF005.window)) >= BF005.threshold
  BY <1>1, MoreFailuresBefore DEF Count, Weights
<1> DEFINE m == Count(LAMBDA x : IsFailure(x, e.ip) /\ x.ts < e.ts
                                 /\ Since(x.ts, e.ts, BF005.window))
<1>3. m >= BF005.threshold /\ CheckBF005(e) = Once(BF005, e.ip, BF005.threshold <= m)
  BY <1>2 DEF CheckBF005, Count, Weights
<1>4. CheckBF005(e) \subseteq Fired(e)
  BY DEF Fired, When
<1> HIDE DEF m
<1>5. ShouldFire(BF005, e.ip) => Alert(BF005.id, e.ip) \in CheckBF005(e)
  BY <1>3 DEF Once
<1> QED
  BY <1>4, <1>5

LEMMA ImageIsFinite ==
    ASSUME NEW f, IsFiniteSet(DOMAIN f), f = [x \in DOMAIN f |-> f[x]]
    PROVE  IsFiniteSet({f[x] : x \in DOMAIN f})
<1> DEFINE T == {f[x] : x \in DOMAIN f}
<1>1. f \in Surjection(DOMAIN f, T)
  BY DEF Surjection
<1> QED
  BY <1>1, FS_Surjection

LEMMA RangeIsFinite == ASSUME IInv PROVE IsFiniteSet(Range(nas_events))
<1> DEFINE N == Len(nas_events)
<1>1. nas_events \in Seq(Row) /\ N \in Nat /\ DOMAIN nas_events = 1..N
  BY LenProperties DEF IInv, Rows
<1>2. IsFiniteSet(1..N)
  BY <1>1, FS_Interval
<1>3. IsFiniteSet({nas_events[i] : i \in 1..N})
  <2>1. nas_events = [i \in DOMAIN nas_events |-> nas_events[i]]
    BY <1>1, LenProperties
  <2> QED
    BY <1>1, <1>2, <2>1, ImageIsFinite
<1>4. Range(nas_events) = {nas_events[i] : i \in 1..N}
  BY <1>1 DEF Range
<1> QED
  BY <1>3, <1>4

LEMMA SprayCounts ==
    ASSUME IInv, NEW e \in Row, e.type = "auth.login.failure", ByIp(e),
           NEW failures, failures = {x \in Range(nas_events) : x.type = "auth.login.failure"},
           NEW u \in {x.user : x \in failures}, u # Nobody,
           Cardinality({x.ip : x \in {y \in failures :
               y.user = u /\ Within(y.ts, now, BF006.window)}}) >= BF006.threshold
    PROVE  Alert(BF006.id, u) \in Fired(e) \/ ~ShouldFire(BF006, u)
<1> DEFINE near == {y \in failures : y.user = u /\ Within(y.ts, now, BF006.window)}
           far == {y \in Range(nas_events) : y.type = "auth.login.failure" /\ y.user = u
                                             /\ Since(y.ts, now, BF006.window)}
           nearIps == {x.ip : x \in near}
           farIps == {x.ip : x \in far}
<1>1. /\ BF006 \in Rules /\ BF006.threshold \in Nat /\ BF006.window \in 1..600
      /\ now \in Nat /\ now >= Begin - 1
  BY RuleNumbers, FamilyRules DEF IInv, Rows, Begin
<1>2. \A x \in Range(nas_events) : x.ts \in Nat
  <2>1. \A x \in Range(nas_events) : x \in Row
    BY ElementOfSeq DEF IInv, Rows, Range
  <2> QED
    BY <2>1 DEF Row
<1>3. near \subseteq far
  BY <1>1, <1>2, WithinIsSince
<1>4. IsFiniteSet(farIps)
  <2>1. far \in SUBSET Range(nas_events)
    OBVIOUS
  <2>2. IsFiniteSet(far)
    BY <2>1, RangeIsFinite, FS_Subset
  <2> HIDE DEF far
  <2> DEFINE ip == [x \in far |-> x.ip]
  <2>3. DOMAIN ip = far /\ ip = [x \in DOMAIN ip |-> ip[x]] /\ farIps = {ip[x] : x \in far}
    OBVIOUS
  <2> HIDE DEF ip
  <2> QED
    BY <2>2, <2>3, ImageIsFinite
<1>5. nearIps \in SUBSET farIps
  BY <1>3
<1>6. Sprayed(u) <=> BF006.threshold <= Cardinality(farIps)
  BY DEF Sprayed
<1>7. Cardinality(nearIps) >= BF006.threshold
  OBVIOUS
<1>8. u \in {x.user : x \in Range(nas_events)}
  OBVIOUS
<1> HIDE DEF nearIps, farIps, near, far
<1>9. Sprayed(u)
  <2>1. /\ Cardinality(nearIps) <= Cardinality(farIps)
        /\ Cardinality(nearIps) \in Nat /\ Cardinality(farIps) \in Nat
    BY <1>4, <1>5, FS_Subset, FS_CardinalityType
  <2> QED
    BY <1>1, <1>6, <1>7, <2>1
<1>10. Once(BF006, u, Sprayed(u)) \subseteq CheckBF006(e)
  BY <1>8 DEF CheckBF006
<1>11. CheckBF006(e) \subseteq Fired(e)
  BY DEF Fired, When
<1>12. ShouldFire(BF006, u) => Alert(BF006.id, u) \in Once(BF006, u, Sprayed(u))
  BY <1>9 DEF Once
<1> QED
  BY <1>10, <1>11, <1>12

\* A login that succeeds after ten failures of its address in earlier seconds of
\* the last ten minutes has its alert, and so has a user name that three
\* addresses tried.
THEOREM LoginAttacksNoticed == Spec => LoginAttackNoticed
<1>1. ASSUME IInv, [Next]_vars, Analyzed,
             Head(batch).type = "auth.login.success", ByIp(Head(batch)),
             BF005.threshold <= Count(LAMBDA x : IsFailure(x, Head(batch).ip)
                                  /\ x.ts < Head(batch).ts
                                  /\ Within(x.ts, Head(batch).ts, BF005.window))
      PROVE  Quiet(BF005, Head(batch).ip)
  <2> DEFINE e == Head(batch)
  <2>1. Analyze /\ analyzerOpen /\ e \in Row
    BY <1>1, AnalyzedIsAnalyze
  <2>2. e.ts >= Begin - 1
    <3>1. batch \in Seq(Row) /\ batch # <<>> /\ \A i \in 1..Len(batch) : batch[i].ts >= Begin - 1
      BY <2>1, <1>1 DEF IInv, Rows, Analyze
    <3>2. e = batch[1] /\ 1 \in 1..Len(batch)
      BY <3>1, HeadTailProperties, EmptySeq
    <3> QED
      BY <3>1, <3>2
  <2>3. Alert(BF005.id, e.ip) \in Fired(e) \/ ~ShouldFire(BF005, e.ip)
    BY <1>1, <2>1, <2>2, LoginCounts DEF Count, Weights
  <2>4. BF005 \in Rules
    BY FamilyRules
  <2> QED
    BY <1>1, <2>1, <2>3, <2>4, QuietAfter
<1>2. ASSUME IInv, [Next]_vars, Analyzed,
             Head(batch).type = "auth.login.failure", ByIp(Head(batch)),
             NEW failures, failures = {x \in Range(nas_events) : x.type = "auth.login.failure"},
             NEW u \in {x.user : x \in failures}, u # Nobody,
             Cardinality({x.ip : x \in {y \in failures :
                 y.user = u /\ Within(y.ts, now, BF006.window)}}) >= BF006.threshold
      PROVE  Quiet(BF006, u)
  <2>1. Analyze /\ analyzerOpen /\ Head(batch) \in Row
    BY <1>2, AnalyzedIsAnalyze
  <2>2. Alert(BF006.id, u) \in Fired(Head(batch)) \/ ~ShouldFire(BF006, u)
    BY <1>2, <2>1, SprayCounts
  <2>3. BF006 \in Rules
    BY FamilyRules
  <2> QED
    BY <1>2, <2>1, <2>2, <2>3, QuietAfter
<1>3. IInv /\ [Next]_vars =>
        [Analyzed =>
           LET e == Head(batch)
               failures == {x \in Range(nas_events) : x.type = "auth.login.failure"}
           IN  /\ e.type = "auth.login.success" /\ ByIp(e)
                  /\ BF005.threshold <= Count(LAMBDA x : IsFailure(x, e.ip) /\ x.ts < e.ts
                                                         /\ Within(x.ts, e.ts, BF005.window))
                    => Quiet(BF005, e.ip)
               /\ e.type = "auth.login.failure" /\ ByIp(e)
                    => \A u \in {x.user : x \in failures} \ {Nobody} :
                         Cardinality({x.ip : x \in {y \in failures :
                             y.user = u /\ Within(y.ts, now, BF006.window)}}) >= BF006.threshold
                           => Quiet(BF006, u)]_vars
  BY <1>1, <1>2 DEF Count, Weights
<1> QED
  BY <1>3, Inductive, PTL DEF Spec, LoginAttackNoticed, Count, Weights
=============================================================================
