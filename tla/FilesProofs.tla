---------------------------- MODULE FilesProofs ----------------------------
(***************************************************************************)
(* The properties of Files for every set of threads, paths and faults.     *)
(*                                                                         *)
(* Paths are compared name by name: Extends(q, p) says that q is p or lies *)
(* below it, and the lemmas of the first part put Below, Parent, Ancestors *)
(* and Target in its terms.  What each call makes of a well-formed tree is *)
(* the second part.  IInv is the inductive invariant of TypeOK and         *)
(* EveryChangeTold: a path that changed is named by an event, or will be   *)
(* by the event of a request at work.  RInv adds what LogReplays needs:    *)
(* while requests come one at a time and no call fails, each stage of the  *)
(* only request says how far the tree is from the one the record describes.*)
(***************************************************************************)
EXTENDS Files, Induction, SequenceTheorems, FiniteSetTheorems

-----------------------------------------------------------------------------
(* Paths, name by name *)

\* q is p, or lies below it.
Extends(q, p) == Len(q) >= Len(p) /\ \A i \in 1..Len(p) : q[i] = p[i]

LEMMA PathType ==
    ASSUME NEW p \in Paths
    PROVE  /\ p \in Seq(STRING) /\ Len(p) \in Nat \ {0} /\ DOMAIN p = 1..Len(p)
           /\ \A i \in 1..Len(p) : p[i] \in STRING
<1>1. p \in Seq(STRING) /\ Len(p) > 0
  BY PathAssumption
<1>2. Len(p) \in Nat /\ DOMAIN p = 1..Len(p)
  BY <1>1, LenProperties
<1>3. \A i \in 1..Len(p) : p[i] \in STRING
  BY <1>1, ElementOfSeq
<1> QED
  BY <1>1, <1>2, <1>3

LEMMA SamePath ==
    ASSUME NEW p \in Paths, NEW q \in Paths, Len(p) = Len(q), \A i \in 1..Len(p) : p[i] = q[i]
    PROVE  p = q
  BY PathType, SeqEqual

LEMMA Prefix ==
    ASSUME NEW p \in Paths, NEW n \in 0..Len(p)
    PROVE  /\ SubSeq(p, 1, n) \in Seq(STRING) /\ Len(SubSeq(p, 1, n)) = n
           /\ \A i \in 1..n : SubSeq(p, 1, n)[i] = p[i]
<1>1. p \in Seq(STRING) /\ Len(p) \in Nat
  BY PathType
<1> QED
  BY <1>1, SubSeqProperties

LEMMA SubtreeIs ==
    ASSUME NEW p \in Paths, NEW q \in Paths
    PROVE  /\ q \in Below(p) <=> Len(q) > Len(p) /\ Extends(q, p)
           /\ q \in Subtree(p) <=> Extends(q, p)
<1>1. /\ Len(p) \in Nat /\ Len(q) \in Nat /\ p \in Seq(STRING)
  BY PathType
<1>2. ASSUME Len(q) > Len(p) PROVE SubSeq(q, 1, Len(p)) = p <=> Extends(q, p)
  <2>1. Len(p) \in 0..Len(q)
    BY <1>1, <1>2
  <2>2. /\ SubSeq(q, 1, Len(p)) \in Seq(STRING) /\ Len(SubSeq(q, 1, Len(p))) = Len(p)
        /\ \A i \in 1..Len(p) : SubSeq(q, 1, Len(p))[i] = q[i]
    BY <2>1, Prefix
  <2>3. SubSeq(q, 1, Len(p)) = p <=> \A i \in 1..Len(p) : q[i] = p[i]
    BY <1>1, <2>2, SeqEqual
  <2> QED
    BY <1>1, <1>2, <2>3 DEF Extends
<1>3. q \in Below(p) <=> Len(q) > Len(p) /\ Extends(q, p)
  BY <1>2 DEF Below
<1>4. q = p <=> Len(q) = Len(p) /\ Extends(q, p)
  BY <1>1, SamePath DEF Extends
<1>5. Extends(q, p) => Len(q) > Len(p) \/ Len(q) = Len(p)
  BY <1>1 DEF Extends
<1> QED
  BY <1>3, <1>4, <1>5 DEF Subtree

LEMMA ParentIs ==
    ASSUME NEW p \in Paths
    PROVE  /\ Len(Parent(p)) = Len(p) - 1
           /\ Len(Parent(p)) > 0 <=> Len(p) > 1
           /\ Len(p) > 1 => Parent(p) \in Paths
           /\ \A i \in 1..Len(p) - 1 : Parent(p)[i] = p[i]
<1>1. Len(p) \in Nat \ {0} /\ Len(p) - 1 \in 0..Len(p)
  BY PathType
<1>2. Len(Parent(p)) = Len(p) - 1 /\ \A i \in 1..Len(p) - 1 : Parent(p)[i] = p[i]
  BY <1>1, Prefix DEF Parent
<1>3. Len(p) > 1 => Parent(p) \in Paths
  BY PathAssumption DEF Parent
<1> QED
  BY <1>1, <1>2, <1>3

LEMMA AncestorIs ==
    ASSUME NEW p \in Paths, NEW q \in Paths
    PROVE  q \in Ancestors(p) <=> Extends(p, q)
<1>1. Len(p) \in Nat \ {0} /\ Len(q) \in Nat \ {0} /\ q \in Seq(STRING)
  BY PathType
<1>2. ASSUME q \in Ancestors(p) PROVE Extends(p, q)
  <2>1. PICK n \in 1..Len(p) : q = SubSeq(p, 1, n)
    BY <1>2 DEF Ancestors
  <2>2. n \in 0..Len(p)
    BY <1>1
  <2> QED
    BY <1>1, <2>1, <2>2, Prefix DEF Extends
<1>3. ASSUME Extends(p, q) PROVE q \in Ancestors(p)
  <2>1. Len(q) \in 1..Len(p) /\ Len(q) \in 0..Len(p)
    BY <1>1, <1>3 DEF Extends
  <2>2. SubSeq(p, 1, Len(q)) \in Seq(STRING) /\ Len(SubSeq(p, 1, Len(q))) = Len(q)
        /\ \A i \in 1..Len(q) : SubSeq(p, 1, Len(q))[i] = q[i]
    BY <1>3, <2>1, Prefix DEF Extends
  <2>3. SubSeq(p, 1, Len(q)) = q
    BY <1>1, <2>2, SeqEqual
  <2> QED
    BY <2>1, <2>3 DEF Ancestors
<1> QED
  BY <1>2, <1>3

\* Paths are closed under taking a parent, so all ancestors are paths.
LEMMA AncestorsArePaths == ASSUME NEW p \in Paths PROVE Ancestors(p) \subseteq Paths
<1> DEFINE N == Len(p)
           S == {m \in Nat : m < N => SubSeq(p, 1, N - m) \in Paths}
<1>1. p \in Seq(STRING) /\ N \in Nat \ {0}
  BY PathType
<1>2. 0 \in S
  <2>1. SubSeq(p, 1, N) = p
    BY <1>1, SubSeqFull
  <2>2. N - 0 = N
    BY <1>1
  <2> QED
    BY <2>1, <2>2
<1>3. ASSUME NEW m \in S PROVE m + 1 \in S
  <2> SUFFICES ASSUME m + 1 < N PROVE SubSeq(p, 1, N - (m + 1)) \in Paths
    OBVIOUS
  <2> DEFINE q == SubSeq(p, 1, N - m)
  <2>1. N - m \in 0..N /\ N - m > 1 /\ N - (m + 1) = N - m - 1 /\ N - (m + 1) \in 0..N
        /\ N - m - 1 \in 0..N - m
    BY <1>1
  <2>2. q \in Paths
    BY <1>1
  <2>3. Len(q) = N - m /\ \A i \in 1..N - m : q[i] = p[i]
    BY <2>1, Prefix
  <2>4. SubSeq(q, 1, N - m - 1) \in Paths
    BY <2>1, <2>2, <2>3, PathAssumption
  <2> HIDE DEF q
  <2>5. /\ SubSeq(q, 1, N - m - 1) \in Seq(STRING) /\ Len(SubSeq(q, 1, N - m - 1)) = N - m - 1
        /\ \A i \in 1..N - m - 1 : SubSeq(q, 1, N - m - 1)[i] = q[i]
    BY <2>1, <2>2, <2>3, Prefix
  <2>6. /\ SubSeq(p, 1, N - m - 1) \in Seq(STRING) /\ Len(SubSeq(p, 1, N - m - 1)) = N - m - 1
        /\ \A i \in 1..N - m - 1 : SubSeq(p, 1, N - m - 1)[i] = p[i]
    BY <2>1, Prefix
  <2>7. \A i \in 1..N - m - 1 : i \in 1..N - m
    BY <1>1
  <2>8. SubSeq(q, 1, N - m - 1) = SubSeq(p, 1, N - m - 1)
    BY <2>3, <2>5, <2>6, <2>7, SeqEqual
  <2> QED
    BY <2>1, <2>4, <2>8
<1> HIDE DEF S
<1>4. S \in SUBSET Nat
  BY DEF S
<1>5. \A m \in Nat : m \in S
  BY <1>2, <1>3, <1>4, SetInduction
<1>6. ASSUME NEW n \in 1..N PROVE SubSeq(p, 1, n) \in Paths
  <2>1. N - n \in Nat /\ N - n < N /\ N - (N - n) = n
    BY <1>1
  <2>2. N - n \in S
    BY <1>5, <2>1
  <2> QED
    BY <2>1, <2>2 DEF S
<1> QED
  BY <1>6 DEF Ancestors

LEMMA ExtendsOrder ==
    ASSUME NEW p \in Paths, NEW q \in Paths, NEW r \in Paths
    PROVE  /\ Extends(p, p)
           /\ Extends(r, q) /\ Extends(q, p) => Extends(r, p)
           /\ Extends(r, q) /\ Extends(r, p) /\ Len(p) <= Len(q) => Extends(q, p)
           /\ Extends(p, q) /\ Extends(q, p) => p = q
<1>1. Len(p) \in Nat \ {0} /\ Len(q) \in Nat \ {0} /\ Len(r) \in Nat \ {0}
  BY PathType
<1>2. Extends(p, p)
  BY <1>1 DEF Extends
<1>3. Extends(r, q) /\ Extends(q, p) => Extends(r, p)
  BY <1>1 DEF Extends
<1>4. Extends(r, q) /\ Extends(r, p) /\ Len(p) <= Len(q) => Extends(q, p)
  BY <1>1 DEF Extends
<1>5. Extends(p, q) /\ Extends(q, p) => p = q
  BY <1>1, SamePath DEF Extends
<1> QED
  BY <1>2, <1>3, <1>4, <1>5

LEMMA ParentOrder ==
    ASSUME NEW r \in Paths, Len(r) > 1, NEW q \in Paths
    PROVE  /\ Parent(r) \in Paths /\ Len(Parent(r)) = Len(r) - 1
           /\ Extends(r, Parent(r))
           /\ Extends(Parent(r), q) <=> Extends(r, q) /\ q # r
<1>1. Len(r) \in Nat \ {0} /\ Len(q) \in Nat \ {0}
  BY PathType
<1>2. /\ Parent(r) \in Paths /\ Len(Parent(r)) = Len(r) - 1
      /\ \A i \in 1..Len(r) - 1 : Parent(r)[i] = r[i]
  BY ParentIs
<1>3. Extends(r, Parent(r))
  BY <1>1, <1>2 DEF Extends
<1>4. Extends(Parent(r), q) => Extends(r, q) /\ q # r
  BY <1>1, <1>2 DEF Extends
<1>5. ASSUME Extends(r, q), q # r PROVE Extends(Parent(r), q)
  <2>1. Len(q) # Len(r)
    BY <1>1, <1>5, SamePath DEF Extends
  <2> QED
    BY <1>1, <1>2, <1>5, <2>1 DEF Extends
<1> QED
  BY <1>2, <1>3, <1>4, <1>5

-----------------------------------------------------------------------------
(* Trees *)

LEMMA KindsDiffer ==
    /\ Absent # Dir /\ \A n : IsFile(n) => n # Absent /\ n # Dir
    /\ \A n \in Nodes : n = Absent \/ n = Dir \/ IsFile(n)
    /\ \A d \in Nat : Content(d) \in Nodes /\ IsFile(Content(d))
    /\ Absent \in Nodes /\ Dir \in Nodes
  BY DEF IsFile, Absent, Dir, Nodes, Content

LEMMA InDirectories ==
    ASSUME NEW t
    PROVE  WellFormed(t) <=>
              \A q \in Paths : Len(q) > 1 /\ t[q] # Absent => t[Parent(q)] = Dir
  BY ParentIs DEF WellFormed, IsDirIn

\* What is above an entry is a directory.
LEMMA DirsAbove ==
    ASSUME NEW t, WellFormed(t), NEW r \in Paths, t[r] # Absent,
           NEW q \in Paths, Extends(r, q), q # r
    PROVE  t[q] = Dir
<1> DEFINE S == {m \in Nat : \A x \in Paths :
                    t[x] # Absent /\ Extends(x, q) /\ q # x /\ Len(x) <= Len(q) + m => t[q] = Dir}
<1>1. Len(q) \in Nat \ {0} /\ Len(r) \in Nat \ {0}
  BY PathType
<1>2. 0 \in S
  <2> SUFFICES ASSUME NEW x \in Paths, Extends(x, q), q # x, Len(x) <= Len(q) + 0 PROVE FALSE
    OBVIOUS
  <2>1. Len(x) \in Nat /\ Len(x) = Len(q)
    BY <1>1, PathType DEF Extends
  <2> QED
    BY <2>1, SamePath DEF Extends
<1>3. ASSUME NEW m \in S PROVE m + 1 \in S
  <2> SUFFICES ASSUME NEW x \in Paths, t[x] # Absent, Extends(x, q), q # x,
                      Len(x) <= Len(q) + (m + 1)
               PROVE  t[q] = Dir
    BY <1>1
  <2>1. Len(x) \in Nat /\ Len(x) # Len(q) /\ Len(x) >= Len(q)
    BY PathType, SamePath DEF Extends
  <2>2. Len(x) > 1
    BY <1>1, <2>1
  <2>3. t[Parent(x)] = Dir /\ Dir # Absent
    BY <2>2, InDirectories, KindsDiffer
  <2>4. Parent(x) \in Paths /\ Len(Parent(x)) = Len(x) - 1 /\ Extends(Parent(x), q)
    BY <2>2, ParentOrder
  <2>5. Len(Parent(x)) <= Len(q) + m
    BY <1>1, <2>1, <2>4
  <2>6. CASE Parent(x) = q
    BY <2>3, <2>6
  <2>7. CASE Parent(x) # q
    BY <2>3, <2>4, <2>5, <2>7
  <2> QED
    BY <2>6, <2>7
<1> HIDE DEF S
<1>4. S \in SUBSET Nat
  BY DEF S
<1>5. Len(r) - Len(q) \in Nat /\ Len(r) <= Len(q) + (Len(r) - Len(q))
  BY <1>1 DEF Extends
<1>6. Len(r) - Len(q) \in S
  BY <1>2, <1>3, <1>4, <1>5, SetInduction
<1> QED
  BY <1>5, <1>6 DEF S

\* An entry with nothing below it can go.
LEMMA LeafGoes ==
    ASSUME NEW t \in [Paths -> Nodes], WellFormed(t), NEW p \in Paths,
           \A q \in Below(p) : t[q] = Absent
    PROVE  Without(t, {p}) \in [Paths -> Nodes] /\ WellFormed(Without(t, {p}))
<1> DEFINE new == Without(t, {p})
<1>1. /\ new \in [Paths -> Nodes]
      /\ \A q \in Paths : new[q] = IF q = p THEN Absent ELSE t[q]
  BY KindsDiffer DEF Without
<1> HIDE DEF new
<1>2. ASSUME NEW q \in Paths, Len(q) > 1, new[q] # Absent PROVE new[Parent(q)] = Dir
  <2>1. q # p /\ t[q] # Absent
    BY <1>1, <1>2
  <2>2. Parent(q) \in Paths /\ Len(Parent(q)) = Len(q) - 1 /\ Extends(q, Parent(q))
    BY <1>2, ParentOrder
  <2>3. t[Parent(q)] = Dir
    BY <1>2, <2>1, InDirectories
  <2>4. Len(q) > Len(Parent(q))
    BY <2>2, PathType
  <2>5. q \in Below(Parent(q))
    BY <2>2, <2>4, SubtreeIs
  <2>6. Parent(q) # p
    BY <2>1, <2>5
  <2> QED
    BY <1>1, <2>2, <2>3, <2>6
<1> QED
  BY <1>1, <1>2, InDirectories DEF new

\* A directory, or a file where no directory is, can be put where its parent is.
LEMMA EntryComes ==
    ASSUME NEW t \in [Paths -> Nodes], WellFormed(t), NEW p \in Paths,
           IsDirIn(t, Parent(p)), NEW n \in Nodes, n = Dir \/ t[p] # Dir
    PROVE  [t EXCEPT ![p] = n] \in [Paths -> Nodes] /\ WellFormed([t EXCEPT ![p] = n])
<1> DEFINE new == [t EXCEPT ![p] = n]
<1>1. /\ new \in [Paths -> Nodes]
      /\ \A q \in Paths : new[q] = IF q = p THEN n ELSE t[q]
  OBVIOUS
<1> HIDE DEF new
<1>2. ASSUME NEW q \in Paths, Len(q) > 1, new[q] # Absent PROVE new[Parent(q)] = Dir
  <2>1. Parent(q) \in Paths
    BY <1>2, ParentIs
  <2>2. t[Parent(q)] = Dir
    <3>1. CASE q = p
      BY <1>2, <3>1, ParentIs DEF IsDirIn
    <3>2. CASE q # p
      BY <1>1, <1>2, <3>2, InDirectories
    <3> QED
      BY <3>1, <3>2
  <2> QED
    BY <1>1, <2>1, <2>2
<1> QED
  BY <1>1, <1>2, InDirectories DEF new

\* create_directories, and a file below what it made.
LEMMA FileWithParents ==
    ASSUME NEW t \in [Paths -> Nodes], WellFormed(t), NEW p \in Paths, NEW n \in Nodes,
           t[p] # Dir, \A r \in Ancestors(p) \ {p} : ~IsFile(t[r])
    PROVE  LET made == [r \in Paths |-> IF r \in Ancestors(p) \ {p} THEN Dir ELSE t[r]]
           IN  [made EXCEPT ![p] = n] \in [Paths -> Nodes] /\ WellFormed([made EXCEPT ![p] = n])
<1> DEFINE made == [r \in Paths |-> IF r \in Ancestors(p) \ {p} THEN Dir ELSE t[r]]
<1>1. /\ made \in [Paths -> Nodes] /\ made[p] = t[p]
      /\ \A r \in Paths : made[r] = IF Extends(p, r) /\ r # p THEN Dir ELSE t[r]
  BY KindsDiffer, AncestorIs
<1> HIDE DEF made
<1>2. ASSUME NEW q \in Paths, Len(q) > 1, made[q] # Absent PROVE made[Parent(q)] = Dir
  <2>1. Parent(q) \in Paths /\ Extends(q, Parent(q)) /\ Parent(q) # q
    BY <1>2, ParentOrder, PathType, ExtendsOrder
  <2>2. CASE Extends(p, q) /\ q # p
    <3>1. Extends(p, Parent(q)) /\ Parent(q) # p
      BY <2>1, <2>2, ExtendsOrder
    <3> QED
      BY <1>1, <2>1, <3>1
  <2>3. CASE ~(Extends(p, q) /\ q # p)
    <3>1. t[Parent(q)] = Dir
      BY <1>1, <1>2, <2>3, InDirectories
    <3> QED
      BY <1>1, <2>1, <3>1
  <2> QED
    BY <2>2, <2>3
<1>3. WellFormed(made)
  BY <1>2, InDirectories
<1>4. IsDirIn(made, Parent(p))
  <2>1. CASE Len(p) > 1
    <3>1. Parent(p) \in Paths /\ Extends(p, Parent(p)) /\ Parent(p) # p
      BY <2>1, ParentOrder, PathType
    <3> QED
      BY <1>1, <3>1 DEF IsDirIn
  <2>2. CASE ~(Len(p) > 1)
    BY <2>2, ParentIs DEF IsDirIn
  <2> QED
    BY <2>1, <2>2
<1>5. [made EXCEPT ![p] = n] \in [Paths -> Nodes] /\ WellFormed([made EXCEPT ![p] = n])
  BY <1>1, <1>3, <1>4, EntryComes
<1> QED
  BY <1>5 DEF made

-----------------------------------------------------------------------------
(* Renames *)

\* What lies below p, seen from q.
LEMMA TargetIs ==
    ASSUME NEW p \in Paths, NEW q \in Paths, NEW r \in Paths, Extends(r, p)
    PROVE  /\ Target(p, q, r) \in Seq(STRING)
           /\ Len(Target(p, q, r)) = Len(q) + (Len(r) - Len(p))
           /\ \A i \in 1..Len(q) : Target(p, q, r)[i] = q[i]
           /\ \A i \in Len(q) + 1..Len(q) + (Len(r) - Len(p)) :
                 Target(p, q, r)[i] = r[i - Len(q) + Len(p)]
<1> DEFINE tail == SubSeq(r, Len(p) + 1, Len(r))
<1>1. /\ p \in Seq(STRING) /\ q \in Seq(STRING) /\ r \in Seq(STRING)
      /\ Len(p) \in Nat \ {0} /\ Len(q) \in Nat \ {0} /\ Len(r) \in Nat \ {0}
      /\ Len(r) >= Len(p)
  BY PathType DEF Extends
<1>2. /\ tail \in Seq(STRING) /\ Len(tail) = Len(r) - Len(p)
      /\ \A i \in 1..Len(r) - Len(p) : tail[i] = r[Len(p) + i]
  <2>1. \A i \in Len(p) + 1..Len(r) : i \in 1..Len(r) /\ r[i] \in STRING
    BY <1>1, PathType
  <2>2. tail \in Seq(STRING)
    BY <1>1, <2>1, SubSeqProperties
  <2>3. Len(tail) = Len(r) - Len(p)
    <3>1. Len(tail) = IF Len(p) + 1 <= Len(r) THEN Len(r) - (Len(p) + 1) + 1 ELSE 0
      BY <1>1, <2>1, SubSeqProperties
    <3> QED
      BY <1>1, <3>1
  <2>4. \A i \in 1..Len(r) - Len(p) : tail[i] = r[Len(p) + i]
    <3>1. \A i \in 1..Len(r) - (Len(p) + 1) + 1 : tail[i] = r[Len(p) + 1 + i - 1]
      BY <1>1, <2>1, SubSeqProperties
    <3> QED
      BY <1>1, <3>1
  <2> QED
    BY <2>2, <2>3, <2>4
<1> HIDE DEF tail
<1>3. /\ q \o tail \in Seq(STRING) /\ Len(q \o tail) = Len(q) + Len(tail)
      /\ \A i \in 1..Len(q) + Len(tail) :
            (q \o tail)[i] = IF i <= Len(q) THEN q[i] ELSE tail[i - Len(q)]
  BY <1>1, <1>2, ConcatProperties
<1>4. \A i \in 1..Len(q) : (q \o tail)[i] = q[i]
  BY <1>1, <1>2, <1>3
<1>5. ASSUME NEW i \in Len(q) + 1..Len(q) + (Len(r) - Len(p))
      PROVE  (q \o tail)[i] = r[i - Len(q) + Len(p)]
  <2>1. /\ i \in 1..Len(q) + Len(tail) /\ ~(i <= Len(q)) /\ i - Len(q) \in 1..Len(r) - Len(p)
        /\ Len(p) + (i - Len(q)) = i - Len(q) + Len(p)
    BY <1>1, <1>2
  <2> QED
    BY <1>2, <1>3, <2>1
<1> QED
  BY <1>2, <1>3, <1>4, <1>5 DEF Target, tail

\* The parent of what is seen from q is its parent seen from q.
LEMMA TargetOfParent ==
    ASSUME NEW p \in Paths, NEW q \in Paths, NEW r \in Paths, Extends(r, p), r # p,
           Target(p, q, r) \in Paths
    PROVE  /\ Len(r) > 1 /\ Extends(Parent(r), p) /\ Parent(r) \in Paths
           /\ Len(Target(p, q, r)) > 1 /\ Target(p, q, Parent(r)) = Parent(Target(p, q, r))
<1> DEFINE x == Target(p, q, r)
           y == Target(p, q, Parent(r))
<1>1. Len(p) \in Nat \ {0} /\ Len(q) \in Nat \ {0} /\ Len(r) \in Nat \ {0} /\ Len(r) > Len(p)
  BY PathType, SamePath DEF Extends
<1>2. /\ Len(r) > 1 /\ Parent(r) \in Paths /\ Len(Parent(r)) = Len(r) - 1 /\ Extends(Parent(r), p)
      /\ \A i \in 1..Len(r) - 1 : Parent(r)[i] = r[i]
  BY <1>1, ParentOrder, ParentIs
<1>3. /\ Len(x) = Len(q) + (Len(r) - Len(p))
      /\ \A i \in 1..Len(q) : x[i] = q[i]
      /\ \A i \in Len(q) + 1..Len(q) + (Len(r) - Len(p)) : x[i] = r[i - Len(q) + Len(p)]
  BY TargetIs
<1>4. /\ y \in Seq(STRING) /\ Len(y) = Len(q) + (Len(r) - 1 - Len(p))
      /\ \A i \in 1..Len(q) : y[i] = q[i]
      /\ \A i \in Len(q) + 1..Len(q) + (Len(r) - 1 - Len(p)) : y[i] = Parent(r)[i - Len(q) + Len(p)]
  <2>1. /\ y \in Seq(STRING) /\ Len(y) = Len(q) + (Len(Parent(r)) - Len(p))
        /\ \A i \in 1..Len(q) : y[i] = q[i]
        /\ \A i \in Len(q) + 1..Len(q) + (Len(Parent(r)) - Len(p)) :
              y[i] = Parent(r)[i - Len(q) + Len(p)]
    BY <1>2, TargetIs
  <2> HIDE DEF y
  <2> QED
    BY <1>2, <2>1
<1> HIDE DEF x, y
<1>5. x \in Paths /\ Len(x) > 1 /\ Len(x) \in Nat
  BY <1>1, <1>3, PathType DEF x
<1>6. /\ Parent(x) \in Paths /\ Len(Parent(x)) = Len(x) - 1
      /\ \A i \in 1..Len(x) - 1 : Parent(x)[i] = x[i]
  BY <1>5, ParentIs
<1>7. Len(y) = Len(Parent(x))
  BY <1>1, <1>3, <1>4, <1>6
<1>8. ASSUME NEW i \in 1..Len(y) PROVE y[i] = Parent(x)[i]
  <2>1. i \in 1..Len(x) - 1
    BY <1>6, <1>7
  <2>2. CASE i <= Len(q)
    <3>1. i \in 1..Len(q)
      BY <1>1, <2>1, <2>2, <1>5
    <3> QED
      BY <1>3, <1>4, <1>6, <2>1, <3>1
  <2>3. CASE ~(i <= Len(q))
    <3>1. /\ i \in Len(q) + 1..Len(q) + (Len(r) - 1 - Len(p))
          /\ i \in Len(q) + 1..Len(q) + (Len(r) - Len(p))
          /\ i - Len(q) + Len(p) \in 1..Len(r) - 1
      BY <1>1, <1>3, <2>1, <2>3
    <3> QED
      BY <1>2, <1>3, <1>4, <1>6, <2>1, <3>1
  <2> QED
    BY <2>2, <2>3
<1>9. y = Parent(x)
  BY <1>4, <1>6, <1>7, <1>8, PathType, SeqEqual
<1> QED
  BY <1>2, <1>5, <1>9 DEF x, y

LEMMA MovedIs ==
    ASSUME NEW t \in [Paths -> Nodes], NEW p \in Paths, NEW q \in Paths, p # q
    PROVE  /\ Moved(t, p, q) \in [Paths -> Nodes]
           /\ \A r \in Paths : Extends(r, q) =>
                 Moved(t, p, q)[r] = IF Target(q, p, r) \in Paths THEN t[Target(q, p, r)] ELSE Absent
           /\ \A r \in Paths : ~Extends(r, q) /\ Extends(r, p) => Moved(t, p, q)[r] = Absent
           /\ \A r \in Paths : ~Extends(r, q) /\ ~Extends(r, p) => Moved(t, p, q)[r] = t[r]
<1> DEFINE source(r) == IF Target(q, p, r) \in Paths THEN t[Target(q, p, r)] ELSE Absent
           entry(r) == CASE r \in Subtree(q) -> source(r)
                         [] r \in Subtree(p) \ Subtree(q) -> Absent
                         [] OTHER            -> t[r]
<1>1. /\ Moved(t, p, q) = [r \in Paths |-> entry(r)]
      /\ \A r : source(r) = IF Target(q, p, r) \in Paths THEN t[Target(q, p, r)] ELSE Absent
      /\ \A r : source(r) \in Nodes
  BY KindsDiffer DEF Moved
<1> HIDE DEF source
<1>2. ASSUME NEW r \in Paths
      PROVE  /\ entry(r) \in Nodes
             /\ Extends(r, q) => entry(r) = source(r)
             /\ ~Extends(r, q) /\ Extends(r, p) => entry(r) = Absent
             /\ ~Extends(r, q) /\ ~Extends(r, p) => entry(r) = t[r]
  <2>1. (r \in Subtree(q) <=> Extends(r, q)) /\ (r \in Subtree(p) <=> Extends(r, p))
    BY SubtreeIs
  <2>2. CASE Extends(r, q)
    <3>1. entry(r) = source(r)
      BY <2>1, <2>2
    <3> QED
      BY <1>1, <2>2, <3>1
  <2>3. CASE ~Extends(r, q) /\ Extends(r, p)
    <3>1. entry(r) = Absent
      BY <2>1, <2>3
    <3> QED
      BY <2>3, <3>1, KindsDiffer
  <2>4. CASE ~Extends(r, q) /\ ~Extends(r, p)
    <3>1. entry(r) = t[r]
      BY <2>1, <2>4
    <3> QED
      BY <2>4, <3>1
  <2> QED
    BY <2>2, <2>3, <2>4
<1> HIDE DEF entry
<1> QED
  BY <1>1, <1>2

\* A rename the file system allows leaves a tree.
LEMMA MovedStays ==
    ASSUME NEW t \in [Paths -> Nodes], WellFormed(t), NEW p \in Paths, NEW q \in Paths,
           t[p] # Absent, IsDirIn(t, Parent(q)), q \notin Below(p)
    PROVE  Moved(t, p, q) \in [Paths -> Nodes] /\ WellFormed(Moved(t, p, q))
<1>1. CASE p = q
  BY <1>1 DEF Moved
<1>2. CASE p # q
  <2> DEFINE new == Moved(t, p, q)
  <2>1. /\ new \in [Paths -> Nodes]
        /\ \A r \in Paths : Extends(r, q) =>
              new[r] = IF Target(q, p, r) \in Paths THEN t[Target(q, p, r)] ELSE Absent
        /\ \A r \in Paths : ~Extends(r, q) /\ Extends(r, p) => new[r] = Absent
        /\ \A r \in Paths : ~Extends(r, q) /\ ~Extends(r, p) => new[r] = t[r]
    BY <1>2, MovedIs
  <2> HIDE DEF new
  <2>2. ~Extends(q, p)
    <3>1. Extends(q, p) => Len(q) > Len(p)
      BY <1>2, PathType, SamePath DEF Extends
    <3> QED
      BY <3>1, SubtreeIs
  <2>3. ASSUME NEW r \in Paths, Len(r) > 1, new[r] # Absent PROVE new[Parent(r)] = Dir
    <3>1. /\ Parent(r) \in Paths
          /\ \A x \in Paths : Extends(Parent(r), x) <=> Extends(r, x) /\ x # r
      BY <2>3, ParentOrder
    <3>2. CASE r = q
      <4>1. t[Parent(q)] = Dir
        BY <2>3, <3>2, ParentIs DEF IsDirIn
      <4>2. ~Extends(Parent(r), q) /\ ~Extends(Parent(r), p)
        BY <2>2, <3>1, <3>2
      <4> QED
        BY <2>1, <3>1, <3>2, <4>1, <4>2
    <3>3. CASE Extends(r, q) /\ r # q
      <4>1. Target(q, p, r) \in Paths /\ t[Target(q, p, r)] # Absent
        BY <2>1, <2>3, <3>3
      <4>2. /\ Extends(Parent(r), q) /\ Len(Target(q, p, r)) > 1
            /\ Target(q, p, Parent(r)) = Parent(Target(q, p, r))
        BY <3>3, <4>1, TargetOfParent
      <4>3. Parent(Target(q, p, r)) \in Paths /\ t[Parent(Target(q, p, r))] = Dir
        BY <4>1, <4>2, ParentIs, InDirectories
      <4> QED
        BY <2>1, <3>1, <4>2, <4>3
    <3>4. CASE ~Extends(r, q)
      <4>1. ~Extends(r, p) /\ new[r] = t[r]
        BY <2>1, <2>3, <3>4
      <4>2. t[Parent(r)] = Dir
        BY <2>3, <4>1, InDirectories
      <4>3. ~Extends(Parent(r), q) /\ ~Extends(Parent(r), p)
        BY <3>1, <3>4, <4>1
      <4> QED
        BY <2>1, <3>1, <4>2, <4>3
    <3> QED
      BY <3>2, <3>3, <3>4
  <2> QED
    BY <2>1, <2>3, InDirectories DEF new
<1> QED
  BY <1>1, <1>2

-----------------------------------------------------------------------------
(* The invariant *)

Entry == [type : {"none", "file.delete", "dir.delete", "dir.create", "file.rename",
                  "file.move", "file.upload", "file.download"},
          path : Paths, to : Paths, result : {"none", "success", "failure"}, data : Nat]

Typed ==
    /\ tree \in [Paths -> Nodes] /\ WellFormed(tree) /\ first \in [Paths -> Nodes]
    /\ request \in [Threads -> Request \cup {NoRequest}]
    /\ log \in Seq(Entry) /\ requests \in Nat
    /\ overlapped \in BOOLEAN /\ lapsed \in BOOLEAN

\* What a request has still to do lies where it works.
Shape(r) ==
    /\ r.at \in {"removing", "remove_all"} =>
          r.op = "remove" /\ r.event \in {"file.delete", "dir.delete"}
    /\ r.at = "remove_all" => r.todo \subseteq Subtree(r.path)
    /\ r.at = "create_directories" => r.op = "mkdir" /\ r.todo \subseteq Ancestors(r.path)
    /\ r.at \notin {"remove_all", "create_directories"} => r.todo = {}
Shaped == \A t \in Threads : request[t] # NoRequest => Shape(request[t])

\* A request is recorded once at most.
Busy == {t \in Threads : request[t] # NoRequest}
Budget == IsFiniteSet(Busy) /\ Len(log) + Cardinality(Busy) <= requests

\* The paths that the event of a request at work will name, at the least.
WillName(r, p) ==
    \/ r.at \in {"removing", "remove_all"} /\ p \in Subtree(r.path)
    \/ r.at = "create_directories" /\ p \in Ancestors(r.path)
    \/ r.at = "emit" /\ Named(Event(r.event, r.path, r.to, r.result, r.data), p)
Told ==
    \A p \in Paths : tree[p] # first[p] =>
        \/ \E i \in 1..Len(log) : Named(log[i], p)
        \/ \E t \in Threads : request[t] # NoRequest /\ WillName(request[t], p)

IInv == Typed /\ Shaped /\ Budget /\ Told

LEMMA InitIInv == Init => IInv
<1> SUFFICES ASSUME Init PROVE IInv
  OBVIOUS
<1>1. /\ tree \in Trees /\ first = tree /\ log = <<>>
      /\ request = [t \in Threads |-> NoRequest]
      /\ requests = 0 /\ overlapped = FALSE /\ lapsed = FALSE
  BY DEF Init
<1>2. Typed
  BY <1>1, FilesAssumption, EmptySeq DEF Typed
<1>3. \A t \in Threads : request[t] = NoRequest
  BY <1>1
<1>4. Shaped /\ Told
  BY <1>1, <1>3 DEF Shaped, Told
<1>5. Busy = {}
  BY <1>3 DEF Busy
<1>6. Budget
  BY <1>1, <1>5, FS_EmptySet, EmptySeq DEF Budget
<1> QED
  BY <1>2, <1>4, <1>6 DEF IInv

\* A handler goes on: what it changed its event will name.
LEMMA ContinueKeeps ==
    ASSUME IInv, NEW t \in Threads, request[t] # NoRequest, NEW n \in Request, Shape(n),
           Continue(t, n), tree' \in [Paths -> Nodes], WellFormed(tree'), lapsed' \in BOOLEAN,
           \A p \in Paths : tree'[p] # tree[p] => WillName(n, p),
           \A p \in Paths : WillName(request[t], p) => WillName(n, p)
    PROVE  IInv'
<1>1. /\ request' = [request EXCEPT ![t] = n]
      /\ log' = log /\ first' = first /\ requests' = requests /\ overlapped' = overlapped
  BY DEF Continue
<1>2. n # NoRequest
  BY FilesAssumption
<1>3. /\ request \in [Threads -> Request \cup {NoRequest}]
      /\ \A u \in Threads : request'[u] = IF u = t THEN n ELSE request[u]
  BY <1>1 DEF IInv, Typed
<1>4. Typed'
  <2>1. request' \in [Threads -> Request \cup {NoRequest}]
    BY <1>1, <1>3
  <2>2. WellFormed(tree)'
    BY DEF WellFormed, IsDirIn
  <2> QED
    BY <1>1, <2>1, <2>2 DEF IInv, Typed
<1>5. Shaped'
  BY <1>2, <1>3 DEF IInv, Shaped
<1>6. Busy' = Busy
  BY <1>2, <1>3 DEF Busy
<1>7. Budget'
  BY <1>1, <1>6 DEF IInv, Budget
<1>8. Told'
  <2> SUFFICES ASSUME NEW p \in Paths, tree'[p] # first[p]
               PROVE  \/ \E i \in 1..Len(log) : Named(log[i], p)
                      \/ \E u \in Threads : request'[u] # NoRequest /\ WillName(request'[u], p)
    BY <1>1 DEF Told
  <2>1. CASE tree'[p] # tree[p]
    BY <1>2, <1>3, <2>1
  <2>2. CASE tree'[p] = tree[p]
    <3>1. \/ \E i \in 1..Len(log) : Named(log[i], p)
          \/ \E u \in Threads : request[u] # NoRequest /\ WillName(request[u], p)
      BY <2>2 DEF IInv, Told
    <3>2. ASSUME NEW u \in Threads, request[u] # NoRequest, WillName(request[u], p)
          PROVE  request'[u] # NoRequest /\ WillName(request'[u], p)
      BY <1>2, <1>3, <3>2
    <3> QED
      BY <3>1, <3>2
  <2> QED
    BY <2>1, <2>2
<1> QED
  BY <1>4, <1>5, <1>7, <1>8 DEF IInv

\* A handler has answered: what it was to name is named, or it had nothing to name.
LEMMA AnswerKeeps ==
    ASSUME IInv, NEW t \in Threads, request[t] # NoRequest, Answer(t),
           tree' = tree, first' = first, requests' = requests,
           overlapped' = overlapped, lapsed' = lapsed,
           \/ log' = log /\ \A p \in Paths : ~WillName(request[t], p)
           \/ \E e \in Entry : /\ log' = log \o <<e>>
                                /\ \A p \in Paths : WillName(request[t], p) => Named(e, p)
    PROVE  IInv'
<1>1. request' = [request EXCEPT ![t] = NoRequest]
  BY DEF Answer
<1>2. /\ request \in [Threads -> Request \cup {NoRequest}]
      /\ \A u \in Threads : request'[u] = IF u = t THEN NoRequest ELSE request[u]
  BY <1>1 DEF IInv, Typed
<1>3. log \in Seq(Entry) /\ Len(log) \in Nat
  BY LenProperties DEF IInv, Typed
<1>4. /\ log' \in Seq(Entry) /\ Len(log') <= Len(log) + 1 /\ Len(log') \in Nat
      /\ \A i \in 1..Len(log) : i \in 1..Len(log') /\ log'[i] = log[i]
      /\ \/ \A p \in Paths : ~WillName(request[t], p)
         \/ \A p \in Paths : WillName(request[t], p) => \E i \in 1..Len(log') : Named(log'[i], p)
  <2>1. CASE log' = log /\ \A p \in Paths : ~WillName(request[t], p)
    BY <1>3, <2>1
  <2>2. CASE \E e \in Entry : /\ log' = log \o <<e>>
                              /\ \A p \in Paths : WillName(request[t], p) => Named(e, p)
    <3>1. PICK e \in Entry : /\ log' = log \o <<e>>
                             /\ \A p \in Paths : WillName(request[t], p) => Named(e, p)
      BY <2>2
    <3>2. log' = Append(log, e)
      BY <1>3, <3>1, AppendIsConcat
    <3>3. /\ log' \in Seq(Entry) /\ Len(log') = Len(log) + 1
          /\ \A i \in 1..Len(log) : log'[i] = log[i]
          /\ log'[Len(log) + 1] = e
      BY <1>3, <3>2, AppendProperties
    <3>4. /\ Len(log) + 1 \in 1..Len(log') /\ Len(log') \in Nat
          /\ \A i \in 1..Len(log) : i \in 1..Len(log')
      BY <1>3, <3>3
    <3> QED
      BY <1>3, <3>1, <3>3, <3>4
  <2> QED
    BY <2>1, <2>2
<1>5. Typed'
  <2>1. request' \in [Threads -> Request \cup {NoRequest}]
    BY <1>1, <1>2
  <2>2. WellFormed(tree)'
    BY DEF IInv, Typed, WellFormed, IsDirIn
  <2> QED
    BY <1>4, <2>1, <2>2 DEF IInv, Typed
<1>6. Shaped'
  BY <1>2 DEF IInv, Shaped
<1>7. Budget'
  <2>1. Busy' = Busy \ {t} /\ t \in Busy /\ IsFiniteSet(Busy)
    BY <1>2 DEF IInv, Budget, Busy
  <2>2. IsFiniteSet(Busy \ {t}) /\ Cardinality(Busy \ {t}) = Cardinality(Busy) - 1
    BY <2>1, FS_RemoveElement
  <2>3. Cardinality(Busy) \in Nat
    BY <2>1, FS_CardinalityType
  <2>4. Len(log) + Cardinality(Busy) <= requests /\ requests \in Nat
    BY DEF IInv, Budget, Typed
  <2>5. Len(log') + (Cardinality(Busy) - 1) <= requests
    BY <1>3, <1>4, <2>3, <2>4
  <2> QED
    BY <2>1, <2>2, <2>5 DEF Budget
<1>8. Told'
  <2> SUFFICES ASSUME NEW p \in Paths, tree[p] # first[p]
               PROVE  \/ \E i \in 1..Len(log') : Named(log'[i], p)
                      \/ \E u \in Threads : request'[u] # NoRequest /\ WillName(request'[u], p)
    BY DEF Told
  <2>1. \/ \E i \in 1..Len(log) : Named(log[i], p)
        \/ \E u \in Threads : request[u] # NoRequest /\ WillName(request[u], p)
    BY DEF IInv, Told
  <2>2. CASE \E i \in 1..Len(log) : Named(log[i], p)
    BY <1>4, <2>2
  <2>3. ASSUME NEW u \in Threads, request[u] # NoRequest, WillName(request[u], p)
        PROVE  \/ \E i \in 1..Len(log') : Named(log'[i], p)
               \/ \E v \in Threads : request'[v] # NoRequest /\ WillName(request'[v], p)
    BY <1>2, <1>4, <2>3
  <2> QED
    BY <2>1, <2>2, <2>3
<1> QED
  BY <1>5, <1>6, <1>7, <1>8 DEF IInv

-----------------------------------------------------------------------------
(* The steps *)

At(r, at, todo, event, result) ==
    [op |-> r.op, path |-> r.path, to |-> r.to, at |-> at, todo |-> todo,
     event |-> event, result |-> result, data |-> r.data]

\* What the steps make of a request, as the handlers write it.
ToSave(r) == [r EXCEPT !.at = "save"]
ToRemove(r, event) == [r EXCEPT !.at = "removing", !.event = event]
ToWork(r, at, todo) == [r EXCEPT !.at = at, !.todo = todo]
StillTo(r, todo) == [r EXCEPT !.todo = todo]
ToEmit(r, type, result) ==
    [r EXCEPT !.at = "emit", !.event = type, !.result = result, !.todo = {}]

LEMMA RecordSteps ==
    ASSUME NEW r \in Request, NEW at, NEW todo, NEW event, NEW result
    PROVE  /\ ToSave(r) = At(r, "save", r.todo, r.event, r.result)
           /\ ToRemove(r, event) = At(r, "removing", r.todo, event, r.result)
           /\ ToWork(r, at, todo) = At(r, at, todo, r.event, r.result)
           /\ StillTo(r, todo) = At(r, r.at, todo, r.event, r.result)
           /\ ToEmit(r, event, result) = At(r, "emit", {}, event, result)
<1>1. PICK o, p, q, a, d, e, s, n :
        r = [op |-> o, path |-> p, to |-> q, at |-> a, todo |-> d,
             event |-> e, result |-> s, data |-> n]
  BY DEF Request
<1>2. \A x : [r EXCEPT !.at = x] = At(r, x, r.todo, r.event, r.result)
  BY <1>1 DEF At
<1>3. StillTo(r, todo) = At(r, r.at, todo, r.event, r.result)
  BY <1>1 DEF At, StillTo
<1>4. ToWork(r, at, todo) = At(r, at, todo, r.event, r.result)
  <2>1. [r EXCEPT !.at = at, !.todo = todo] = [[r EXCEPT !.at = at] EXCEPT !.todo = todo]
    BY <1>1
  <2>2. [At(r, at, r.todo, r.event, r.result) EXCEPT !.todo = todo]
          = At(r, at, todo, r.event, r.result)
    BY DEF At
  <2> QED
    BY <1>2, <2>1, <2>2 DEF ToWork
<1>5. ToRemove(r, event) = At(r, "removing", r.todo, event, r.result)
  <2>1. [r EXCEPT !.at = "removing", !.event = event]
          = [[r EXCEPT !.at = "removing"] EXCEPT !.event = event]
    BY <1>1
  <2>2. [At(r, "removing", r.todo, r.event, r.result) EXCEPT !.event = event]
          = At(r, "removing", r.todo, event, r.result)
    BY DEF At
  <2>3. [r EXCEPT !.at = "removing"] = At(r, "removing", r.todo, r.event, r.result)
    BY <1>2
  <2> QED
    BY <2>1, <2>2, <2>3 DEF ToRemove
<1>6. ToEmit(r, event, result) = At(r, "emit", {}, event, result)
  <2>1. ToEmit(r, event, result)
          = [[[[r EXCEPT !.at = "emit"] EXCEPT !.event = event] EXCEPT !.result = result]
               EXCEPT !.todo = {}]
    BY <1>1 DEF ToEmit
  <2>2. [r EXCEPT !.at = "emit"] = At(r, "emit", r.todo, r.event, r.result)
    BY <1>2
  <2>3. [At(r, "emit", r.todo, r.event, r.result) EXCEPT !.event = event]
          = At(r, "emit", r.todo, event, r.result)
    BY DEF At
  <2>4. [At(r, "emit", r.todo, event, r.result) EXCEPT !.result = result]
          = At(r, "emit", r.todo, event, result)
    BY DEF At
  <2>5. [At(r, "emit", r.todo, event, result) EXCEPT !.todo = {}]
          = At(r, "emit", {}, event, result)
    BY DEF At
  <2> QED
    BY <2>1, <2>2, <2>3, <2>4, <2>5
<1>7. ToSave(r) = At(r, "save", r.todo, r.event, r.result)
  BY <1>2 DEF ToSave
<1> QED
  BY <1>3, <1>4, <1>5, <1>6, <1>7

LEMMA AtFields ==
    ASSUME NEW r, NEW at, NEW todo, NEW event, NEW result
    PROVE  LET n == At(r, at, todo, event, result) IN
           /\ n.op = r.op /\ n.path = r.path /\ n.to = r.to /\ n.data = r.data
           /\ n.at = at /\ n.todo = todo /\ n.event = event /\ n.result = result
  BY DEF At

LEMMA FieldTypes ==
    ASSUME NEW r \in Request
    PROVE  /\ r.at \in {"start", "removing", "remove_all", "create_directories", "save", "emit"}
           /\ r.todo \in SUBSET Paths
           /\ r.event \in {"none", "file.delete", "dir.delete", "dir.create", "file.rename",
                           "file.move", "file.upload", "file.download"}
           /\ r.result \in {"none", "success", "failure"}
  BY DEF Request

LEMMA AtType ==
    ASSUME NEW r \in Request,
           NEW at \in {"start", "removing", "remove_all", "create_directories", "save", "emit"},
           NEW todo \in SUBSET Paths,
           NEW event \in {"none", "file.delete", "dir.delete", "dir.create", "file.rename",
                          "file.move", "file.upload", "file.download"},
           NEW result \in {"none", "success", "failure"}
    PROVE  At(r, at, todo, event, result) \in Request
  BY DEF At, Request

Recordable == {"file.delete", "dir.delete", "dir.create", "file.rename", "file.move",
               "file.upload", "file.download"}

\* The event of a request that is done names what its last steps touched.
LEMMA EmitsKeeps ==
    ASSUME IInv, NEW t \in Threads, request[t] # NoRequest,
           NEW type \in Recordable, NEW result \in {"success", "failure"}, Emits(t, type, result),
           tree' \in [Paths -> Nodes], WellFormed(tree'), lapsed' \in BOOLEAN,
           \A p \in Paths : tree'[p] # tree[p] \/ WillName(request[t], p) =>
               Named(Event(type, request[t].path, request[t].to, result, request[t].data), p)
    PROVE  IInv'
<1> DEFINE r == request[t]
           n == At(r, "emit", {}, type, result)
<1>1. r \in Request
  BY DEF IInv, Typed
<1>2. n \in Request
  <2>1. type \in {"none", "file.delete", "dir.delete", "dir.create", "file.rename",
                  "file.move", "file.upload", "file.download"}
    BY DEF Recordable
  <2> HIDE DEF r
  <2> QED
    BY <1>1, <2>1, AtType
<1>3. Continue(t, n)
  <2>1. Continue(t, ToEmit(r, type, result))
    BY DEF Emits, ToEmit
  <2> HIDE DEF r
  <2>2. ToEmit(r, type, result) = n
    BY <1>1, RecordSteps
  <2> QED
    BY <2>1, <2>2
<1>4. /\ n.op = r.op /\ n.path = r.path /\ n.to = r.to /\ n.data = r.data
      /\ n.at = "emit" /\ n.todo = {} /\ n.event = type /\ n.result = result
  BY AtFields
<1> HIDE DEF n
<1>5. Shape(n)
  BY <1>4 DEF Shape
<1>6. \A p \in Paths : WillName(n, p) <=> Named(Event(type, r.path, r.to, result, r.data), p)
  BY <1>4 DEF WillName
<1> QED
  BY <1>2, <1>3, <1>5, <1>6, ContinueKeeps

LEMMA NamedIs ==
    ASSUME NEW type, NEW path, NEW to, NEW result, NEW data, NEW p
    PROVE  LET e == Event(type, path, to, result, data) IN
           /\ type \in {"file.delete", "dir.delete"} => (Named(e, p) <=> p \in Subtree(path))
           /\ type \in {"dir.create", "file.upload"} => (Named(e, p) <=> p \in Ancestors(path))
           /\ type \in {"file.rename", "file.move"} =>
                 (Named(e, p) <=> p \in Subtree(path) \cup Subtree(to))
<1> DEFINE e == Event(type, path, to, result, data)
<1>1. e.type = type /\ e.path = path /\ e.to = to
  BY DEF Event
<1> HIDE DEF e
<1>2. type \in {"file.delete", "dir.delete"} => (Named(e, p) <=> p \in Subtree(path))
  BY <1>1 DEF Named
<1>3. type \in {"dir.create", "file.upload"} => (Named(e, p) <=> p \in Ancestors(path))
  BY <1>1 DEF Named
<1>4. type \in {"file.rename", "file.move"} =>
        (Named(e, p) <=> p \in Subtree(path) \cup Subtree(to))
  BY <1>1 DEF Named
<1> QED
  BY <1>2, <1>3, <1>4 DEF e

LEMMA FaultIsBoolean == \A call : MayFail(call) \subseteq BOOLEAN
  BY DEF MayFail

LEMMA ReceiveKeeps == ASSUME IInv, NEW t \in Threads, Receive(t) PROVE IInv'
<1>1. /\ request[t] = NoRequest /\ requests' = requests + 1
      /\ tree' = tree /\ log' = log /\ first' = first /\ lapsed' = lapsed
      /\ overlapped' = (overlapped \/ \E u \in Threads : request[u] # NoRequest)
  BY DEF Receive
<1>2. PICK op \in {"remove", "mkdir", "rename", "upload", "get"}, p \in Paths, q \in Paths :
        request' = [request EXCEPT ![t] = Handling(op, p, q)]
  BY DEF Receive
<1> DEFINE n == Handling(op, p, q)
<1>3. requests \in Nat /\ requests + 1 \in Nat
  BY DEF IInv, Typed
<1>4. n \in Request /\ n.at = "start" /\ n.todo = {}
  BY <1>3 DEF Handling, Request
<1> HIDE DEF n
<1>5. n # NoRequest
  BY <1>4, FilesAssumption
<1>6. /\ request \in [Threads -> Request \cup {NoRequest}]
      /\ request' = [request EXCEPT ![t] = n]
  BY <1>2 DEF IInv, Typed, n
<1>7. \A u \in Threads : request'[u] = IF u = t THEN n ELSE request[u]
  BY <1>6
<1>8. Typed'
  <2>1. request' \in [Threads -> Request \cup {NoRequest}]
    BY <1>4, <1>6
  <2>2. WellFormed(tree)'
    BY <1>1 DEF IInv, Typed, WellFormed, IsDirIn
  <2>3. overlapped' \in BOOLEAN
    BY <1>1 DEF IInv, Typed
  <2> QED
    BY <1>1, <1>3, <2>1, <2>2, <2>3 DEF IInv, Typed
<1>9. Shaped'
  <2>1. Shape(n)
    BY <1>4 DEF Shape
  <2> QED
    BY <1>7, <2>1 DEF IInv, Shaped
<1>10. Budget'
  <2>1. Busy' = Busy \cup {t} /\ t \notin Busy /\ IsFiniteSet(Busy)
    BY <1>1, <1>5, <1>7 DEF IInv, Budget, Busy
  <2>2. IsFiniteSet(Busy \cup {t}) /\ Cardinality(Busy \cup {t}) = Cardinality(Busy) + 1
    BY <2>1, FS_AddElement
  <2>3. Cardinality(Busy) \in Nat /\ Len(log) \in Nat /\ Len(log) + Cardinality(Busy) <= requests
    BY <2>1, FS_CardinalityType, LenProperties DEF IInv, Budget, Typed
  <2>4. Len(log) + (Cardinality(Busy) + 1) <= requests + 1
    BY <1>3, <2>3
  <2> QED
    BY <1>1, <2>1, <2>2, <2>4 DEF Budget
<1>11. Told'
  <2> SUFFICES ASSUME NEW x \in Paths, tree[x] # first[x]
               PROVE  \/ \E i \in 1..Len(log) : Named(log[i], x)
                      \/ \E u \in Threads : request'[u] # NoRequest /\ WillName(request'[u], x)
    BY <1>1 DEF Told
  <2>1. \/ \E i \in 1..Len(log) : Named(log[i], x)
        \/ \E u \in Threads : request[u] # NoRequest /\ WillName(request[u], x)
    BY DEF IInv, Told
  <2>2. ASSUME NEW u \in Threads, request[u] # NoRequest, WillName(request[u], x)
        PROVE  request'[u] # NoRequest /\ WillName(request'[u], x)
    BY <1>1, <1>7, <2>2
  <2> QED
    BY <2>1, <2>2
<1> QED
  BY <1>8, <1>9, <1>10, <1>11 DEF IInv

LEMMA Stays ==
    ASSUME IInv, tree' = tree, lapsed' = lapsed
    PROVE  tree' \in [Paths -> Nodes] /\ WellFormed(tree') /\ lapsed' \in BOOLEAN
  BY DEF IInv, Typed

LEMMA AtWork ==
    ASSUME IInv, NEW t \in Threads, request[t] # NoRequest
    PROVE  /\ request[t] \in Request /\ Shape(request[t]) /\ request[t] # NoRequest
           /\ request[t].path \in Paths /\ request[t].to \in Paths
           /\ request[t].todo \in SUBSET Paths /\ request[t].data \in Nat
<1>1. request[t] \in Request /\ Shape(request[t])
  BY DEF IInv, Typed, Shaped
<1> QED
  BY <1>1 DEF Request

LEMMA RefuseKeeps == ASSUME IInv, NEW t \in Threads, Refuse(t) PROVE IInv'
<1> DEFINE type == Types[request[t].op]
<1>1. request[t] # NoRequest /\ request[t].at = "start" /\ tree' = tree /\ lapsed' = lapsed
      /\ Emits(t, type, "failure")
  BY DEF Refuse
<1>2. type \in Recordable
  <2>1. request[t].op \in {"remove", "mkdir", "rename", "upload", "get"}
    BY <1>1, AtWork DEF Request
  <2> QED
    BY <2>1 DEF Types, Recordable
<1> HIDE DEF type
<1>3. \A p \in Paths : ~WillName(request[t], p)
  BY <1>1 DEF WillName
<1> QED
  BY <1>1, <1>2, <1>3, Stays, EmitsKeeps

LEMMA TestKindKeeps == ASSUME IInv, NEW t \in Threads, TestKind(t) PROVE IInv'
<1> DEFINE r == request[t]
           event == IF tree[r.path] = Dir THEN "dir.delete" ELSE "file.delete"
           n == At(r, "removing", r.todo, event, r.result)
<1>1. r # NoRequest /\ r.op = "remove" /\ r.at = "start" /\ tree' = tree /\ lapsed' = lapsed
      /\ Continue(t, ToRemove(r, event))
  BY DEF TestKind, Is, ToRemove
<1>2. r \in Request /\ Shape(r)
  BY <1>1, AtWork
<1>3. event \in {"file.delete", "dir.delete"}
  OBVIOUS
<1>4. \A p \in Paths : ~WillName(r, p)
  BY <1>1 DEF WillName
<1> HIDE DEF r, event
<1>5. ToRemove(r, event) = n
  BY <1>2, RecordSteps
<1>6. n \in Request
  BY <1>2, <1>3, FieldTypes, AtType
<1>7. n.at = "removing" /\ n.op = "remove" /\ n.event = event /\ n.todo = {}
  BY <1>1, <1>2, AtFields DEF Shape
<1> HIDE DEF n
<1>8. Shape(n)
  BY <1>3, <1>7 DEF Shape
<1> QED
  BY <1>1, <1>4, <1>5, <1>6, <1>8, Stays, ContinueKeeps DEF r

LEMMA FindEntriesKeeps == ASSUME IInv, NEW t \in Threads, FindEntries(t) PROVE IInv'
<1> DEFINE r == request[t]
           todo == {p \in Subtree(r.path) : tree[p] # Absent}
           n == At(r, "remove_all", todo, r.event, r.result)
<1>1. r # NoRequest /\ r.op = "remove" /\ r.at = "removing" /\ tree' = tree /\ lapsed' = lapsed
      /\ Continue(t, ToWork(r, "remove_all", todo))
  BY DEF FindEntries, Is, ToWork
<1>2. r \in Request /\ Shape(r) /\ r.path \in Paths
  BY <1>1, AtWork
<1>3. todo \subseteq Subtree(r.path) /\ todo \in SUBSET Paths
  BY <1>2 DEF Subtree, Below
<1> HIDE DEF r, todo
<1>4. ToWork(r, "remove_all", todo) = n
  BY <1>2, RecordSteps
<1>5. n \in Request
  BY <1>2, <1>3, FieldTypes, AtType
<1>6. n.at = "remove_all" /\ n.op = "remove" /\ n.event = r.event /\ n.todo = todo /\ n.path = r.path
  BY <1>1, AtFields
<1> HIDE DEF n
<1>7. Shape(n)
  BY <1>1, <1>2, <1>3, <1>6 DEF Shape
<1>8. \A p \in Paths : WillName(r, p) => WillName(n, p)
  BY <1>1, <1>6 DEF WillName
<1> QED
  BY <1>1, <1>4, <1>5, <1>7, <1>8, Stays, ContinueKeeps DEF r

LEMMA RemoveEntryKeeps == ASSUME IInv, NEW t \in Threads, RemoveEntry(t) PROVE IInv'
<1> DEFINE r == request[t]
<1>1. r # NoRequest /\ r.op = "remove" /\ r.at = "remove_all"
  BY DEF RemoveEntry, Is
<1>2. /\ r \in Request /\ Shape(r) /\ r.path \in Paths /\ r.todo \subseteq Subtree(r.path)
      /\ r.event \in {"file.delete", "dir.delete"} /\ r.event \in Recordable
      /\ r.todo \in SUBSET Paths
  BY <1>1, AtWork DEF Shape, Recordable
<1>3. \A x \in Paths : WillName(r, x) => x \in Subtree(r.path)
  BY <1>1 DEF WillName
<1>4. ASSUME NEW result \in {"success", "failure"}, Emits(t, r.event, result), tree' = tree,
             lapsed' \in BOOLEAN
      PROVE  IInv'
  <2>1. \A x \in Paths : WillName(r, x) => Named(Event(r.event, r.path, r.to, result, r.data), x)
    BY <1>2, <1>3, NamedIs
  <2>2. tree' \in [Paths -> Nodes] /\ WellFormed(tree')
    BY <1>4 DEF IInv, Typed
  <2> QED
    BY <1>1, <1>2, <1>4, <2>1, <2>2, EmitsKeeps
<1>5. CASE r.todo = {}
  <2>1. Emits(t, r.event, "success") /\ tree' = tree /\ lapsed' = lapsed
    BY <1>5 DEF RemoveEntry
  <2> QED
    BY <1>4, <2>1, Stays
<1>6. CASE r.todo # {}
  <2>1. PICK p \in r.todo, fails \in MayFail("remove") :
          /\ lapsed' = (lapsed \/ fails)
          /\ IF fails \/ \E q \in Below(p) : tree[q] # Absent
             THEN Emits(t, r.event, "failure") /\ UNCHANGED tree
             ELSE /\ tree' = Without(tree, {p})
                  /\ Continue(t, StillTo(r, r.todo \ {p}))
    BY <1>6 DEF RemoveEntry, StillTo
  <2>2. lapsed' \in BOOLEAN
    BY <2>1, FaultIsBoolean DEF IInv, Typed
  <2>3. CASE fails \/ \E q \in Below(p) : tree[q] # Absent
    BY <1>4, <2>1, <2>2, <2>3
  <2>4. CASE ~(fails \/ \E q \in Below(p) : tree[q] # Absent)
    <3> DEFINE n == At(r, r.at, r.todo \ {p}, r.event, r.result)
    <3>1. tree' = Without(tree, {p}) /\ Continue(t, StillTo(r, r.todo \ {p}))
      BY <2>1, <2>4
    <3>2. p \in Paths /\ p \in Subtree(r.path)
      BY <1>2
    <3>3. tree' \in [Paths -> Nodes] /\ WellFormed(tree')
      BY <2>4, <3>1, <3>2, LeafGoes DEF IInv, Typed
    <3>4. \A x \in Paths : tree'[x] # tree[x] => x = p
      BY <3>1 DEF Without, IInv, Typed
    <3> HIDE DEF r
    <3>5. StillTo(r, r.todo \ {p}) = n
      BY <1>2, RecordSteps
    <3>6. n \in Request
      <4>1. r.todo \ {p} \in SUBSET Paths
        BY <1>2
      <4> QED
        BY <1>2, <4>1, FieldTypes, AtType
    <3>7. n.at = "remove_all" /\ n.op = "remove" /\ n.event = r.event /\ n.todo = r.todo \ {p}
          /\ n.path = r.path
      BY <1>1, AtFields
    <3> HIDE DEF n
    <3>8. Shape(n)
      BY <1>2, <3>7 DEF Shape
    <3>9. \A x \in Paths : x \in Subtree(r.path) => WillName(n, x)
      BY <3>7 DEF WillName
    <3>10. Continue(t, n)
      BY <3>1, <3>5
    <3>11. /\ \A x \in Paths : tree'[x] # tree[x] => WillName(n, x)
           /\ \A x \in Paths : WillName(r, x) => WillName(n, x)
      BY <1>3, <3>2, <3>4, <3>9
    <3> QED
      BY <1>1, <2>2, <3>3, <3>6, <3>8, <3>10, <3>11, ContinueKeeps DEF r
  <2> QED
    BY <2>3, <2>4
<1> QED
  BY <1>5, <1>6

LEMMA FindMissingKeeps == ASSUME IInv, NEW t \in Threads, FindMissing(t) PROVE IInv'
<1> DEFINE r == request[t]
           todo == {p \in Ancestors(r.path) : tree[p] # Dir}
           n == At(r, "create_directories", todo, r.event, r.result)
<1>1. r # NoRequest /\ r.op = "mkdir" /\ r.at = "start" /\ tree' = tree /\ lapsed' = lapsed
      /\ Continue(t, ToWork(r, "create_directories", todo))
  BY DEF FindMissing, Is, ToWork
<1>2. r \in Request /\ Shape(r) /\ r.path \in Paths
  BY <1>1, AtWork
<1>3. todo \subseteq Ancestors(r.path) /\ todo \in SUBSET Paths
  BY <1>2, AncestorsArePaths
<1>4. \A p \in Paths : ~WillName(r, p)
  BY <1>1 DEF WillName
<1> HIDE DEF r, todo
<1>5. ToWork(r, "create_directories", todo) = n
  BY <1>2, RecordSteps
<1>6. n \in Request
  BY <1>2, <1>3, FieldTypes, AtType
<1>7. n.at = "create_directories" /\ n.op = "mkdir" /\ n.todo = todo /\ n.path = r.path
  BY <1>1, AtFields
<1> HIDE DEF n
<1>8. Shape(n)
  BY <1>3, <1>7 DEF Shape
<1> QED
  BY <1>1, <1>4, <1>5, <1>6, <1>8, Stays, ContinueKeeps DEF r

LEMMA MakeDirectoryKeeps == ASSUME IInv, NEW t \in Threads, MakeDirectory(t) PROVE IInv'
<1> DEFINE r == request[t]
<1>1. r # NoRequest /\ r.op = "mkdir" /\ r.at = "create_directories"
  BY DEF MakeDirectory, Is
<1>2. /\ r \in Request /\ Shape(r) /\ r.path \in Paths /\ r.todo \subseteq Ancestors(r.path)
      /\ r.todo \in SUBSET Paths
  BY <1>1, AtWork DEF Shape
<1>3. \A x \in Paths : WillName(r, x) => x \in Ancestors(r.path)
  BY <1>1 DEF WillName
<1>4. ASSUME NEW result \in {"success", "failure"}, Emits(t, "dir.create", result),
             tree' = tree, lapsed' \in BOOLEAN
      PROVE  IInv'
  <2>1. \A x \in Paths :
          WillName(r, x) => Named(Event("dir.create", r.path, r.to, result, r.data), x)
    BY <1>2, <1>3, NamedIs
  <2>2. tree' \in [Paths -> Nodes] /\ WellFormed(tree') /\ "dir.create" \in Recordable
    BY <1>4 DEF IInv, Typed, Recordable
  <2> QED
    BY <1>1, <1>2, <1>4, <2>1, <2>2, EmitsKeeps
<1>5. CASE r.todo = {}
  <2>1. Emits(t, "dir.create", "success") /\ tree' = tree /\ lapsed' = lapsed
    BY <1>5 DEF MakeDirectory
  <2> QED
    BY <1>4, <2>1, Stays
<1>6. CASE r.todo # {}
  <2>1. PICK p \in r.todo, fails \in MayFail("mkdir") :
          /\ lapsed' = (lapsed \/ fails)
          /\ IF fails \/ IsFile(tree[p]) \/ ~IsDirIn(tree, Parent(p))
             THEN Emits(t, "dir.create", "failure") /\ UNCHANGED tree
             ELSE /\ tree' = [tree EXCEPT ![p] = Dir]
                  /\ Continue(t, StillTo(r, r.todo \ {p}))
    BY <1>6 DEF MakeDirectory, StillTo
  <2>2. lapsed' \in BOOLEAN
    BY <2>1, FaultIsBoolean DEF IInv, Typed
  <2>3. CASE fails \/ IsFile(tree[p]) \/ ~IsDirIn(tree, Parent(p))
    BY <1>4, <2>1, <2>2, <2>3
  <2>4. CASE ~(fails \/ IsFile(tree[p]) \/ ~IsDirIn(tree, Parent(p)))
    <3> DEFINE n == At(r, r.at, r.todo \ {p}, r.event, r.result)
    <3>1. tree' = [tree EXCEPT ![p] = Dir] /\ Continue(t, StillTo(r, r.todo \ {p}))
      BY <2>1, <2>4
    <3>2. p \in Paths /\ p \in Ancestors(r.path)
      BY <1>2
    <3>3. tree' \in [Paths -> Nodes] /\ WellFormed(tree')
      BY <2>4, <3>1, <3>2, EntryComes, KindsDiffer DEF IInv, Typed
    <3>4. \A x \in Paths : tree'[x] # tree[x] => x = p
      BY <3>1 DEF IInv, Typed
    <3> HIDE DEF r
    <3>5. StillTo(r, r.todo \ {p}) = n
      BY <1>2, RecordSteps
    <3>6. n \in Request
      <4>1. r.todo \ {p} \in SUBSET Paths
        BY <1>2
      <4> QED
        BY <1>2, <4>1, FieldTypes, AtType
    <3>7. n.at = "create_directories" /\ n.op = "mkdir" /\ n.todo = r.todo \ {p}
          /\ n.path = r.path
      BY <1>1, AtFields
    <3> HIDE DEF n
    <3>8. Shape(n)
      BY <1>2, <3>7 DEF Shape
    <3>9. \A x \in Paths : x \in Ancestors(r.path) => WillName(n, x)
      BY <3>7 DEF WillName
    <3>10. Continue(t, n)
      BY <3>1, <3>5
    <3>11. /\ \A x \in Paths : tree'[x] # tree[x] => WillName(n, x)
           /\ \A x \in Paths : WillName(r, x) => WillName(n, x)
      BY <1>3, <3>2, <3>4, <3>9
    <3> QED
      BY <1>1, <2>2, <3>3, <3>6, <3>8, <3>10, <3>11, ContinueKeeps DEF r
  <2> QED
    BY <2>3, <2>4
<1> QED
  BY <1>5, <1>6

LEMMA DoRenameKeeps == ASSUME IInv, NEW t \in Threads, DoRename(t) PROVE IInv'
<1> DEFINE r == request[t]
           type == RenameType(r.path, r.to)
<1>1. r # NoRequest /\ r.op = "rename" /\ r.at = "start" /\ lapsed' = lapsed
  BY DEF DoRename, Is
<1>2. r \in Request /\ r.path \in Paths /\ r.to \in Paths
  BY <1>1, AtWork
<1>3. type \in {"file.rename", "file.move"} /\ type \in Recordable
  BY DEF RenameType, Recordable
<1>4. \A x \in Paths : ~WillName(r, x)
  BY <1>1 DEF WillName
<1>5. CASE CanRename(r.path, r.to)
  <2>1. tree' = Moved(tree, r.path, r.to) /\ Emits(t, type, "success")
    BY <1>5 DEF DoRename
  <2>2. tree \in [Paths -> Nodes] /\ WellFormed(tree) /\ lapsed' \in BOOLEAN
    BY <1>1 DEF IInv, Typed
  <2>3. tree[r.path] # Absent /\ IsDirIn(tree, Parent(r.to)) /\ r.to \notin Below(r.path)
    BY <1>5 DEF CanRename
  <2> HIDE DEF type
  <2>4. tree' \in [Paths -> Nodes] /\ WellFormed(tree')
    BY <1>2, <2>1, <2>2, <2>3, MovedStays
  <2>5. ASSUME NEW x \in Paths, tree'[x] # tree[x]
        PROVE  x \in Subtree(r.path) \cup Subtree(r.to)
    <3>1. CASE r.path = r.to
      BY <2>1, <2>5, <3>1 DEF Moved
    <3>2. CASE r.path # r.to
      <4>1. Extends(x, r.to) \/ Extends(x, r.path)
        BY <1>2, <2>1, <2>2, <2>5, <3>2, MovedIs
      <4> QED
        BY <1>2, <4>1, SubtreeIs
    <3> QED
      BY <3>1, <3>2
  <2>6. \A x \in Paths : tree'[x] # tree[x] =>
          Named(Event(type, r.path, r.to, "success", r.data), x)
    BY <1>3, <2>5, NamedIs
  <2> QED
    BY <1>1, <1>3, <1>4, <2>1, <2>2, <2>4, <2>6, EmitsKeeps
<1>6. CASE ~CanRename(r.path, r.to)
  <2>1. tree' = tree /\ Emits(t, type, "failure")
    BY <1>6 DEF DoRename
  <2> HIDE DEF type
  <2> QED
    BY <1>1, <1>3, <1>4, <2>1, Stays, EmitsKeeps
<1> QED
  BY <1>5, <1>6

LEMMA TestDestinationKeeps == ASSUME IInv, NEW t \in Threads, TestDestination(t) PROVE IInv'
<1> DEFINE r == request[t]
           n == At(r, "save", r.todo, r.event, r.result)
<1>1. r # NoRequest /\ r.op = "upload" /\ r.at = "start" /\ tree' = tree /\ lapsed' = lapsed
      /\ \/ Continue(t, ToSave(r))
         \/ /\ Answer(t) /\ log' = log /\ first' = first /\ requests' = requests
            /\ overlapped' = overlapped
  BY DEF TestDestination, Is, ToSave
<1>2. r \in Request /\ Shape(r)
  BY <1>1, AtWork
<1>3. \A p \in Paths : ~WillName(r, p)
  BY <1>1 DEF WillName
<1>4. CASE Continue(t, ToSave(r))
  <2> HIDE DEF r
  <2>1. ToSave(r) = n
    BY <1>2, RecordSteps
  <2>2. n \in Request
    BY <1>2, FieldTypes, AtType
  <2>3. n.at = "save" /\ n.todo = {}
    BY <1>1, <1>2, AtFields DEF Shape
  <2> HIDE DEF n
  <2>4. Shape(n)
    BY <2>3 DEF Shape
  <2> QED
    BY <1>1, <1>3, <1>4, <2>1, <2>2, <2>4, Stays, ContinueKeeps DEF r
<1>5. CASE ~Continue(t, ToSave(r))
  BY <1>1, <1>3, <1>5, AnswerKeeps
<1> QED
  BY <1>4, <1>5

LEMMA SaveKeeps == ASSUME IInv, NEW t \in Threads, Save(t) PROVE IInv'
<1> DEFINE r == request[t]
           p == r.path
           above == Ancestors(p) \ {p}
           made == [x \in Paths |-> IF x \in above THEN Dir ELSE tree[x]]
<1>1. r # NoRequest /\ r.op = "upload" /\ r.at = "save" /\ Emits(t, "file.upload", "success")
  BY DEF Save, Is
<1>2. r \in Request /\ p \in Paths /\ r.data \in Nat
  BY <1>1, AtWork
<1>3. \A x \in Paths : ~WillName(r, x)
  BY <1>1 DEF WillName
<1>4. tree \in [Paths -> Nodes] /\ WellFormed(tree)
  BY DEF IInv, Typed
<1>5. p \in Ancestors(p)
  BY <1>2, AncestorIs, ExtendsOrder
<1>6. \/ /\ tree[p] # Dir /\ \A x \in above : ~IsFile(tree[x])
         /\ tree' = [made EXCEPT ![p] = Content(r.data)] /\ lapsed' = lapsed
      \/ tree' = tree /\ lapsed' \in {lapsed, TRUE}
      \/ /\ tree[p] # Dir /\ IsDirIn(tree, Parent(p))
         /\ tree' = [tree EXCEPT ![p] = Content(0)] /\ lapsed' = TRUE
  BY DEF Save
<1>7. /\ tree' \in [Paths -> Nodes] /\ WellFormed(tree') /\ lapsed' \in BOOLEAN
      /\ \A x \in Paths : tree'[x] # tree[x] => x \in Ancestors(p)
  <2>1. CASE /\ tree[p] # Dir /\ \A x \in above : ~IsFile(tree[x])
             /\ tree' = [made EXCEPT ![p] = Content(r.data)] /\ lapsed' = lapsed
    <3>1. Content(r.data) \in Nodes
      BY <1>2, KindsDiffer
    <3>2. tree' \in [Paths -> Nodes] /\ WellFormed(tree')
      BY <1>2, <1>4, <2>1, <3>1, FileWithParents
    <3>3. \A x \in Paths : tree'[x] # tree[x] => x = p \/ x \in above
      BY <2>1
    <3> QED
      BY <1>5, <2>1, <3>2, <3>3 DEF IInv, Typed
  <2>2. CASE tree' = tree /\ lapsed' \in {lapsed, TRUE}
    BY <1>4, <2>2 DEF IInv, Typed
  <2>3. CASE /\ tree[p] # Dir /\ IsDirIn(tree, Parent(p))
             /\ tree' = [tree EXCEPT ![p] = Content(0)] /\ lapsed' = TRUE
    <3>1. Content(0) \in Nodes
      BY KindsDiffer
    <3>2. tree' \in [Paths -> Nodes] /\ WellFormed(tree')
      BY <1>2, <1>4, <2>3, <3>1, EntryComes
    <3> QED
      BY <1>4, <1>5, <2>3, <3>2
  <2> QED
    BY <1>6, <2>1, <2>2, <2>3
<1>8. \A x \in Paths : tree'[x] # tree[x] =>
        Named(Event("file.upload", p, r.to, "success", r.data), x)
  BY <1>7, NamedIs
<1>9. "file.upload" \in Recordable
  BY DEF Recordable
<1> QED
  BY <1>1, <1>3, <1>7, <1>8, <1>9, EmitsKeeps

LEMMA TestFileKeeps == ASSUME IInv, NEW t \in Threads, TestFile(t) PROVE IInv'
<1> DEFINE r == request[t]
<1>1. r # NoRequest /\ r.at = "start" /\ tree' = tree /\ lapsed' = lapsed
      /\ \/ Emits(t, "file.download", "success")
         \/ /\ Answer(t) /\ log' = log /\ first' = first /\ requests' = requests
            /\ overlapped' = overlapped
  BY DEF TestFile, Is
<1>2. \A p \in Paths : ~WillName(r, p)
  BY <1>1 DEF WillName
<1>3. "file.download" \in Recordable
  BY DEF Recordable
<1>4. CASE Emits(t, "file.download", "success")
  BY <1>1, <1>2, <1>3, <1>4, Stays, EmitsKeeps
<1>5. CASE ~Emits(t, "file.download", "success")
  BY <1>1, <1>2, <1>5, AnswerKeeps
<1> QED
  BY <1>4, <1>5

LEMMA EmitKeeps == ASSUME IInv, NEW t \in Threads, Emit(t) PROVE IInv'
<1> DEFINE r == request[t]
           e == Event(r.event, r.path, r.to, r.result, r.data)
<1>1. r # NoRequest /\ r.at = "emit" /\ log' = log \o <<e>> /\ Answer(t)
      /\ tree' = tree /\ first' = first /\ requests' = requests /\ overlapped' = overlapped
      /\ lapsed' = lapsed
  BY DEF Emit, Recorded
<1>2. r \in Request
  BY <1>1, AtWork
<1>3. e \in Entry
  BY <1>2 DEF Request, Event, Entry
<1>4. \A x \in Paths : WillName(r, x) => Named(e, x)
  BY <1>1 DEF WillName
<1> HIDE DEF e
<1> QED
  BY <1>1, <1>3, <1>4, AnswerKeeps

LEMMA NextKeeps == ASSUME IInv, [Next]_vars PROVE IInv'
<1>1. CASE UNCHANGED vars
  <2>1. WellFormed(tree)' /\ Busy' = Busy
    BY <1>1 DEF vars, IInv, Typed, WellFormed, IsDirIn, Busy
  <2>2. Typed' /\ Shaped' /\ Budget' /\ Told'
    BY <1>1, <2>1 DEF vars, IInv, Typed, Shaped, Budget, Told
  <2> QED
    BY <2>2 DEF IInv
<1>2. CASE Next
  <2>1. PICK t \in Threads : Receive(t) \/ Handle(t)
    BY <1>2 DEF Next
  <2> QED
    BY <2>1, ReceiveKeeps, RefuseKeeps, TestKindKeeps, FindEntriesKeeps, RemoveEntryKeeps,
       FindMissingKeeps, MakeDirectoryKeeps, DoRenameKeeps, TestDestinationKeeps, SaveKeeps,
       TestFileKeeps, EmitKeeps DEF Handle
<1> QED
  BY <1>1, <1>2

\* The invariant above: what is left to do lies where the request works, no request
\* is recorded twice, and what changed is recorded or about to be.
THEOREM Inductive == Spec => []IInv
<1>1. Init => IInv
  BY InitIInv
<1>2. IInv /\ [Next]_vars => IInv'
  BY NextKeeps
<1> QED
  BY <1>1, <1>2, PTL DEF Spec

\* TypeOK for every set of threads and paths: whatever the handlers do between one
\* another's calls, nothing is left below a path that is not a directory.
THEOREM TypeCorrect == Spec => []TypeOK
<1>1. IInv => TypeOK
  <2> SUFFICES ASSUME IInv PROVE TypeOK
    OBVIOUS
  <2>1. \A t \in Threads : request[t] # NoRequest =>
          request[t].todo \subseteq Subtree(request[t].path) \cup Ancestors(request[t].path)
    BY AtWork DEF Shape
  <2>2. Len(log) <= requests
    BY LenProperties, FS_CardinalityType DEF IInv, Typed, Budget
  <2> QED
    BY <2>1, <2>2 DEF IInv, Typed, TypeOK
<1> QED
  BY <1>1, Inductive, PTL

\* EveryChangeTold: when the handlers rest, an event names every path that is not as
\* it was at first, whatever overlapped or failed.
THEOREM ChangesTold == Spec => []EveryChangeTold
<1>1. IInv => EveryChangeTold
  <2> SUFFICES ASSUME IInv, Idle, NEW p \in Paths, tree[p] # first[p]
               PROVE  \E e \in Range(log) : Named(e, p)
    BY DEF EveryChangeTold
  <2>1. PICK i \in 1..Len(log) : Named(log[i], p)
    BY DEF IInv, Told, Idle
  <2>2. DOMAIN log = 1..Len(log)
    BY LenProperties DEF IInv, Typed
  <2> QED
    BY <2>1, <2>2 DEF Range
<1> QED
  BY <1>1, Inductive, PTL

-----------------------------------------------------------------------------
(* The record, replayed *)

\* What Replayed computes, of any record from any tree.
ReplayOf(l, d) ==
    LET upTo[i \in 0..Len(l)] == IF i = 0 THEN d ELSE After(upTo[i - 1], l[i])
    IN  upTo[Len(l)]

\* Requests one at a time.
Alone == overlapped \/ \A t, u \in Threads :
            request[t] # NoRequest /\ request[u] # NoRequest => t = u

\* Where the only request stands: base is the tree that the record describes, now
\* the tree there is.
Stands(r, base, now) ==
    /\ r.at \in {"start", "removing", "save"} => now = base
    /\ r.at = "save" => r.op = "upload" /\ IsDirIn(now, Parent(r.path))
    /\ r.at = "remove_all" =>
          now = [x \in Paths |-> IF x \in Subtree(r.path) \ r.todo THEN Absent ELSE base[x]]
    /\ r.at = "create_directories" =>
          /\ WellFormed(base)
          /\ now = [x \in Paths |-> IF x \in Ancestors(r.path) \ r.todo THEN Dir ELSE base[x]]
    /\ r.at = "emit" => now = After(base, Event(r.event, r.path, r.to, r.result, r.data))
Follows ==
    ~overlapped /\ ~lapsed =>
        /\ Idle => Replayed = tree
        /\ \A t \in Threads : request[t] # NoRequest => Stands(request[t], Replayed, tree)

RInv == IInv /\ Alone /\ Follows

LEMMA AfterIs ==
    ASSUME NEW base, NEW type, NEW path, NEW to, NEW result, NEW data
    PROVE  LET e == Event(type, path, to, result, data) IN
           /\ result = "failure" => After(base, e) = base
           /\ result = "success" =>
                 /\ type \in {"file.delete", "dir.delete"} =>
                       After(base, e) = Without(base, Subtree(path))
                 /\ type = "dir.create" => After(base, e) =
                       [r \in Paths |-> IF r \in Ancestors(path) THEN Dir ELSE base[r]]
                 /\ type \in {"file.rename", "file.move"} => After(base, e) = Moved(base, path, to)
                 /\ type = "file.upload" => After(base, e) =
                       IF base[path] = Dir THEN base ELSE [base EXCEPT ![path] = Content(data)]
                 /\ type = "file.download" => After(base, e) = base
<1> DEFINE e == Event(type, path, to, result, data)
<1>1. /\ e.type = type /\ e.path = path /\ e.to = to /\ e.result = result /\ e.data = data
  BY DEF Event
<1> HIDE DEF e
<1>2. result = "failure" => After(base, e) = base
  BY <1>1 DEF After
<1>3. result = "success" /\ type \in {"file.delete", "dir.delete"} =>
        After(base, e) = Without(base, Subtree(path))
  BY <1>1 DEF After
<1>4. result = "success" /\ type = "dir.create" => After(base, e) =
        [r \in Paths |-> IF r \in Ancestors(path) THEN Dir ELSE base[r]]
  BY <1>1 DEF After
<1>5. result = "success" /\ type \in {"file.rename", "file.move"} =>
        After(base, e) = Moved(base, path, to)
  BY <1>1 DEF After
<1>6. result = "success" /\ type = "file.upload" =>
        After(base, e) = IF base[path] = Dir THEN base ELSE [base EXCEPT ![path] = Content(data)]
  BY <1>1 DEF After
<1>7. result = "success" /\ type = "file.download" => After(base, e) = base
  BY <1>1 DEF After
<1> QED
  BY <1>2, <1>3, <1>4, <1>5, <1>6, <1>7 DEF e

LEMMA MovedType ==
    ASSUME NEW t \in [Paths -> Nodes], NEW p \in Paths, NEW q \in Paths
    PROVE  Moved(t, p, q) \in [Paths -> Nodes]
<1>1. CASE p = q
  BY <1>1 DEF Moved
<1>2. CASE p # q
  BY <1>2, MovedIs
<1> QED
  BY <1>1, <1>2

LEMMA AfterType ==
    ASSUME NEW base \in [Paths -> Nodes], NEW e \in Entry
    PROVE  After(base, e) \in [Paths -> Nodes]
<1>1. e.path \in Paths /\ e.to \in Paths /\ e.data \in Nat
      /\ e.type \in {"none", "file.delete", "dir.delete", "dir.create", "file.rename",
                     "file.move", "file.upload", "file.download"}
  BY DEF Entry
<1>2. CASE e.result = "failure"
  BY <1>2 DEF After
<1>3. CASE e.result # "failure"
  <2>1. CASE e.type \in {"file.delete", "dir.delete"}
    <3>1. After(base, e) = Without(base, Subtree(e.path))
      BY <1>3, <2>1 DEF After
    <3> QED
      BY <3>1, KindsDiffer DEF Without
  <2>2. CASE e.type = "dir.create"
    <3>1. After(base, e) = [r \in Paths |-> IF r \in Ancestors(e.path) THEN Dir ELSE base[r]]
      BY <1>3, <2>2 DEF After
    <3> QED
      BY <3>1, KindsDiffer
  <2>3. CASE e.type \in {"file.rename", "file.move"}
    <3>1. After(base, e) = Moved(base, e.path, e.to)
      BY <1>3, <2>3 DEF After
    <3> QED
      BY <1>1, <3>1, MovedType
  <2>4. CASE e.type = "file.upload"
    <3>1. After(base, e) =
            IF base[e.path] = Dir THEN base ELSE [base EXCEPT ![e.path] = Content(e.data)]
      BY <1>3, <2>4 DEF After
    <3>2. Content(e.data) \in Nodes
      BY <1>1, KindsDiffer
    <3> QED
      BY <3>1, <3>2
  <2>5. CASE e.type \in {"none", "file.download"}
    BY <1>3, <2>5 DEF After
  <2> QED
    BY <1>1, <2>1, <2>2, <2>3, <2>4, <2>5
<1> QED
  BY <1>2, <1>3

\* f has the trees after the first i events of l.
Trace(f, l, d) ==
    /\ f \in [0..Len(l) -> [Paths -> Nodes]] /\ f[0] = d
    /\ \A i \in 1..Len(l) : f[i] = After(f[i - 1], l[i])

LEMMA TraceIs ==
    ASSUME NEW l \in Seq(Entry), NEW d \in [Paths -> Nodes]
    PROVE  /\ \E f : Trace(f, l, d)
           /\ \A f : Trace(f, l, d) => ReplayOf(l, d) = f[Len(l)]
<1> DEFINE D == [Paths -> Nodes]
           n == Len(l)
           step == [i \in 1..n |-> [t \in D |-> After(t, l[i])]]
           upTo == CHOOSE f : f = [i \in 0..n |-> IF i = 0 THEN d ELSE After(f[i - 1], l[i])]
<1>1. n \in Nat /\ \A i \in 1..n : l[i] \in Entry
  BY LenProperties, ElementOfSeq
<1>2. IsStep(step, n, D)
  <2>1. \A i \in 1..n : [t \in D |-> After(t, l[i])] \in [D -> D]
    BY <1>1, AfterType
  <2> QED
    BY <2>1 DEF IsStep
<1>3. \A i \in 1..n, t \in D : step[i][t] = After(t, l[i])
  OBVIOUS
<1>4. ReplayOf(l, d) = upTo[n]
  BY DEF ReplayOf
<1> HIDE DEF step, n, D, upTo
<1>5. PICK g : Computes(g, n, D, d, step)
  BY <1>1, <1>2, StepByStep DEF D
<1>6. g \in [0..n -> D] /\ g[0] = d /\ \A i \in 1..n : g[i] = After(g[i - 1], l[i])
  <2>1. \A i \in 1..n : i - 1 \in 0..n
    BY <1>1
  <2> QED
    BY <1>3, <1>5, <2>1 DEF Computes
<1>7. Trace(g, l, d)
  BY <1>6 DEF Trace, n, D
<1>8. g = [i \in 0..n |-> IF i = 0 THEN d ELSE After(g[i - 1], l[i])]
  <2>1. \A i \in 0..n : i = 0 \/ (i # 0 /\ i \in 1..n)
    BY <1>1
  <2>2. \A i \in 0..n : g[i] = IF i = 0 THEN d ELSE After(g[i - 1], l[i])
    BY <1>6, <2>1
  <2> QED
    BY <1>6, <2>2
<1>9. upTo = [i \in 0..n |-> IF i = 0 THEN d ELSE After(upTo[i - 1], l[i])]
  BY <1>8 DEF upTo
<1>10. upTo[0] = d /\ \A i \in 1..n : upTo[i] = After(upTo[i - 1], l[i])
  <2>1. 0 \in 0..n /\ \A i \in 1..n : i \in 0..n /\ i # 0
    BY <1>1
  <2> QED
    BY <1>9, <2>1
<1>11. ASSUME NEW f, Trace(f, l, d) PROVE upTo[n] = f[n]
  <2> DEFINE S == {i \in Nat : i <= n => upTo[i] = f[i]}
  <2>1. f[0] = d /\ \A i \in 1..n : f[i] = After(f[i - 1], l[i])
    BY <1>11 DEF Trace, n
  <2>2. 0 \in S
    BY <1>10, <2>1
  <2>3. ASSUME NEW i \in S PROVE i + 1 \in S
    <3> SUFFICES ASSUME i + 1 <= n PROVE upTo[i + 1] = f[i + 1]
      OBVIOUS
    <3>1. i + 1 \in 1..n /\ i + 1 - 1 = i /\ upTo[i] = f[i]
      BY <1>1
    <3> QED
      BY <1>10, <2>1, <3>1
  <2> HIDE DEF S
  <2>4. S \in SUBSET Nat
    BY DEF S
  <2>5. n \in S
    BY <1>1, <2>2, <2>3, <2>4, SetInduction
  <2> QED
    BY <1>1, <2>5 DEF S
<1> QED
  BY <1>4, <1>7, <1>11 DEF n

LEMMA ReplayNothing ==
    ASSUME NEW d \in [Paths -> Nodes] PROVE ReplayOf(<<>>, d) = d
<1>1. <<>> \in Seq(Entry) /\ Len(<<>>) = 0
  BY EmptySeq
<1>2. PICK f : Trace(f, <<>>, d)
  BY <1>1, TraceIs
<1>3. ReplayOf(<<>>, d) = f[Len(<<>>)]
  BY <1>1, <1>2, TraceIs
<1> QED
  BY <1>1, <1>2, <1>3 DEF Trace

LEMMA ReplayOneMore ==
    ASSUME NEW l \in Seq(Entry), NEW d \in [Paths -> Nodes], NEW e \in Entry
    PROVE  /\ ReplayOf(l, d) \in [Paths -> Nodes]
           /\ ReplayOf(l \o <<e>>, d) = After(ReplayOf(l, d), e)
<1> DEFINE n == Len(l)
           m == Append(l, e)
<1>1. n \in Nat
  BY LenProperties
<1>2. l \o <<e>> = m
  BY AppendIsConcat
<1>3. m \in Seq(Entry) /\ Len(m) = n + 1 /\ m[n + 1] = e /\ \A i \in 1..n : m[i] = l[i]
  BY AppendProperties
<1> HIDE DEF m
<1>4. PICK f : Trace(f, l, d)
  BY TraceIs
<1>5. /\ f \in [0..n -> [Paths -> Nodes]] /\ f[0] = d
      /\ \A i \in 1..n : f[i] = After(f[i - 1], l[i])
  BY <1>4 DEF Trace
<1>6. ReplayOf(l, d) = f[n]
  BY <1>4, TraceIs
<1> HIDE DEF n
<1>7. f[n] \in [Paths -> Nodes] /\ After(f[n], e) \in [Paths -> Nodes]
  <2>1. f[n] \in [Paths -> Nodes]
    BY <1>1, <1>5
  <2> QED
    BY <2>1, AfterType
<1> DEFINE g == [i \in 0..n + 1 |-> IF i = n + 1 THEN After(f[n], e) ELSE f[i]]
<1>8. g \in [0..n + 1 -> [Paths -> Nodes]]
  <2>1. \A i \in 0..n + 1 : i = n + 1 \/ i \in 0..n
    BY <1>1
  <2> QED
    BY <1>5, <1>7, <2>1
<1>9. g[n + 1] = After(f[n], e) /\ \A i \in 0..n : g[i] = f[i]
  <2>1. n + 1 \in 0..n + 1 /\ \A i \in 0..n : i \in 0..n + 1 /\ i # n + 1
    BY <1>1
  <2> QED
    BY <2>1
<1> HIDE DEF g
<1>10. Trace(g, m, d)
  <2>1. 0 \in 0..n /\ n \in 0..n /\ n + 1 - 1 = n
    BY <1>1
  <2>2. g[0] = d
    BY <1>5, <1>9, <2>1
  <2>3. ASSUME NEW i \in 1..n + 1 PROVE g[i] = After(g[i - 1], m[i])
    <3>1. CASE i = n + 1
      BY <1>3, <1>9, <2>1, <3>1
    <3>2. CASE i # n + 1
      <4>1. i \in 1..n /\ i \in 0..n /\ i - 1 \in 0..n
        BY <1>1, <3>2
      <4> QED
        BY <1>3, <1>5, <1>9, <4>1
    <3> QED
      BY <3>1, <3>2
  <2> QED
    BY <1>3, <1>8, <2>2, <2>3 DEF Trace
<1>11. ReplayOf(m, d) = g[n + 1]
  BY <1>3, <1>10, TraceIs
<1> QED
  BY <1>2, <1>6, <1>7, <1>9, <1>11

LEMMA ReplayedIs ==
    /\ Replayed = ReplayOf(log, first)
    /\ log' = log /\ first' = first => Replayed' = Replayed
    /\ IInv => Replayed \in [Paths -> Nodes]
    /\ \A e \in Entry : IInv /\ log' = log \o <<e>> /\ first' = first =>
          Replayed' = After(Replayed, e)
<1>1. Replayed = ReplayOf(log, first) /\ Replayed' = ReplayOf(log', first')
  BY DEF Replayed, ReplayOf
<1>3. IInv => Replayed \in [Paths -> Nodes]
  <2> SUFFICES ASSUME IInv PROVE Replayed \in [Paths -> Nodes]
    OBVIOUS
  <2>1. log \in Seq(Entry) /\ first \in [Paths -> Nodes]
    BY DEF IInv, Typed
  <2>2. PICK f : Trace(f, log, first)
    BY <2>1, TraceIs
  <2>3. Replayed = f[Len(log)]
    BY <1>1, <2>1, <2>2, TraceIs
  <2>4. Len(log) \in 0..Len(log)
    BY <2>1, LenProperties
  <2> QED
    BY <2>2, <2>3, <2>4 DEF Trace
<1>4. \A e \in Entry : IInv /\ log' = log \o <<e>> /\ first' = first =>
        Replayed' = After(Replayed, e)
  BY <1>1, ReplayOneMore DEF IInv, Typed
<1>5. log' = log /\ first' = first => Replayed' = Replayed
  BY <1>1
<1> QED
  BY <1>1, <1>3, <1>4, <1>5

-----------------------------------------------------------------------------
(* A request at a time is recorded as it was done *)

LEMMA InitRInv == Init => RInv
<1> SUFFICES ASSUME Init PROVE RInv
  OBVIOUS
<1>1. IInv
  BY InitIInv
<1>2. log = <<>> /\ first = tree /\ \A t \in Threads : request[t] = NoRequest
  BY DEF Init
<1>3. Replayed = tree
  BY <1>1, <1>2, ReplayedIs, ReplayNothing DEF IInv, Typed
<1> QED
  BY <1>1, <1>2, <1>3 DEF RInv, Alone, Follows

\* The only request, and what it stands for.
LEMMA OnlyOne ==
    ASSUME RInv, ~overlapped, ~lapsed, NEW t \in Threads, request[t] # NoRequest
    PROVE  /\ Stands(request[t], Replayed, tree) /\ Replayed \in [Paths -> Nodes]
           /\ \A u \in Threads : request[u] # NoRequest => u = t
  BY ReplayedIs DEF RInv, Alone, Follows

LEMMA ContinueFollows ==
    ASSUME RInv, NEW t \in Threads, request[t] # NoRequest, NEW n \in Request, Continue(t, n),
           lapsed => lapsed', ~overlapped /\ ~lapsed' => Stands(n, Replayed, tree')
    PROVE  (Alone /\ Follows)'
<1>1. /\ request' = [request EXCEPT ![t] = n]
      /\ log' = log /\ first' = first /\ overlapped' = overlapped
  BY DEF Continue
<1>2. n # NoRequest
  BY FilesAssumption
<1>3. \A u \in Threads : request'[u] = IF u = t THEN n ELSE request[u]
  BY <1>1 DEF RInv, IInv, Typed
<1>4. Replayed' = Replayed
  BY <1>1, ReplayedIs
<1>5. Alone'
  BY <1>1, <1>2, <1>3 DEF RInv, Alone
<1>6. ASSUME ~overlapped', ~lapsed'
      PROVE  ~Idle' /\ \A u \in Threads : request'[u] # NoRequest => Stands(request'[u], Replayed', tree')
  <2>1. ~overlapped /\ ~lapsed
    BY <1>1, <1>6
  <2>2. \A u \in Threads : request'[u] # NoRequest => u = t
    BY <1>3, <2>1, OnlyOne
  <2>3. request'[t] = n
    BY <1>3
  <2>4. ~Idle'
    BY <1>2, <2>3 DEF Idle
  <2> QED
    BY <1>4, <1>6, <2>1, <2>2, <2>3, <2>4
<1> QED
  BY <1>5, <1>6 DEF Follows

LEMMA EmitsFollow ==
    ASSUME RInv, NEW t \in Threads, request[t] # NoRequest,
           NEW type \in Recordable, NEW result \in {"success", "failure"}, Emits(t, type, result),
           lapsed => lapsed',
           ~overlapped /\ ~lapsed' => tree' =
              After(Replayed, Event(type, request[t].path, request[t].to, result, request[t].data))
    PROVE  (Alone /\ Follows)'
<1> DEFINE r == request[t]
           n == At(r, "emit", {}, type, result)
<1>1. r \in Request
  BY DEF RInv, IInv, Typed
<1>2. n \in Request
  <2>1. type \in {"none", "file.delete", "dir.delete", "dir.create", "file.rename",
                  "file.move", "file.upload", "file.download"}
    BY DEF Recordable
  <2> HIDE DEF r
  <2> QED
    BY <1>1, <2>1, AtType
<1>3. Continue(t, n)
  <2>1. Continue(t, ToEmit(r, type, result))
    BY DEF Emits, ToEmit
  <2> HIDE DEF r
  <2>2. ToEmit(r, type, result) = n
    BY <1>1, RecordSteps
  <2> QED
    BY <2>1, <2>2
<1>4. /\ n.path = r.path /\ n.to = r.to /\ n.data = r.data
      /\ n.at = "emit" /\ n.event = type /\ n.result = result
  BY AtFields
<1> HIDE DEF n
<1>5. ~overlapped /\ ~lapsed' => Stands(n, Replayed, tree')
  BY <1>4 DEF Stands
<1> QED
  BY <1>2, <1>3, <1>5, ContinueFollows

LEMMA AnswerFollows ==
    ASSUME RInv, NEW t \in Threads, request[t] # NoRequest, Answer(t),
           overlapped' = overlapped, lapsed' = lapsed, ~overlapped /\ ~lapsed => Replayed' = tree'
    PROVE  (Alone /\ Follows)'
<1>1. request' = [request EXCEPT ![t] = NoRequest]
  BY DEF Answer
<1>2. \A u \in Threads : request'[u] = IF u = t THEN NoRequest ELSE request[u]
  BY <1>1 DEF RInv, IInv, Typed
<1>3. Alone'
  BY <1>2 DEF RInv, Alone
<1>4. ASSUME ~overlapped, ~lapsed PROVE \A u \in Threads : request'[u] = NoRequest
  BY <1>2, <1>4, OnlyOne
<1> QED
  BY <1>3, <1>4 DEF Follows

LEMMA ReceiveFollows == ASSUME RInv, NEW t \in Threads, Receive(t) PROVE (Alone /\ Follows)'
<1>1. /\ request[t] = NoRequest /\ tree' = tree /\ log' = log /\ first' = first /\ lapsed' = lapsed
      /\ overlapped' = (overlapped \/ \E u \in Threads : request[u] # NoRequest)
  BY DEF Receive
<1>2. PICK op \in {"remove", "mkdir", "rename", "upload", "get"}, p \in Paths, q \in Paths :
        request' = [request EXCEPT ![t] = Handling(op, p, q)]
  BY DEF Receive
<1> DEFINE n == Handling(op, p, q)
<1>3. n.at = "start"
  BY DEF Handling
<1>4. \A u \in Threads : request'[u] = IF u = t THEN n ELSE request[u]
  BY <1>2 DEF RInv, IInv, Typed
<1> HIDE DEF n
<1>5. Replayed' = Replayed
  BY <1>1, ReplayedIs
<1>6. ASSUME ~overlapped' PROVE ~overlapped /\ \A u \in Threads : request[u] = NoRequest
  BY <1>1, <1>6
<1>7. Alone'
  BY <1>4, <1>6 DEF Alone
<1>8. ASSUME ~overlapped', ~lapsed'
      PROVE  /\ Idle' => Replayed' = tree'
             /\ \A u \in Threads : request'[u] # NoRequest => Stands(request'[u], Replayed', tree')
  <2>1. Replayed = tree
    BY <1>1, <1>6, <1>8 DEF RInv, Follows, Idle
  <2>2. Stands(n, Replayed', tree')
    BY <1>1, <1>3, <1>5, <2>1 DEF Stands
  <2>3. \A u \in Threads : request'[u] # NoRequest => request'[u] = n
    BY <1>4, <1>6, <1>8
  <2> QED
    BY <1>1, <1>5, <2>1, <2>2, <2>3
<1> QED
  BY <1>7, <1>8 DEF Follows

LEMMA RefuseFollows == ASSUME RInv, NEW t \in Threads, Refuse(t) PROVE (Alone /\ Follows)'
<1> DEFINE r == request[t]
           type == Types[r.op]
<1>1. r # NoRequest /\ r.at = "start" /\ tree' = tree /\ lapsed' = lapsed
      /\ Emits(t, type, "failure")
  BY DEF Refuse
<1>2. type \in Recordable
  <2>1. r.op \in {"remove", "mkdir", "rename", "upload", "get"}
    BY <1>1, AtWork DEF RInv, Request
  <2> QED
    BY <2>1 DEF Types, Recordable
<1> HIDE DEF type
<1>3. ASSUME ~overlapped, ~lapsed'
      PROVE  tree' = After(Replayed, Event(type, r.path, r.to, "failure", r.data))
  <2>1. tree = Replayed
    BY <1>1, <1>3, OnlyOne DEF Stands
  <2> QED
    BY <1>1, <2>1, AfterIs
<1> QED
  BY <1>1, <1>2, <1>3, EmitsFollow

LEMMA TestKindFollows == ASSUME RInv, NEW t \in Threads, TestKind(t) PROVE (Alone /\ Follows)'
<1> DEFINE r == request[t]
           event == IF tree[r.path] = Dir THEN "dir.delete" ELSE "file.delete"
           n == At(r, "removing", r.todo, event, r.result)
<1>1. r # NoRequest /\ r.at = "start" /\ tree' = tree /\ lapsed' = lapsed
      /\ Continue(t, ToRemove(r, event))
  BY DEF TestKind, Is, ToRemove
<1>2. r \in Request
  BY <1>1, AtWork DEF RInv
<1>3. event \in {"file.delete", "dir.delete"}
  OBVIOUS
<1>4. ~overlapped /\ ~lapsed => tree = Replayed
  BY <1>1, OnlyOne DEF Stands
<1> HIDE DEF r, event
<1>5. ToRemove(r, event) = n
  BY <1>2, RecordSteps
<1>6. n \in Request
  BY <1>2, <1>3, FieldTypes, AtType
<1>7. n.at = "removing"
  BY AtFields
<1> HIDE DEF n
<1>8. ~overlapped /\ ~lapsed' => Stands(n, Replayed, tree')
  BY <1>1, <1>4, <1>7 DEF Stands
<1> QED
  BY <1>1, <1>5, <1>6, <1>8, ContinueFollows DEF r

LEMMA FindEntriesFollows == ASSUME RInv, NEW t \in Threads, FindEntries(t) PROVE (Alone /\ Follows)'
<1> DEFINE r == request[t]
           todo == {p \in Subtree(r.path) : tree[p] # Absent}
           n == At(r, "remove_all", todo, r.event, r.result)
<1>1. r # NoRequest /\ r.at = "removing" /\ tree' = tree /\ lapsed' = lapsed
      /\ Continue(t, ToWork(r, "remove_all", todo))
  BY DEF FindEntries, Is, ToWork
<1>2. r \in Request /\ r.path \in Paths
  BY <1>1, AtWork DEF RInv
<1>3. todo \in SUBSET Paths
  BY <1>2 DEF Subtree, Below
<1>4. ~overlapped /\ ~lapsed => tree = Replayed
  BY <1>1, OnlyOne DEF Stands
<1>5. tree = [x \in Paths |-> IF x \in Subtree(r.path) \ todo THEN Absent ELSE tree[x]]
  <2>1. tree = [x \in Paths |-> tree[x]]
    BY DEF RInv, IInv, Typed
  <2>2. \A x \in Paths : x \in Subtree(r.path) \ todo => tree[x] = Absent
    OBVIOUS
  <2> HIDE DEF todo
  <2> QED
    BY <2>1, <2>2
<1> HIDE DEF r, todo
<1>6. ToWork(r, "remove_all", todo) = n
  BY <1>2, RecordSteps
<1>7. n \in Request
  BY <1>2, <1>3, FieldTypes, AtType
<1>8. n.at = "remove_all" /\ n.todo = todo /\ n.path = r.path
  BY AtFields
<1> HIDE DEF n
<1>9. ~overlapped /\ ~lapsed' => Stands(n, Replayed, tree')
  BY <1>1, <1>4, <1>5, <1>8 DEF Stands
<1> QED
  BY <1>1, <1>6, <1>7, <1>9, ContinueFollows DEF r

\* The deepest entries go first, so nothing is below what is taken.
LEMMA RemoveEntryFollows == ASSUME RInv, NEW t \in Threads, RemoveEntry(t) PROVE (Alone /\ Follows)'
<1> DEFINE r == request[t]
<1>1. r # NoRequest /\ r.op = "remove" /\ r.at = "remove_all"
  BY DEF RemoveEntry, Is
<1>2. /\ r \in Request /\ r.path \in Paths /\ r.todo \subseteq Subtree(r.path)
      /\ r.event \in {"file.delete", "dir.delete"} /\ r.event \in Recordable
      /\ r.todo \in SUBSET Paths
  BY <1>1, AtWork DEF RInv, Shape, Recordable
<1>3. ASSUME ~overlapped, ~lapsed
      PROVE  /\ tree = [x \in Paths |-> IF x \in Subtree(r.path) \ r.todo THEN Absent ELSE Replayed[x]]
             /\ Replayed \in [Paths -> Nodes]
  BY <1>1, <1>3, OnlyOne DEF Stands
<1>4. CASE r.todo = {}
  <2>1. Emits(t, r.event, "success") /\ tree' = tree /\ lapsed' = lapsed
    BY <1>4 DEF RemoveEntry
  <2>2. ASSUME ~overlapped, ~lapsed'
        PROVE  tree' = After(Replayed, Event(r.event, r.path, r.to, "success", r.data))
    <3>1. After(Replayed, Event(r.event, r.path, r.to, "success", r.data))
            = Without(Replayed, Subtree(r.path))
      BY <1>2, AfterIs
    <3>2. tree = Without(Replayed, Subtree(r.path))
      BY <1>3, <1>4, <2>1, <2>2 DEF Without
    <3> QED
      BY <2>1, <3>1, <3>2
  <2> QED
    BY <1>1, <1>2, <2>1, <2>2, EmitsFollow
<1>5. CASE r.todo # {}
  <2>1. PICK p \in {x \in r.todo : Below(x) \cap r.todo = {}}, fails \in MayFail("remove") :
          /\ lapsed' = (lapsed \/ fails)
          /\ IF fails \/ \E q \in Below(p) : tree[q] # Absent
             THEN Emits(t, r.event, "failure") /\ UNCHANGED tree
             ELSE /\ tree' = Without(tree, {p})
                  /\ Continue(t, StillTo(r, r.todo \ {p}))
    BY <1>5 DEF RemoveEntry, StillTo
  <2>2. p \in r.todo /\ p \in Paths /\ p \in Subtree(r.path) /\ Below(p) \cap r.todo = {}
    BY <1>2
  <2>3. lapsed => lapsed'
    BY <2>1
  <2>4. CASE fails \/ \E q \in Below(p) : tree[q] # Absent
    <3>1. Emits(t, r.event, "failure")
      BY <2>1, <2>4
    <3>2. ASSUME ~overlapped, ~lapsed' PROVE FALSE
      <4>1. ~lapsed /\ ~fails
        BY <2>1, <3>2
      <4>2. PICK q \in Below(p) : tree[q] # Absent
        BY <2>4, <4>1
      <4>3. q \in Paths /\ Extends(q, p) /\ Extends(p, r.path)
        BY <1>2, <2>2, SubtreeIs DEF Below
      <4>4. q \in Subtree(r.path)
        BY <1>2, <2>2, <4>3, ExtendsOrder, SubtreeIs
      <4>5. q \notin r.todo
        BY <2>2
      <4> QED
        BY <1>3, <3>2, <4>1, <4>2, <4>3, <4>4, <4>5
    <3> QED
      BY <1>1, <1>2, <2>3, <3>1, <3>2, EmitsFollow
  <2>5. CASE ~(fails \/ \E q \in Below(p) : tree[q] # Absent)
    <3> DEFINE n == At(r, r.at, r.todo \ {p}, r.event, r.result)
    <3>1. tree' = Without(tree, {p}) /\ Continue(t, StillTo(r, r.todo \ {p}))
      BY <2>1, <2>5
    <3>2. ASSUME ~overlapped, ~lapsed'
          PROVE  tree' = [x \in Paths |->
                    IF x \in Subtree(r.path) \ (r.todo \ {p}) THEN Absent ELSE Replayed[x]]
      <4>1. /\ tree = [x \in Paths |-> IF x \in Subtree(r.path) \ r.todo THEN Absent ELSE Replayed[x]]
            /\ tree' = [x \in Paths |-> IF x = p THEN Absent ELSE tree[x]]
        BY <1>3, <2>3, <3>1, <3>2 DEF Without
      <4>2. ASSUME NEW x \in Paths
            PROVE  (IF x = p THEN Absent ELSE tree[x])
                     = IF x \in Subtree(r.path) \ (r.todo \ {p}) THEN Absent ELSE Replayed[x]
        BY <2>2, <4>1
      <4> QED
        BY <4>1, <4>2
    <3> HIDE DEF r
    <3>3. StillTo(r, r.todo \ {p}) = n
      BY <1>2, RecordSteps
    <3>4. n \in Request
      <4>1. r.todo \ {p} \in SUBSET Paths
        BY <1>2
      <4> QED
        BY <1>2, <4>1, FieldTypes, AtType
    <3>5. n.at = "remove_all" /\ n.todo = r.todo \ {p} /\ n.path = r.path
      BY <1>1, AtFields
    <3> HIDE DEF n
    <3>6. ~overlapped /\ ~lapsed' => Stands(n, Replayed, tree')
      BY <3>2, <3>5 DEF Stands
    <3>7. Continue(t, n)
      BY <3>1, <3>3
    <3> QED
      BY <1>1, <2>3, <3>4, <3>6, <3>7, ContinueFollows DEF r
  <2> QED
    BY <2>4, <2>5
<1> QED
  BY <1>4, <1>5

LEMMA FindMissingFollows == ASSUME RInv, NEW t \in Threads, FindMissing(t) PROVE (Alone /\ Follows)'
<1> DEFINE r == request[t]
           todo == {p \in Ancestors(r.path) : tree[p] # Dir}
           n == At(r, "create_directories", todo, r.event, r.result)
<1>1. r # NoRequest /\ r.at = "start" /\ tree' = tree /\ lapsed' = lapsed
      /\ Continue(t, ToWork(r, "create_directories", todo))
  BY DEF FindMissing, Is, ToWork
<1>2. r \in Request /\ r.path \in Paths
  BY <1>1, AtWork DEF RInv
<1>3. todo \in SUBSET Paths
  BY <1>2, AncestorsArePaths
<1>4. ~overlapped /\ ~lapsed => tree = Replayed
  BY <1>1, OnlyOne DEF Stands
<1>5. /\ WellFormed(tree)
      /\ tree = [x \in Paths |-> IF x \in Ancestors(r.path) \ todo THEN Dir ELSE tree[x]]
  <2>1. WellFormed(tree) /\ tree = [x \in Paths |-> tree[x]]
    BY DEF RInv, IInv, Typed
  <2>2. \A x \in Paths : x \in Ancestors(r.path) \ todo => tree[x] = Dir
    OBVIOUS
  <2> HIDE DEF todo
  <2> QED
    BY <2>1, <2>2
<1> HIDE DEF r, todo
<1>6. ToWork(r, "create_directories", todo) = n
  BY <1>2, RecordSteps
<1>7. n \in Request
  BY <1>2, <1>3, FieldTypes, AtType
<1>8. n.at = "create_directories" /\ n.todo = todo /\ n.path = r.path
  BY AtFields
<1> HIDE DEF n
<1>9. ~overlapped /\ ~lapsed' => Stands(n, Replayed, tree')
  BY <1>1, <1>4, <1>5, <1>8 DEF Stands
<1> QED
  BY <1>1, <1>6, <1>7, <1>9, ContinueFollows DEF r

\* create_directories fails only at a file, and then it has made nothing.
LEMMA MakeDirectoryFollows ==
    ASSUME RInv, NEW t \in Threads, MakeDirectory(t) PROVE (Alone /\ Follows)'
<1> DEFINE r == request[t]
<1>1. r # NoRequest /\ r.op = "mkdir" /\ r.at = "create_directories"
  BY DEF MakeDirectory, Is
<1>2. /\ r \in Request /\ r.path \in Paths /\ r.todo \subseteq Ancestors(r.path)
      /\ r.todo \in SUBSET Paths /\ "dir.create" \in Recordable
  BY <1>1, AtWork DEF RInv, Shape, Recordable
<1>3. ASSUME ~overlapped, ~lapsed
      PROVE  /\ tree = [x \in Paths |-> IF x \in Ancestors(r.path) \ r.todo THEN Dir ELSE Replayed[x]]
             /\ Replayed \in [Paths -> Nodes] /\ WellFormed(Replayed) /\ WellFormed(tree)
  BY <1>1, <1>3, OnlyOne DEF Stands, RInv, IInv, Typed
<1>4. CASE r.todo = {}
  <2>1. Emits(t, "dir.create", "success") /\ tree' = tree /\ lapsed' = lapsed
    BY <1>4 DEF MakeDirectory
  <2>2. ASSUME ~overlapped, ~lapsed'
        PROVE  tree' = After(Replayed, Event("dir.create", r.path, r.to, "success", r.data))
    <3>1. After(Replayed, Event("dir.create", r.path, r.to, "success", r.data))
            = [x \in Paths |-> IF x \in Ancestors(r.path) THEN Dir ELSE Replayed[x]]
      BY AfterIs
    <3>2. tree = [x \in Paths |-> IF x \in Ancestors(r.path) THEN Dir ELSE Replayed[x]]
      BY <1>3, <1>4, <2>1, <2>2
    <3> QED
      BY <2>1, <3>1, <3>2
  <2> QED
    BY <1>1, <1>2, <2>1, <2>2, EmitsFollow
<1>5. CASE r.todo # {}
  <2>1. PICK p \in {x \in r.todo : Ancestors(x) \cap r.todo = {x}}, fails \in MayFail("mkdir") :
          /\ lapsed' = (lapsed \/ fails)
          /\ IF fails \/ IsFile(tree[p]) \/ ~IsDirIn(tree, Parent(p))
             THEN Emits(t, "dir.create", "failure") /\ UNCHANGED tree
             ELSE /\ tree' = [tree EXCEPT ![p] = Dir]
                  /\ Continue(t, StillTo(r, r.todo \ {p}))
    BY <1>5 DEF MakeDirectory, StillTo
  <2>2. /\ p \in r.todo /\ p \in Paths /\ p \in Ancestors(r.path) /\ Extends(r.path, p)
        /\ Ancestors(p) \cap r.todo = {p}
    <3>1. p \in r.todo /\ Ancestors(p) \cap r.todo = {p} /\ p \in Paths /\ p \in Ancestors(r.path)
      BY <1>2
    <3> QED
      BY <1>2, <3>1, AncestorIs
  <2>3. lapsed => lapsed'
    BY <2>1
  <2>4. CASE fails \/ IsFile(tree[p]) \/ ~IsDirIn(tree, Parent(p))
    <3>1. Emits(t, "dir.create", "failure") /\ tree' = tree
      BY <2>1, <2>4
    <3>2. ASSUME ~overlapped, ~lapsed'
          PROVE  tree' = After(Replayed, Event("dir.create", r.path, r.to, "failure", r.data))
      <4>1. ~lapsed /\ ~fails
        BY <2>1, <3>2
      <4>2. \A x \in Paths : x \in Ancestors(r.path) \ r.todo => tree[x] = Dir
        BY <1>3, <3>2, <4>1
      <4>3. ASSUME NEW x \in Paths, Extends(p, x), x # p PROVE x \in Ancestors(r.path) \ r.todo
        <5>1. x \in Ancestors(p) /\ x \in Ancestors(r.path)
          BY <1>2, <2>2, <4>3, AncestorIs, ExtendsOrder
        <5> QED
          BY <2>2, <4>3, <5>1
      <4>4. IsDirIn(tree, Parent(p))
        <5>1. CASE Len(p) > 1
          <6>1. Parent(p) \in Paths /\ Extends(p, Parent(p)) /\ Parent(p) # p
            BY <2>2, <5>1, ParentOrder, PathType
          <6> QED
            BY <4>2, <4>3, <6>1 DEF IsDirIn
        <5>2. CASE ~(Len(p) > 1)
          BY <2>2, <5>2, ParentIs DEF IsDirIn
        <5> QED
          BY <5>1, <5>2
      <4>5. IsFile(tree[p]) /\ tree[p] # Dir /\ tree[p] # Absent
        BY <2>4, <4>1, <4>4, KindsDiffer
      <4>6. Replayed[p] = tree[p]
        BY <1>3, <2>2, <3>2, <4>1
      <4>7. ASSUME NEW x \in Paths, x \in Ancestors(r.path) \ r.todo PROVE Replayed[x] = Dir
        <5>1. Extends(r.path, x) /\ x # p /\ tree[x] = Dir
          BY <1>2, <2>2, <4>2, <4>7, AncestorIs
        <5>2. CASE Len(x) <= Len(p)
          <6>1. Extends(p, x)
            BY <1>2, <2>2, <5>1, <5>2, ExtendsOrder
          <6> QED
            BY <1>3, <2>2, <3>2, <4>1, <4>5, <4>6, <5>1, <6>1, DirsAbove
        <5>3. CASE ~(Len(x) <= Len(p))
          <6>1. Len(p) <= Len(x)
            BY <2>2, <5>3, PathType
          <6>2. Extends(x, p)
            BY <1>2, <2>2, <5>1, <6>1, ExtendsOrder
          <6>3. tree[p] = Dir
            BY <1>3, <2>2, <3>2, <4>1, <5>1, <6>2, DirsAbove, KindsDiffer
          <6> QED
            BY <4>5, <6>3
        <5> QED
          BY <5>2, <5>3
      <4>8. tree = Replayed
        BY <1>3, <3>2, <4>1, <4>7
      <4> QED
        BY <3>1, <4>8, AfterIs
    <3> QED
      BY <1>1, <1>2, <2>3, <3>1, <3>2, EmitsFollow
  <2>5. CASE ~(fails \/ IsFile(tree[p]) \/ ~IsDirIn(tree, Parent(p)))
    <3> DEFINE n == At(r, r.at, r.todo \ {p}, r.event, r.result)
    <3>1. tree' = [tree EXCEPT ![p] = Dir] /\ Continue(t, StillTo(r, r.todo \ {p}))
      BY <2>1, <2>5
    <3>2. ASSUME ~overlapped, ~lapsed'
          PROVE  /\ WellFormed(Replayed)
                 /\ tree' = [x \in Paths |->
                      IF x \in Ancestors(r.path) \ (r.todo \ {p}) THEN Dir ELSE Replayed[x]]
      <4>1. /\ tree = [x \in Paths |-> IF x \in Ancestors(r.path) \ r.todo THEN Dir ELSE Replayed[x]]
            /\ WellFormed(Replayed)
        BY <1>3, <2>3, <3>2
      <4>2. tree' = [x \in Paths |-> IF x = p THEN Dir ELSE tree[x]]
        BY <2>2, <3>1, <4>1
      <4>3. ASSUME NEW x \in Paths
            PROVE  (IF x = p THEN Dir ELSE tree[x])
                     = IF x \in Ancestors(r.path) \ (r.todo \ {p}) THEN Dir ELSE Replayed[x]
        BY <2>2, <4>1
      <4> QED
        BY <4>1, <4>2, <4>3
    <3> HIDE DEF r
    <3>3. StillTo(r, r.todo \ {p}) = n
      BY <1>2, RecordSteps
    <3>4. n \in Request
      <4>1. r.todo \ {p} \in SUBSET Paths
        BY <1>2
      <4> QED
        BY <1>2, <4>1, FieldTypes, AtType
    <3>5. n.at = "create_directories" /\ n.todo = r.todo \ {p} /\ n.path = r.path
      BY <1>1, AtFields
    <3> HIDE DEF n
    <3>6. ~overlapped /\ ~lapsed' => Stands(n, Replayed, tree')
      BY <3>2, <3>5 DEF Stands
    <3>7. Continue(t, n)
      BY <3>1, <3>3
    <3> QED
      BY <1>1, <2>3, <3>4, <3>6, <3>7, ContinueFollows DEF r
  <2> QED
    BY <2>4, <2>5
<1> QED
  BY <1>4, <1>5

LEMMA DoRenameFollows == ASSUME RInv, NEW t \in Threads, DoRename(t) PROVE (Alone /\ Follows)'
<1> DEFINE r == request[t]
           type == RenameType(r.path, r.to)
<1>1. r # NoRequest /\ r.at = "start" /\ lapsed' = lapsed
      /\ \/ tree' = Moved(tree, r.path, r.to) /\ Emits(t, type, "success")
         \/ tree' = tree /\ Emits(t, type, "failure")
  BY DEF DoRename, Is
<1>2. type \in {"file.rename", "file.move"} /\ type \in Recordable
  BY DEF RenameType, Recordable
<1>3. ~overlapped /\ ~lapsed => tree = Replayed
  BY <1>1, OnlyOne DEF Stands
<1> HIDE DEF type
<1>4. /\ After(Replayed, Event(type, r.path, r.to, "success", r.data))
           = Moved(Replayed, r.path, r.to)
      /\ After(Replayed, Event(type, r.path, r.to, "failure", r.data)) = Replayed
  BY <1>2, AfterIs
<1>5. CASE tree' = Moved(tree, r.path, r.to) /\ Emits(t, type, "success")
  BY <1>1, <1>2, <1>3, <1>4, <1>5, EmitsFollow
<1>6. CASE tree' = tree /\ Emits(t, type, "failure")
  BY <1>1, <1>2, <1>3, <1>4, <1>6, EmitsFollow
<1> QED
  BY <1>1, <1>5, <1>6

LEMMA TestDestinationFollows ==
    ASSUME RInv, NEW t \in Threads, TestDestination(t) PROVE (Alone /\ Follows)'
<1> DEFINE r == request[t]
           n == At(r, "save", r.todo, r.event, r.result)
<1>1. r # NoRequest /\ r.op = "upload" /\ r.at = "start" /\ tree' = tree /\ lapsed' = lapsed
      /\ \/ Continue(t, ToSave(r)) /\ IsDirIn(tree, Parent(r.path))
         \/ Answer(t) /\ log' = log /\ first' = first /\ overlapped' = overlapped
  BY DEF TestDestination, Is, ToSave
<1>2. r \in Request
  BY <1>1, AtWork DEF RInv
<1>3. ~overlapped /\ ~lapsed => tree = Replayed
  BY <1>1, OnlyOne DEF Stands
<1>4. CASE Continue(t, ToSave(r)) /\ IsDirIn(tree, Parent(r.path))
  <2> HIDE DEF r
  <2>1. ToSave(r) = n
    BY <1>2, RecordSteps
  <2>2. n \in Request
    BY <1>2, FieldTypes, AtType
  <2>3. n.at = "save" /\ n.op = "upload" /\ n.path = r.path
    BY <1>1, AtFields
  <2> HIDE DEF n
  <2>4. ~overlapped /\ ~lapsed' => Stands(n, Replayed, tree')
    BY <1>1, <1>3, <1>4, <2>3 DEF Stands
  <2> QED
    BY <1>1, <1>4, <2>1, <2>2, <2>4, ContinueFollows DEF r
<1>5. CASE Answer(t) /\ log' = log /\ first' = first /\ overlapped' = overlapped
  BY <1>1, <1>3, <1>5, ReplayedIs, AnswerFollows
<1> QED
  BY <1>1, <1>4, <1>5

\* What is above a destination that is still there are directories.
LEMMA SaveFollows == ASSUME RInv, NEW t \in Threads, Save(t) PROVE (Alone /\ Follows)'
<1> DEFINE r == request[t]
           p == r.path
           above == Ancestors(p) \ {p}
           made == [x \in Paths |-> IF x \in above THEN Dir ELSE tree[x]]
<1>1. r # NoRequest /\ r.at = "save" /\ Emits(t, "file.upload", "success")
  BY DEF Save, Is
<1>2. p \in Paths
  BY <1>1, AtWork DEF RInv
<1>3. "file.upload" \in Recordable
  BY DEF Recordable
<1>4. \/ tree[p] # Dir /\ tree' = [made EXCEPT ![p] = Content(r.data)] /\ lapsed' = lapsed
      \/ /\ tree[p] = Dir \/ ~IsDirIn(tree, Parent(p))
         /\ tree' = tree /\ lapsed' = lapsed
      \/ lapsed' = TRUE
  BY DEF Save
<1>5. ASSUME ~overlapped, ~lapsed'
      PROVE  tree' = After(Replayed, Event("file.upload", p, r.to, "success", r.data))
  <2>1. ~lapsed
    BY <1>4, <1>5
  <2>2. tree = Replayed /\ IsDirIn(tree, Parent(p))
    BY <1>1, <1>5, <2>1, OnlyOne DEF Stands
  <2>3. tree \in [Paths -> Nodes] /\ WellFormed(tree)
    BY DEF RInv, IInv, Typed
  <2>4. ASSUME NEW x \in above PROVE tree[x] = Dir
    <3>1. x \in Paths /\ Extends(p, x) /\ x # p
      BY <1>2, AncestorsArePaths, AncestorIs
    <3>2. Len(p) > 1
      BY <1>2, <3>1, PathType, SamePath DEF Extends
    <3>3. Parent(p) \in Paths /\ Extends(Parent(p), x)
      BY <1>2, <3>1, <3>2, ParentOrder
    <3>4. tree[Parent(p)] = Dir
      BY <1>2, <2>2, <3>2, ParentIs DEF IsDirIn
    <3>5. CASE x = Parent(p)
      BY <3>4, <3>5
    <3>6. CASE x # Parent(p)
      BY <2>3, <3>1, <3>3, <3>4, <3>6, DirsAbove, KindsDiffer
    <3> QED
      BY <3>5, <3>6
  <2>5. made = tree
    <3>1. tree = [x \in Paths |-> tree[x]]
      BY <2>3
    <3> QED
      BY <2>4, <3>1
  <2>6. After(Replayed, Event("file.upload", p, r.to, "success", r.data))
          = IF Replayed[p] = Dir THEN Replayed ELSE [Replayed EXCEPT ![p] = Content(r.data)]
    BY AfterIs
  <2>7. \/ tree[p] # Dir /\ tree' = [made EXCEPT ![p] = Content(r.data)]
        \/ tree[p] = Dir /\ tree' = tree
    BY <1>4, <1>5, <2>2
  <2> HIDE DEF made
  <2> QED
    BY <2>2, <2>5, <2>6, <2>7
<1>6. lapsed => lapsed'
  BY <1>4
<1> QED
  BY <1>1, <1>3, <1>5, <1>6, EmitsFollow

LEMMA TestFileFollows == ASSUME RInv, NEW t \in Threads, TestFile(t) PROVE (Alone /\ Follows)'
<1> DEFINE r == request[t]
<1>1. r # NoRequest /\ r.at = "start" /\ tree' = tree /\ lapsed' = lapsed
      /\ \/ Emits(t, "file.download", "success")
         \/ Answer(t) /\ log' = log /\ first' = first /\ overlapped' = overlapped
  BY DEF TestFile, Is
<1>2. ~overlapped /\ ~lapsed => tree = Replayed
  BY <1>1, OnlyOne DEF Stands
<1>3. "file.download" \in Recordable
  BY DEF Recordable
<1>4. CASE Emits(t, "file.download", "success")
  <2>1. After(Replayed, Event("file.download", r.path, r.to, "success", r.data)) = Replayed
    BY AfterIs
  <2> QED
    BY <1>1, <1>2, <1>3, <1>4, <2>1, EmitsFollow
<1>5. CASE Answer(t) /\ log' = log /\ first' = first /\ overlapped' = overlapped
  BY <1>1, <1>2, <1>5, ReplayedIs, AnswerFollows
<1> QED
  BY <1>1, <1>4, <1>5

LEMMA EmitFollows == ASSUME RInv, NEW t \in Threads, Emit(t) PROVE (Alone /\ Follows)'
<1> DEFINE r == request[t]
           e == Event(r.event, r.path, r.to, r.result, r.data)
<1>1. r # NoRequest /\ r.at = "emit" /\ log' = log \o <<e>> /\ Answer(t)
      /\ tree' = tree /\ first' = first /\ overlapped' = overlapped /\ lapsed' = lapsed
  BY DEF Emit, Recorded
<1>2. e \in Entry
  <2>1. r \in Request
    BY <1>1, AtWork DEF RInv
  <2> QED
    BY <2>1 DEF Request, Event, Entry
<1>3. ~overlapped /\ ~lapsed => tree = After(Replayed, e)
  BY <1>1, OnlyOne DEF Stands
<1> HIDE DEF e
<1>4. Replayed' = After(Replayed, e)
  BY <1>1, <1>2, ReplayedIs DEF RInv
<1> QED
  BY <1>1, <1>3, <1>4, AnswerFollows

LEMMA NextFollows == ASSUME RInv, [Next]_vars PROVE RInv'
<1>1. IInv'
  BY NextKeeps DEF RInv
<1>2. CASE UNCHANGED vars
  <2>1. Replayed' = Replayed
    BY <1>2, ReplayedIs DEF vars
  <2>2. (Alone /\ Follows)'
    BY <1>2, <2>1 DEF vars, RInv, Alone, Follows, Idle
  <2> QED
    BY <1>1, <2>2 DEF RInv
<1>3. CASE Next
  <2>1. PICK t \in Threads : Receive(t) \/ Handle(t)
    BY <1>3 DEF Next
  <2>2. (Alone /\ Follows)'
    BY <2>1, ReceiveFollows, RefuseFollows, TestKindFollows, FindEntriesFollows,
       RemoveEntryFollows, FindMissingFollows, MakeDirectoryFollows, DoRenameFollows,
       TestDestinationFollows, SaveFollows, TestFileFollows, EmitFollows DEF Handle
  <2> QED
    BY <1>1, <2>2 DEF RInv
<1> QED
  BY <1>2, <1>3

\* LogReplays: the events, replayed one by one from the tree at first, give the tree
\* there is, as long as requests do not overlap and no call fails of its own accord.
THEOREM LogIsHistory == Spec => []LogReplays
<1>1. Init => RInv
  BY InitRInv
<1>2. RInv /\ [Next]_vars => RInv'
  BY NextFollows
<1>3. RInv => LogReplays
  BY DEF RInv, Follows, LogReplays
<1> QED
  BY <1>1, <1>2, <1>3, PTL DEF Spec
=============================================================================
