------------------------------ MODULE AuditLog ------------------------------
(***************************************************************************)
(* What the audit pipeline promises, without queue, batches, transactions  *)
(* or threads: accepted events wait in order; the oldest ones move to the  *)
(* end of the log; some may be given up on the way; the log only grows.    *)
(***************************************************************************)
EXTENDS Naturals, Sequences

VARIABLES
    issued,    \* events accepted so far, numbered from 1
    pending,   \* numbers accepted and not decided, oldest first
    log        \* numbers in the log

vars == <<issued, pending, log>>

Init == issued = 0 /\ pending = <<>> /\ log = <<>>

Accept ==
    /\ issued' = issued + 1
    /\ pending' = Append(pending, issued + 1)
    /\ UNCHANGED log

\* The oldest n move to the log together.
Store(n) ==
    /\ log' = log \o SubSeq(pending, 1, n)
    /\ pending' = SubSeq(pending, n + 1, Len(pending))
    /\ UNCHANGED issued

\* The events at positions m..n are given up: a refused statement, a rollback,
\* the end of the process.
GiveUp(m, n) ==
    /\ pending' = SubSeq(pending, 1, m - 1) \o SubSeq(pending, n + 1, Len(pending))
    /\ UNCHANGED <<issued, log>>

Decide ==
    \E n \in 1..Len(pending) : Store(n) \/ \E m \in 1..n : GiveUp(m, n)

Next == Accept \/ Decide

Spec == Init /\ [][Next]_vars

\* Nothing stays undecided.
FairSpec == Spec /\ WF_vars(Decide)
=============================================================================
