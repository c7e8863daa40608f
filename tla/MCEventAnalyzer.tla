-------------------------- MODULE MCEventAnalyzer --------------------------
(* EventAnalyzer on small instances; the other values are in the .cfg files. *)
EXTENDS EventAnalyzer, TLC

Of(type, ip, user, result, traversal, n) ==
    [type |-> type, ip |-> ip, user |-> user, result |-> result,
     traversal |-> traversal, n |-> n]

Failures(ip, n) == Of("auth.login.failure", ip, "ann", "failure", FALSE, n)
Logins(ip) == Of("auth.login.success", ip, "ann", "success", FALSE, 1)

Attacks ==
    {Failures("10.0.0.1", 50), Failures("10.0.0.2", 5),
     Failures("127.0.0.1", 1), Logins("10.0.0.1"),
     Of("dir.delete", "10.0.0.1", "ann", "success", FALSE, 50),
     Of("file.delete", "10.0.0.1", "ann", "failure", TRUE, 20),
     Of("file.download", "127.0.0.1", "ann", "success", FALSE, 30)}

\* No rows, or logins that failed before the migration.
NoRows == {<<>>}
Old == {<<[ts |-> 990] @@ Of("auth.login.failure", "10.0.0.2", "", "failure", FALSE, 4)>>}

Guesses == {Failures("10.0.0.1", 3)}
Trusted == {"127.0.0.1", "::1"}
Steps == {100, 300}
StartFaults == {"alter", "openAlerts"}
NoFault == {}
=============================================================================
