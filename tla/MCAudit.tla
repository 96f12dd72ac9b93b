------------------------------- MODULE MCAudit -------------------------------
(* Small instances of AuditPolicyController. *)
EXTENDS AuditPolicyController

Policy(n, h, a, r, e) == [name |-> n, head |-> h, actions |-> a, ret |-> r, enabled |-> e]

\* Each kind of difference: actions, status or level, retention, enabled, and the
\* name; one spec asks for actions HANA refuses.
MCSpecs ==
    {Policy("a", "all", "logon", 7, TRUE), Policy("a", "all", "grant", 7, TRUE),
     Policy("a", "failed", "logon", 30, FALSE), Policy("a", "all", "logon", 30, FALSE),
     Policy("a", "all", "unknown", 7, TRUE), Policy("b", "all", "logon", 7, FALSE)}

Nothing == [exists |-> FALSE, ours |-> FALSE, head |-> "all", actions |-> "logon", ret |-> 7,
            enabled |-> FALSE]

\* No policy yet, or one a DBA created, with or without a retention.
MCForeign ==
    {[n \in Names |-> Nothing]} \cup
    {[n \in Names |-> IF n = "a" THEN [Nothing EXCEPT !.exists = TRUE, !.ret = r] ELSE Nothing] :
        r \in {7, NoRetention}}
=============================================================================
