------------------------------- MODULE MCUser -------------------------------
(* Small instances of UserController: the specs that the runs give the CR. *)
EXTENDS UserController

P == [name |-> "p", opt |-> FALSE]
PGrantable == [name |-> "p", opt |-> TRUE]
Q == [name |-> "q", opt |-> FALSE]
Bad == [name |-> "bad", opt |-> FALSE]
R == [name |-> "r", opt |-> FALSE]
RAdmin == [name |-> "r", opt |-> TRUE]
ByName == [prov |-> "X", by |-> "name", subj |-> "s"]
ByRef == [prov |-> "X", by |-> "ref", subj |-> "s"]
LowerCase == [prov |-> "x", by |-> "name", subj |-> ""]
Dangling == [prov |-> "x", by |-> "ref", subj |-> "s"]

MCObjectOf == [n \in PrivNames |-> IF n = "d" THEN "own schema" ELSE "schema"]
MCUpperOf == [k \in ParamKeys |-> "LOCALE"]
MCProviderUpper == [x \in X509Names |-> "X"]
MCProviderDefault == [name |-> "provider", opt |-> TRUE]

Base == [policy |-> "strict", restricted |-> FALSE, privs |-> {}, roles |-> {},
         params |-> {}, usergroup |-> "DEFAULT", x509 |-> {}, lifetime |-> TRUE,
         pw |-> "none"]

\* Strict: grants and their options, roles, usergroup, lifetime, identities and
\* password authentication all change between the specs; one does not parse.
\* Identities are mapped by name, by reference, in lower case without a subject, and
\* by a reference to a resource that is not there.
Locale == {<<"LOCALE", "en">>}
StrictSpecs ==
    {[Base EXCEPT !.privs = {P, Q}, !.roles = {R}, !.x509 = {ByName}, !.pw = "ref",
                  !.params = Locale],
     [Base EXCEPT !.privs = {PGrantable}, !.roles = {RAdmin}, !.usergroup = "g",
                  !.lifetime = FALSE, !.params = Locale],
     [Base EXCEPT !.usergroup = "g", !.x509 = {ByRef}, !.params = Locale],
     [Base EXCEPT !.x509 = {LowerCase}],
     [Base EXCEPT !.x509 = {Dangling}, !.lifetime = FALSE],
     [Base EXCEPT !.usergroup = "g"],
     [Base EXCEPT !.privs = {Bad}, !.params = Locale]}
StrictDrift == {Q}

\* Lax: the spec takes up and drops privileges, the DBA grants others.
LaxBase == [Base EXCEPT !.policy = "lax", !.pw = "ref"]
LaxSpecs ==
    {[LaxBase EXCEPT !.privs = {P}],
     [LaxBase EXCEPT !.privs = {PGrantable}, !.roles = {R}],
     [LaxBase EXCEPT !.restricted = TRUE, !.privs = {P}],
     [LaxBase EXCEPT !.restricted = TRUE]}
LaxDrift == {P, Q}
=============================================================================
