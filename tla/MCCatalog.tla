------------------------------ MODULE MCCatalog ------------------------------
(* A small instance of CatalogController: specs of all four kinds. *)
EXTENDS CatalogController

Base == [kind |-> "role", schema |-> "none", noGrant |-> FALSE, admin |-> FALSE, ldap |-> {},
         privs |-> {}, group |-> "none", params |-> {}, owner |-> "none"]
Rolegroup == [Base EXCEPT !.kind = "rolegroup"]
Usergroup == [Base EXCEPT !.kind = "usergroup"]

\* Roles: LDAP groups, privileges on two objects, a rolegroup HANA has and one it
\* has not, and a schema that is added.  Rolegroups with and without a grant to the
\* creator.  Usergroups with parameters, one of them refused.  A schema's owner.
MCSpecs ==
    {[Base EXCEPT !.ldap = {"l"}, !.privs = {"p", "q"}, !.group = "g"],
     [Base EXCEPT !.ldap = {"m"}, !.privs = {"p"}],
     [Base EXCEPT !.schema = "s", !.group = "g"],
     [Base EXCEPT !.group = "unknown"],
     Rolegroup, [Rolegroup EXCEPT !.admin = TRUE],
     [Rolegroup EXCEPT !.admin = TRUE, !.noGrant = TRUE],
     [Usergroup EXCEPT !.params = {<<"k", 1>>}],
     [Usergroup EXCEPT !.params = {<<"k", 2>>}, !.admin = TRUE],
     [Usergroup EXCEPT !.params = {<<"bad", 1>>}], Usergroup,
     [Base EXCEPT !.kind = "dbschema"],
     [Base EXCEPT !.kind = "dbschema", !.owner = "u"]}
MCObjectOf == [p \in Privs |-> p]
MCKnownParams == {<<"k", 1>>, <<"k", 2>>, <<"x", 1>>}

\* A privilege is taken off the list.
RevokeSpecs == {[Base EXCEPT !.privs = {"p"}], Base}
=============================================================================
