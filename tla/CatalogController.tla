-------------------------- MODULE CatalogController --------------------------
(***************************************************************************)
(* The controllers of the simple catalog objects: Role, Rolegroup,         *)
(* Usergroup and DbSchema.  They differ in what they compare and in the    *)
(* statements they send; the kind is part of the spec and never changes.   *)
(* Only roles live in schemas: the other kinds are kept under None.        *)
(***************************************************************************)
EXTENDS ManagedReconciler

CONSTANTS
    Name, Quoted,              \* the object's name in the catalog, and as SQL quotes it
    Schemas, None,             \* schemas of roles; no schema, no rolegroup
    LdapGroups, Rolegroups, KnownRolegroups,
    Privs, ObjectOf,           \* privileges; the type and object that group them
    Grantable,                 \* the ones that parse and the provider may grant
    ParamKeys, ParamVals, KnownParams,  \* usergroup parameters; the settings HANA accepts
    Owners, ProviderUser,
    MaxDrifts

Kinds == {"role", "rolegroup", "usergroup", "dbschema"}
Params == ParamKeys \X ParamVals
SpecType == [kind : Kinds, schema : Schemas, noGrant : BOOLEAN, admin : BOOLEAN,
             ldap : SUBSET LdapGroups, privs : SUBSET Privs, group : Rolegroups \cup {None},
             params : SUBSET Params, owner : Owners \cup {None}]
ObjectType == [exists : BOOLEAN, ours : BOOLEAN, admin : BOOLEAN, ldap : SUBSET LdapGroups,
               privs : SUBSET Privs, group : Rolegroups \cup {None}, params : SUBSET Params,
               owner : Owners]

ASSUME CatalogAssumption ==
    /\ Specs \subseteq SpecType
    /\ \A s \in Specs : s.kind # "role" => s.schema = None
    /\ Quoted # Name
    /\ None \in Schemas /\ ProviderUser \in Owners
    /\ KnownRolegroups \subseteq Rolegroups /\ KnownParams \subseteq Params
    /\ MaxDrifts \in Nat

VARIABLES
    obj,    \* the objects of that name in HANA, per schema
    inUse,  \* the schema has tables, the group has members
    plan,   \* the statements still to send: a sequence of sets, in any order within a set
    drifts

vars == <<cr, stale, pc, mem, edits, faults, obj, inUse, plan, drifts>>

Absent == [exists |-> FALSE, ours |-> FALSE, admin |-> FALSE, ldap |-> {}, privs |-> {},
           group |-> None, params |-> {}, owner |-> ProviderUser]
Foreign == [Absent EXCEPT !.exists = TRUE]

-----------------------------------------------------------------------------
(* What the operations read and compare. *)

\* The identifier the statements use; roles are also looked up by it.
GetRoleName == Quoted

\* The catalog lists grantees by name, without quotes.
QueryPrivileges(grantee, schema) ==
    IF grantee # Name THEN {}
    ELSE UNION {obj[s].privs : s \in IF schema = None THEN Schemas ELSE {schema}}

\* The query for a role names no schema: a role of that name in another schema is
\* found as well, and one row is taken.
Rows == {s \in Schemas : obj[s].exists}

ReadRole(row, spec) ==
    [obj[row] EXCEPT !.ldap = UNION {obj[s].ldap : s \in Rows},
                     !.privs = QueryPrivileges(GetRoleName, spec.schema)]

Read(row, spec) == IF spec.kind = "role" THEN ReadRole(row, spec) ELSE obj[row]

MapDiffOnlyDesired(observed, desired) == desired \ observed

RoleUpToDate(obs, spec) ==
    obs.privs = spec.privs /\ obs.ldap = spec.ldap /\ obs.group = spec.group
RolegroupUpToDate(obs, spec) == obs.admin = spec.admin

\* (mutant: all parameters are compared, not only the desired ones)
SameParameters(obs, spec) == obs.admin = spec.admin /\ obs.params = spec.params

UsergroupUpToDate(obs, spec) ==
    obs.admin = spec.admin /\ MapDiffOnlyDesired(obs.params, spec.params) = {}

\* A schema is never compared.
UpToDate(obs, spec) ==
    CASE spec.kind = "role" -> RoleUpToDate(obs, spec)
      [] spec.kind = "rolegroup" -> RolegroupUpToDate(obs, spec)
      [] spec.kind = "usergroup" -> UsergroupUpToDate(obs, spec)
      [] spec.kind = "dbschema" -> TRUE

-----------------------------------------------------------------------------
(* The statements of each operation. *)

Stmt(op, arg) == [op |-> op, arg |-> arg]
When(cond, op, arg) == IF cond THEN <<{Stmt(op, arg)}>> ELSE <<>>
NonEmpty(op, arg) == When(arg # {}, op, arg)

\* (mutant: no privileges make a GRANT of nothing)
PerObjectAlways(op, ps) == <<{Stmt(op, {q \in ps : ObjectOf[q] = ObjectOf[p]}) : p \in ps}>>

\* One statement for the privileges on one object, in the order of a Go map.
PerObject(op, ps) ==
    IF ps = {} THEN <<>>
    ELSE <<{Stmt(op, {q \in ps : ObjectOf[q] = ObjectOf[p]}) : p \in ps}>>

CreatePlan(spec) ==
    <<{Stmt("create", {})}>> \o
        (IF spec.kind = "role" THEN PerObject("grant", spec.privs) ELSE <<>>)

\* (mutant: LDAP groups are added and never dropped)
AddLdapGroups(obs, spec) == NonEmpty("addLdap", spec.ldap \ obs.ldap)

UpdateLdapGroups(obs, spec) ==
    NonEmpty("addLdap", spec.ldap \ obs.ldap) \o NonEmpty("dropLdap", obs.ldap \ spec.ldap)
UpdatePrivileges(obs, spec) ==
    PerObject("grant", spec.privs \ obs.privs) \o PerObject("revoke", obs.privs \ spec.privs)
UpdateRolegroup(obs, spec) == When(obs.group # spec.group, "setGroup", {spec.group})
UpdateAdmin(obs, spec) == When(obs.admin # spec.admin, "setAdmin", {spec.admin})

RoleUpdate(obs, spec) ==
    UpdateLdapGroups(obs, spec) \o UpdatePrivileges(obs, spec) \o UpdateRolegroup(obs, spec)
UsergroupUpdate(obs, spec) ==
    UpdateAdmin(obs, spec)
        \o NonEmpty("setParams", MapDiffOnlyDesired(obs.params, spec.params))

UpdatePlan(obs, spec) ==
    CASE spec.kind = "role" -> RoleUpdate(obs, spec)
      [] spec.kind = "rolegroup" -> UpdateAdmin(obs, spec)
      [] spec.kind = "usergroup" -> UsergroupUpdate(obs, spec)
      [] spec.kind = "dbschema" -> <<>>

DeletePlan == <<{Stmt("drop", {})}>>

(* HANA. *)

New == [Absent EXCEPT !.exists = TRUE, !.ours = TRUE]

NewRole(spec) == [New EXCEPT !.ldap = spec.ldap, !.group = spec.group]

\* A new rolegroup has its role administration enabled only if the creator is
\* granted it; a new usergroup has it unless the statement disables it.
NewRolegroup(spec) == [New EXCEPT !.admin = ~ spec.noGrant /\ spec.admin]
NewUsergroup(spec) == [New EXCEPT !.admin = spec.admin, !.params = spec.params]
NewSchema(spec) == [New EXCEPT !.owner = IF spec.owner = None THEN ProviderUser ELSE spec.owner]

NewObject(spec) ==
    CASE spec.kind = "role" -> NewRole(spec)
      [] spec.kind = "rolegroup" -> NewRolegroup(spec)
      [] spec.kind = "usergroup" -> NewUsergroup(spec)
      [] spec.kind = "dbschema" -> NewSchema(spec)

SetParams(have, new) == new \cup {kv \in have : ~ \E n \in new : n[1] = kv[1]}

Accepts(stmt, spec) ==
    LET o == obj[spec.schema] IN
    /\ o.exists = (stmt.op # "create")
    /\ CASE stmt.op = "create" -> spec.group \in KnownRolegroups \cup {None}
                                    /\ spec.params \subseteq KnownParams
         [] stmt.op = "drop" -> inUse => spec.kind = "role"
         [] stmt.op = "addLdap" -> stmt.arg \cap o.ldap = {}
         [] stmt.op = "dropLdap" -> stmt.arg \subseteq o.ldap
         [] stmt.op = "grant" -> stmt.arg \subseteq Grantable
         [] stmt.op = "revoke" -> stmt.arg \subseteq o.privs
         [] stmt.op = "setGroup" -> stmt.arg \subseteq KnownRolegroups \cup {None}
         [] stmt.op = "setParams" -> stmt.arg \subseteq KnownParams
         [] stmt.op = "setAdmin" -> TRUE

Effect(stmt, spec) ==
    LET o == obj[spec.schema]
        new == CASE stmt.op = "create" -> NewObject(spec)
                 [] stmt.op = "drop" -> Absent
                 [] stmt.op = "addLdap" -> [o EXCEPT !.ldap = @ \cup stmt.arg]
                 [] stmt.op = "dropLdap" -> [o EXCEPT !.ldap = @ \ stmt.arg]
                 [] stmt.op = "grant" -> [o EXCEPT !.privs = @ \cup stmt.arg]
                 [] stmt.op = "revoke" -> [o EXCEPT !.privs = @ \ stmt.arg]
                 [] stmt.op = "setGroup" -> [o EXCEPT !.group = spec.group]
                 [] stmt.op = "setParams" -> [o EXCEPT !.params = SetParams(@, stmt.arg)]
                 [] stmt.op = "setAdmin" -> [o EXCEPT !.admin = spec.admin]
    IN [obj EXCEPT ![spec.schema] = new]

-----------------------------------------------------------------------------
Init ==
    /\ ReconcilerInit
    /\ obj \in {[s \in Schemas |-> IF s = None THEN o ELSE Absent] : o \in {Absent, Foreign}}
    /\ inUse = FALSE /\ plan = <<>> /\ drifts = 0

Idle == Stop /\ plan' = <<>>

Reconcile == Start /\ UNCHANGED <<obj, inUse, plan, drifts>>

ObserveAbsent == Rows = {} /\ NotFound /\ UNCHANGED <<obj, inUse, plan, drifts>>

\* (mutant: what differs from the spec is dropped and created anew)
ObserveReplaces ==
    /\ pc = "observe"
    /\ \E row \in Rows :
        IF UpToDate(Read(row, mem.spec), mem.spec) /\ ~ mem.deleting THEN Idle /\ UNCHANGED cr
        ELSE /\ cr' = [cr EXCEPT !.finalizer = TRUE]
             /\ pc' = "run" /\ plan' = DeletePlan
             /\ UNCHANGED <<stale, mem>>
    /\ UNCHANGED <<obj, inUse, edits, faults, drifts>>

\* There is an object, whoever created it.  The finalizer is written before an
\* Update; Delete is one statement.
Observe ==
    /\ pc = "observe"
    /\ \E row \in Rows :
        LET obs == Read(row, mem.spec) IN
        \/ /\ mem.deleting
           /\ pc' = "run" /\ plan' = DeletePlan
           /\ UNCHANGED <<cr, stale, mem>>
        \/ /\ ~ mem.deleting
           /\ IF FinalizerRefused THEN Idle /\ UNCHANGED cr
              ELSE /\ cr' = [cr EXCEPT !.finalizer = TRUE]
                   /\ IF UpToDate(obs, mem.spec) THEN Idle
                      ELSE /\ pc' = "run" /\ plan' = UpdatePlan(obs, mem.spec)
                           /\ UNCHANGED <<stale, mem>>
    /\ UNCHANGED <<obj, inUse, edits, faults, drifts>>

ObserveFails ==
    /\ pc = "observe" /\ Fault
    /\ Idle
    /\ UNCHANGED <<cr, obj, inUse, edits, drifts>>

RemoveFinalizer == Release /\ plan' = <<>> /\ UNCHANGED <<obj, inUse, drifts>>

BeginCreate ==
    /\ pc = "create"
    /\ IF stale THEN Idle /\ UNCHANGED cr
       ELSE /\ Claim
            /\ pc' = "run" /\ plan' = CreatePlan(mem.spec)
            /\ UNCHANGED <<stale, mem>>
    /\ UNCHANGED <<obj, inUse, edits, faults, drifts>>

Remaining(stmt) ==
    IF Head(plan) = {stmt} THEN Tail(plan) ELSE <<Head(plan) \ {stmt}>> \o Tail(plan)

\* A statement takes effect; its answer may be lost.
Statement ==
    /\ pc = "run" /\ plan # <<>>
    /\ \E stmt \in Head(plan) :
        /\ Accepts(stmt, mem.spec)
        /\ obj' = Effect(stmt, mem.spec)
        /\ \/ plan' = Remaining(stmt) /\ UNCHANGED <<stale, pc, mem, faults>>
           \/ Fault /\ Return /\ plan' = <<>>
    /\ UNCHANGED <<cr, inUse, edits, drifts>>

\* It has no effect; the others are not sent.
StatementFails ==
    /\ pc = "run" /\ plan # <<>>
    /\ \E stmt \in Head(plan) :
        IF Accepts(stmt, mem.spec) THEN Fault ELSE UNCHANGED faults
    /\ Return /\ plan' = <<>>
    /\ UNCHANGED <<cr, obj, inUse, edits, drifts>>

Finish ==
    /\ pc = "run" /\ plan = <<>>
    /\ Return
    /\ UNCHANGED <<cr, obj, inUse, plan, edits, faults, drifts>>

EndCreate == RecordCreate /\ UNCHANGED <<obj, inUse, plan, drifts>>

-----------------------------------------------------------------------------
(* The environment. *)

Drifted == drifts < MaxDrifts /\ drifts' = drifts + 1

\* Kind and name are immutable.  The schema of a role cannot be changed either, but
\* it can be added or removed, which points the resource at another role.
EditSpec ==
    /\ \E s \in Specs :
        /\ s.kind = cr.spec.kind
        /\ s.schema # cr.spec.schema => None \in {s.schema, cr.spec.schema}
        /\ IF s.schema = cr.spec.schema THEN UNCHANGED drifts ELSE Drifted
        /\ Edit(s)
    /\ UNCHANGED <<obj, inUse, plan>>

RequestDelete == Delete /\ UNCHANGED <<obj, inUse, plan, drifts>>

\* Tables are created in the schema or dropped, members come and go.
UseChanges ==
    /\ Edited
    /\ inUse' = ~ inUse
    /\ UNCHANGED <<cr, stale, pc, mem, faults, obj, plan, drifts>>

\* What a DBA makes of an object.  A schema gets another owner when it is dropped
\* and created again.
Altered(kind, o) ==
    CASE kind = "role" ->
            {[o EXCEPT !.privs = {}], [o EXCEPT !.ldap = {}]}
                \cup {[o EXCEPT !.group = g] : g \in KnownRolegroups \cup {None}}
      [] kind = "rolegroup" -> {[o EXCEPT !.admin = ~ @]}
      [] kind = "usergroup" ->
            {[o EXCEPT !.admin = ~ @], [o EXCEPT !.params = {}]}
                \cup {[o EXCEPT !.params = SetParams(@, {kv})] : kv \in KnownParams}
      [] kind = "dbschema" -> {[o EXCEPT !.owner = u, !.ours = FALSE] : u \in Owners}

\* A DBA creates, drops or changes an object behind the provider's back.
DbaChanges ==
    /\ Drifted
    /\ \E s \in IF cr.spec.kind = "role" THEN Schemas ELSE {None} :
        \E o \in IF obj[s].exists THEN {Absent} \cup Altered(cr.spec.kind, obj[s])
                 ELSE {Foreign} :
            obj' = [obj EXCEPT ![s] = o]
    /\ UNCHANGED <<cr, stale, pc, mem, edits, faults, inUse, plan>>

Crash == Die /\ plan' = <<>> /\ UNCHANGED <<obj, inUse, drifts>>

-----------------------------------------------------------------------------
Controller ==
    \/ Reconcile \/ ObserveAbsent \/ Observe \/ RemoveFinalizer
    \/ BeginCreate \/ Statement \/ StatementFails \/ Finish \/ EndCreate

Environment == ObserveFails \/ EditSpec \/ RequestDelete \/ UseChanges \/ DbaChanges \/ Crash

Next == Controller \/ Environment

Spec == Init /\ [][Next]_vars

\* As for the other controllers: polls and retries go on, nothing else is assumed.
FairSpec == Spec /\ WF_vars(Controller)

-----------------------------------------------------------------------------
(* Properties *)

Ops == {"create", "drop", "addLdap", "dropLdap", "grant", "revoke", "setGroup", "setParams",
        "setAdmin"}

\* Every variable keeps its type; the statements that are left are never an empty
\* set, so that a reconcile which still has something to send can go on.
CatalogTypeOK ==
    /\ cr \in CrType /\ mem \in MemType /\ stale \in BOOLEAN
    /\ obj \in [Schemas -> ObjectType] /\ inUse \in BOOLEAN
    /\ pc \in {"idle", "observe", "removeFinalizer", "create", "run", "endCreate"}
    /\ \A i \in DOMAIN plan : plan[i] # {} /\ \A st \in plan[i] : st.op \in Ops
    /\ edits \in Nat /\ faults \in Nat /\ drifts \in Nat

\* The four controllers implement ManagedResource: the object is created only
\* under the finalizer, dropped by the provider only after a request to delete
\* the resource, and the resource is released only when nothing it created is left.
Managed == INSTANCE ManagedResource WITH
    life <- IF ~ cr.exists THEN "gone" ELSE IF cr.finalizer THEN "held" ELSE "free",
    deleting <- cr.deleting,
    object <- LET o == obj[cr.spec.schema] IN
              IF ~ o.exists THEN "none" ELSE IF o.ours THEN "ours" ELSE "foreign",
    outside <- drifts
CatalogImplements == Managed!Spec

\* A role of the same name in another schema is taken for the resource's own.
Misled == \E s \in Schemas \ {cr.spec.schema} : obj[s].exists
Refused ==
    \/ cr.spec.group \notin KnownRolegroups \cup {None}
    \/ ~ cr.spec.params \subseteq KnownParams
    \/ ~ cr.spec.privs \subseteq Grantable
DropRefused == cr.deleting /\ inUse /\ cr.spec.kind # "role"
Blocked == cr.pending \/ Misled

\* The object has what the spec asks for; of privileges and parameters possibly
\* more, because removed ones are never taken back.
Matches(o, spec) ==
    /\ o.exists
    /\ spec.kind = "role" =>
            spec.privs \subseteq o.privs /\ o.ldap = spec.ldap /\ o.group = spec.group
    /\ spec.kind \in {"rolegroup", "usergroup"} => o.admin = spec.admin
    /\ spec.params \subseteq o.params
    /\ spec.owner # None => o.owner = spec.owner

\* The owner of a schema is given to CREATE SCHEMA and never looked at again: an
\* edit of it, a schema that was there before and one a DBA replaced are left alone.
OwnerIgnored ==
    cr.spec.kind = "dbschema" /\ (edits > 0 \/ drifts > 0 \/ ~ obj[None].ours)

\* Once edits, drift and failures stop, HANA holds what the spec asks for and keeps
\* it, or the resource is gone, unless HANA refuses the spec or the DROP.  This
\* includes the second round a rolegroup needs that is created without a grant, and
\* the parameters of a usergroup that a DBA changes or clears.  Of a schema that was
\* edited only its existence is promised.
CatalogConvergence ==
    <>[](\/ Blocked
         \/ IF cr.exists /\ ~ cr.deleting
            THEN \/ Refused
                 \/ Matches(obj[cr.spec.schema], cr.spec)
                 \/ OwnerIgnored /\ obj[None].exists
            ELSE ~ cr.exists \/ DropRefused)

\* In the end a reconcile sends nothing any more: what it compares is what it has
\* set, whatever parameters a usergroup has that the spec does not list.  Roles with privileges are the exception, they are granted at every poll.
CatalogSettles ==
    <>[](\/ Blocked \/ Refused \/ DropRefused
         \/ cr.spec.kind = "role" /\ cr.spec.privs # {}
         \/ pc # "run")

\* A privilege taken off the list of a role is revoked in the end.  The code looks
\* up the privileges of a role under its quoted name and finds none to revoke.
RoleRevokes ==
    <>[](\/ Blocked \/ Refused \/ ~ cr.exists \/ cr.deleting
         \/ obj[cr.spec.schema].privs \subseteq cr.spec.privs)
=============================================================================
