---------------------------- MODULE UserController ----------------------------
(***************************************************************************)
(* The User controller: one User custom resource (CR), the reconciles that *)
(* the provider runs for it, the password secret it refers to, and the     *)
(* HANA user it manages.                                                   *)
(*                                                                         *)
(* A reconcile reads the CR (Reconcile), observes HANA (Observe) and then  *)
(* runs a plan of SQL statements, one statement per step, in the order of  *)
(* Order.  Users edit the CR, rotate the secret and ask for deletion, a    *)
(* DBA changes grants and locks the user, statements fail with or without  *)
(* having taken effect, and the provider restarts, between any two steps.  *)
(***************************************************************************)
EXTENDS Naturals, Sequences

CONSTANTS
    PrivNames,        \* privileges without their option: "SELECT ON SCHEMA X"
    RoleNames,        \* role names
    ObjectOf,         \* the (type, object) a privilege is on: the group key
    DefaultName,      \* CREATE ANY ON SCHEMA <the managed user's name>
    ProviderDefault,  \* the default privilege of the user the provider logs in as
    PublicName,       \* the role PUBLIC
    Unparsable,       \* privilege names parsePrivilegeString rejects
    ParamKeys, UpperOf, ValidParams,  \* parameter keys, strings.ToUpper, the ones HANA has
    ParamVals, BadParams,             \* values; (upper key, value) pairs that fail the %d check
    Usergroups, DefaultGroup,
    X509Names, ProviderUpper,         \* providers, what HANA makes of their unquoted names
    ProviderCrs,                      \* the providers that have an X509Provider resource
    Subjects,
    Passwords, NoSecret,
    Specs,            \* the specs the CR may be given
    DriftPrivs,       \* the privileges a DBA may grant or revoke behind the provider
    MaxEdits, MaxDrifts, MaxFaults

Priv == [name : PrivNames, opt : BOOLEAN]
Role == [name : RoleNames, opt : BOOLEAN]
Param == ParamKeys \X ParamVals
Mapping == [prov : X509Names, by : {"name", "ref", "both", "neither"},
            subj : Subjects \cup {"", "ANY"}]

SpecType == [policy : {"strict", "lax"}, restricted : BOOLEAN,
             privs : SUBSET Priv, roles : SUBSET Role, params : SUBSET Param,
             usergroup : Usergroups, x509 : SUBSET Mapping, lifetime : BOOLEAN,
             pw : {"none", "noref", "ref"}]

ASSUME NamesAssumption ==
    /\ DefaultName \in PrivNames
    /\ PublicName \in RoleNames
    /\ ProviderDefault \in Priv
    /\ DefaultGroup \in Usergroups
    /\ NoSecret \notin Passwords
    /\ UpperOf \in [ParamKeys -> ParamKeys]
    /\ ProviderUpper \in [X509Names -> X509Names]
ASSUME SpecsAssumption == Specs # {} /\ Specs \subseteq SpecType
ASSUME DriftAssumption == DriftPrivs \subseteq Priv
ASSUME BoundsAssumption == MaxEdits \in Nat /\ MaxDrifts \in Nat /\ MaxFaults \in Nat

VARIABLES
    cr,       \* the User CR at the API server
    stale,    \* the CR was written since the running reconcile read it
    secret,   \* the password in the referenced secret, or NoSecret
    db,       \* the HANA user
    pc,       \* where the running reconcile is
    mem,      \* the reconcile's copy of the CR, status.atProvider in obs
    plan,     \* the SQL statements the running Create, Update or Delete still has to run
    everSpec, \* history: every privilege that ever was in the spec
    edits, drifts, faults

vars == <<cr, stale, secret, db, pc, mem, plan, everSpec, edits, drifts, faults>>

-----------------------------------------------------------------------------
(* Privileges and roles: a privilege is its name and whether it carries    *)
(* WITH GRANT OPTION (WITH ADMIN OPTION for system privileges and roles).  *)

Default == [name |-> DefaultName, opt |-> TRUE]
Public == [name |-> PublicName, opt |-> FALSE]
Names(S) == {p.name : p \in S}

\* One GRANT or REVOKE statement covers the privileges of one type and object
\* with the same option.
GroupKey(p) == <<ObjectOf[p.name], p.opt>>
Groups(S) == {{q \in S : GroupKey(q) = GroupKey(p)} : p \in S}

\* What HANA's GRANT and REVOKE do: a grant with the option upgrades a plain
\* one, a plain grant leaves a grantable one alone, and a REVOKE, which never
\* names the option, takes the privilege away in either form.
GrantTo(have, g) ==
    {p \in have : ~ \E q \in g : q.name = p.name /\ q.opt}
        \cup {q \in g : q.opt \/ q.name \notin Names(have)}
RevokeFrom(have, g) == {p \in have : p.name \notin Names(g)}

\* (mutant: the policy is ignored)
FilterNothing(observed, spec, prev, policy) == observed

\* The lax filter keeps what the spec lists or the status listed before.
FilterManagedPrivileges(observed, spec, prev, policy) ==
    IF policy = "strict" THEN observed
    ELSE {p \in observed : p # ProviderDefault /\ (p \in spec \/ p \in prev)}

\* (mutant: the default privilege is forgotten)
HandleDefaultRoles(spec) ==
    [spec EXCEPT !.roles = @ \cup IF ~ spec.restricted THEN {Public} ELSE {}]

HandleDefaults(spec) ==
    [spec EXCEPT
        !.privs = @ \cup IF spec.policy = "strict" /\ ~ spec.restricted
                         THEN {Default} ELSE {},
        !.roles = @ \cup IF ~ spec.restricted THEN {Public} ELSE {}]

Parses(spec) == Names(spec.privs) \cap Unparsable = {}

(* Parameters: sets of <<key, value>>. *)
TransformParameters(ps) ==
    {<<UpperOf[kv[1]], kv[2]>> :
        kv \in {x \in ps : <<UpperOf[x[1]], x[2]>> \notin BadParams}}
Valid(ps) == {<<UpperOf[kv[1]], kv[2]>> : kv \in {x \in ps : UpperOf[x[1]] \in ValidParams}}

\* Both differences are nil whenever the maps differ.
MapsBothDiff(m1, m2) == [isEqual |-> m1 = m2, onlyIn1 |-> {}, onlyIn2 |-> {}]

(* X.509 mappings: by name or by reference to a resource, the subject optional. *)
Resolves(m) == m.by \in {"name", "both"} \/ (m.by = "ref" /\ m.prov \in ProviderCrs)
ResolveUserMapping(m) ==
    [m EXCEPT !.by = "name", !.subj = IF m.subj = "" THEN "ANY" ELSE m.subj]

\* HANA writes the name of the provider in upper case.
Identity(m) == [m EXCEPT !.prov = ProviderUpper[m.prov]]

-----------------------------------------------------------------------------
(* The HANA user. *)

NoUser == [exists |-> FALSE, privs |-> {}, roles |-> {}, params |-> {},
           usergroup |-> DefaultGroup, x509 |-> {}, lifetime |-> TRUE,
           pwEnabled |-> FALSE, pw |-> NoSecret, locked |-> FALSE]

\* CREATE [RESTRICTED] USER: the default privilege and PUBLIC come with it.
NewUser(spec, pw) ==
    [exists |-> TRUE,
     privs |-> IF spec.restricted THEN {} ELSE {Default},
     roles |-> IF spec.restricted THEN {} ELSE {Public},
     params |-> Valid(spec.params), usergroup |-> spec.usergroup, x509 |-> {},
     lifetime |-> TRUE, pwEnabled |-> spec.pw = "ref", pw |-> pw, locked |-> FALSE]

EmptyObs == [privs |-> {}, roles |-> {}, params |-> {}, usergroup |-> DefaultGroup,
             x509 |-> {}, lifetime |-> TRUE, pwEnabled |-> FALSE, pwUpToDate |-> "nil"]

\* (mutant: no secret gives an empty password instead of none)
GetEmptyPassword(spec) == IF spec.pw = "ref" THEN secret ELSE ""

GetPassword(spec) == IF spec.pw = "ref" THEN secret ELSE NoSecret
PasswordAvailable(spec) == spec.pw = "ref" => secret # NoSecret

\* VALIDATE USER answers with an authentication error for a locked user.
AuthError(spec) == spec.pw = "ref" /\ db.pwEnabled /\ db.locked

QueryPasswordAuthentication(spec) ==
    CASE AuthError(spec) -> "nil"
      [] spec.pw = "ref" /\ db.pwEnabled /\ ~ db.locked ->
            IF db.pw = secret THEN "true" ELSE "false"
      [] spec.pw = "ref" /\ ~ db.pwEnabled -> "false"
      [] spec.pw # "ref" /\ db.pwEnabled -> "false"
      [] OTHER -> "nil"

\* An authentication error ends Read before the X.509 mappings are queried.
Read(spec) ==
    [privs |-> db.privs, roles |-> db.roles, params |-> db.params,
     usergroup |-> db.usergroup,
     x509 |-> IF AuthError(spec) THEN {} ELSE db.x509,
     lifetime |-> db.lifetime, pwEnabled |-> db.pwEnabled,
     pwUpToDate |-> QueryPasswordAuthentication(spec)]

IsPasswordUpToDate(obs, des) ==
    obs.pwUpToDate = IF des.pw # "none" THEN "true" ELSE "nil"

UpToDate(obs, des) ==
    /\ IsPasswordUpToDate(obs, des)
    /\ obs.x509 = des.x509
    /\ obs.usergroup = des.usergroup
    /\ obs.lifetime = des.lifetime
    /\ obs.params = des.params
    /\ obs.privs = des.privs
    /\ obs.roles = des.roles

-----------------------------------------------------------------------------
(* Plans: the statements Create, Update and Delete run, by step.  The      *)
(* statements of one step run in any order, those of a later step after    *)
(* all those of an earlier one.                                            *)

Order == <<"dropUser", "createUser", "createIdentity", "grantPrivs", "revokePrivs",
           "recordPrivs", "grantRoles", "grantAdminRoles", "revokeRoles", "params",
           "usergroup", "resolve", "addIdentity", "dropIdentity", "lifetime", "password">>

EmptyPlan ==
    [dropUser |-> {}, createUser |-> {}, createIdentity |-> {}, grantPrivs |-> {},
     revokePrivs |-> {}, recordPrivs |-> {}, grantRoles |-> {}, grantAdminRoles |-> {},
     revokeRoles |-> {}, params |-> {}, usergroup |-> {}, resolve |-> {},
     addIdentity |-> {}, dropIdentity |-> {}, lifetime |-> {}, password |-> {}]

CreatePlan(spec, pw) ==
    [EmptyPlan EXCEPT
        !.createUser = {[spec |-> spec, pw |-> pw]},
        !.createIdentity = {ResolveUserMapping(m) : m \in spec.x509},
        !.grantPrivs = Groups(spec.privs),
        !.grantRoles = {{r \in spec.roles : ~ r.opt}} \ {{}},
        !.grantAdminRoles = {{r \in spec.roles : r.opt}} \ {{}},
        !.lifetime = IF spec.lifetime THEN {} ELSE {FALSE}]

\* Each step of Update compares the desired state with what Observe left in
\* the status, and yields its statements.
\* (mutant: what the spec no longer lists is not revoked)
GrantOnly(p, des, obs) ==
    [p EXCEPT
        !.grantPrivs = Groups(des.privs \ obs.privs),
        !.recordPrivs = IF des.privs = obs.privs THEN {} ELSE {des.privs}]

UpdatePrivileges(p, des, obs) ==
    [p EXCEPT
        !.grantPrivs = Groups(des.privs \ obs.privs),
        !.revokePrivs = Groups(obs.privs \ des.privs),
        !.recordPrivs = IF des.privs = obs.privs THEN {} ELSE {des.privs}]

UpdateRoles(p, des, obs) ==
    [p EXCEPT
        !.grantRoles = {{r \in des.roles \ obs.roles : ~ r.opt}} \ {{}},
        !.grantAdminRoles = {{r \in des.roles \ obs.roles : r.opt}} \ {{}},
        !.revokeRoles = {obs.roles \ des.roles} \ {{}}]

UpdateParameters(p, des, obs) ==
    LET d == MapsBothDiff(TransformParameters(des.params), TransformParameters(obs.params))
    IN  [p EXCEPT !.params = IF d.isEqual THEN {}
                             ELSE {[toSet |-> d.onlyIn1, toClear |-> d.onlyIn2]}]

UpdateUsergroup(p, des, obs) ==
    [p EXCEPT !.usergroup = IF obs.usergroup = des.usergroup THEN {} ELSE {des.usergroup}]

\* What HANA reports is by name and has a subject; a mapping that is written in
\* another way differs from it for ever.
UpdateX509Providers(p, des, obs) ==
    [p EXCEPT
        !.resolve = {m \in des.x509 \ obs.x509 : ~ Resolves(m)},
        !.addIdentity = {ResolveUserMapping(m) : m \in des.x509 \ obs.x509},
        !.dropIdentity = {ResolveUserMapping(m) : m \in obs.x509 \ des.x509}]

UpdatePasswordLifetimeCheck(p, des, obs) ==
    [p EXCEPT !.lifetime = IF obs.lifetime = des.lifetime THEN {} ELSE {des.lifetime}]

\* (mutant: authentication is toggled, a changed password is not set)
ToggleOnly(p, des, obs) ==
    [p EXCEPT !.password =
        IF obs.pwUpToDate = "false" /\ (des.pw = "none" \/ ~ obs.pwEnabled)
        THEN {"toggle"} ELSE {}]

UpdatePassword(p, des, obs) ==
    [p EXCEPT !.password =
        IF obs.pwUpToDate # "false" THEN {}
        ELSE IF des.pw = "none" \/ ~ obs.pwEnabled THEN {"toggle"} ELSE {"set"}]

UpdatePlan(spec, status) ==
    LET des == HandleDefaults(spec)
        obs == [status EXCEPT !.privs =
                    FilterManagedPrivileges(@, spec.privs, @, spec.policy)]
        p1 == UpdatePrivileges(EmptyPlan, des, obs)
        p2 == UpdateRoles(p1, des, obs)
        p3 == UpdateParameters(p2, des, obs)
        p4 == UpdateUsergroup(p3, des, obs)
        p5 == UpdateX509Providers(p4, des, obs)
        p6 == UpdatePasswordLifetimeCheck(p5, des, obs)
    IN  UpdatePassword(p6, des, obs)

DeletePlan == [EmptyPlan EXCEPT !.dropUser = {"drop"}]

-----------------------------------------------------------------------------
(* The managed reconciler of crossplane-runtime drives the controller. *)

EmptyMem == [spec |-> CHOOSE s \in Specs : TRUE, prev |-> {}, deleting |-> FALSE,
             obs |-> EmptyObs]

Init ==
    /\ \E s \in Specs :
        /\ cr = [exists |-> TRUE, spec |-> s, prev |-> {}, finalizer |-> FALSE,
                 deleting |-> FALSE, pending |-> FALSE]
        /\ everSpec = s.privs
    /\ stale = FALSE
    /\ secret \in Passwords
    /\ db = NoUser
    /\ pc = "idle"
    /\ mem = EmptyMem
    /\ plan = EmptyPlan
    /\ edits = 0 /\ drifts = 0 /\ faults = 0

Idle == pc' = "idle" /\ mem' = EmptyMem /\ plan' = EmptyPlan /\ stale' = FALSE

\* A CR whose last Create has no recorded outcome is never reconciled again.
Reconcile ==
    /\ pc = "idle" /\ cr.exists /\ ~ cr.pending
    /\ pc' = "observe"
    /\ mem' = [spec |-> cr.spec, prev |-> cr.prev, deleting |-> cr.deleting, obs |-> EmptyObs]
    /\ stale' = FALSE
    /\ UNCHANGED <<cr, secret, db, plan, everSpec, edits, drifts, faults>>

Observe ==
    /\ pc = "observe" /\ Parses(mem.spec) /\ PasswordAvailable(mem.spec)
    /\ IF ~ db.exists
       THEN /\ pc' = IF mem.deleting THEN "removeFinalizer" ELSE "create"
            /\ UNCHANGED mem
       ELSE LET des == HandleDefaults(mem.spec)
                read == Read(mem.spec)
                obs == [read EXCEPT !.privs =
                            FilterManagedPrivileges(@, des.privs, mem.prev, mem.spec.policy)]
            IN  /\ mem' = [mem EXCEPT !.obs = obs]
                /\ pc' = CASE mem.deleting -> "delete"
                           [] ~ mem.deleting /\ UpToDate(obs, des) -> "save"
                           [] OTHER -> "update"
    /\ UNCHANGED <<cr, stale, secret, db, plan, everSpec, edits, drifts, faults>>

\* A privilege that does not parse or a missing secret ends every reconcile here.
ObserveRefuses ==
    /\ pc = "observe" /\ ~ (Parses(mem.spec) /\ PasswordAvailable(mem.spec))
    /\ Idle
    /\ UNCHANGED <<cr, secret, db, everSpec, edits, drifts, faults>>

ObserveFails ==
    /\ pc = "observe" /\ faults < MaxFaults
    /\ faults' = faults + 1
    /\ Idle
    /\ UNCHANGED <<cr, secret, db, everSpec, edits, drifts>>

RemoveFinalizer ==
    /\ pc = "removeFinalizer"
    /\ cr' = IF stale THEN cr ELSE [cr EXCEPT !.exists = FALSE, !.finalizer = FALSE]
    /\ Idle
    /\ UNCHANGED <<secret, db, everSpec, edits, drifts, faults>>

\* The finalizer and the create-pending annotation are written before Create;
\* a write of a copy that is out of date is refused.
\* (mutant: no finalizer)
AnnotateOnly(c) == [c EXCEPT !.pending = TRUE]
Announce(c) == [c EXCEPT !.finalizer = TRUE, !.pending = TRUE]

BeginCreate ==
    /\ pc = "create"
    /\ IF stale
       THEN Idle /\ UNCHANGED cr
       ELSE /\ cr' = Announce(cr)
            /\ UNCHANGED <<mem, stale>>
            /\ IF PasswordAvailable(mem.spec) /\ \A m \in mem.spec.x509 : Resolves(m)
               THEN pc' = "run" /\ plan' = CreatePlan(mem.spec, GetPassword(mem.spec))
               ELSE pc' = "endCreate" /\ UNCHANGED plan
    /\ UNCHANGED <<secret, db, everSpec, edits, drifts, faults>>

BeginUpdate ==
    /\ pc = "update"
    /\ plan' = UpdatePlan(mem.spec, mem.obs)
    /\ pc' = "run"
    /\ UNCHANGED <<cr, stale, secret, db, mem, everSpec, edits, drifts, faults>>

\* (mutant: the resource is let go without DROP USER)
DeleteNothing ==
    /\ pc = "delete"
    /\ pc' = "removeFinalizer"
    /\ UNCHANGED <<cr, stale, secret, db, mem, plan, everSpec, edits, drifts, faults>>

BeginDelete ==
    /\ pc = "delete"
    /\ plan' = DeletePlan
    /\ pc' = "run"
    /\ UNCHANGED <<cr, stale, secret, db, mem, everSpec, edits, drifts, faults>>

\* While Create runs, and only then, the annotation says so.
AfterRun == IF cr.pending THEN "endCreate" ELSE "save"

FinishRun ==
    /\ pc = "run" /\ plan = EmptyPlan
    /\ pc' = AfterRun
    /\ UNCHANGED <<cr, stale, secret, db, mem, plan, everSpec, edits, drifts, faults>>

\* The outcome of Create is recorded with retries, whatever the copy's version;
\* Create itself puts nothing into status.atProvider.
EndCreate ==
    /\ pc = "endCreate"
    /\ cr' = [cr EXCEPT !.pending = FALSE]
    /\ Idle
    /\ UNCHANGED <<secret, db, everSpec, edits, drifts, faults>>

\* The status update after Observe, Update or Delete, failed or not.
SaveStatus ==
    /\ pc = "save"
    /\ cr' = IF stale THEN cr ELSE [cr EXCEPT !.prev = mem.obs.privs]
    /\ Idle
    /\ UNCHANGED <<secret, db, everSpec, edits, drifts, faults>>

-----------------------------------------------------------------------------
(* The SQL statements. *)

Position(step) == CHOOSE i \in 1..Len(Order) : Order[i] = step
Ready(step) ==
    pc = "run" /\ \A i \in 1..Len(Order) : i < Position(step) => plan[Order[i]] = {}

Abort == pc' = AfterRun /\ plan' = EmptyPlan
Failure == faults < MaxFaults /\ faults' = faults + 1 /\ Abort

\* A statement that took effect is acknowledged, or its answer is lost and the
\* controller takes it for failed.
Ack(step, stmt) ==
    /\ \/ plan' = [plan EXCEPT ![step] = @ \ {stmt}] /\ UNCHANGED <<pc, faults>>
       \/ Failure
    /\ UNCHANGED <<cr, stale, secret, mem, everSpec, edits, drifts>>

Reject == Abort /\ UNCHANGED <<cr, stale, secret, db, mem, everSpec, edits, drifts, faults>>

StatementFails ==
    /\ pc = "run" /\ plan # EmptyPlan /\ ~ (Ready("recordPrivs") /\ plan.recordPrivs # {})
    /\ Failure
    /\ UNCHANGED <<cr, stale, secret, db, mem, everSpec, edits, drifts>>

DropUser ==
    \E s \in plan.dropUser :
        /\ Ready("dropUser")
        /\ db' = NoUser
        /\ Ack("dropUser", s)

CreateUser ==
    \E s \in plan.createUser :
        /\ Ready("createUser")
        /\ db' = NewUser(s.spec, s.pw)
        /\ Ack("createUser", s)

\* A mapping to a provider that has no resource, or to none, ends Update.
ResolveFails ==
    /\ plan.resolve # {} /\ Ready("resolve")
    /\ Reject

\* HANA refuses a second mapping of the same subject and provider.
AddIdentity(step) ==
    \E m \in plan[step] :
        /\ Ready(step)
        /\ IF Identity(m) \in db.x509
           THEN Reject
           ELSE db' = [db EXCEPT !.x509 = @ \cup {Identity(m)}] /\ Ack(step, m)

DropIdentity ==
    \E m \in plan.dropIdentity :
        /\ Ready("dropIdentity")
        /\ db' = [db EXCEPT !.x509 = @ \ {Identity(m)}]
        /\ Ack("dropIdentity", m)

GrantPrivileges ==
    \E g \in plan.grantPrivs :
        /\ Ready("grantPrivs")
        /\ db' = [db EXCEPT !.privs = GrantTo(@, g)]
        /\ Ack("grantPrivs", g)

RevokePrivileges ==
    \E g \in plan.revokePrivs :
        /\ Ready("revokePrivs")
        /\ db' = [db EXCEPT !.privs = RevokeFrom(@, g)]
        /\ Ack("revokePrivs", g)

RecordPrivileges ==
    \E ps \in plan.recordPrivs :
        /\ Ready("recordPrivs")
        /\ mem' = [mem EXCEPT !.obs.privs = ps]
        /\ plan' = [plan EXCEPT !.recordPrivs = {}]
        /\ UNCHANGED <<cr, stale, secret, db, pc, everSpec, edits, drifts, faults>>

GrantRoles(step) ==
    \E g \in plan[step] :
        /\ Ready(step)
        /\ db' = [db EXCEPT !.roles = GrantTo(@, g)]
        /\ Ack(step, g)

RevokeRoles ==
    \E g \in plan.revokeRoles :
        /\ Ready("revokeRoles")
        /\ db' = [db EXCEPT !.roles = RevokeFrom(@, g)]
        /\ Ack("revokeRoles", g)

\* ALTER USER without a clause is a syntax error.
AlterParameters ==
    \E s \in plan.params :
        /\ Ready("params")
        /\ IF Valid(s.toSet) \cup Valid(s.toClear) = {}
           THEN Reject
           ELSE /\ db' = [db EXCEPT !.params =
                            {kv \in @ : \A n \in s.toSet \cup s.toClear : kv[1] # n[1]}
                                \cup Valid(s.toSet)]
                /\ Ack("params", s)

AlterUsergroup ==
    \E g \in plan.usergroup :
        /\ Ready("usergroup")
        /\ db' = [db EXCEPT !.usergroup = g]
        /\ Ack("usergroup", g)

AlterLifetime ==
    \E b \in plan.lifetime :
        /\ Ready("lifetime")
        /\ db' = [db EXCEPT !.lifetime = b]
        /\ Ack("lifetime", b)

TogglePassword ==
    /\ "toggle" \in plan.password /\ Ready("password")
    /\ db' = [db EXCEPT !.pwEnabled = ~ mem.obs.pwEnabled]
    /\ Ack("password", "toggle")

\* The secret is read a second time, just before the statement; an empty
\* password is refused.
SetPassword ==
    /\ "set" \in plan.password /\ Ready("password")
    /\ IF GetPassword(mem.spec) = NoSecret
       THEN Reject
       ELSE db' = [db EXCEPT !.pw = GetPassword(mem.spec)] /\ Ack("password", "set")

-----------------------------------------------------------------------------
(* The environment. *)

Edited == edits < MaxEdits /\ edits' = edits + 1

\* restrictedUser is immutable; parameters may only appear or disappear.
EditSpec ==
    /\ cr.exists /\ Edited
    /\ \E s \in Specs :
        /\ s # cr.spec /\ s.restricted = cr.spec.restricted
        /\ s.params = cr.spec.params \/ {} \in {s.params, cr.spec.params}
        /\ cr' = [cr EXCEPT !.spec = s]
        /\ everSpec' = everSpec \cup s.privs
    /\ stale' = (pc # "idle")
    /\ UNCHANGED <<secret, db, pc, mem, plan, drifts, faults>>

RequestDelete ==
    /\ cr.exists /\ ~ cr.deleting /\ Edited
    /\ cr' = IF cr.finalizer THEN [cr EXCEPT !.deleting = TRUE]
                             ELSE [cr EXCEPT !.exists = FALSE]
    /\ stale' = (pc # "idle")
    /\ UNCHANGED <<secret, db, pc, mem, plan, everSpec, drifts, faults>>

ChangeSecret ==
    /\ Edited
    /\ \E p \in Passwords \cup {NoSecret} : p # secret /\ secret' = p
    /\ UNCHANGED <<cr, stale, db, pc, mem, plan, everSpec, drifts, faults>>

Drift == db.exists /\ drifts < MaxDrifts /\ drifts' = drifts + 1

DbaGrants ==
    /\ Drift
    /\ \E p \in DriftPrivs : db' = [db EXCEPT !.privs = GrantTo(@, {p})]
    /\ UNCHANGED <<cr, stale, secret, pc, mem, plan, everSpec, edits, faults>>

DbaRevokes ==
    /\ Drift
    /\ \E p \in DriftPrivs \cap db.privs : db' = [db EXCEPT !.privs = @ \ {p}]
    /\ UNCHANGED <<cr, stale, secret, pc, mem, plan, everSpec, edits, faults>>

DbaLocks ==
    /\ Drift
    /\ db' = [db EXCEPT !.locked = ~ @]
    /\ UNCHANGED <<cr, stale, secret, pc, mem, plan, everSpec, edits, faults>>

\* The provider restarts: what the API server and HANA hold is all that is left.
Crash ==
    /\ pc # "idle" /\ faults < MaxFaults
    /\ faults' = faults + 1
    /\ Idle
    /\ UNCHANGED <<cr, secret, db, everSpec, edits, drifts>>

-----------------------------------------------------------------------------
Statement ==
    \/ DropUser \/ CreateUser
    \/ ResolveFails \/ AddIdentity("createIdentity") \/ AddIdentity("addIdentity") \/ DropIdentity
    \/ GrantPrivileges \/ RevokePrivileges \/ RecordPrivileges
    \/ GrantRoles("grantRoles") \/ GrantRoles("grantAdminRoles") \/ RevokeRoles
    \/ AlterParameters \/ AlterUsergroup \/ AlterLifetime
    \/ TogglePassword \/ SetPassword

Controller ==
    \/ Reconcile \/ Observe \/ ObserveRefuses \/ RemoveFinalizer
    \/ BeginCreate \/ BeginUpdate \/ BeginDelete
    \/ Statement \/ FinishRun \/ EndCreate \/ SaveStatus

Environment ==
    \/ EditSpec \/ RequestDelete \/ ChangeSecret
    \/ DbaGrants \/ DbaRevokes \/ DbaLocks
    \/ ObserveFails \/ StatementFails \/ Crash

Next == Controller \/ Environment

Spec == Init /\ [][Next]_vars
\* The provider polls every CR and retries after every error: its steps, taken
\* together, are never put off for ever.  Nothing is assumed of the environment.
FairSpec == Spec /\ WF_vars(Controller)

-----------------------------------------------------------------------------
(* Properties. *)

CrType == [exists : BOOLEAN, spec : Specs, prev : SUBSET Priv, finalizer : BOOLEAN,
           deleting : BOOLEAN, pending : BOOLEAN]
DbType == [exists : BOOLEAN, privs : SUBSET Priv, roles : SUBSET Role,
           params : SUBSET Param, usergroup : Usergroups, x509 : SUBSET Mapping,
           lifetime : BOOLEAN, pwEnabled : BOOLEAN, pw : Passwords \cup {NoSecret},
           locked : BOOLEAN]
ObsType == [privs : SUBSET Priv, roles : SUBSET Role, params : SUBSET Param,
            usergroup : Usergroups, x509 : SUBSET Mapping, lifetime : BOOLEAN,
            pwEnabled : BOOLEAN, pwUpToDate : {"nil", "true", "false"}]
MemType == [spec : Specs, prev : SUBSET Priv, deleting : BOOLEAN, obs : ObsType]
PlanType ==
    [dropUser : SUBSET {"drop"},
     createUser : SUBSET [spec : Specs, pw : Passwords \cup {NoSecret}],
     createIdentity : SUBSET Mapping, grantPrivs : SUBSET SUBSET Priv,
     revokePrivs : SUBSET SUBSET Priv, recordPrivs : SUBSET SUBSET Priv,
     grantRoles : SUBSET SUBSET Role, grantAdminRoles : SUBSET SUBSET Role,
     revokeRoles : SUBSET SUBSET Role,
     params : SUBSET [toSet : SUBSET Param, toClear : SUBSET Param],
     usergroup : SUBSET Usergroups, resolve : SUBSET Mapping, addIdentity : SUBSET Mapping,
     dropIdentity : SUBSET Mapping, lifetime : SUBSET BOOLEAN,
     password : SUBSET {"toggle", "set"}]

\* Every variable keeps its type: the CR, the HANA user, the reconcile's copy and
\* the statements still to run.
TypeOK ==
    /\ cr \in CrType /\ db \in DbType /\ mem \in MemType /\ plan \in PlanType
    /\ stale \in BOOLEAN
    /\ secret \in Passwords \cup {NoSecret}
    /\ pc \in {"idle", "observe", "removeFinalizer", "create", "update", "delete",
               "run", "endCreate", "save"}
    /\ everSpec \subseteq Priv
    /\ edits \in Nat /\ drifts \in Nat /\ faults \in Nat

\* An unrestricted user under the strict policy always holds its default
\* privilege and the role PUBLIC: whatever the spec lists, whatever fails and
\* whenever the spec changes, Update never revokes them (handleDefaults).
DefaultsKept ==
    db.exists /\ ~ cr.spec.restricted => Default \in db.privs /\ Public \in db.roles

\* The CR goes away only after the HANA user is gone: the finalizer is written
\* before CREATE USER and removed only after Observe found no user.
NoOrphan == ~ cr.exists => ~ db.exists

\* The controller implements ManagedResource: CREATE USER only under the finalizer,
\* DROP USER only after a request to delete the CR, whatever copy of the CR a
\* reconcile works on, and the CR released only once the user is gone.
Managed == INSTANCE ManagedResource WITH
    life <- IF ~ cr.exists THEN "gone" ELSE IF cr.finalizer THEN "held" ELSE "free",
    deleting <- cr.deleting,
    object <- IF db.exists THEN "ours" ELSE "none",
    outside <- 0
UserImplements == Managed!Spec

\* Under the lax policy the provider takes a privilege from a user only if the
\* spec listed it at some time: what a DBA granted stays (FilterManagedPrivileges).
RevokesOnlyManaged ==
    [][drifts' = drifts /\ db.exists /\ db'.exists /\ mem.spec.policy = "lax" =>
            Names(db.privs) \ Names(db'.privs) \subseteq Names(everSpec)]_vars

\* HANA holds what the spec asks for; under lax it may hold more: privileges the
\* spec does not list, or the grant option of one it lists without.
GrantsMatch ==
    LET des == HandleDefaults(cr.spec) IN
    /\ \A p \in des.privs : p \in db.privs \/ [p EXCEPT !.opt = TRUE] \in db.privs
    /\ cr.spec.policy = "strict" => db.privs = des.privs
    /\ db.roles = des.roles
SettingsMatch ==
    /\ db.lifetime = cr.spec.lifetime
    /\ db.x509 = {Identity(ResolveUserMapping(m)) : m \in cr.spec.x509}
    /\ db.pwEnabled = (cr.spec.pw # "none")
    /\ cr.spec.pw # "none" => db.pw = secret
ParamsDiffer == db.params # TransformParameters(cr.spec.params)

\* What the provider cannot get past by itself: a Create of unknown outcome, a
\* secret that is missing, a privilege that does not parse.
Blocked == cr.pending \/ ~ PasswordAvailable(cr.spec) \/ ~ Parses(cr.spec)

\* A mapping that does not resolve fails Create, and Update before the identities.
\* One by reference, without a subject, or with a provider not in upper case is
\* taken for missing at every Observe: Update adds it again, HANA refuses, and the
\* lifetime check and the password, which come after it, are never brought up to date.
Unresolved == \E m \in cr.spec.x509 : ~ Resolves(m)
NeverEqual == \E m \in cr.spec.x509 : Identity(ResolveUserMapping(m)) # m

\* Once edits, drift and failures stop, either the CR is deleted together with
\* the HANA user, or HANA comes to hold the grants of the spec, and its settings
\* too unless an earlier step of Update fails for good: the parameters, for which
\* MapsBothDiff finds nothing to set, or the identities, for the reasons above or
\* because the user is locked.
Convergence ==
    <>[](\/ Blocked
         \/ IF cr.exists /\ ~ cr.deleting
            THEN \/ Unresolved /\ ~ db.exists
                 \/ /\ db.exists /\ GrantsMatch
                    /\ ParamsDiffer \/ db.usergroup = cr.spec.usergroup
                    /\ ParamsDiffer \/ db.locked \/ Unresolved \/ NeverEqual \/ SettingsMatch
            ELSE ~ cr.exists /\ ~ db.exists)
=============================================================================
