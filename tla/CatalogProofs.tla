---------------------------- MODULE CatalogProofs ----------------------------
(***************************************************************************)
(* Proofs about CatalogController, for every instance of its constants:    *)
(* its types, and that the four controllers implement ManagedResource.     *)
(***************************************************************************)
EXTENDS CatalogController, TLAPS

\* The statements, each with the arguments of its kind; only Delete sends DROP.
StmtType ==
    [op : {"create", "drop"}, arg : {{}}]
        \cup [op : {"addLdap", "dropLdap"}, arg : SUBSET LdapGroups]
        \cup [op : {"grant", "revoke"}, arg : SUBSET Privs]
        \cup [op : {"setGroup"}, arg : SUBSET (Rolegroups \cup {None})]
        \cup [op : {"setParams"}, arg : SUBSET Params]
        \cup [op : {"setAdmin"}, arg : SUBSET BOOLEAN]
Kept == {st \in StmtType : st.op # "drop"}
PlanType == Seq((SUBSET StmtType) \ {{}})
KeptPlan == Seq((SUBSET Kept) \ {{}})

Typed ==
    /\ cr \in CrType /\ mem \in MemType /\ stale \in BOOLEAN
    /\ obj \in [Schemas -> ObjectType] /\ inUse \in BOOLEAN
    /\ pc \in {"idle", "observe", "removeFinalizer", "create", "run", "endCreate"}
    /\ plan \in PlanType
    /\ edits \in Nat /\ faults \in Nat /\ drifts \in Nat

\* What the running reconcile knows of the resource.  The finalizer is there from
\* before the first statement until nothing is left, and a deletion is not taken
\* back.
CopyInv ==
    /\ cr.finalizer => cr.exists
    /\ cr.exists /\ cr.deleting => cr.finalizer
    /\ pc # "idle" /\ ~ stale => cr.exists /\ cr.spec = mem.spec
    /\ mem.deleting => cr.exists /\ cr.deleting
    /\ pc \in {"run", "endCreate"} => cr.exists /\ cr.finalizer
    /\ pc = "removeFinalizer" => mem.deleting

\* DROP is planned only for a resource that is being deleted.
DropInv ==
    /\ pc # "run" => plan = <<>>
    /\ mem.deleting \/ plan \in KeptPlan

\* The resource is released when no object of its name is the controller's.
AbsentInv ==
    pc = "removeFinalizer" => \A s \in Schemas : ~ (obj[s].exists /\ obj[s].ours)

LifeInv == CopyInv /\ DropInv /\ AbsentInv

-----------------------------------------------------------------------------
(* What the operators return. *)

LEMMA NoMemType == NoMem \in MemType
<1>1. (CHOOSE s \in Specs : TRUE) \in Specs
  BY ReconcilerAssumption
<1> QED BY <1>1 DEF NoMem, MemType

LEMMA AbsentType ==
    /\ Absent \in ObjectType /\ Absent.exists = FALSE /\ Absent.ours = FALSE
    /\ Foreign \in ObjectType /\ Foreign.exists = TRUE /\ Foreign.ours = FALSE
    /\ New \in ObjectType /\ New.exists = TRUE /\ New.ours = TRUE
<1>1. Absent \in ObjectType /\ Absent.exists = FALSE /\ Absent.ours = FALSE
  BY CatalogAssumption DEF Absent, ObjectType
<1> QED BY <1>1 DEF Foreign, New, ObjectType

LEMMA SpecFields ==
    ASSUME NEW s \in Specs
    PROVE  /\ s.kind \in Kinds /\ s.schema \in Schemas /\ s.noGrant \in BOOLEAN
           /\ s.admin \in BOOLEAN /\ s.ldap \in SUBSET LdapGroups /\ s.privs \in SUBSET Privs
           /\ s.group \in Rolegroups \cup {None} /\ s.params \in SUBSET Params
           /\ s.owner \in Owners \cup {None}
BY CatalogAssumption DEF SpecType

\* Every kind of object that CREATE makes is the controller's.
LEMMA NewObjectType ==
    ASSUME NEW s \in Specs
    PROVE  NewObject(s) \in ObjectType /\ NewObject(s).exists /\ NewObject(s).ours
<1> USE AbsentType, SpecFields
<1>1. CASE s.kind = "role"
  <2>1. NewObject(s) = NewRole(s)
    BY <1>1 DEF NewObject
  <2> QED BY <2>1 DEF NewRole, ObjectType
<1>2. CASE s.kind = "rolegroup"
  <2>1. NewObject(s) = NewRolegroup(s)
    BY <1>2 DEF NewObject
  <2> QED BY <2>1 DEF NewRolegroup, ObjectType
<1>3. CASE s.kind = "usergroup"
  <2>1. NewObject(s) = NewUsergroup(s)
    BY <1>3 DEF NewObject
  <2> QED BY <2>1 DEF NewUsergroup, ObjectType
<1>4. CASE s.kind = "dbschema"
  <2>1. NewObject(s) = NewSchema(s)
    BY <1>4 DEF NewObject
  <2>2. (IF s.owner = None THEN ProviderUser ELSE s.owner) \in Owners
    BY CatalogAssumption
  <2> QED BY <2>1, <2>2 DEF NewSchema, ObjectType
<1> QED BY <1>1, <1>2, <1>3, <1>4 DEF Kinds

\* What Read returns is an object.
LEMMA ReadType ==
    ASSUME obj \in [Schemas -> ObjectType], NEW row \in Schemas, NEW s \in Specs
    PROVE  Read(row, s) \in ObjectType
<1>1. obj[row] \in ObjectType
  OBVIOUS
<1>2. UNION {obj[t].ldap : t \in Rows} \in SUBSET LdapGroups
  <2>1. \A t \in Rows : obj[t].ldap \in SUBSET LdapGroups
    BY DEF Rows, ObjectType
  <2> QED BY <2>1
<1>3. QueryPrivileges(GetRoleName, s.schema) \in SUBSET Privs
  <2>1. \A t \in Schemas : obj[t].privs \in SUBSET Privs
    BY DEF ObjectType
  <2> QED BY <2>1, SpecFields DEF QueryPrivileges
<1>4. ReadRole(row, s) \in ObjectType
  BY <1>1, <1>2, <1>3 DEF ReadRole, ObjectType
<1> QED BY <1>1, <1>4 DEF Read

\* A plan that is put together of statements other than DROP.
LEMMA EmptyKept == <<>> \in KeptPlan
BY DEF KeptPlan

LEMMA WhenKept ==
    ASSUME NEW cond, NEW op, NEW arg, cond => Stmt(op, arg) \in Kept
    PROVE  When(cond, op, arg) \in KeptPlan
<1>1. CASE cond
  <2>1. {Stmt(op, arg)} \in (SUBSET Kept) \ {{}}
    BY <1>1
  <2>2. <<{Stmt(op, arg)}>> \in KeptPlan
    BY <2>1 DEF KeptPlan
  <2> QED BY <1>1, <2>2 DEF When
<1>2. CASE ~ cond
  BY <1>2, EmptyKept DEF When
<1> QED BY <1>1, <1>2

LEMMA PerObjectKept ==
    ASSUME NEW op \in {"grant", "revoke"}, NEW ps \in SUBSET Privs
    PROVE  PerObject(op, ps) \in KeptPlan
<1>1. CASE ps = {}
  BY <1>1, EmptyKept DEF PerObject
<1>2. CASE ps # {}
  <2> DEFINE S == {Stmt(op, {q \in ps : ObjectOf[q] = ObjectOf[p]}) : p \in ps}
  <2>1. ASSUME NEW p \in ps PROVE Stmt(op, {q \in ps : ObjectOf[q] = ObjectOf[p]}) \in Kept
    BY DEF Stmt, Kept, StmtType
  <2>2. S \subseteq Kept
    BY <2>1
  <2>3. S # {}
    BY <1>2
  <2>4. PerObject(op, ps) = <<S>>
    BY <1>2 DEF PerObject
  <2> HIDE DEF S
  <2> QED BY <2>2, <2>3, <2>4 DEF KeptPlan
<1> QED BY <1>1, <1>2

LEMMA ConcatKept ==
    ASSUME NEW p \in KeptPlan, NEW q \in KeptPlan PROVE p \o q \in KeptPlan
BY DEF KeptPlan

LEMMA KeptStatements ==
    /\ \A a \in SUBSET LdapGroups : Stmt("addLdap", a) \in Kept /\ Stmt("dropLdap", a) \in Kept
    /\ \A g \in Rolegroups \cup {None} : Stmt("setGroup", {g}) \in Kept
    /\ \A a \in SUBSET Params : Stmt("setParams", a) \in Kept
    /\ \A b \in BOOLEAN : Stmt("setAdmin", {b}) \in Kept
    /\ Stmt("create", {}) \in Kept
BY DEF Stmt, Kept, StmtType

\* Create and Update drop nothing.
LEMMA PlansKept ==
    ASSUME NEW s \in Specs, NEW o \in ObjectType
    PROVE  CreatePlan(s) \in KeptPlan /\ UpdatePlan(o, s) \in KeptPlan
<1>f. /\ o.admin \in BOOLEAN /\ o.ldap \in SUBSET LdapGroups /\ o.privs \in SUBSET Privs
      /\ o.group \in Rolegroups \cup {None} /\ o.params \in SUBSET Params
  BY DEF ObjectType
<1>1. CreatePlan(s) \in KeptPlan
  <2>1. <<{Stmt("create", {})}>> \in KeptPlan
    <3>1. {Stmt("create", {})} \in (SUBSET Kept) \ {{}}
      BY KeptStatements
    <3> QED BY <3>1 DEF KeptPlan
  <2>2. (IF s.kind = "role" THEN PerObject("grant", s.privs) ELSE <<>>) \in KeptPlan
    BY SpecFields, PerObjectKept, EmptyKept
  <2> QED BY <2>1, <2>2, ConcatKept DEF CreatePlan
<1>2. UpdateLdapGroups(o, s) \in KeptPlan
  <2>1. s.ldap \ o.ldap \in SUBSET LdapGroups /\ o.ldap \ s.ldap \in SUBSET LdapGroups
    BY <1>f, SpecFields
  <2>2. /\ NonEmpty("addLdap", s.ldap \ o.ldap) \in KeptPlan
        /\ NonEmpty("dropLdap", o.ldap \ s.ldap) \in KeptPlan
    BY <2>1, KeptStatements, WhenKept DEF NonEmpty
  <2> QED BY <2>2, ConcatKept DEF UpdateLdapGroups
<1>3. UpdatePrivileges(o, s) \in KeptPlan
  <2>1. s.privs \ o.privs \in SUBSET Privs /\ o.privs \ s.privs \in SUBSET Privs
    BY <1>f, SpecFields
  <2>2. /\ PerObject("grant", s.privs \ o.privs) \in KeptPlan
        /\ PerObject("revoke", o.privs \ s.privs) \in KeptPlan
    BY <2>1, PerObjectKept
  <2> QED BY <2>2, ConcatKept DEF UpdatePrivileges
<1>4. UpdateRolegroup(o, s) \in KeptPlan
  BY SpecFields, KeptStatements, WhenKept DEF UpdateRolegroup
<1>5. UpdateAdmin(o, s) \in KeptPlan
  BY SpecFields, KeptStatements, WhenKept DEF UpdateAdmin
<1>6. NonEmpty("setParams", MapDiffOnlyDesired(o.params, s.params)) \in KeptPlan
  <2>1. s.params \ o.params \in SUBSET Params
    BY SpecFields
  <2> QED BY <2>1, KeptStatements, WhenKept DEF NonEmpty, MapDiffOnlyDesired
<1>7. UpdatePlan(o, s) \in KeptPlan
  <2>1. CASE s.kind = "role"
    <3>1. RoleUpdate(o, s) \in KeptPlan
      BY <1>2, <1>3, <1>4, ConcatKept DEF RoleUpdate
    <3> QED BY <2>1, <3>1 DEF UpdatePlan
  <2>2. CASE s.kind = "rolegroup"
    BY <2>2, <1>5 DEF UpdatePlan
  <2>3. CASE s.kind = "usergroup"
    <3>1. UsergroupUpdate(o, s) \in KeptPlan
      BY <1>5, <1>6, ConcatKept DEF UsergroupUpdate
    <3> QED BY <2>3, <3>1 DEF UpdatePlan
  <2>4. CASE s.kind = "dbschema"
    BY <2>4, EmptyKept DEF UpdatePlan
  <2> QED BY <2>1, <2>2, <2>3, <2>4, SpecFields DEF Kinds
<1> QED BY <1>1, <1>7

LEMMA KeptIsPlan == KeptPlan \subseteq PlanType /\ DeletePlan \in PlanType
<1>1. Kept \subseteq StmtType
  BY DEF Kept
<1>2. (SUBSET Kept) \ {{}} \subseteq (SUBSET StmtType) \ {{}}
  BY <1>1
<1>3. KeptPlan \subseteq PlanType
  BY <1>2 DEF KeptPlan, PlanType
<1>4. Stmt("drop", {}) \in StmtType
  BY DEF Stmt, StmtType
<1>5. {Stmt("drop", {})} \in (SUBSET StmtType) \ {{}}
  BY <1>4
<1> QED BY <1>3, <1>5 DEF DeletePlan, PlanType

\* What is left when a statement was sent is a plan again, whatever its statements.
LEMMA RemainingType ==
    ASSUME NEW T, plan \in Seq((SUBSET T) \ {{}}), plan # <<>>, NEW st \in Head(plan)
    PROVE  Remaining(st) \in Seq((SUBSET T) \ {{}}) /\ st \in T
<1> DEFINE U == (SUBSET T) \ {{}}
<1>1. Head(plan) \in U /\ Tail(plan) \in Seq(U)
  OBVIOUS
<1>2. CASE Head(plan) = {st}
  BY <1>1, <1>2 DEF Remaining
<1>3. CASE Head(plan) # {st}
  <2>1. Head(plan) \ {st} \in U
    BY <1>1, <1>3
  <2> HIDE DEF U
  <2>2. <<Head(plan) \ {st}>> \o Tail(plan) \in Seq(U)
    BY <1>1, <2>1
  <2> QED BY <1>1, <1>3, <2>2 DEF Remaining, U
<1> QED BY <1>1, <1>2, <1>3

\* A statement changes the object of the spec's schema only: CREATE makes it the
\* controller's, DROP takes it away, the others leave both as they are.
LEMMA EffectOnOne ==
    ASSUME obj \in [Schemas -> ObjectType], NEW st \in StmtType, NEW s \in Specs
    PROVE  \E o \in ObjectType :
                /\ Effect(st, s) = [obj EXCEPT ![s.schema] = o]
                /\ st.op = "create" => o.exists /\ o.ours
                /\ st.op = "drop" => ~ o.exists
                /\ st.op \notin {"create", "drop"} => /\ o.exists = obj[s.schema].exists
                                                     /\ o.ours = obj[s.schema].ours
<1> DEFINE old == obj[s.schema]
           Good(o) == /\ o \in ObjectType /\ Effect(st, s) = [obj EXCEPT ![s.schema] = o]
                      /\ o.exists = old.exists /\ o.ours = old.ours
<1>a. old \in ObjectType
  BY SpecFields
<1>1. CASE st.op = "create"
  <2>1. Effect(st, s) = [obj EXCEPT ![s.schema] = NewObject(s)]
    BY <1>1 DEF Effect
  <2> QED BY <1>1, <2>1, NewObjectType
<1>2. CASE st.op = "drop"
  <2>1. Effect(st, s) = [obj EXCEPT ![s.schema] = Absent]
    BY <1>2 DEF Effect
  <2> QED BY <1>2, <2>1, AbsentType
<1>3. CASE st.op = "addLdap"
  <2> DEFINE o == [old EXCEPT !.ldap = @ \cup st.arg]
  <2>1. st.arg \in SUBSET LdapGroups
    BY <1>3 DEF StmtType
  <2>2. Good(o)
    BY <1>3, <1>a, <2>1 DEF Effect, ObjectType
  <2> QED BY <1>3, <2>2
<1>4. CASE st.op = "dropLdap"
  <2> DEFINE o == [old EXCEPT !.ldap = @ \ st.arg]
  <2>2. Good(o)
    BY <1>4, <1>a DEF Effect, ObjectType
  <2> QED BY <1>4, <2>2
<1>5. CASE st.op = "grant"
  <2> DEFINE o == [old EXCEPT !.privs = @ \cup st.arg]
  <2>1. st.arg \in SUBSET Privs
    BY <1>5 DEF StmtType
  <2>2. Good(o)
    BY <1>5, <1>a, <2>1 DEF Effect, ObjectType
  <2> QED BY <1>5, <2>2
<1>6. CASE st.op = "revoke"
  <2> DEFINE o == [old EXCEPT !.privs = @ \ st.arg]
  <2>2. Good(o)
    BY <1>6, <1>a DEF Effect, ObjectType
  <2> QED BY <1>6, <2>2
<1>7. CASE st.op = "setGroup"
  <2> DEFINE o == [old EXCEPT !.group = s.group]
  <2>2. Good(o)
    BY <1>7, <1>a, SpecFields DEF Effect, ObjectType
  <2> QED BY <1>7, <2>2
<1>8. CASE st.op = "setParams"
  <2> DEFINE o == [old EXCEPT !.params = SetParams(@, st.arg)]
  <2>1. old.params \in SUBSET Params /\ st.arg \in SUBSET Params
    BY <1>8, <1>a DEF StmtType, ObjectType
  <2>2. SetParams(old.params, st.arg) \in SUBSET Params
    BY <2>1 DEF SetParams
  <2>3. Good(o)
    BY <1>8, <1>a, <2>2 DEF Effect, ObjectType
  <2> QED BY <1>8, <2>3
<1>9. CASE st.op = "setAdmin"
  <2> DEFINE o == [old EXCEPT !.admin = s.admin]
  <2>2. Good(o)
    BY <1>9, <1>a, SpecFields DEF Effect, ObjectType
  <2> QED BY <1>9, <2>2
<1> QED BY <1>1, <1>2, <1>3, <1>4, <1>5, <1>6, <1>7, <1>8, <1>9 DEF StmtType

\* What a DBA makes of an object is an object, and not the controller's unless it was.
LEMMA AlteredType ==
    ASSUME NEW k \in Kinds, NEW o \in ObjectType, NEW n \in Altered(k, o)
    PROVE  n \in ObjectType /\ n.exists = o.exists /\ (n.ours => o.ours)
<1>f. /\ o.admin \in BOOLEAN /\ o.params \in SUBSET Params /\ KnownParams \subseteq Params
      /\ KnownRolegroups \cup {None} \subseteq Rolegroups \cup {None}
  BY CatalogAssumption DEF ObjectType
<1>1. CASE k = "role"
  <2>1. \/ n \in {[o EXCEPT !.privs = {}], [o EXCEPT !.ldap = {}]}
        \/ \E g \in KnownRolegroups \cup {None} : n = [o EXCEPT !.group = g]
    BY <1>1 DEF Altered
  <2> QED BY <2>1, <1>f DEF ObjectType
<1>2. CASE k = "rolegroup"
  <2>1. n = [o EXCEPT !.admin = ~ @]
    BY <1>2 DEF Altered
  <2> QED BY <2>1, <1>f DEF ObjectType
<1>3. CASE k = "usergroup"
  <2>1. \/ n \in {[o EXCEPT !.admin = ~ @], [o EXCEPT !.params = {}]}
        \/ \E kv \in KnownParams : n = [o EXCEPT !.params = SetParams(@, {kv})]
    BY <1>3 DEF Altered
  <2>2. \A kv \in KnownParams : SetParams(o.params, {kv}) \in SUBSET Params
    BY <1>f DEF SetParams
  <2> QED BY <2>1, <2>2, <1>f DEF ObjectType
<1>4. CASE k = "dbschema"
  <2>1. \E u \in Owners : n = [o EXCEPT !.owner = u, !.ours = FALSE]
    BY <1>4 DEF Altered
  <2> QED BY <2>1 DEF ObjectType
<1> QED BY <1>1, <1>2, <1>3, <1>4 DEF Kinds

\* The DBA changes one object as well.
LEMMA DbaOnOne ==
    ASSUME obj \in [Schemas -> ObjectType], cr.spec \in Specs, DbaChanges
    PROVE  \E s \in Schemas, o \in ObjectType :
                /\ obj' = [obj EXCEPT ![s] = o]
                /\ o.exists /\ o.ours => obj[s].exists /\ obj[s].ours
<1>1. PICK s \in IF cr.spec.kind = "role" THEN Schemas ELSE {None} :
        \E o \in IF obj[s].exists THEN {Absent} \cup Altered(cr.spec.kind, obj[s])
                 ELSE {Foreign} :
            obj' = [obj EXCEPT ![s] = o]
  BY DEF DbaChanges
<1>2. s \in Schemas /\ obj[s] \in ObjectType /\ cr.spec.kind \in Kinds
  BY CatalogAssumption, SpecFields
<1>3. PICK o \in {Absent, Foreign} \cup Altered(cr.spec.kind, obj[s]) :
        obj' = [obj EXCEPT ![s] = o]
  BY <1>1
<1>4. CASE o \in {Foreign, Absent}
  <2>1. o \in ObjectType /\ ~ o.ours
    BY <1>4, AbsentType
  <2> QED BY <1>2, <1>3, <2>1
<1>5. CASE o \in Altered(cr.spec.kind, obj[s])
  <2>1. o \in ObjectType /\ o.exists = obj[s].exists /\ (o.ours => obj[s].ours)
    BY <1>2, <1>5, AlteredType
  <2> QED BY <1>2, <1>3, <2>1
<1> QED BY <1>3, <1>4, <1>5

-----------------------------------------------------------------------------
(* The types are kept. *)

LEMMA TypedInit == Init => Typed
<1> SUFFICES ASSUME Init PROVE Typed
  OBVIOUS
<1>1. cr \in CrType /\ mem \in MemType
  BY NoMemType DEF Init, ReconcilerInit, CrType
<1>2. obj \in [Schemas -> ObjectType]
  <2>1. PICK o \in {Absent, Foreign} : obj = [s \in Schemas |-> IF s = None THEN o ELSE Absent]
    BY DEF Init
  <2> QED BY <2>1, AbsentType
<1> QED BY <1>1, <1>2, EmptyKept, KeptIsPlan DEF Init, ReconcilerInit, Typed

LEMMA TypedStep == Typed /\ [Next]_vars => Typed'
<1> SUFFICES ASSUME Typed, [Next]_vars PROVE Typed'
  OBVIOUS
<1>a. <<>> \in PlanType
  BY EmptyKept, KeptIsPlan
<1>b. Stop => mem' \in MemType /\ pc' = "idle" /\ stale' \in BOOLEAN
  BY NoMemType DEF Stop
<1>m. mem.spec \in Specs /\ \A row \in Rows : row \in Schemas
  BY DEF Typed, MemType, Rows
<1>1. CASE Reconcile
  <2>1. mem' \in MemType
    BY <1>1 DEF Reconcile, Start, MemType, CrType, Typed
  <2> QED BY <1>1, <2>1 DEF Reconcile, Start, Typed
<1>2. CASE ObserveAbsent
  BY <1>2 DEF ObserveAbsent, NotFound, Typed
<1>3. CASE Observe
  <2>1. cr' \in CrType
    BY <1>3 DEF Observe, CrType, Typed
  <2>2. PICK row \in Rows :
            LET obs == Read(row, mem.spec) IN
            \/ pc' = "run" /\ plan' = DeletePlan /\ UNCHANGED <<stale, mem>>
            \/ Idle
            \/ pc' = "run" /\ plan' = UpdatePlan(obs, mem.spec) /\ UNCHANGED <<stale, mem>>
    BY <1>3 DEF Observe
  <2>3. Read(row, mem.spec) \in ObjectType
    BY <1>m, ReadType DEF Typed
  <2>4. UpdatePlan(Read(row, mem.spec), mem.spec) \in PlanType
    BY <1>m, <2>3, PlansKept, KeptIsPlan
  <2>5. mem' \in MemType /\ pc' \in {"idle", "run"} /\ stale' \in BOOLEAN /\ plan' \in PlanType
    BY <2>2, <2>4, <1>a, <1>b, KeptIsPlan DEF Idle, Typed
  <2> QED BY <1>3, <2>1, <2>5 DEF Observe, Typed
<1>4. CASE ObserveFails
  BY <1>4, <1>a, <1>b DEF ObserveFails, Fault, Idle, Typed
<1>5. CASE RemoveFinalizer
  <2>1. cr' \in CrType
    BY <1>5 DEF RemoveFinalizer, Release, CrType, Typed
  <2> QED BY <1>5, <2>1, <1>a, <1>b DEF RemoveFinalizer, Release, Typed
<1>6. CASE BeginCreate
  <2>1. cr' \in CrType
    BY <1>6 DEF BeginCreate, Claim, CrType, Typed
  <2>2. CreatePlan(mem.spec) \in PlanType
    BY <1>m, PlansKept, KeptIsPlan, AbsentType
  <2>3. mem' \in MemType /\ pc' \in {"idle", "run"} /\ stale' \in BOOLEAN /\ plan' \in PlanType
    BY <1>6, <2>2, <1>a, <1>b DEF BeginCreate, Idle, Typed
  <2> QED BY <1>6, <2>1, <2>3 DEF BeginCreate, Typed
<1>7. CASE Statement
  <2>1. PICK st \in Head(plan) :
            /\ obj' = Effect(st, mem.spec)
            /\ \/ plan' = Remaining(st) /\ UNCHANGED <<stale, pc, mem, faults>>
               \/ Fault /\ Return /\ plan' = <<>>
    BY <1>7 DEF Statement
  <2>2. st \in StmtType /\ Remaining(st) \in PlanType
    BY <1>7, RemainingType DEF Statement, PlanType, Typed
  <2>3. obj' \in [Schemas -> ObjectType]
    BY <2>1, <2>2, <1>m, EffectOnOne DEF Typed
  <2>4. /\ mem' \in MemType /\ pc' \in {"idle", "run", "endCreate"} /\ stale' \in BOOLEAN
        /\ plan' \in PlanType /\ faults' \in Nat
    BY <1>7, <2>1, <2>2, <1>a, <1>b DEF Statement, Return, Fault, Typed
  <2> QED BY <1>7, <2>3, <2>4 DEF Statement, Typed
<1>8. CASE StatementFails
  <2>1. /\ mem' \in MemType /\ pc' \in {"idle", "endCreate"} /\ stale' \in BOOLEAN
        /\ faults' \in Nat
    BY <1>8, <1>b DEF StatementFails, Return, Fault, Typed
  <2> QED BY <1>8, <2>1, <1>a DEF StatementFails, Typed
<1>9. CASE Finish
  <2>1. mem' \in MemType /\ pc' \in {"idle", "endCreate"} /\ stale' \in BOOLEAN
    BY <1>9, <1>b DEF Finish, Return, Typed
  <2> QED BY <1>9, <2>1 DEF Finish, Typed
<1>10. CASE EndCreate
  <2>1. cr' \in CrType
    BY <1>10 DEF EndCreate, RecordCreate, CrType, Typed
  <2> QED BY <1>10, <2>1, <1>b DEF EndCreate, RecordCreate, Typed
<1>11. CASE EditSpec
  <2>1. cr' \in CrType /\ drifts' \in Nat
    BY <1>11 DEF EditSpec, Edit, Drifted, CrType, Typed
  <2> QED BY <1>11, <2>1 DEF EditSpec, Edit, Edited, Typed
<1>12. CASE RequestDelete
  <2>1. cr' \in CrType
    BY <1>12 DEF RequestDelete, Delete, CrType, Typed
  <2> QED BY <1>12, <2>1 DEF RequestDelete, Delete, Edited, Typed
<1>13. CASE UseChanges
  BY <1>13 DEF UseChanges, Edited, Typed
<1>14. CASE DbaChanges
  <2>1. obj' \in [Schemas -> ObjectType]
    BY <1>14, DbaOnOne DEF Typed, CrType
  <2> QED BY <1>14, <2>1 DEF DbaChanges, Drifted, Typed
<1>15. CASE Crash
  <2>1. Stop /\ faults' \in Nat
    BY <1>15 DEF Crash, Die, Fault, Typed
  <2> QED BY <1>15, <2>1, <1>a, <1>b DEF Crash, Die, Typed
<1>16. CASE UNCHANGED vars
  BY <1>16 DEF vars, Typed
<1> QED BY <1>1, <1>2, <1>3, <1>4, <1>5, <1>6, <1>7, <1>8, <1>9, <1>10, <1>11, <1>12, <1>13,
          <1>14, <1>15, <1>16 DEF Next, Controller, Environment

LEMMA TypedCorrect == Spec => []Typed
BY TypedInit, TypedStep, PTL DEF Spec

\* Every reachable state is well typed, and a reconcile is never left with an empty
\* set of statements to send.
THEOREM CatalogTypeCorrect == Spec => []CatalogTypeOK
<1>1. ASSUME Typed, NEW i \in DOMAIN plan
      PROVE  plan[i] # {} /\ \A st \in plan[i] : st.op \in Ops
  <2>1. plan[i] \in (SUBSET StmtType) \ {{}}
    BY <1>1 DEF Typed, PlanType
  <2>2. \A st \in StmtType : st.op \in Ops
    BY DEF StmtType, Ops
  <2> QED BY <2>1, <2>2
<1>2. Typed => CatalogTypeOK
  BY <1>1 DEF Typed, CatalogTypeOK
<1> QED BY <1>2, TypedCorrect, PTL

-----------------------------------------------------------------------------
(* The life of an object. *)

LEMMA LifeInit == Init => LifeInv
<1> SUFFICES ASSUME Init PROVE LifeInv
  OBVIOUS
<1>1. pc = "idle" /\ mem.deleting = FALSE /\ cr.finalizer = FALSE /\ cr.deleting = FALSE
  BY DEF Init, ReconcilerInit, NoMem
<1>2. plan = <<>>
  BY DEF Init
<1> QED BY <1>1, <1>2, EmptyKept DEF LifeInv, CopyInv, DropInv, AbsentInv

LEMMA CopyStep == Typed /\ CopyInv /\ [Next]_vars => CopyInv'
<1> SUFFICES ASSUME Typed, CopyInv, [Next]_vars PROVE CopyInv'
  OBVIOUS
<1>a. cr \in CrType /\ mem \in MemType /\ stale \in BOOLEAN
  BY DEF Typed
<1>b. Stop => pc' = "idle" /\ mem'.deleting = FALSE
  BY DEF Stop, NoMem
<1>c. UNCHANGED <<cr, stale, pc, mem>> => CopyInv'
  BY DEF CopyInv
<1>d. UNCHANGED cr /\ Stop => CopyInv'
  BY <1>b DEF CopyInv
<1>1. CASE Reconcile
  BY <1>1, <1>a DEF Reconcile, Start, CopyInv, CrType
<1>2. CASE ObserveAbsent
  BY <1>2, <1>a DEF ObserveAbsent, NotFound, CopyInv, MemType
<1>3. CASE Observe
  <2>1. CASE UNCHANGED cr /\ Idle
    BY <2>1, <1>d DEF Idle
  <2>2. CASE mem.deleting /\ pc' = "run" /\ UNCHANGED <<cr, stale, mem>>
    BY <1>3, <2>2 DEF Observe, CopyInv
  <2>3. CASE /\ ~ FinalizerRefused /\ cr' = [cr EXCEPT !.finalizer = TRUE]
             /\ (pc' = "run" /\ UNCHANGED <<stale, mem>>) \/ Idle
    <3>1. cr.exists /\ cr'.exists /\ cr'.finalizer /\ cr'.spec = cr.spec /\ cr'.deleting = cr.deleting
      BY <1>3, <2>3, <1>a DEF Observe, FinalizerRefused, CopyInv, CrType
    <3> QED BY <1>3, <2>3, <3>1, <1>b DEF Observe, CopyInv, Idle
  <2> QED BY <1>3, <2>1, <2>2, <2>3 DEF Observe
<1>4. CASE ObserveFails \/ Crash
  BY <1>4, <1>d DEF ObserveFails, Idle, Crash, Die
<1>5. CASE RemoveFinalizer
  <2>1. Stop /\ (UNCHANGED cr \/ (~ cr'.exists /\ ~ cr'.finalizer))
    BY <1>5, <1>a DEF RemoveFinalizer, Release, CrType
  <2> QED BY <2>1, <1>b DEF CopyInv
<1>6. CASE BeginCreate
  <2>1. CASE stale
    BY <1>6, <2>1, <1>d DEF BeginCreate, Idle
  <2>2. CASE ~ stale
    <3>1. cr.exists /\ cr'.exists /\ cr'.finalizer /\ cr'.spec = cr.spec /\ cr'.deleting = cr.deleting
      BY <1>6, <2>2, <1>a DEF BeginCreate, Claim, CopyInv, CrType
    <3>2. pc' = "run" /\ UNCHANGED <<stale, mem>>
      BY <1>6, <2>2 DEF BeginCreate
    <3> QED BY <1>6, <3>1, <3>2 DEF BeginCreate, CopyInv
  <2> QED BY <2>1, <2>2
<1>7. CASE Statement \/ StatementFails \/ Finish
  <2>1. /\ UNCHANGED cr /\ pc = "run"
        /\ \/ Stop
           \/ pc' \in {"run", "endCreate"} /\ UNCHANGED <<stale, mem>>
    BY <1>7 DEF Statement, StatementFails, Finish, Return
  <2> QED BY <2>1, <1>b DEF CopyInv
<1>8. CASE EndCreate
  <2>1. /\ Stop /\ cr'.exists = cr.exists /\ cr'.finalizer = cr.finalizer
        /\ cr'.deleting = cr.deleting
    BY <1>8, <1>a DEF EndCreate, RecordCreate, CrType
  <2> QED BY <2>1, <1>b DEF CopyInv
<1>9. CASE UseChanges \/ DbaChanges \/ UNCHANGED vars
  BY <1>9, <1>c DEF UseChanges, DbaChanges, vars
<1>10. CASE EditSpec
  <2>1. /\ cr'.exists = cr.exists /\ cr'.finalizer = cr.finalizer
        /\ cr'.deleting = cr.deleting /\ stale' = (pc # "idle") /\ UNCHANGED <<pc, mem>>
    BY <1>10, <1>a DEF EditSpec, Edit, CrType
  <2> QED BY <2>1 DEF CopyInv
<1>11. CASE RequestDelete
  <2>1. /\ cr.exists /\ ~ cr.deleting /\ stale' = (pc # "idle") /\ UNCHANGED <<pc, mem>>
        /\ \/ cr.finalizer /\ cr'.exists /\ cr'.finalizer /\ cr'.deleting
           \/ ~ cr.finalizer /\ ~ cr'.exists /\ ~ cr'.finalizer
    BY <1>11, <1>a DEF RequestDelete, Delete, CrType
  <2> QED BY <2>1 DEF CopyInv
<1> QED BY <1>1, <1>2, <1>3, <1>4, <1>5, <1>6, <1>7, <1>8, <1>9, <1>10, <1>11
       DEF Next, Controller, Environment

LEMMA DropStep == Typed /\ DropInv /\ [Next]_vars => DropInv'
<1> SUFFICES ASSUME Typed, DropInv, [Next]_vars PROVE DropInv'
  OBVIOUS
<1>m. mem.spec \in Specs /\ \A row \in Rows : row \in Schemas
  BY DEF Typed, MemType, Rows
<1>a. plan' = <<>> => DropInv'
  BY EmptyKept DEF DropInv
<1>b. UNCHANGED <<pc, plan, mem>> => DropInv'
  BY DEF DropInv
<1>1. CASE \/ Reconcile \/ ObserveAbsent \/ RemoveFinalizer \/ ObserveFails \/ Crash
           \/ StatementFails \/ Finish \/ EndCreate
  <2>1. plan' = <<>>
    BY <1>1 DEF Reconcile, Start, ObserveAbsent, NotFound, RemoveFinalizer, ObserveFails, Idle,
           Crash, StatementFails, Finish, EndCreate, RecordCreate, DropInv
  <2> QED BY <2>1, <1>a
<1>2. CASE Observe
  <2>1. PICK row \in Rows :
            \/ mem.deleting /\ pc' = "run" /\ UNCHANGED mem
            \/ plan' = <<>>
            \/ pc' = "run" /\ plan' = UpdatePlan(Read(row, mem.spec), mem.spec)
    BY <1>2 DEF Observe, Idle
  <2>2. UpdatePlan(Read(row, mem.spec), mem.spec) \in KeptPlan
    BY <1>m, ReadType, PlansKept DEF Typed
  <2> QED BY <2>1, <2>2, <1>a DEF DropInv
<1>3. CASE BeginCreate
  <2>1. plan' = <<>> \/ (pc' = "run" /\ plan' = CreatePlan(mem.spec))
    BY <1>3 DEF BeginCreate, Idle
  <2>2. CreatePlan(mem.spec) \in KeptPlan
    BY <1>m, PlansKept, AbsentType
  <2> QED BY <2>1, <2>2, <1>a DEF DropInv
<1>4. CASE Statement
  <2>1. PICK st \in Head(plan) :
            plan' = <<>> \/ (plan' = Remaining(st) /\ UNCHANGED <<pc, mem>>)
    BY <1>4 DEF Statement
  <2>2. plan \in KeptPlan => Remaining(st) \in KeptPlan
    BY <1>4, RemainingType DEF Statement, KeptPlan
  <2> QED BY <1>4, <2>1, <2>2, <1>a DEF Statement, DropInv
<1>5. CASE EditSpec \/ RequestDelete \/ UseChanges \/ DbaChanges \/ UNCHANGED vars
  BY <1>5, <1>b DEF EditSpec, Edit, RequestDelete, Delete, UseChanges, DbaChanges, vars
<1> QED BY <1>1, <1>2, <1>3, <1>4, <1>5 DEF Next, Controller, Environment

LEMMA AbsentStep == Typed /\ AbsentInv /\ [Next]_vars => AbsentInv'
<1> SUFFICES ASSUME Typed, AbsentInv, [Next]_vars PROVE AbsentInv'
  OBVIOUS
<1>a. pc' # "removeFinalizer" => AbsentInv'
  BY DEF AbsentInv
<1>1. CASE \/ Reconcile \/ Observe \/ RemoveFinalizer \/ ObserveFails \/ Crash \/ BeginCreate
           \/ Statement \/ StatementFails \/ Finish \/ EndCreate
  <2>1. pc' # "removeFinalizer"
    BY <1>1 DEF Reconcile, Start, Observe, RemoveFinalizer, Release, ObserveFails, Idle, Stop, Crash,
           Die, BeginCreate, Statement, StatementFails, Finish, Return, EndCreate, RecordCreate
  <2> QED BY <2>1, <1>a
<1>2. CASE ObserveAbsent
  BY <1>2 DEF ObserveAbsent, Rows, AbsentInv
<1>3. CASE EditSpec \/ RequestDelete \/ UseChanges \/ UNCHANGED vars
  BY <1>3 DEF EditSpec, Edit, RequestDelete, Delete, UseChanges, vars, AbsentInv
<1>4. CASE DbaChanges
  <2>1. UNCHANGED pc
    BY <1>4 DEF DbaChanges
  <2>2. PICK s \in Schemas, o \in ObjectType :
                /\ obj' = [obj EXCEPT ![s] = o]
                /\ o.exists /\ o.ours => obj[s].exists /\ obj[s].ours
    BY <1>4, DbaOnOne DEF Typed, CrType
  <2> QED BY <2>1, <2>2 DEF AbsentInv, Typed
<1> QED BY <1>1, <1>2, <1>3, <1>4 DEF Next, Controller, Environment

LEMMA LifeCorrect == Spec => []LifeInv
<1>1. Typed /\ LifeInv /\ [Next]_vars => LifeInv'
  BY CopyStep, DropStep, AbsentStep DEF LifeInv
<1> QED BY <1>1, LifeInit, TypedCorrect, PTL DEF Spec

-----------------------------------------------------------------------------
(* The refinement. *)

LEMMA ManagedInit == Init => Managed!Init
<1> SUFFICES ASSUME Init PROVE Managed!Init
  OBVIOUS
<1>1. cr.exists /\ ~ cr.finalizer /\ ~ cr.deleting /\ cr.spec \in Specs /\ drifts = 0
  BY DEF Init, ReconcilerInit
<1>2. cr.spec.schema \in Schemas
  BY <1>1, SpecFields
<1>3. PICK o \in {Absent, Foreign} : obj = [s \in Schemas |-> IF s = None THEN o ELSE Absent]
  BY DEF Init
<1>4. ~ obj[cr.spec.schema].ours
  BY <1>2, <1>3, AbsentType
<1> QED BY <1>1, <1>4 DEF Managed!Init

LEMMA ManagedStep ==
    Typed /\ LifeInv /\ [Next]_vars => [Managed!Next]_(Managed!vars)
<1> SUFFICES ASSUME Typed, LifeInv, [Next]_vars
             PROVE  Managed!Next \/ UNCHANGED Managed!vars
  BY DEF Managed!vars
<1> DEFINE own == obj[cr.spec.schema]
           Frame == cr'.exists = cr.exists /\ cr'.finalizer = cr.finalizer /\ cr'.deleting = cr.deleting
           Object == own'.exists = own.exists /\ own'.ours = own.ours
<1>a. /\ cr \in CrType /\ cr.spec \in Specs /\ mem.spec \in Specs
      /\ obj \in [Schemas -> ObjectType] /\ cr.spec.schema \in Schemas
      /\ mem.spec.schema \in Schemas
  BY SpecFields DEF Typed, CrType, MemType
<1>s. Frame /\ Object /\ UNCHANGED drifts => UNCHANGED Managed!vars
  BY DEF Managed!vars
<1>d. Frame /\ drifts' = drifts + 1 => Managed!Next
  BY DEF Managed!Next, Managed!Disturb
<1>1. CASE \/ Reconcile \/ ObserveAbsent \/ StatementFails \/ Finish \/ ObserveFails
           \/ UseChanges \/ Crash \/ UNCHANGED vars
  <2>1. UNCHANGED <<cr, obj, drifts>>
    BY <1>1 DEF Reconcile, Start, ObserveAbsent, NotFound, StatementFails, Finish, ObserveFails,
           UseChanges, Crash, Die, vars
  <2> QED BY <2>1, <1>s
<1>2. CASE EndCreate
  <2>1. Frame /\ cr'.spec = cr.spec /\ UNCHANGED <<obj, drifts>>
    BY <1>2, <1>a DEF EndCreate, RecordCreate, CrType
  <2> QED BY <2>1, <1>s
<1>3. CASE Observe \/ BeginCreate
  <2>1. UNCHANGED <<obj, drifts>>
    BY <1>3 DEF Observe, BeginCreate
  <2>2. \/ UNCHANGED cr
        \/ /\ cr.exists /\ cr'.exists /\ cr'.finalizer = TRUE /\ cr'.spec = cr.spec
           /\ cr'.deleting = cr.deleting
    <3>1. \/ UNCHANGED cr
          \/ ~ FinalizerRefused /\ cr' = [cr EXCEPT !.finalizer = TRUE]
          \/ ~ stale /\ Claim
      BY <1>3 DEF Observe, BeginCreate
    <3>2. pc # "idle"
      BY <1>3 DEF Observe, BeginCreate
    <3> QED BY <3>1, <3>2, <1>a DEF Claim, FinalizerRefused, CrType, LifeInv, CopyInv
  <2>3. CASE UNCHANGED cr
    BY <2>1, <2>3, <1>s
  <2>4. CASE cr.finalizer /\ ~ UNCHANGED cr
    <3>1. Frame /\ cr'.spec = cr.spec
      BY <2>2, <2>4, <1>a DEF CrType
    <3> QED BY <2>1, <3>1, <1>s
  <2>5. CASE ~ cr.finalizer /\ ~ UNCHANGED cr
    <3>1. Managed!Hold
      BY <2>1, <2>2, <2>5 DEF Managed!Hold
    <3> QED BY <3>1 DEF Managed!Next
  <2> QED BY <2>3, <2>4, <2>5
<1>4. CASE RemoveFinalizer
  <2>1. CASE stale
    BY <1>4, <2>1, <1>s DEF RemoveFinalizer, Release
  <2>2. CASE ~ stale
    <3>1. cr.exists /\ cr.finalizer /\ cr.deleting /\ ~ (own.exists /\ own.ours)
      BY <1>4, <2>2, <1>a DEF RemoveFinalizer, Release, LifeInv, CopyInv, AbsentInv
    <3>2. /\ ~ cr'.exists /\ cr'.deleting = cr.deleting /\ cr'.spec = cr.spec
          /\ UNCHANGED <<obj, drifts>>
      BY <1>4, <2>2, <1>a DEF RemoveFinalizer, Release, CrType
    <3>3. Managed!Release
      BY <3>1, <3>2 DEF Managed!Release
    <3> QED BY <3>3 DEF Managed!Next
  <2> QED BY <2>1, <2>2
<1>5. CASE Statement
  <2>1. PICK st \in Head(plan) : Accepts(st, mem.spec) /\ obj' = Effect(st, mem.spec)
    BY <1>5 DEF Statement
  <2>2. pc = "run" /\ plan # <<>> /\ UNCHANGED <<cr, drifts>>
    BY <1>5 DEF Statement
  <2>3. cr.exists /\ cr.finalizer
    BY <2>2 DEF LifeInv, CopyInv
  <2>4. st \in StmtType
    BY <2>2, RemainingType DEF Typed, PlanType
  <2>5. st.op = "drop" => cr.deleting
    <3>1. plan \in KeptPlan => st \in Kept
      BY <2>2, RemainingType DEF KeptPlan
    <3> QED BY <3>1 DEF Kept, LifeInv, DropInv, CopyInv
  <2> DEFINE n == mem.spec.schema
  <2>6. PICK o \in ObjectType :
                /\ obj' = [obj EXCEPT ![n] = o]
                /\ st.op = "create" => o.exists /\ o.ours
                /\ st.op = "drop" => ~ o.exists
                /\ st.op \notin {"create", "drop"} => o.exists = obj[n].exists /\ o.ours = obj[n].ours
    BY <2>1, <2>4, <1>a, EffectOnOne
  <2>7. CASE n # cr.spec.schema
    <3>1. own' = own
      BY <2>2, <2>6, <2>7, <1>a
    <3> QED BY <2>2, <3>1, <1>s
  <2>8. CASE n = cr.spec.schema
    <3>1. own' = o /\ own.exists = (st.op # "create")
      BY <2>1, <2>2, <2>6, <2>8, <1>a DEF Accepts
    <3>2. CASE st.op \notin {"create", "drop"}
      BY <2>2, <2>6, <2>8, <3>1, <3>2, <1>s
    <3>3. CASE st.op = "create"
      <4>1. Managed!Create
        BY <2>2, <2>3, <2>6, <3>1, <3>3 DEF Managed!Create
      <4> QED BY <4>1 DEF Managed!Next
    <3>4. CASE st.op = "drop"
      <4>1. Managed!Drop
        BY <2>2, <2>3, <2>5, <2>6, <3>1, <3>4 DEF Managed!Drop
      <4> QED BY <4>1 DEF Managed!Next
    <3> QED BY <3>2, <3>3, <3>4
  <2> QED BY <2>7, <2>8
<1>6. CASE EditSpec
  <2>1. Frame /\ UNCHANGED obj
    BY <1>6, <1>a DEF EditSpec, Edit, CrType
  <2>2. (cr'.spec.schema = cr.spec.schema /\ UNCHANGED drifts) \/ drifts' = drifts + 1
    BY <1>6, <1>a DEF EditSpec, Edit, Drifted, CrType
  <2> QED BY <2>1, <2>2, <1>s, <1>d
<1>7. CASE RequestDelete
  <2>1. cr.exists /\ ~ cr.deleting /\ UNCHANGED <<obj, drifts>>
    BY <1>7 DEF RequestDelete, Delete
  <2>2. /\ cr'.spec = cr.spec
        /\ \/ cr.finalizer /\ cr'.exists /\ cr'.finalizer /\ cr'.deleting = TRUE
           \/ ~ cr.finalizer /\ ~ cr'.exists /\ cr'.deleting = cr.deleting
    BY <1>7, <1>a DEF RequestDelete, Delete, CrType
  <2>3. Managed!RequestDelete
    BY <2>1, <2>2 DEF Managed!RequestDelete
  <2> QED BY <2>3 DEF Managed!Next
<1>8. CASE DbaChanges
  <2>1. Frame /\ drifts' = drifts + 1
    BY <1>8 DEF DbaChanges, Drifted
  <2> QED BY <2>1, <1>d
<1> QED BY <1>1, <1>2, <1>3, <1>4, <1>5, <1>6, <1>7, <1>8 DEF Next, Controller, Environment

\* Every behaviour of the Role, Rolegroup, Usergroup and DbSchema controllers is one
\* of ManagedResource, for all specs and any number of edits, changes by a DBA,
\* failures and restarts.
THEOREM CatalogRefines == Spec => CatalogImplements
BY ManagedInit, ManagedStep, TypedCorrect, LifeCorrect, PTL
   DEF Spec, CatalogImplements, Managed!Spec
=============================================================================
