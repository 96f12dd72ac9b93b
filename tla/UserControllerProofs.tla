------------------------- MODULE UserControllerProofs -------------------------
(***************************************************************************)
(* Proofs about UserController, for every instance of its constants: its   *)
(* types; no HANA user without its CR, nothing but managed privileges      *)
(* revoked under lax, the defaults kept under strict; and that it          *)
(* implements ManagedResource.                                             *)
(***************************************************************************)
EXTENDS UserController, TLAPS

-----------------------------------------------------------------------------
(* What the operators return. *)

\* Every statement of a grouped list covers privileges of that list only.
LEMMA GroupsSubset ==
    ASSUME NEW S PROVE Groups(S) \subseteq SUBSET S
BY DEF Groups

\* handleDefaults yields a well-formed specification that keeps what was listed.
LEMMA DefaultsType ==
    ASSUME NEW s \in SpecType
    PROVE  HandleDefaults(s) \in SpecType
<1>1. Default \in Priv /\ Public \in Role
  BY NamesAssumption DEF Default, Public, Priv, Role
<1> QED BY <1>1 DEF HandleDefaults, SpecType

\* ResolveUserMapping yields a mapping by name with a subject, HANA an identity.
LEMMA MappingType ==
    ASSUME NEW m \in Mapping PROVE ResolveUserMapping(m) \in Mapping /\ Identity(m) \in Mapping
BY NamesAssumption DEF ResolveUserMapping, Identity, Mapping

\* The transformed parameters, and the ones HANA has, are parameters.
LEMMA ParamsType ==
    ASSUME NEW ps \in SUBSET Param
    PROVE  TransformParameters(ps) \subseteq Param /\ Valid(ps) \subseteq Param
<1>1. ASSUME NEW kv \in ps PROVE <<UpperOf[kv[1]], kv[2]>> \in Param
  <2>1. kv \in ParamKeys \X ParamVals
    BY DEF Param
  <2>2. kv[1] \in ParamKeys /\ kv[2] \in ParamVals
    BY <2>1
  <2>3. UpperOf[kv[1]] \in ParamKeys
    BY <2>2, NamesAssumption
  <2> QED BY <2>2, <2>3 DEF Param
<1>2. TransformParameters(ps) \subseteq Param
  BY <1>1, Zenon DEF TransformParameters
<1>3. Valid(ps) \subseteq Param
  BY <1>1, Zenon DEF Valid
<1> QED BY <1>2, <1>3

LEMMA EmptyPlanType == EmptyPlan \in PlanType
BY DEF EmptyPlan, PlanType

LEMMA EmptyMemType == EmptyMem \in MemType
<1>1. (CHOOSE s \in Specs : TRUE) \in Specs
  BY SpecsAssumption
<1>2. EmptyObs \in ObsType
  BY NamesAssumption DEF EmptyObs, ObsType
<1> QED BY <1>1, <1>2 DEF EmptyMem, MemType

\* GRANT and REVOKE keep a set of privileges, or of roles, within its type.
LEMMA GrantType ==
    ASSUME NEW T, NEW have \in SUBSET T, NEW g \in SUBSET T
    PROVE  GrantTo(have, g) \in SUBSET T /\ RevokeFrom(have, g) \in SUBSET T
BY DEF GrantTo, RevokeFrom

LEMMA CreatePlanType ==
    ASSUME NEW s \in Specs, NEW pw \in Passwords \cup {NoSecret}
    PROVE  CreatePlan(s, pw) \in PlanType
<1>1. s \in SpecType
  BY SpecsAssumption
<1>2. {ResolveUserMapping(m) : m \in s.x509} \subseteq Mapping
  BY <1>1, MappingType DEF SpecType
<1>3. Groups(s.privs) \subseteq SUBSET Priv
  BY <1>1, GroupsSubset DEF SpecType
<1>4. /\ {{r \in s.roles : ~ r.opt}} \ {{}} \subseteq SUBSET Role
      /\ {{r \in s.roles : r.opt}} \ {{}} \subseteq SUBSET Role
  BY <1>1 DEF SpecType
<1>5. {[spec |-> s, pw |-> pw]} \subseteq [spec : Specs, pw : Passwords \cup {NoSecret}]
  OBVIOUS
<1>6. (IF s.lifetime THEN {} ELSE {FALSE}) \subseteq BOOLEAN
  OBVIOUS
<1> QED BY <1>2, <1>3, <1>4, <1>5, <1>6 DEF CreatePlan, EmptyPlan, PlanType

LEMMA UpdatePlanType ==
    ASSUME NEW s \in Specs, NEW o \in ObsType
    PROVE  UpdatePlan(s, o) \in PlanType
<1> DEFINE des == HandleDefaults(s)
           obs == [o EXCEPT !.privs = FilterManagedPrivileges(@, s.privs, @, s.policy)]
<1>1. des \in SpecType
  BY SpecsAssumption, DefaultsType
<1>2. obs \in ObsType
  BY DEF ObsType, FilterManagedPrivileges
<1> HIDE DEF des, obs
<1>p. ASSUME NEW p \in PlanType
      PROVE  /\ UpdatePrivileges(p, des, obs) \in PlanType
             /\ UpdateRoles(p, des, obs) \in PlanType
             /\ UpdateParameters(p, des, obs) \in PlanType
             /\ UpdateUsergroup(p, des, obs) \in PlanType
             /\ UpdateX509Providers(p, des, obs) \in PlanType
             /\ UpdatePasswordLifetimeCheck(p, des, obs) \in PlanType
             /\ UpdatePassword(p, des, obs) \in PlanType
  <2>1. UpdatePrivileges(p, des, obs) \in PlanType
    <3>1. /\ Groups(des.privs \ obs.privs) \subseteq SUBSET Priv
          /\ Groups(obs.privs \ des.privs) \subseteq SUBSET Priv
      BY <1>1, <1>2, GroupsSubset DEF SpecType, ObsType
    <3>2. des.privs \in SUBSET Priv
      BY <1>1 DEF SpecType
    <3> QED BY <3>1, <3>2, <1>p DEF UpdatePrivileges, PlanType
  <2>2. UpdateRoles(p, des, obs) \in PlanType
    <3>1. des.roles \in SUBSET Role /\ obs.roles \in SUBSET Role
      BY <1>1, <1>2 DEF SpecType, ObsType
    <3> QED BY <3>1, <1>p DEF UpdateRoles, PlanType
  <2>3. UpdateParameters(p, des, obs) \in PlanType
    BY <1>p DEF UpdateParameters, MapsBothDiff, PlanType
  <2>4. UpdateUsergroup(p, des, obs) \in PlanType
    BY <1>1, <1>p DEF UpdateUsergroup, PlanType, SpecType
  <2>5. UpdateX509Providers(p, des, obs) \in PlanType
    <3>1. des.x509 \in SUBSET Mapping /\ obs.x509 \in SUBSET Mapping
      BY <1>1, <1>2 DEF SpecType, ObsType
    <3>2. /\ {ResolveUserMapping(m) : m \in des.x509 \ obs.x509} \subseteq Mapping
          /\ {ResolveUserMapping(m) : m \in obs.x509 \ des.x509} \subseteq Mapping
          /\ {m \in des.x509 \ obs.x509 : ~ Resolves(m)} \subseteq Mapping
      BY <3>1, MappingType
    <3> QED BY <3>2, <1>p DEF UpdateX509Providers, PlanType
  <2>6. UpdatePasswordLifetimeCheck(p, des, obs) \in PlanType
    BY <1>1, <1>p DEF UpdatePasswordLifetimeCheck, PlanType, SpecType
  <2>7. UpdatePassword(p, des, obs) \in PlanType
    BY <1>p DEF UpdatePassword, PlanType
  <2> QED BY <2>1, <2>2, <2>3, <2>4, <2>5, <2>6, <2>7
<1> QED BY <1>p, EmptyPlanType DEF UpdatePlan, des, obs

LEMMA ReadType ==
    ASSUME db \in DbType, NEW s \in Specs
    PROVE  Read(s) \in ObsType
<1>1. QueryPasswordAuthentication(s) \in {"nil", "true", "false"}
  BY DEF QueryPasswordAuthentication
<1> QED BY <1>1 DEF Read, DbType, ObsType

-----------------------------------------------------------------------------
(* Type correctness. *)

Locations == {"idle", "observe", "removeFinalizer", "create", "update", "delete",
              "run", "endCreate", "save"}
Steps == {"dropUser", "createUser", "createIdentity", "grantPrivs", "revokePrivs",
          "recordPrivs", "grantRoles", "grantAdminRoles", "revokeRoles", "params",
          "usergroup", "resolve", "addIdentity", "dropIdentity", "lifetime", "password"}

\* Dropping a statement from a plan leaves a plan.
LEMMA ShorterPlan ==
    ASSUME NEW p \in PlanType, NEW step \in Steps, NEW stmt
    PROVE  [p EXCEPT ![step] = @ \ {stmt}] \in PlanType
BY DEF PlanType, Steps

\* What a statement that took effect does besides changing HANA.
LEMMA AckStep ==
    ASSUME TypeOK, NEW step \in Steps, NEW stmt, Ack(step, stmt)
    PROVE  /\ plan' \in PlanType /\ pc' \in Locations /\ faults' \in Nat
           /\ UNCHANGED <<cr, stale, secret, mem, everSpec, edits, drifts>>
<1>1. CASE plan' = [plan EXCEPT ![step] = @ \ {stmt}] /\ UNCHANGED <<pc, faults>>
  BY <1>1, ShorterPlan DEF TypeOK, Ack, Locations
<1>2. CASE Failure
  BY <1>2, EmptyPlanType, BoundsAssumption DEF TypeOK, Ack, Failure, Abort, AfterRun, Locations
<1> QED BY <1>1, <1>2 DEF Ack

LEMMA IdleType ==
    ASSUME Idle
    PROVE  mem' \in MemType /\ plan' \in PlanType /\ stale' \in BOOLEAN /\ pc' \in Locations
BY EmptyMemType, EmptyPlanType DEF Idle, Locations

LEMMA InitType == Init => TypeOK
<1> SUFFICES ASSUME Init PROVE TypeOK
  OBVIOUS
<1>1. PICK s \in Specs :
        /\ cr = [exists |-> TRUE, spec |-> s, prev |-> {}, finalizer |-> FALSE,
                 deleting |-> FALSE, pending |-> FALSE]
        /\ everSpec = s.privs
  BY DEF Init
<1>2. cr \in CrType
  BY <1>1 DEF CrType
<1>3. everSpec \subseteq Priv
  BY <1>1, SpecsAssumption DEF SpecType
<1>4. db \in DbType
  BY NamesAssumption DEF Init, NoUser, DbType
<1> QED BY <1>2, <1>3, <1>4, EmptyMemType, EmptyPlanType DEF Init, TypeOK

\* Every SQL statement leaves the HANA user, and what remains of the plan, well-formed.
LEMMA StatementType == TypeOK /\ Statement => TypeOK'
<1> SUFFICES ASSUME TypeOK, Statement PROVE TypeOK'
  OBVIOUS
<1>a. ASSUME NEW step \in Steps, NEW stmt, Ack(step, stmt), db' \in DbType
      PROVE  TypeOK'
  BY <1>a, AckStep DEF TypeOK, Locations
<1>b. ASSUME Reject PROVE TypeOK'
  BY <1>b, EmptyPlanType DEF Reject, Abort, AfterRun, TypeOK
<1>c. db \in DbType /\ plan \in PlanType /\ mem \in MemType /\ secret \in Passwords \cup {NoSecret}
  BY DEF TypeOK
<1>1. CASE DropUser
  <2>1. NoUser \in DbType
    BY NamesAssumption DEF NoUser, DbType
  <2> QED BY <1>1, <1>a, <2>1 DEF DropUser, Steps
<1>2. CASE CreateUser
  <2>1. PICK s \in plan.createUser : db' = NewUser(s.spec, s.pw) /\ Ack("createUser", s)
    BY <1>2 DEF CreateUser
  <2>2. s.spec \in Specs /\ s.pw \in Passwords \cup {NoSecret}
    BY <1>c DEF PlanType
  <2>3. s.spec \in SpecType
    BY <2>2, SpecsAssumption
  <2>4. Valid(s.spec.params) \subseteq Param /\ s.spec.usergroup \in Usergroups
    BY <2>3, ParamsType DEF SpecType
  <2>5. Default \in Priv /\ Public \in Role
    BY NamesAssumption DEF Default, Public, Priv, Role
  <2>6. NewUser(s.spec, s.pw) \in DbType
    BY <2>2, <2>4, <2>5 DEF NewUser, DbType
  <2> QED BY <2>1, <2>6, <1>a DEF Steps
<1>3. ASSUME NEW step \in {"createIdentity", "addIdentity"}, AddIdentity(step) PROVE TypeOK'
  <2>1. plan[step] \subseteq Mapping
    BY <1>c DEF PlanType
  <2>2. PICK m \in plan[step] :
            IF Identity(m) \in db.x509 THEN Reject
            ELSE db' = [db EXCEPT !.x509 = @ \cup {Identity(m)}] /\ Ack(step, m)
    BY <1>3 DEF AddIdentity
  <2>3. [db EXCEPT !.x509 = @ \cup {Identity(m)}] \in DbType
    BY <1>c, <2>1, MappingType DEF DbType
  <2>4. step \in Steps
    BY DEF Steps
  <2> QED BY <2>2, <2>3, <2>4, <1>a, <1>b
<1>4. CASE DropIdentity
  <2>1. PICK m \in plan.dropIdentity :
            db' = [db EXCEPT !.x509 = @ \ {Identity(m)}] /\ Ack("dropIdentity", m)
    BY <1>4 DEF DropIdentity
  <2>2. db' \in DbType
    BY <2>1, <1>c DEF DbType
  <2> QED BY <2>1, <2>2, <1>a DEF Steps
<1>5. CASE GrantPrivileges
  <2>1. PICK g \in plan.grantPrivs :
            db' = [db EXCEPT !.privs = GrantTo(@, g)] /\ Ack("grantPrivs", g)
    BY <1>5 DEF GrantPrivileges
  <2>2. g \in SUBSET Priv /\ db.privs \in SUBSET Priv
    BY <1>c DEF PlanType, DbType
  <2>3. GrantTo(db.privs, g) \in SUBSET Priv
    BY <2>2, GrantType
  <2>4. db' \in DbType
    BY <2>1, <2>3, <1>c DEF DbType
  <2> QED BY <2>1, <2>4, <1>a DEF Steps
<1>6. CASE RevokePrivileges
  <2>1. PICK g \in plan.revokePrivs :
            db' = [db EXCEPT !.privs = RevokeFrom(@, g)] /\ Ack("revokePrivs", g)
    BY <1>6 DEF RevokePrivileges
  <2>2. g \in SUBSET Priv /\ db.privs \in SUBSET Priv
    BY <1>c DEF PlanType, DbType
  <2>3. RevokeFrom(db.privs, g) \in SUBSET Priv
    BY <2>2, GrantType
  <2>4. db' \in DbType
    BY <2>1, <2>3, <1>c DEF DbType
  <2> QED BY <2>1, <2>4, <1>a DEF Steps
<1>7. CASE RecordPrivileges
  <2>1. PICK ps \in plan.recordPrivs :
            /\ mem' = [mem EXCEPT !.obs.privs = ps]
            /\ plan' = [plan EXCEPT !.recordPrivs = {}]
            /\ UNCHANGED <<cr, stale, secret, db, pc, everSpec, edits, drifts, faults>>
    BY <1>7 DEF RecordPrivileges
  <2>2. ps \in SUBSET Priv
    BY <1>c DEF PlanType
  <2>3. mem' \in MemType
    BY <2>1, <2>2, <1>c DEF MemType, ObsType
  <2>4. plan' \in PlanType
    BY <2>1, <1>c DEF PlanType
  <2> QED BY <2>1, <2>3, <2>4 DEF TypeOK
<1>8. ASSUME NEW step \in {"grantRoles", "grantAdminRoles"}, GrantRoles(step) PROVE TypeOK'
  <2>1. PICK g \in plan[step] : db' = [db EXCEPT !.roles = GrantTo(@, g)] /\ Ack(step, g)
    BY <1>8 DEF GrantRoles
  <2>2. g \in SUBSET Role /\ db.roles \in SUBSET Role
    BY <1>c DEF PlanType, DbType
  <2>3. GrantTo(db.roles, g) \in SUBSET Role
    BY <2>2, GrantType
  <2>4. db' \in DbType
    BY <2>1, <2>3, <1>c DEF DbType
  <2> QED BY <2>1, <2>4, <1>a DEF Steps
<1>9. CASE RevokeRoles
  <2>1. PICK g \in plan.revokeRoles :
            db' = [db EXCEPT !.roles = RevokeFrom(@, g)] /\ Ack("revokeRoles", g)
    BY <1>9 DEF RevokeRoles
  <2>2. g \in SUBSET Role /\ db.roles \in SUBSET Role
    BY <1>c DEF PlanType, DbType
  <2>3. RevokeFrom(db.roles, g) \in SUBSET Role
    BY <2>2, GrantType
  <2>4. db' \in DbType
    BY <2>1, <2>3, <1>c DEF DbType
  <2> QED BY <2>1, <2>4, <1>a DEF Steps
<1>10. CASE AlterParameters
  <2>1. PICK s \in plan.params :
            IF Valid(s.toSet) \cup Valid(s.toClear) = {} THEN Reject
            ELSE /\ db' = [db EXCEPT !.params =
                            {kv \in @ : \A n \in s.toSet \cup s.toClear : kv[1] # n[1]}
                                \cup Valid(s.toSet)]
                 /\ Ack("params", s)
    BY <1>10 DEF AlterParameters
  <2>2. Valid(s.toSet) \subseteq Param
    BY <1>c, ParamsType DEF PlanType
  <2>3. db.params \subseteq Param
    BY <1>c DEF DbType
  <2>4. CASE Valid(s.toSet) \cup Valid(s.toClear) = {}
    BY <2>1, <2>4, <1>b
  <2>5. CASE Valid(s.toSet) \cup Valid(s.toClear) # {}
    <3> DEFINE new == {kv \in db.params : \A n \in s.toSet \cup s.toClear : kv[1] # n[1]}
                          \cup Valid(s.toSet)
    <3>1. new \subseteq Param
      BY <2>2, <2>3
    <3>2. db' = [db EXCEPT !.params = new] /\ Ack("params", s)
      BY <2>1, <2>5
    <3> HIDE DEF new
    <3>3. db' \in DbType
      BY <3>1, <3>2, <1>c DEF DbType
    <3> QED BY <3>2, <3>3, <1>a DEF Steps
  <2> QED BY <2>4, <2>5
<1>11. CASE AlterUsergroup
  <2>1. PICK g \in plan.usergroup : db' = [db EXCEPT !.usergroup = g] /\ Ack("usergroup", g)
    BY <1>11 DEF AlterUsergroup
  <2>2. db' \in DbType
    BY <2>1, <1>c DEF DbType, PlanType
  <2> QED BY <2>1, <2>2, <1>a DEF Steps
<1>12. CASE AlterLifetime
  <2>1. PICK b \in plan.lifetime : db' = [db EXCEPT !.lifetime = b] /\ Ack("lifetime", b)
    BY <1>12 DEF AlterLifetime
  <2>2. b \in BOOLEAN
    BY <1>c DEF PlanType
  <2>3. db' \in DbType
    BY <2>1, <2>2, <1>c DEF DbType
  <2> QED BY <2>1, <2>3, <1>a DEF Steps
<1>13. CASE TogglePassword
  <2>1. db' \in DbType
    BY <1>13, <1>c DEF TogglePassword, DbType
  <2> QED BY <1>13, <2>1, <1>a DEF TogglePassword, Steps
<1>14. CASE SetPassword
  <2>1. GetPassword(mem.spec) \in Passwords \cup {NoSecret}
    BY <1>c DEF GetPassword
  <2>2. [db EXCEPT !.pw = GetPassword(mem.spec)] \in DbType
    BY <2>1, <1>c DEF DbType
  <2> QED BY <1>14, <2>2, <1>a, <1>b DEF SetPassword, Steps
<1>15. CASE ResolveFails
  BY <1>15, <1>b DEF ResolveFails
<1> QED BY <1>1, <1>2, <1>3, <1>4, <1>5, <1>6, <1>7, <1>8, <1>9, <1>10, <1>11, <1>12, <1>13,
           <1>14, <1>15 DEF Statement

LEMMA ControllerType == TypeOK /\ Controller => TypeOK'
<1> SUFFICES ASSUME TypeOK, Controller PROVE TypeOK'
  OBVIOUS
<1>c. cr \in CrType /\ db \in DbType /\ mem \in MemType /\ plan \in PlanType
  BY DEF TypeOK
<1>s. mem.spec \in Specs /\ mem.spec \in SpecType
  BY <1>c, SpecsAssumption DEF MemType
<1>1. CASE Reconcile
  <2>1. EmptyObs \in ObsType
    BY NamesAssumption DEF EmptyObs, ObsType
  <2>2. mem' \in MemType
    BY <1>1, <1>c, <2>1 DEF Reconcile, CrType, MemType
  <2> QED BY <1>1, <2>2 DEF Reconcile, TypeOK
<1>2. CASE Observe
  <2>1. CASE ~ db.exists
    BY <1>2, <2>1 DEF Observe, TypeOK
  <2>2. CASE db.exists
    <3> DEFINE des == HandleDefaults(mem.spec)
               obs == [Read(mem.spec) EXCEPT !.privs =
                          FilterManagedPrivileges(@, des.privs, mem.prev, mem.spec.policy)]
    <3>1. obs \in ObsType
      BY <1>c, <1>s, ReadType DEF ObsType, FilterManagedPrivileges
    <3>2. /\ mem' = [mem EXCEPT !.obs = obs]
          /\ pc' \in {"delete", "save", "update"}
          /\ UNCHANGED <<cr, stale, secret, db, plan, everSpec, edits, drifts, faults>>
      BY <1>2, <2>2 DEF Observe
    <3> HIDE DEF obs
    <3>3. mem' \in MemType
      BY <3>1, <3>2, <1>c DEF MemType
    <3> QED BY <3>2, <3>3 DEF TypeOK
  <2> QED BY <2>1, <2>2
<1>3. CASE ObserveRefuses
  BY <1>3, IdleType DEF ObserveRefuses, TypeOK, Locations
<1>4. CASE RemoveFinalizer
  <2>1. cr' \in CrType
    BY <1>4, <1>c DEF RemoveFinalizer, CrType
  <2> QED BY <1>4, <2>1, IdleType DEF RemoveFinalizer, TypeOK, Locations
<1>5. CASE BeginCreate
  <2>1. GetPassword(mem.spec) \in Passwords \cup {NoSecret}
    BY DEF GetPassword, TypeOK
  <2>2. CreatePlan(mem.spec, GetPassword(mem.spec)) \in PlanType
    BY <2>1, <1>s, CreatePlanType
  <2>3. Announce(cr) \in CrType
    BY <1>c DEF Announce, CrType
  <2>4. CASE stale
    BY <1>5, <2>4, IdleType DEF BeginCreate, TypeOK, Locations
  <2>5. CASE ~ stale
    BY <1>5, <2>2, <2>3, <2>5 DEF BeginCreate, TypeOK
  <2> QED BY <2>4, <2>5
<1>6. CASE BeginUpdate
  <2>1. UpdatePlan(mem.spec, mem.obs) \in PlanType
    BY <1>c, <1>s, UpdatePlanType DEF MemType
  <2> QED BY <1>6, <2>1 DEF BeginUpdate, TypeOK
<1>7. CASE BeginDelete
  <2>1. DeletePlan \in PlanType
    BY DEF DeletePlan, EmptyPlan, PlanType
  <2> QED BY <1>7, <2>1 DEF BeginDelete, TypeOK
<1>8. CASE Statement
  BY <1>8, StatementType
<1>9. CASE FinishRun
  BY <1>9 DEF FinishRun, AfterRun, TypeOK
<1>10. CASE EndCreate
  <2>1. cr' \in CrType
    BY <1>10, <1>c DEF EndCreate, CrType
  <2> QED BY <1>10, <2>1, IdleType DEF EndCreate, TypeOK, Locations
<1>11. CASE SaveStatus
  <2>1. cr' \in CrType
    BY <1>11, <1>c DEF SaveStatus, CrType, MemType, ObsType
  <2> QED BY <1>11, <2>1, IdleType DEF SaveStatus, TypeOK, Locations
<1> QED BY <1>1, <1>2, <1>3, <1>4, <1>5, <1>6, <1>7, <1>8, <1>9, <1>10, <1>11 DEF Controller

LEMMA EnvironmentType == TypeOK /\ Environment => TypeOK'
<1> SUFFICES ASSUME TypeOK, Environment PROVE TypeOK'
  OBVIOUS
<1>c. cr \in CrType /\ db \in DbType
  BY DEF TypeOK
<1>1. CASE EditSpec
  <2>1. PICK s \in Specs : cr' = [cr EXCEPT !.spec = s] /\ everSpec' = everSpec \cup s.privs
    BY <1>1 DEF EditSpec
  <2>2. cr' \in CrType
    BY <2>1, <1>c DEF CrType
  <2>3. s.privs \subseteq Priv
    BY SpecsAssumption DEF SpecType
  <2> QED BY <1>1, <2>1, <2>2, <2>3, BoundsAssumption DEF EditSpec, Edited, TypeOK
<1>2. CASE RequestDelete
  <2>1. cr' \in CrType
    BY <1>2, <1>c DEF RequestDelete, CrType
  <2> QED BY <1>2, <2>1 DEF RequestDelete, Edited, TypeOK
<1>3. CASE ChangeSecret
  BY <1>3 DEF ChangeSecret, Edited, TypeOK
<1>4. CASE DbaGrants
  <2>1. PICK p \in DriftPrivs : db' = [db EXCEPT !.privs = GrantTo(@, {p})]
    BY <1>4 DEF DbaGrants
  <2>2. {p} \in SUBSET Priv /\ db.privs \in SUBSET Priv
    BY DriftAssumption, <1>c DEF DbType
  <2>3. GrantTo(db.privs, {p}) \in SUBSET Priv
    BY <2>2, GrantType
  <2>4. db' \in DbType
    BY <2>1, <2>3, <1>c DEF DbType
  <2> QED BY <1>4, <2>4 DEF DbaGrants, Drift, TypeOK
<1>5. CASE DbaRevokes
  <2>1. db' \in DbType
    BY <1>5, <1>c DEF DbaRevokes, DbType
  <2> QED BY <1>5, <2>1 DEF DbaRevokes, Drift, TypeOK
<1>6. CASE DbaLocks
  <2>1. db' \in DbType
    BY <1>6, <1>c DEF DbaLocks, DbType
  <2> QED BY <1>6, <2>1 DEF DbaLocks, Drift, TypeOK
<1>7. CASE ObserveFails
  BY <1>7, IdleType DEF ObserveFails, TypeOK, Locations
<1>8. CASE StatementFails
  BY <1>8, EmptyPlanType DEF StatementFails, Failure, Abort, AfterRun, TypeOK
<1>9. CASE Crash
  BY <1>9, IdleType DEF Crash, TypeOK, Locations
<1> QED BY <1>1, <1>2, <1>3, <1>4, <1>5, <1>6, <1>7, <1>8, <1>9 DEF Environment

\* Type correctness: whatever interleaving of reconciles, edits, drift, failures
\* and restarts, every statement of a plan, every status and the HANA user keep
\* their form, for every set of specs, privileges, roles and parameters.
THEOREM TypeCorrect == Spec => []TypeOK
<1>1. Init => TypeOK
  BY InitType
<1>2. TypeOK /\ [Next]_vars => TypeOK'
  <2> SUFFICES ASSUME TypeOK, [Next]_vars PROVE TypeOK'
    OBVIOUS
  <2>1. CASE UNCHANGED vars
    BY <2>1 DEF vars, TypeOK
  <2> QED BY <2>1, ControllerType, EnvironmentType DEF Next
<1> QED BY <1>1, <1>2, PTL DEF Spec

-----------------------------------------------------------------------------
(* What a SQL statement may change.  The three proofs below look at a      *)
(* statement through this frame only.                                      *)

PlanStep ==
    /\ \A t \in Steps : plan'[t] \subseteq plan[t]
    /\ pc' = "run" \/ (pc' \in {"endCreate", "save"} /\ plan' = EmptyPlan)

MemStep ==
    mem' = mem \/ \E ps \in plan.recordPrivs : mem' = [mem EXCEPT !.obs.privs = ps]

DbStep ==
    \/ db'.exists = FALSE /\ plan.dropUser # {}
    \/ \E s \in plan.createUser : db' = NewUser(s.spec, s.pw) /\ s \notin plan'.createUser
    \/ /\ db'.exists = db.exists /\ db'.roles = db.roles
       /\ \/ db'.privs = db.privs
          \/ \E g \in plan.grantPrivs : db'.privs = GrantTo(db.privs, g)
          \/ \E g \in plan.revokePrivs : db'.privs = RevokeFrom(db.privs, g)
    \/ /\ db'.exists = db.exists /\ db'.privs = db.privs
       /\ \/ \E g \in plan.grantRoles \cup plan.grantAdminRoles : db'.roles = GrantTo(db.roles, g)
          \/ \E g \in plan.revokeRoles : db'.roles = RevokeFrom(db.roles, g)

Frame ==
    /\ pc = "run" /\ PlanStep /\ MemStep /\ DbStep
    /\ UNCHANGED <<cr, stale, everSpec, drifts>>

LEMMA AckFrame ==
    ASSUME TypeOK, NEW step \in Steps, NEW stmt, Ack(step, stmt), pc = "run"
    PROVE  /\ PlanStep /\ MemStep /\ UNCHANGED <<cr, stale, everSpec, drifts>>
           /\ stmt \notin plan'[step]
<1>p. plan \in PlanType
  BY DEF TypeOK
<1>1. CASE plan' = [plan EXCEPT ![step] = @ \ {stmt}] /\ UNCHANGED <<pc, faults>>
  <2>1. DOMAIN plan = Steps
    BY <1>p DEF PlanType, Steps
  <2>2. \A t \in Steps : plan'[t] \subseteq plan[t]
    BY <1>1, <1>p, <2>1 DEF PlanType, Steps
  <2>3. stmt \notin plan'[step]
    BY <1>1, <1>p DEF PlanType, Steps
  <2> QED BY <1>1, <2>2, <2>3 DEF Ack, PlanStep, MemStep
<1>2. CASE Failure
  <2>1. plan' = EmptyPlan /\ pc' \in {"endCreate", "save"}
    BY <1>2 DEF Failure, Abort, AfterRun
  <2>2. \A t \in Steps : plan'[t] = {}
    BY <2>1 DEF EmptyPlan, Steps
  <2> QED BY <1>2, <2>1, <2>2 DEF Ack, PlanStep, MemStep
<1> QED BY <1>1, <1>2 DEF Ack

LEMMA RejectFrame ==
    ASSUME TypeOK, Reject, pc = "run"
    PROVE  Frame
<1>1. plan' = EmptyPlan /\ pc' \in {"endCreate", "save"}
  BY DEF Reject, Abort, AfterRun
<1>2. \A t \in Steps : plan'[t] = {}
  BY <1>1 DEF EmptyPlan, Steps
<1> QED BY <1>1, <1>2 DEF Reject, Frame, PlanStep, MemStep, DbStep

LEMMA StatementFrame == TypeOK /\ Statement => Frame
<1> SUFFICES ASSUME TypeOK, Statement PROVE Frame
  OBVIOUS
<1>c. db \in DbType /\ plan \in PlanType /\ mem \in MemType
  BY DEF TypeOK
<1>a. ASSUME NEW step \in Steps, NEW stmt, Ack(step, stmt), pc = "run", DbStep
      PROVE  Frame
  BY <1>a, AckFrame DEF Frame
<1>1. CASE DropUser
  <2>1. db'.exists = FALSE /\ plan.dropUser # {} /\ pc = "run"
    BY <1>1 DEF DropUser, NoUser, Ready
  <2>2. DbStep
    BY <2>1 DEF DbStep
  <2> QED BY <1>1, <2>1, <2>2, <1>a DEF DropUser, Steps
<1>2. CASE CreateUser
  <2>1. PICK s \in plan.createUser :
            pc = "run" /\ db' = NewUser(s.spec, s.pw) /\ Ack("createUser", s)
    BY <1>2 DEF CreateUser, Ready
  <2>2. "createUser" \in Steps
    BY DEF Steps
  <2>3. s \notin plan'.createUser
    BY <2>1, <2>2, AckFrame
  <2>4. DbStep
    BY <2>1, <2>3 DEF DbStep
  <2> QED BY <2>1, <2>2, <2>4, <1>a
<1>3. ASSUME NEW step \in {"createIdentity", "addIdentity"}, AddIdentity(step) PROVE Frame
  <2>1. PICK m \in plan[step] :
            /\ pc = "run"
            /\ IF Identity(m) \in db.x509 THEN Reject
               ELSE db' = [db EXCEPT !.x509 = @ \cup {Identity(m)}] /\ Ack(step, m)
    BY <1>3 DEF AddIdentity, Ready
  <2>2. CASE Identity(m) \in db.x509
    BY <2>1, <2>2, RejectFrame
  <2>3. CASE Identity(m) \notin db.x509
    <3>1. DbStep
      BY <2>1, <2>3, <1>c DEF DbType, DbStep
    <3> QED BY <2>1, <2>3, <3>1, <1>a DEF Steps
  <2> QED BY <2>2, <2>3
<1>4. CASE DropIdentity
  <2>1. DbStep
    BY <1>4, <1>c DEF DropIdentity, DbType, DbStep
  <2> QED BY <1>4, <2>1, <1>a DEF DropIdentity, Ready, Steps
<1>5. CASE GrantPrivileges
  <2>1. DbStep
    BY <1>5, <1>c DEF GrantPrivileges, DbType, DbStep
  <2> QED BY <1>5, <2>1, <1>a DEF GrantPrivileges, Ready, Steps
<1>6. CASE RevokePrivileges
  <2>1. DbStep
    BY <1>6, <1>c DEF RevokePrivileges, DbType, DbStep
  <2> QED BY <1>6, <2>1, <1>a DEF RevokePrivileges, Ready, Steps
<1>7. CASE RecordPrivileges
  <2>1. PICK ps \in plan.recordPrivs :
            /\ pc = "run"
            /\ mem' = [mem EXCEPT !.obs.privs = ps]
            /\ plan' = [plan EXCEPT !.recordPrivs = {}]
            /\ UNCHANGED <<cr, stale, secret, db, pc, everSpec, edits, drifts, faults>>
    BY <1>7 DEF RecordPrivileges, Ready
  <2>2. \A t \in Steps : plan'[t] \subseteq plan[t]
    BY <2>1, <1>c DEF PlanType, Steps
  <2> QED BY <2>1, <2>2 DEF Frame, PlanStep, MemStep, DbStep
<1>8. ASSUME NEW step \in {"grantRoles", "grantAdminRoles"}, GrantRoles(step) PROVE Frame
  <2>1. PICK g \in plan[step] :
            pc = "run" /\ db' = [db EXCEPT !.roles = GrantTo(@, g)] /\ Ack(step, g)
    BY <1>8 DEF GrantRoles, Ready
  <2>2. g \in plan.grantRoles \cup plan.grantAdminRoles
    OBVIOUS
  <2>3. DbStep
    BY <2>1, <2>2, <1>c DEF DbType, DbStep
  <2> QED BY <2>1, <2>3, <1>a DEF Steps
<1>9. CASE RevokeRoles
  <2>1. DbStep
    BY <1>9, <1>c DEF RevokeRoles, DbType, DbStep
  <2> QED BY <1>9, <2>1, <1>a DEF RevokeRoles, Ready, Steps
<1>10. CASE AlterParameters
  <2>1. PICK s, new :
            /\ s \in plan.params
            /\ pc = "run"
            /\ Reject \/ (db' = [db EXCEPT !.params = new] /\ Ack("params", s))
    BY <1>10 DEF AlterParameters, Ready
  <2>2. CASE Reject
    BY <2>1, <2>2, RejectFrame
  <2>3. CASE db' = [db EXCEPT !.params = new] /\ Ack("params", s)
    <3>1. DbStep
      BY <2>3, <1>c DEF DbType, DbStep
    <3> QED BY <2>1, <2>3, <3>1, <1>a DEF Steps
  <2> QED BY <2>1, <2>2, <2>3
<1>11. CASE AlterUsergroup
  <2>1. DbStep
    BY <1>11, <1>c DEF AlterUsergroup, DbType, DbStep
  <2> QED BY <1>11, <2>1, <1>a DEF AlterUsergroup, Ready, Steps
<1>12. CASE AlterLifetime
  <2>1. DbStep
    BY <1>12, <1>c DEF AlterLifetime, DbType, DbStep
  <2> QED BY <1>12, <2>1, <1>a DEF AlterLifetime, Ready, Steps
<1>13. CASE TogglePassword
  <2>1. DbStep
    BY <1>13, <1>c DEF TogglePassword, DbType, DbStep
  <2> QED BY <1>13, <2>1, <1>a DEF TogglePassword, Ready, Steps
<1>14. CASE SetPassword
  <2>1. CASE Reject
    BY <1>14, <2>1, RejectFrame DEF SetPassword, Ready
  <2>2. CASE db' = [db EXCEPT !.pw = GetPassword(mem.spec)] /\ Ack("password", "set")
    <3>1. DbStep
      BY <2>2, <1>c DEF DbType, DbStep
    <3> QED BY <1>14, <2>2, <3>1, <1>a DEF SetPassword, Ready, Steps
  <2> QED BY <1>14, <2>1, <2>2 DEF SetPassword
<1>15. CASE ResolveFails
  BY <1>15, RejectFrame DEF ResolveFails, Ready
<1> QED BY <1>1, <1>2, <1>3, <1>4, <1>5, <1>6, <1>7, <1>8, <1>9, <1>10, <1>11, <1>12, <1>13,
           <1>14, <1>15 DEF Statement

-----------------------------------------------------------------------------
(* No HANA user without its CR. *)

\* The finalizer covers the user from before CREATE USER until after DROP USER;
\* a copy of a CR that is gone is always recognised as out of date.
LifeInv ==
    /\ db.exists => cr.exists /\ cr.finalizer
    /\ pc \in {"create", "removeFinalizer"} => ~ db.exists
    /\ plan.createUser # {} => pc = "run" /\ ~ db.exists /\ cr.exists /\ cr.finalizer
    /\ \A a, b \in plan.createUser : a = b
    /\ pc # "idle" /\ ~ stale => cr.exists

\* An Update or a Delete creates no user.
LEMMA UpdateCreatesNoUser ==
    ASSUME NEW s, NEW o
    PROVE  UpdatePlan(s, o).createUser = {} /\ DeletePlan.createUser = {}
BY DEF UpdatePlan, UpdatePrivileges, UpdateRoles, UpdateParameters, UpdateUsergroup,
       UpdateX509Providers, UpdatePasswordLifetimeCheck, UpdatePassword, EmptyPlan, DeletePlan

LEMMA LifeStep == TypeOK /\ LifeInv /\ [Next]_vars => LifeInv'
<1> SUFFICES ASSUME TypeOK, LifeInv, [Next]_vars PROVE LifeInv'
  OBVIOUS
<1>c. cr \in CrType /\ db \in DbType /\ plan \in PlanType
  BY DEF TypeOK
<1>e. EmptyPlan.createUser = {}
  BY DEF EmptyPlan
<1>1. CASE Reconcile
  BY <1>1 DEF Reconcile, LifeInv
<1>2. CASE Observe
  <2>1. UNCHANGED <<cr, stale, db, plan>> /\ pc = "observe"
    BY <1>2 DEF Observe
  <2>2. pc' \in {"create", "removeFinalizer"} => ~ db.exists
    BY <1>2 DEF Observe
  <2> QED BY <2>1, <2>2 DEF LifeInv
<1>3. CASE ObserveRefuses \/ ObserveFails \/ Crash
  BY <1>3, <1>e DEF ObserveRefuses, ObserveFails, Crash, Idle, LifeInv
<1>4. CASE RemoveFinalizer
  BY <1>4, <1>c, <1>e DEF RemoveFinalizer, Idle, LifeInv, CrType
<1>5. CASE BeginCreate
  <2>1. CASE stale
    BY <1>5, <2>1, <1>e DEF BeginCreate, Idle, LifeInv
  <2>2. CASE ~ stale
    <3>1. cr'.exists /\ cr'.finalizer /\ ~ db.exists
      BY <1>5, <2>2, <1>c DEF BeginCreate, Announce, CrType, LifeInv
    <3>2. /\ UNCHANGED <<db, stale>>
          /\ \/ pc' = "run" /\ plan' = CreatePlan(mem.spec, GetPassword(mem.spec))
             \/ pc' = "endCreate" /\ plan' = plan
      BY <1>5, <2>2 DEF BeginCreate
    <3>3. CreatePlan(mem.spec, GetPassword(mem.spec)).createUser
            = {[spec |-> mem.spec, pw |-> GetPassword(mem.spec)]}
      BY DEF CreatePlan, EmptyPlan
    <3>4. plan.createUser = {}
      BY <1>5 DEF BeginCreate, LifeInv
    <3> QED BY <3>1, <3>2, <3>3, <3>4 DEF LifeInv
  <2> QED BY <2>1, <2>2
<1>6. CASE BeginUpdate
  BY <1>6, UpdateCreatesNoUser DEF BeginUpdate, LifeInv
<1>7. CASE BeginDelete
  BY <1>7, UpdateCreatesNoUser DEF BeginDelete, LifeInv
<1>8. CASE Statement
  <2>1. /\ pc = "run" /\ PlanStep /\ DbStep
        /\ UNCHANGED <<cr, stale>>
    BY <1>8, StatementFrame DEF Frame
  <2>2. plan'.createUser \subseteq plan.createUser
    BY <2>1 DEF PlanStep, Steps
  <2>3. plan'.createUser # {} => pc' = "run"
    BY <2>1, <1>e DEF PlanStep
  <2>4. pc' \notin {"create", "removeFinalizer", "idle"}
    BY <2>1 DEF PlanStep
  <2>5. CASE db'.exists = FALSE \/ db'.exists = db.exists
    BY <2>1, <2>2, <2>3, <2>4, <2>5 DEF LifeInv
  <2>6. CASE \E s \in plan.createUser : s \notin plan'.createUser
    <3>1. plan'.createUser = {} /\ cr.exists /\ cr.finalizer
      BY <2>2, <2>6 DEF LifeInv
    <3> QED BY <3>1, <2>1, <2>4 DEF LifeInv
  <2> QED BY <2>1, <2>5, <2>6 DEF DbStep
<1>9. CASE FinishRun
  BY <1>9, <1>e DEF FinishRun, AfterRun, LifeInv
<1>10. CASE EndCreate
  BY <1>10, <1>c, <1>e DEF EndCreate, Idle, LifeInv, CrType
<1>11. CASE SaveStatus
  BY <1>11, <1>c, <1>e DEF SaveStatus, Idle, LifeInv, CrType
<1>12. CASE EditSpec
  <2>1. cr'.exists = cr.exists /\ cr'.finalizer = cr.finalizer /\ stale' = (pc # "idle")
    BY <1>12, <1>c DEF EditSpec, CrType
  <2> QED BY <1>12, <2>1 DEF EditSpec, LifeInv
<1>13. CASE RequestDelete
  BY <1>13, <1>c DEF RequestDelete, CrType, LifeInv
<1>14. CASE ChangeSecret
  BY <1>14 DEF ChangeSecret, LifeInv
<1>15. CASE DbaGrants \/ DbaRevokes \/ DbaLocks
  <2>1. db'.exists = db.exists /\ UNCHANGED <<cr, stale, pc, plan>>
    BY <1>15, <1>c DEF DbaGrants, DbaRevokes, DbaLocks, DbType
  <2> QED BY <2>1 DEF LifeInv
<1>16. CASE StatementFails
  BY <1>16, <1>e DEF StatementFails, Failure, Abort, AfterRun, LifeInv
<1>17. CASE UNCHANGED vars
  BY <1>17 DEF vars, LifeInv
<1> QED BY <1>1, <1>2, <1>3, <1>4, <1>5, <1>6, <1>7, <1>8, <1>9, <1>10, <1>11, <1>12, <1>13,
           <1>14, <1>15, <1>16, <1>17 DEF Next, Controller, Environment

LEMMA LifeInit == Init => LifeInv
BY DEF Init, LifeInv, NoUser, EmptyPlan

\* The finalizer and the user's life hold for every run of the controller.
LEMMA LifeCorrect == Spec => []LifeInv
<1> QED BY LifeInit, LifeStep, TypeCorrect, PTL DEF Spec

\* A CR never disappears while its HANA user exists: whatever fails or restarts,
\* and whenever the deletion is requested, the finalizer that the reconciler writes
\* before CREATE USER holds the CR until Observe has found no user.
THEOREM NoOrphanCorrect == Spec => []NoOrphan
<1>1. LifeInv => NoOrphan
  BY DEF LifeInv, NoOrphan
<1> QED BY <1>1, LifeCorrect, PTL

-----------------------------------------------------------------------------
(* Lax: only managed privileges are revoked. *)

\* Everything the lax filter lets through was in the spec at some time, and with
\* it every privilege that reaches the status or a REVOKE.
LaxInv ==
    /\ cr.prev \subseteq everSpec /\ cr.spec.privs \subseteq everSpec
    /\ mem.prev \subseteq everSpec /\ mem.obs.privs \subseteq everSpec
    /\ pc # "idle" => mem.spec.privs \subseteq everSpec
    /\ \A g \in plan.revokePrivs \cup plan.recordPrivs : g \subseteq everSpec

\* All users of the installation are managed under the lax policy.
AllLax == \A s \in Specs : s.policy = "lax"

\* A lax Update revokes nothing but what its status lists, and records what the
\* spec lists.
LEMMA LaxPlan ==
    ASSUME NEW s \in Specs, s.policy = "lax", NEW o \in ObsType
    PROVE  /\ \A g \in UpdatePlan(s, o).revokePrivs : g \subseteq o.privs
           /\ \A g \in UpdatePlan(s, o).recordPrivs : g = s.privs
<1> DEFINE des == HandleDefaults(s)
           obs == [o EXCEPT !.privs = FilterManagedPrivileges(@, s.privs, @, s.policy)]
<1>1. des.privs = s.privs
  BY SpecsAssumption DEF HandleDefaults, SpecType
<1>2. obs.privs \subseteq o.privs
  BY DEF ObsType, FilterManagedPrivileges
<1>3. /\ UpdatePlan(s, o).revokePrivs = Groups(obs.privs \ des.privs)
      /\ UpdatePlan(s, o).recordPrivs = IF des.privs = obs.privs THEN {} ELSE {des.privs}
  BY DEF UpdatePlan, UpdatePrivileges, UpdateRoles, UpdateParameters, UpdateUsergroup,
         UpdateX509Providers, UpdatePasswordLifetimeCheck, UpdatePassword, EmptyPlan
<1> HIDE DEF des, obs
<1> QED BY <1>1, <1>2, <1>3, GroupsSubset

LEMMA OtherPlansRevokeNothing ==
    ASSUME NEW s, NEW pw
    PROVE  \A p \in {EmptyPlan, DeletePlan, CreatePlan(s, pw)} :
                p.revokePrivs = {} /\ p.recordPrivs = {} /\ p.revokeRoles = {}
<1>1. EmptyPlan.revokePrivs = {} /\ EmptyPlan.recordPrivs = {} /\ EmptyPlan.revokeRoles = {}
  BY DEF EmptyPlan
<1>2. DeletePlan.revokePrivs = {} /\ DeletePlan.recordPrivs = {} /\ DeletePlan.revokeRoles = {}
  BY DEF EmptyPlan, DeletePlan
<1>3. /\ CreatePlan(s, pw).revokePrivs = {}
      /\ CreatePlan(s, pw).recordPrivs = {}
      /\ CreatePlan(s, pw).revokeRoles = {}
  BY DEF EmptyPlan, CreatePlan
<1> QED BY <1>1, <1>2, <1>3

LEMMA LaxStep ==
    ASSUME AllLax
    PROVE  TypeOK /\ LaxInv /\ [Next]_vars => LaxInv'
<1> SUFFICES ASSUME TypeOK, LaxInv, [Next]_vars PROVE LaxInv'
  OBVIOUS
<1>c. cr \in CrType /\ db \in DbType /\ plan \in PlanType /\ mem \in MemType
  BY DEF TypeOK
<1>e. EmptyPlan.revokePrivs = {} /\ EmptyPlan.recordPrivs = {}
  BY DEF EmptyPlan
<1>m. EmptyMem.prev = {} /\ EmptyMem.obs.privs = {}
  BY DEF EmptyMem, EmptyObs
<1>i. ASSUME Idle, everSpec' = everSpec, cr'.prev \subseteq everSpec, cr'.spec = cr.spec
      PROVE  LaxInv'
  BY <1>i, <1>e, <1>m DEF Idle, LaxInv
<1>1. CASE Reconcile
  BY <1>1 DEF Reconcile, LaxInv, EmptyObs
<1>2. CASE Observe
  <2>1. CASE ~ db.exists
    BY <1>2, <2>1 DEF Observe, LaxInv
  <2>2. CASE db.exists
    <3> DEFINE des == HandleDefaults(mem.spec)
               obs == [Read(mem.spec) EXCEPT !.privs =
                          FilterManagedPrivileges(@, des.privs, mem.prev, mem.spec.policy)]
    <3>1. mem.spec.policy = "lax" /\ mem.spec \in SpecType
      BY <1>c, SpecsAssumption DEF MemType, AllLax
    <3>2. des.privs = mem.spec.privs
      BY <3>1 DEF HandleDefaults, SpecType
    <3>3. FilterManagedPrivileges(Read(mem.spec).privs, des.privs, mem.prev, mem.spec.policy)
            \subseteq des.privs \cup mem.prev
      BY <3>1 DEF FilterManagedPrivileges
    <3>4. obs.privs \subseteq everSpec
      BY <1>2, <3>2, <3>3 DEF Read, Observe, LaxInv
    <3>5. /\ mem' = [mem EXCEPT !.obs = obs]
          /\ UNCHANGED <<cr, plan, everSpec>> /\ pc = "observe"
      BY <1>2, <2>2 DEF Observe
    <3> HIDE DEF obs
    <3>6. mem'.spec = mem.spec /\ mem'.prev = mem.prev /\ mem'.obs = obs
      BY <3>5, <1>c DEF MemType
    <3> QED BY <3>4, <3>5, <3>6 DEF LaxInv
  <2> QED BY <2>1, <2>2
<1>3. CASE ObserveRefuses \/ ObserveFails \/ Crash
  BY <1>3, <1>i DEF ObserveRefuses, ObserveFails, Crash, LaxInv
<1>4. CASE RemoveFinalizer
  <2>1. cr'.prev = cr.prev /\ cr'.spec = cr.spec
    BY <1>4, <1>c DEF RemoveFinalizer, CrType
  <2> QED BY <1>4, <2>1, <1>i DEF RemoveFinalizer, LaxInv
<1>5. CASE BeginCreate
  <2>1. cr'.prev = cr.prev /\ cr'.spec = cr.spec /\ everSpec' = everSpec
    BY <1>5, <1>c DEF BeginCreate, Announce, CrType
  <2>2. CASE stale
    BY <1>5, <2>1, <2>2, <1>i DEF BeginCreate, LaxInv
  <2>3. CASE ~ stale
    <3>1. pc = "create" /\ mem' = mem
      BY <1>5, <2>3 DEF BeginCreate
    <3>2. plan' = plan \/ (plan'.revokePrivs = {} /\ plan'.recordPrivs = {})
      BY <1>5, <2>3, OtherPlansRevokeNothing DEF BeginCreate
    <3> QED BY <2>1, <3>1, <3>2 DEF LaxInv
  <2> QED BY <2>2, <2>3
<1>6. CASE BeginUpdate
  <2>1. mem.spec \in Specs /\ mem.spec.policy = "lax" /\ mem.obs \in ObsType
    BY <1>c DEF MemType, AllLax
  <2>2. \A g \in plan'.revokePrivs \cup plan'.recordPrivs : g \subseteq everSpec
    BY <1>6, <2>1, LaxPlan DEF BeginUpdate, LaxInv
  <2> QED BY <1>6, <2>2 DEF BeginUpdate, LaxInv
<1>7. CASE BeginDelete
  BY <1>7, OtherPlansRevokeNothing DEF BeginDelete, LaxInv
<1>8. CASE Statement
  <2>1. pc = "run" /\ PlanStep /\ MemStep /\ UNCHANGED <<cr, everSpec>>
    BY <1>8, StatementFrame DEF Frame
  <2>2. /\ plan'.revokePrivs \subseteq plan.revokePrivs
        /\ plan'.recordPrivs \subseteq plan.recordPrivs
    BY <2>1 DEF PlanStep, Steps
  <2>3. mem'.obs.privs = mem.obs.privs \/ mem'.obs.privs \in plan.recordPrivs
    BY <2>1, <1>c DEF MemStep, MemType, ObsType
  <2>4. mem'.spec = mem.spec /\ mem'.prev = mem.prev
    BY <2>1, <1>c DEF MemStep, MemType
  <2> QED BY <2>1, <2>2, <2>3, <2>4 DEF LaxInv
<1>9. CASE FinishRun
  BY <1>9 DEF FinishRun, LaxInv
<1>10. CASE EndCreate
  <2>1. cr'.prev = cr.prev /\ cr'.spec = cr.spec
    BY <1>10, <1>c DEF EndCreate, CrType
  <2> QED BY <1>10, <2>1, <1>i DEF EndCreate, LaxInv
<1>11. CASE SaveStatus
  <2>1. cr'.prev \in {cr.prev, mem.obs.privs} /\ cr'.spec = cr.spec
    BY <1>11, <1>c DEF SaveStatus, CrType
  <2> QED BY <1>11, <2>1, <1>i DEF SaveStatus, LaxInv
<1>12. CASE EditSpec
  <2>1. PICK s \in Specs : cr' = [cr EXCEPT !.spec = s] /\ everSpec' = everSpec \cup s.privs
    BY <1>12 DEF EditSpec
  <2>2. cr'.spec = s /\ cr'.prev = cr.prev
    BY <2>1, <1>c DEF CrType
  <2> QED BY <1>12, <2>1, <2>2 DEF EditSpec, LaxInv
<1>13. CASE RequestDelete
  <2>1. cr'.prev = cr.prev /\ cr'.spec = cr.spec
    BY <1>13, <1>c DEF RequestDelete, CrType
  <2> QED BY <1>13, <2>1 DEF RequestDelete, LaxInv
<1>14. CASE ChangeSecret \/ DbaGrants \/ DbaRevokes \/ DbaLocks
  BY <1>14 DEF ChangeSecret, DbaGrants, DbaRevokes, DbaLocks, LaxInv
<1>15. CASE StatementFails
  BY <1>15, <1>e DEF StatementFails, Failure, Abort, AfterRun, LaxInv
<1>16. CASE UNCHANGED vars
  BY <1>16 DEF vars, LaxInv
<1> QED BY <1>1, <1>2, <1>3, <1>4, <1>5, <1>6, <1>7, <1>8, <1>9, <1>10, <1>11, <1>12, <1>13,
           <1>14, <1>15, <1>16 DEF Next, Controller, Environment

LEMMA LaxInit == Init => LaxInv
BY DEF Init, LaxInv, EmptyMem, EmptyObs, EmptyPlan

LEMMA LaxRevokes ==
    ASSUME TypeOK, LifeInv, LaxInv, [Next]_vars,
           drifts' = drifts, db.exists, db'.exists
    PROVE  Names(db.privs) \ Names(db'.privs) \subseteq Names(everSpec)
<1>1. CASE Statement
  <2>1. DbStep
    BY <1>1, StatementFrame DEF Frame
  <2>2. plan.createUser = {}
    BY DEF LifeInv
  <2>3. CASE db'.privs = db.privs
    BY <2>3 DEF Names
  <2>4. ASSUME NEW g \in plan.grantPrivs, db'.privs = GrantTo(db.privs, g)
        PROVE  Names(db.privs) \subseteq Names(db'.privs)
    BY <2>4 DEF GrantTo, Names
  <2>5. ASSUME NEW g \in plan.revokePrivs, db'.privs = RevokeFrom(db.privs, g)
        PROVE  Names(db.privs) \ Names(db'.privs) \subseteq Names(everSpec)
    <3>1. g \subseteq everSpec
      BY DEF LaxInv
    <3> QED BY <2>5, <3>1 DEF RevokeFrom, Names
  <2> QED BY <2>1, <2>2, <2>3, <2>4, <2>5 DEF DbStep
<1>2. CASE DbaGrants \/ DbaRevokes \/ DbaLocks
  <2>1. drifts' = drifts + 1 /\ drifts \in Nat
    BY <1>2 DEF DbaGrants, DbaRevokes, DbaLocks, Drift, TypeOK
  <2> QED BY <2>1
<1>3. CASE db' = db
  BY <1>3
<1> QED BY <1>1, <1>2, <1>3 DEF Next, Controller, Environment, vars, Reconcile, Observe,
        ObserveRefuses, RemoveFinalizer, BeginCreate, BeginUpdate, BeginDelete, FinishRun,
        EndCreate, SaveStatus, EditSpec, RequestDelete, ChangeSecret, ObserveFails,
        StatementFails, Crash

\* Under the lax policy the provider never takes from an existing user a privilege
\* that its spec never listed, however edits, drift, failures and restarts fall
\* (FilterManagedPrivileges and the status it reads).
THEOREM LaxCorrect == AllLax => (Spec => RevokesOnlyManaged)
<1> SUFFICES ASSUME AllLax PROVE Spec => RevokesOnlyManaged
  OBVIOUS
<1>1. TypeOK /\ LaxInv /\ [Next]_vars => LaxInv'
  BY LaxStep
<1>2. TypeOK /\ LifeInv /\ LaxInv /\ [Next]_vars
        => [drifts' = drifts /\ db.exists /\ db'.exists /\ mem.spec.policy = "lax" =>
                Names(db.privs) \ Names(db'.privs) \subseteq Names(everSpec)]_vars
  BY LaxRevokes
<1> QED BY <1>1, <1>2, LaxInit, TypeCorrect, LifeCorrect, PTL DEF Spec, RevokesOnlyManaged

-----------------------------------------------------------------------------
(* Strict: the defaults are kept. *)

Plain == [name |-> DefaultName, opt |-> FALSE]
Admin == [name |-> PublicName, opt |-> TRUE]

\* All users are managed under the strict policy, no spec asks for PUBLIC with the
\* admin option, which HANA does not grant, and the DBA leaves the default alone.
StrictInstance ==
    /\ \A s \in Specs : s.policy = "strict" /\ Admin \notin s.roles
    /\ DefaultName \notin Names(DriftPrivs)

\* The default privilege is held with its option only and PUBLIC without, so that
\* what Observe reports of them is what handleDefaults asks for, and no REVOKE
\* names them.
DefaultsInv ==
    ~ cr.spec.restricted =>
        /\ db.exists => /\ Default \in db.privs /\ Plain \notin db.privs
                        /\ Public \in db.roles /\ Admin \notin db.roles
        /\ pc # "idle" => ~ mem.spec.restricted
        /\ pc = "update" => Plain \notin mem.obs.privs /\ Admin \notin mem.obs.roles
        /\ \A s \in plan.createUser : ~ s.spec.restricted
        /\ \A g \in plan.grantRoles \cup plan.grantAdminRoles : Admin \notin g
        /\ \A g \in plan.revokePrivs : DefaultName \notin Names(g)
        /\ \A g \in plan.revokeRoles : PublicName \notin Names(g)

\* What an Update of an unrestricted strict user grants and revokes.
LEMMA StrictPlan ==
    ASSUME StrictInstance, NEW s \in Specs, ~ s.restricted, NEW o \in ObsType,
           Plain \notin o.privs, Admin \notin o.roles
    PROVE  /\ UpdatePlan(s, o).createUser = {}
           /\ \A g \in UpdatePlan(s, o).grantRoles \cup UpdatePlan(s, o).grantAdminRoles : Admin \notin g
           /\ \A g \in UpdatePlan(s, o).revokePrivs : DefaultName \notin Names(g)
           /\ \A g \in UpdatePlan(s, o).revokeRoles : PublicName \notin Names(g)
<1> DEFINE des == HandleDefaults(s)
           obs == [o EXCEPT !.privs = FilterManagedPrivileges(@, s.privs, @, s.policy)]
<1>1. s \in SpecType /\ s.policy = "strict" /\ Admin \notin s.roles
  BY SpecsAssumption DEF StrictInstance
<1>2. des.privs = s.privs \cup {Default} /\ des.roles = s.roles \cup {Public}
  BY <1>1 DEF HandleDefaults, SpecType
<1>3. obs.privs = o.privs /\ obs.roles = o.roles
  BY <1>1 DEF ObsType, FilterManagedPrivileges
<1>4. /\ UpdatePlan(s, o).grantRoles = {{r \in des.roles \ obs.roles : ~ r.opt}} \ {{}}
      /\ UpdatePlan(s, o).grantAdminRoles = {{r \in des.roles \ obs.roles : r.opt}} \ {{}}
      /\ UpdatePlan(s, o).revokePrivs = Groups(obs.privs \ des.privs)
      /\ UpdatePlan(s, o).revokeRoles = {obs.roles \ des.roles} \ {{}}
  BY DEF UpdatePlan, UpdatePrivileges, UpdateRoles, UpdateParameters, UpdateUsergroup,
         UpdateX509Providers, UpdatePasswordLifetimeCheck, UpdatePassword, EmptyPlan
<1> HIDE DEF des, obs
<1>5. Admin \notin des.roles
  BY <1>1, <1>2 DEF Admin, Public
<1>6. ASSUME NEW p \in o.privs \ des.privs PROVE p.name # DefaultName
  <2>1. p \in [name : PrivNames, opt : BOOLEAN] /\ p # Default /\ p # Plain
    BY <1>2, <1>6 DEF ObsType, Priv
  <2> QED BY <2>1 DEF Default, Plain
<1>7. ASSUME NEW r \in o.roles \ des.roles PROVE r.name # PublicName
  <2>1. r \in [name : RoleNames, opt : BOOLEAN] /\ r # Public /\ r # Admin
    BY <1>2, <1>7 DEF ObsType, Role
  <2> QED BY <2>1 DEF Public, Admin
<1>8. \A g \in Groups(o.privs \ des.privs) : DefaultName \notin Names(g)
  BY <1>6, GroupsSubset DEF Names
<1>9. UpdatePlan(s, o).createUser = {}
  BY UpdateCreatesNoUser
<1> QED BY <1>3, <1>4, <1>5, <1>7, <1>8, <1>9 DEF Names

\* GRANT and REVOKE statements that do not name them leave the defaults as they are.
LEMMA GrantKeepsPrivilege ==
    ASSUME NEW have \in SUBSET Priv, NEW g \in SUBSET Priv, Default \in have, Plain \notin have
    PROVE  Default \in GrantTo(have, g) /\ Plain \notin GrantTo(have, g)
<1>1. ASSUME NEW q \in g, q.name = Default.name, q.opt PROVE q = Default
  <2>1. q \in [name : PrivNames, opt : BOOLEAN]
    BY DEF Priv
  <2> QED BY <2>1, <1>1 DEF Default
<1>2. Plain.name \in Names(have) /\ ~ Plain.opt
  BY DEF Names, Default, Plain
<1>3. Default.opt
  BY DEF Default
<1> QED BY <1>1, <1>2, <1>3 DEF GrantTo

LEMMA GrantKeepsRole ==
    ASSUME NEW have \in SUBSET Role, NEW g \in SUBSET Role, Public \in have,
           Admin \notin have, Admin \notin g
    PROVE  Public \in GrantTo(have, g) /\ Admin \notin GrantTo(have, g)
<1>1. ASSUME NEW q \in g, q.name = Public.name, q.opt PROVE FALSE
  <2>1. q \in [name : RoleNames, opt : BOOLEAN]
    BY DEF Role
  <2> QED BY <2>1, <1>1 DEF Public, Admin
<1> QED BY <1>1 DEF GrantTo

LEMMA RevokeKeeps ==
    ASSUME NEW have, NEW g, NEW q \in have, q.name \notin Names(g), NEW r, r \notin have
    PROVE  q \in RevokeFrom(have, g) /\ r \notin RevokeFrom(have, g)
BY DEF RevokeFrom

LEMMA DefaultsStatement ==
    ASSUME TypeOK, LifeInv, DefaultsInv, Statement PROVE DefaultsInv'
<1> SUFFICES ASSUME ~ cr.spec.restricted PROVE DefaultsInv'
  <2>1. cr' = cr
    BY StatementFrame DEF Frame
  <2> QED BY <2>1 DEF DefaultsInv
<1>c. db \in DbType /\ plan \in PlanType /\ mem \in MemType
  BY DEF TypeOK
<1>1. pc = "run" /\ PlanStep /\ MemStep /\ DbStep /\ cr' = cr
  BY StatementFrame DEF Frame
<1>2. /\ plan'.createUser \subseteq plan.createUser
      /\ plan'.grantRoles \subseteq plan.grantRoles
      /\ plan'.grantAdminRoles \subseteq plan.grantAdminRoles
      /\ plan'.revokePrivs \subseteq plan.revokePrivs
      /\ plan'.revokeRoles \subseteq plan.revokeRoles
  BY <1>1 DEF PlanStep, Steps
<1>3. mem'.spec = mem.spec /\ pc' # "update"
  BY <1>1, <1>c DEF MemStep, MemType, PlanStep
<1>4. db'.exists => /\ Default \in db'.privs /\ Plain \notin db'.privs
                    /\ Public \in db'.roles /\ Admin \notin db'.roles
  <2> SUFFICES ASSUME db'.exists
               PROVE  /\ Default \in db'.privs /\ Plain \notin db'.privs
                      /\ Public \in db'.roles /\ Admin \notin db'.roles
    OBVIOUS
  <2>t. db.privs \in SUBSET Priv /\ db.roles \in SUBSET Role
    BY <1>c DEF DbType
  <2>1. ASSUME NEW s \in plan.createUser, db' = NewUser(s.spec, s.pw)
        PROVE  db'.privs = {Default} /\ db'.roles = {Public}
    <3>1. ~ s.spec.restricted
      BY DEF DefaultsInv
    <3> QED BY <2>1, <3>1 DEF NewUser
  <2>2. Default # Plain /\ Public # Admin
    BY DEF Default, Plain, Public, Admin
  <2>3. CASE \E s \in plan.createUser : db' = NewUser(s.spec, s.pw)
    BY <2>1, <2>2, <2>3
  <2>4. CASE /\ db'.exists = db.exists /\ db'.roles = db.roles
             /\ \/ db'.privs = db.privs
                \/ \E g \in plan.grantPrivs : db'.privs = GrantTo(db.privs, g)
                \/ \E g \in plan.revokePrivs : db'.privs = RevokeFrom(db.privs, g)
    <3>1. /\ Default \in db.privs /\ Plain \notin db.privs
          /\ Public \in db'.roles /\ Admin \notin db'.roles
      BY <2>4 DEF DefaultsInv
    <3>2. ASSUME NEW g \in plan.grantPrivs, db'.privs = GrantTo(db.privs, g)
          PROVE  Default \in db'.privs /\ Plain \notin db'.privs
      <4>1. g \in SUBSET Priv
        BY <1>c DEF PlanType
      <4> QED BY <4>1, <3>1, <3>2, <2>t, GrantKeepsPrivilege
    <3>3. ASSUME NEW g \in plan.revokePrivs, db'.privs = RevokeFrom(db.privs, g)
          PROVE  Default \in db'.privs /\ Plain \notin db'.privs
      <4>1. Default.name \notin Names(g)
        BY DEF DefaultsInv, Default
      <4> QED BY <4>1, <3>1, <3>3, RevokeKeeps
    <3> QED BY <2>4, <3>1, <3>2, <3>3
  <2>5. CASE /\ db'.exists = db.exists /\ db'.privs = db.privs
             /\ \/ \E g \in plan.grantRoles \cup plan.grantAdminRoles :
                        db'.roles = GrantTo(db.roles, g)
                \/ \E g \in plan.revokeRoles : db'.roles = RevokeFrom(db.roles, g)
    <3>1. /\ Default \in db'.privs /\ Plain \notin db'.privs
          /\ Public \in db.roles /\ Admin \notin db.roles
      BY <2>5 DEF DefaultsInv
    <3>2. ASSUME NEW g \in plan.grantRoles \cup plan.grantAdminRoles,
                 db'.roles = GrantTo(db.roles, g)
          PROVE  Public \in db'.roles /\ Admin \notin db'.roles
      <4>1. g \in SUBSET Role
        BY <1>c DEF PlanType
      <4>2. Admin \notin g
        BY DEF DefaultsInv
      <4> QED BY <4>1, <4>2, <3>1, <3>2, <2>t, GrantKeepsRole
    <3>3. ASSUME NEW g \in plan.revokeRoles, db'.roles = RevokeFrom(db.roles, g)
          PROVE  Public \in db'.roles /\ Admin \notin db'.roles
      <4>1. Public.name \notin Names(g)
        BY DEF DefaultsInv, Public
      <4> QED BY <4>1, <3>1, <3>3, RevokeKeeps
    <3> QED BY <2>5, <3>1, <3>2, <3>3
  <2> QED BY <1>1, <2>3, <2>4, <2>5 DEF DbStep
<1> QED BY <1>1, <1>2, <1>3, <1>4 DEF DefaultsInv

LEMMA DefaultsStep ==
    ASSUME StrictInstance
    PROVE  TypeOK /\ LifeInv /\ DefaultsInv /\ [Next]_vars => DefaultsInv'
<1> SUFFICES ASSUME TypeOK, LifeInv, DefaultsInv, [Next]_vars PROVE DefaultsInv'
  OBVIOUS
<1>c. cr \in CrType /\ db \in DbType /\ plan \in PlanType /\ mem \in MemType
  BY DEF TypeOK
<1>e. /\ EmptyPlan.createUser = {} /\ EmptyPlan.grantRoles = {}
      /\ EmptyPlan.grantAdminRoles = {} /\ EmptyPlan.revokePrivs = {}
      /\ EmptyPlan.revokeRoles = {}
  BY DEF EmptyPlan
<1>i. ASSUME Idle, db' = db, cr'.spec = cr.spec PROVE DefaultsInv'
  BY <1>i, <1>e DEF Idle, DefaultsInv
<1>u. ASSUME UNCHANGED <<db, plan, mem>>, cr'.spec = cr.spec, pc' \notin {"idle", "update"},
             pc # "idle"
      PROVE  DefaultsInv'
  BY <1>u DEF DefaultsInv
<1>1. CASE Reconcile
  BY <1>1 DEF Reconcile, DefaultsInv
<1>2. CASE Observe
  <2>1. CASE ~ db.exists
    BY <1>2, <2>1, <1>u DEF Observe
  <2>2. CASE db.exists
    <3> DEFINE des == HandleDefaults(mem.spec)
               obs == [Read(mem.spec) EXCEPT !.privs =
                          FilterManagedPrivileges(@, des.privs, mem.prev, mem.spec.policy)]
    <3>1. mem.spec.policy = "strict"
      BY <1>c DEF MemType, StrictInstance
    <3>2. obs.privs = db.privs /\ obs.roles = db.roles
      BY <3>1 DEF Read, FilterManagedPrivileges
    <3>3. /\ mem' = [mem EXCEPT !.obs = obs]
          /\ UNCHANGED <<cr, plan, db>> /\ pc = "observe"
      BY <1>2, <2>2 DEF Observe
    <3> HIDE DEF obs
    <3>4. mem'.spec = mem.spec /\ mem'.obs = obs
      BY <3>3, <1>c DEF MemType
    <3> QED BY <3>2, <3>3, <3>4, <2>2 DEF DefaultsInv
  <2> QED BY <2>1, <2>2
<1>3. CASE ObserveRefuses \/ ObserveFails \/ Crash
  BY <1>3, <1>i DEF ObserveRefuses, ObserveFails, Crash
<1>4. CASE RemoveFinalizer
  <2>1. cr'.spec = cr.spec
    BY <1>4, <1>c DEF RemoveFinalizer, CrType
  <2> QED BY <1>4, <2>1, <1>i DEF RemoveFinalizer
<1>5. CASE BeginCreate
  <2>1. cr'.spec = cr.spec
    BY <1>5, <1>c DEF BeginCreate, Announce, CrType
  <2>2. CASE stale
    BY <1>5, <2>1, <2>2, <1>i DEF BeginCreate
  <2>3. CASE ~ stale /\ plan' = plan
    BY <1>5, <2>1, <2>3, <1>u DEF BeginCreate
  <2>4. CASE ~ stale /\ plan' = CreatePlan(mem.spec, GetPassword(mem.spec))
    <3>1. Admin \notin mem.spec.roles
      BY <1>c DEF MemType, StrictInstance
    <3> DEFINE p == CreatePlan(mem.spec, GetPassword(mem.spec))
    <3>2. /\ p.createUser = {[spec |-> mem.spec, pw |-> GetPassword(mem.spec)]}
          /\ p.grantRoles = {{r \in mem.spec.roles : ~ r.opt}} \ {{}}
          /\ p.grantAdminRoles = {{r \in mem.spec.roles : r.opt}} \ {{}}
          /\ p.revokePrivs = {} /\ p.revokeRoles = {}
      BY DEF CreatePlan, EmptyPlan
    <3>3. UNCHANGED <<db, mem>> /\ pc = "create" /\ pc' # "update" /\ plan' = p
      BY <1>5, <2>4 DEF BeginCreate
    <3> HIDE DEF p
    <3> QED BY <2>1, <3>1, <3>2, <3>3 DEF DefaultsInv
  <2> QED BY <1>5, <2>2, <2>3, <2>4 DEF BeginCreate
<1>6. CASE BeginUpdate
  <2>1. mem.spec \in Specs /\ mem.obs \in ObsType
    BY <1>c DEF MemType
  <2>2. CASE ~ cr.spec.restricted
    <3>1. ~ mem.spec.restricted /\ Plain \notin mem.obs.privs /\ Admin \notin mem.obs.roles
      BY <1>6, <2>2 DEF BeginUpdate, DefaultsInv
    <3>2. /\ plan'.createUser = {}
          /\ \A g \in plan'.grantRoles \cup plan'.grantAdminRoles : Admin \notin g
          /\ \A g \in plan'.revokePrivs : DefaultName \notin Names(g)
          /\ \A g \in plan'.revokeRoles : PublicName \notin Names(g)
      BY <1>6, <2>1, <3>1, StrictPlan DEF BeginUpdate
    <3> QED BY <1>6, <3>1, <3>2 DEF BeginUpdate, DefaultsInv
  <2>3. CASE cr.spec.restricted
    BY <1>6, <2>3 DEF BeginUpdate, DefaultsInv
  <2> QED BY <2>2, <2>3
<1>7. CASE BeginDelete
  <2>1. /\ DeletePlan.createUser = {} /\ DeletePlan.grantRoles = {}
        /\ DeletePlan.grantAdminRoles = {} /\ DeletePlan.revokePrivs = {}
        /\ DeletePlan.revokeRoles = {}
    BY DEF DeletePlan, EmptyPlan
  <2> QED BY <1>7, <2>1 DEF BeginDelete, DefaultsInv
<1>8. CASE Statement
  BY <1>8, DefaultsStatement
<1>9. CASE FinishRun
  BY <1>9, <1>u DEF FinishRun, AfterRun
<1>10. CASE EndCreate
  <2>1. cr'.spec = cr.spec
    BY <1>10, <1>c DEF EndCreate, CrType
  <2> QED BY <1>10, <2>1, <1>i DEF EndCreate
<1>11. CASE SaveStatus
  <2>1. cr'.spec = cr.spec
    BY <1>11, <1>c DEF SaveStatus, CrType
  <2> QED BY <1>11, <2>1, <1>i DEF SaveStatus
<1>12. CASE EditSpec
  <2>1. cr'.spec.restricted = cr.spec.restricted /\ UNCHANGED <<db, pc, mem, plan>>
    BY <1>12, <1>c DEF EditSpec, CrType
  <2> QED BY <2>1 DEF DefaultsInv
<1>13. CASE RequestDelete
  <2>1. cr'.spec = cr.spec
    BY <1>13, <1>c DEF RequestDelete, CrType
  <2> QED BY <1>13, <2>1 DEF RequestDelete, DefaultsInv
<1>14. CASE ChangeSecret
  BY <1>14 DEF ChangeSecret, DefaultsInv
<1>15. CASE DbaGrants
  <2>1. PICK p \in DriftPrivs : db' = [db EXCEPT !.privs = GrantTo(@, {p})]
    BY <1>15 DEF DbaGrants
  <2>2. db'.exists = db.exists /\ db'.roles = db.roles /\ db'.privs = GrantTo(db.privs, {p})
    BY <2>1, <1>c DEF DbType
  <2>3. {p} \in SUBSET Priv /\ db.privs \in SUBSET Priv
    BY DriftAssumption, <1>c DEF DbType
  <2>4. Default \in db.privs /\ Plain \notin db.privs
            => Default \in db'.privs /\ Plain \notin db'.privs
    BY <2>2, <2>3, GrantKeepsPrivilege
  <2> QED BY <1>15, <2>2, <2>4 DEF DbaGrants, DefaultsInv
<1>16. CASE DbaRevokes
  <2>1. PICK p \in DriftPrivs : db' = [db EXCEPT !.privs = @ \ {p}]
    BY <1>16 DEF DbaRevokes
  <2>2. db'.exists = db.exists /\ db'.roles = db.roles /\ db'.privs = db.privs \ {p}
    BY <2>1, <1>c DEF DbType
  <2>3. p # Default
    BY DEF StrictInstance, Names, Default
  <2> QED BY <1>16, <2>2, <2>3 DEF DbaRevokes, DefaultsInv
<1>17. CASE DbaLocks
  <2>1. db'.exists = db.exists /\ db'.roles = db.roles /\ db'.privs = db.privs
    BY <1>17, <1>c DEF DbaLocks, DbType
  <2> QED BY <1>17, <2>1 DEF DbaLocks, DefaultsInv
<1>18. CASE StatementFails
  <2>1. plan' = EmptyPlan /\ pc' # "update" /\ pc # "idle" /\ UNCHANGED <<cr, db, mem>>
    BY <1>18 DEF StatementFails, Failure, Abort, AfterRun
  <2> QED BY <2>1, <1>e DEF DefaultsInv
<1>19. CASE UNCHANGED vars
  BY <1>19 DEF vars, DefaultsInv
<1> QED BY <1>1, <1>2, <1>3, <1>4, <1>5, <1>6, <1>7, <1>8, <1>9, <1>10, <1>11, <1>12, <1>13,
           <1>14, <1>15, <1>16, <1>17, <1>18, <1>19 DEF Next, Controller, Environment

LEMMA DefaultsInit == Init => DefaultsInv
BY DEF Init, DefaultsInv, NoUser, EmptyPlan

\* Under the strict policy an unrestricted user keeps its default privilege and
\* the role PUBLIC from CREATE USER to DROP USER, whatever the specs list and
\* however edits, drift, failures and restarts fall (handleDefaults).
THEOREM DefaultsCorrect == StrictInstance => (Spec => []DefaultsKept)
<1> SUFFICES ASSUME StrictInstance PROVE Spec => []DefaultsKept
  OBVIOUS
<1>1. TypeOK /\ LifeInv /\ DefaultsInv /\ [Next]_vars => DefaultsInv'
  BY DefaultsStep
<1>2. DefaultsInv => DefaultsKept
  BY DEF DefaultsInv, DefaultsKept
<1> QED BY <1>1, <1>2, DefaultsInit, TypeCorrect, LifeCorrect, PTL DEF Spec

-----------------------------------------------------------------------------
(* UserController implements ManagedResource. *)

\* DROP USER is planned only for a CR whose deletion was requested, which nobody
\* takes back, and such a CR has its finalizer for as long as it exists.
DropInv ==
    /\ plan.dropUser # {} => pc = "run" /\ cr.deleting
    /\ mem.deleting => cr.deleting
    /\ pc \in {"delete", "removeFinalizer"} => mem.deleting
    /\ cr.exists /\ cr.deleting => cr.finalizer

\* Create and Update drop no user.
LEMMA OtherPlansDropNoUser ==
    ASSUME NEW s, NEW o, NEW pw
    PROVE  /\ UpdatePlan(s, o).dropUser = {}
           /\ CreatePlan(s, pw).dropUser = {}
           /\ EmptyPlan.dropUser = {}
<1>1. UpdatePlan(s, o).dropUser = {}
  BY DEF UpdatePlan, UpdatePrivileges, UpdateRoles, UpdateParameters, UpdateUsergroup,
         UpdateX509Providers, UpdatePasswordLifetimeCheck, UpdatePassword, EmptyPlan
<1>2. CreatePlan(s, pw).dropUser = {}
  BY DEF CreatePlan, EmptyPlan
<1>3. EmptyPlan.dropUser = {}
  BY DEF EmptyPlan
<1> QED BY <1>1, <1>2, <1>3

LEMMA DropStep == TypeOK /\ LifeInv /\ DropInv /\ [Next]_vars => DropInv'
<1> SUFFICES ASSUME TypeOK, LifeInv, DropInv, [Next]_vars PROVE DropInv'
  OBVIOUS
<1>c. cr \in CrType /\ plan \in PlanType /\ mem \in MemType
  BY DEF TypeOK
<1>e. EmptyPlan.dropUser = {} /\ EmptyMem.deleting = FALSE
  BY DEF EmptyPlan, EmptyMem
<1>i. ASSUME Idle, cr'.exists /\ cr'.deleting => cr'.finalizer PROVE DropInv'
  BY <1>i, <1>e DEF Idle, DropInv
<1>1. CASE Reconcile
  BY <1>1 DEF Reconcile, DropInv
<1>2. CASE Observe
  <2>1. /\ UNCHANGED <<cr, plan>> /\ pc = "observe"
        /\ pc' \in {"delete", "removeFinalizer"} => mem.deleting
    BY <1>2 DEF Observe
  <2>2. mem'.deleting = mem.deleting
    BY <1>2, <1>c DEF Observe, MemType
  <2> QED BY <2>1, <2>2 DEF DropInv
<1>3. CASE ObserveRefuses \/ ObserveFails \/ Crash
  BY <1>3, <1>i DEF ObserveRefuses, ObserveFails, Crash, DropInv
<1>4. CASE RemoveFinalizer
  BY <1>4, <1>c, <1>i DEF RemoveFinalizer, CrType, DropInv
<1>5. CASE BeginCreate
  <2>1. CASE stale
    BY <1>5, <2>1, <1>i DEF BeginCreate, DropInv
  <2>2. CASE ~ stale
    <3>1. cr'.finalizer /\ cr'.deleting = cr.deleting
      BY <1>5, <2>2, <1>c DEF BeginCreate, Announce, CrType
    <3>2. /\ mem' = mem /\ pc' \in {"run", "endCreate"} /\ pc = "create"
          /\ plan' = plan \/ plan' = CreatePlan(mem.spec, GetPassword(mem.spec))
      BY <1>5, <2>2 DEF BeginCreate
    <3>3. plan'.dropUser = {}
      BY <3>2, OtherPlansDropNoUser DEF DropInv
    <3> QED BY <3>1, <3>2, <3>3 DEF DropInv
  <2> QED BY <2>1, <2>2
<1>6. CASE BeginUpdate
  BY <1>6, OtherPlansDropNoUser DEF BeginUpdate, DropInv
<1>7. CASE BeginDelete
  BY <1>7 DEF BeginDelete, DropInv
<1>8. CASE Statement
  <2>1. pc = "run" /\ PlanStep /\ MemStep /\ UNCHANGED cr
    BY <1>8, StatementFrame DEF Frame
  <2>2. plan'.dropUser \subseteq plan.dropUser
    BY <2>1 DEF PlanStep, Steps
  <2>3. (plan'.dropUser # {} => pc' = "run") /\ pc' \notin {"delete", "removeFinalizer"}
    BY <2>1, <1>e DEF PlanStep
  <2>4. mem'.deleting = mem.deleting
    BY <2>1, <1>c DEF MemStep, MemType
  <2> QED BY <2>1, <2>2, <2>3, <2>4 DEF DropInv
<1>9. CASE FinishRun
  BY <1>9, <1>e DEF FinishRun, AfterRun, DropInv
<1>10. CASE EndCreate
  BY <1>10, <1>c, <1>i DEF EndCreate, CrType, DropInv
<1>11. CASE SaveStatus
  BY <1>11, <1>c, <1>i DEF SaveStatus, CrType, DropInv
<1>12. CASE EditSpec
  <2>1. /\ cr'.exists = cr.exists /\ cr'.finalizer = cr.finalizer
        /\ cr'.deleting = cr.deleting
    BY <1>12, <1>c DEF EditSpec, CrType
  <2> QED BY <1>12, <2>1 DEF EditSpec, DropInv
<1>13. CASE RequestDelete
  BY <1>13, <1>c DEF RequestDelete, CrType, DropInv
<1>14. CASE ChangeSecret
  BY <1>14 DEF ChangeSecret, DropInv
<1>15. CASE DbaGrants \/ DbaRevokes \/ DbaLocks
  BY <1>15 DEF DbaGrants, DbaRevokes, DbaLocks, DropInv
<1>16. CASE StatementFails
  BY <1>16, <1>e DEF StatementFails, Failure, Abort, AfterRun, DropInv
<1>17. CASE UNCHANGED vars
  BY <1>17 DEF vars, DropInv
<1> QED BY <1>1, <1>2, <1>3, <1>4, <1>5, <1>6, <1>7, <1>8, <1>9, <1>10, <1>11, <1>12, <1>13,
           <1>14, <1>15, <1>16, <1>17 DEF Next, Controller, Environment

LEMMA DropInit == Init => DropInv
BY DEF Init, DropInv, EmptyPlan, EmptyMem

-----------------------------------------------------------------------------
(* The refinement. *)

LEMMA ManagedInit == Init => Managed!Init
BY DEF Init, NoUser, Managed!Init

\* All of the CR and of the user that ManagedResource knows of.
Same == /\ cr'.exists = cr.exists /\ cr'.finalizer = cr.finalizer
        /\ cr'.deleting = cr.deleting /\ db'.exists = db.exists

LEMMA ManagedStep ==
    TypeOK /\ LifeInv /\ DropInv /\ [Next]_vars => [Managed!Next]_(Managed!vars)
<1> SUFFICES ASSUME TypeOK, LifeInv, DropInv, [Next]_vars
             PROVE  Managed!Next \/ UNCHANGED Managed!vars
  BY DEF Managed!vars
<1>c. cr \in CrType /\ db \in DbType
  BY DEF TypeOK
<1>s. ASSUME Same PROVE UNCHANGED Managed!vars
  BY <1>s DEF Same, Managed!vars
<1>1. CASE Reconcile \/ Observe \/ BeginUpdate \/ BeginDelete \/ FinishRun \/ ObserveRefuses
            \/ ObserveFails \/ StatementFails \/ Crash \/ ChangeSecret \/ UNCHANGED vars
  <2>1. UNCHANGED <<cr, db>>
    BY <1>1 DEF Reconcile, Observe, BeginUpdate, BeginDelete, FinishRun, ObserveRefuses,
                ObserveFails, StatementFails, Crash, ChangeSecret, vars
  <2> QED BY <2>1, <1>s DEF Same
<1>2. CASE EndCreate \/ SaveStatus \/ EditSpec \/ DbaGrants \/ DbaRevokes \/ DbaLocks
  <2>1. Same
    BY <1>2, <1>c DEF EndCreate, SaveStatus, EditSpec, DbaGrants, DbaRevokes, DbaLocks,
                      CrType, DbType, Same
  <2> QED BY <2>1, <1>s
<1>3. CASE RemoveFinalizer
  <2>1. CASE stale
    BY <1>3, <2>1, <1>s DEF RemoveFinalizer, Same
  <2>2. CASE ~ stale
    <3>1. cr.exists /\ cr.finalizer /\ cr.deleting /\ ~ db.exists
      BY <1>3, <2>2 DEF RemoveFinalizer, LifeInv, DropInv
    <3>2. ~ cr'.exists /\ cr'.deleting = cr.deleting /\ db' = db
      BY <1>3, <2>2, <1>c DEF RemoveFinalizer, CrType
    <3>3. Managed!Release
      BY <3>1, <3>2 DEF Managed!Release
    <3> QED BY <3>3 DEF Managed!Next
  <2> QED BY <2>1, <2>2
<1>4. CASE BeginCreate
  <2>1. CASE stale
    BY <1>4, <2>1, <1>s DEF BeginCreate, Same
  <2>2. CASE ~ stale
    <3>1. cr.exists /\ cr'.exists /\ cr'.finalizer /\ cr'.deleting = cr.deleting /\ db' = db
      BY <1>4, <2>2, <1>c DEF BeginCreate, Announce, CrType, LifeInv
    <3>2. CASE cr.finalizer
      <4>1. Same
        BY <3>1, <3>2, <1>c DEF Same, CrType, BeginCreate, Announce
      <4> QED BY <4>1, <1>s
    <3>3. CASE ~ cr.finalizer
      <4>1. Managed!Hold
        BY <3>1, <3>3 DEF Managed!Hold
      <4> QED BY <4>1 DEF Managed!Next
    <3> QED BY <3>2, <3>3
  <2> QED BY <2>1, <2>2
<1>5. CASE RequestDelete
  <2>1. cr.exists /\ ~ cr.deleting /\ db' = db
    BY <1>5 DEF RequestDelete
  <2>2. \/ cr.finalizer /\ cr'.exists /\ cr'.finalizer /\ cr'.deleting = TRUE
        \/ ~ cr.finalizer /\ ~ cr'.exists /\ cr'.deleting = cr.deleting
    BY <1>5, <1>c DEF RequestDelete, CrType
  <2>3. Managed!RequestDelete
    BY <2>1, <2>2 DEF Managed!RequestDelete
  <2> QED BY <2>3 DEF Managed!Next
<1>6. CASE Statement
  <2>1. DbStep /\ UNCHANGED cr
    BY <1>6, StatementFrame DEF Frame
  <2>2. CASE db'.exists = db.exists
    BY <2>1, <2>2, <1>s DEF Same
  <2>3. CASE db.exists /\ db'.exists = FALSE /\ plan.dropUser # {}
    <3>1. cr.exists /\ cr.finalizer /\ cr.deleting
      BY <2>3 DEF LifeInv, DropInv
    <3>2. Managed!Drop
      BY <2>1, <2>3, <3>1 DEF Managed!Drop
    <3> QED BY <3>2 DEF Managed!Next
  <2>4. CASE \E s \in plan.createUser : db' = NewUser(s.spec, s.pw)
    <3>1. cr.exists /\ cr.finalizer /\ ~ db.exists
      BY <2>4 DEF LifeInv
    <3>2. db'.exists
      BY <2>4 DEF NewUser
    <3>3. Managed!Create
      BY <2>1, <3>1, <3>2 DEF Managed!Create
    <3> QED BY <3>3 DEF Managed!Next
  <2> QED BY <2>1, <2>2, <2>3, <2>4, <1>c DEF DbStep, DbType
<1> QED BY <1>1, <1>2, <1>3, <1>4, <1>5, <1>6 DEF Next, Controller, Environment

\* Every behaviour of the controller is one of ManagedResource: CREATE USER only
\* under the finalizer, DROP USER only on request, the CR released only after the
\* user is gone, for all specs, privileges, edits, failures and restarts.
THEOREM UserRefines == Spec => UserImplements
<1>1. Spec => []DropInv
  BY DropInit, DropStep, TypeCorrect, LifeCorrect, PTL DEF Spec
<1> QED BY <1>1, ManagedInit, ManagedStep, TypeCorrect, LifeCorrect, PTL
        DEF Spec, UserImplements, Managed!Spec
=============================================================================
