-------------------------- MODULE AuditPolicyProofs --------------------------
(***************************************************************************)
(* The safety of the AuditPolicy controller, for every set of names,       *)
(* actions, specs and foreign policies and every number of edits and       *)
(* failures.                                                               *)
(***************************************************************************)
EXTENDS AuditPolicyController, SequenceTheorems, TLAPS

\* A plan is sent from left to right: a drop is never behind another statement.
Ops == {"create", "enable", "retention", "drop"}
DropFree(p) == p \in Seq(Ops) /\ \A i \in 1..Len(p) : p[i] # "drop"
DropFirst(p) == p \in Seq(Ops) /\ \A i \in 2..Len(p) : p[i] # "drop"

\* While the reconcile runs, the copy it works on is the resource unless it is
\* stale; a resource that has policies, or is about to, holds its finalizer.
LifeInv ==
    /\ \A n \in Names : pol[n].ours => pol[n].exists
    /\ cr.finalizer => cr.exists
    /\ cr.exists /\ (cr.deleting \/ \E n \in Names : pol[n].ours) => cr.finalizer
    /\ pc # "idle" /\ ~ stale => cr.exists /\ cr.spec = mem.spec
    /\ pc # "idle" /\ mem.deleting => cr.exists /\ cr.finalizer
    /\ pc \in {"run", "endCreate"} => cr.exists /\ cr.finalizer
    /\ pc = "removeFinalizer" => ~ pol[mem.spec.name].ours

\* A drop that is to be sent is still called for by what is in HANA.
DropInv ==
    /\ DropFirst(plan)
    /\ pc # "run" => plan = <<>>
    /\ ~ DropFree(plan) /\ pol[mem.spec.name].exists /\ ~ mem.deleting =>
            NeedsRecreation(pol[mem.spec.name], mem.spec)

AuditInv == AuditTypeOK /\ LifeInv /\ DropInv /\ NoOrphanPolicy

\* Sending the first statement of a plan leaves a plan without a drop.
LEMMA PlanTail ==
    ASSUME NEW p, DropFirst(p), p # <<>>
    PROVE  /\ DropFree(Tail(p))
           /\ Head(p) \in Ops
           /\ Head(p) = "drop" => ~ DropFree(p)
BY DEF DropFree, DropFirst

LEMMA DropFreeFirst ==
    ASSUME NEW p, DropFree(p)
    PROVE  DropFirst(p)
BY DEF DropFree, DropFirst

LEMMA Concatenated ==
    ASSUME NEW p, NEW q, DropFree(q)
    PROVE  /\ DropFree(p) => DropFree(p \o q)
           /\ p = <<"drop">> => DropFirst(p \o q)
<1>1. ASSUME DropFree(p) PROVE DropFree(p \o q)
  BY <1>1, ConcatProperties DEF DropFree
<1>2. ASSUME p = <<"drop">> PROVE DropFirst(p \o q)
  <2>1. p \in Seq(Ops) /\ Len(p) = 1
    BY <1>2 DEF Ops
  <2> HIDE <1>2
  <2> QED BY <2>1, ConcatProperties DEF DropFree, DropFirst
<1> QED BY <1>1, <1>2

LEMMA SingleStatement ==
    /\ DropFree(<<>>)
    /\ \A x \in Ops \ {"drop"} : DropFree(<<x>>)
    /\ DropFirst(<<"drop">>)
BY DEF DropFree, DropFirst, Ops

LEMMA CreatePlanDropFree ==
    ASSUME NEW spec
    PROVE  DropFree(CreatePlan(spec))
<1>1. DropFree(<<"create">>) /\ DropFree(IF spec.enabled THEN <<"enable">> ELSE <<>>)
  BY SingleStatement DEF Ops
<1> QED BY <1>1, Concatenated DEF CreatePlan

\* What Update sends; it starts with a drop only if HANA cannot alter the policy.
LEMMA UpdatePlanFits ==
    ASSUME NEW obs, NEW spec
    PROVE  /\ DropFirst(UpdatePlan(obs, spec))
           /\ ~ NeedsRecreation(obs, spec) => DropFree(UpdatePlan(obs, spec))
<1>1. DropFirst(RecreatePolicy(spec))
  BY CreatePlanDropFree, Concatenated DEF RecreatePolicy
<1>2. /\ DropFree(IF obs.ret # spec.ret THEN <<"retention">> ELSE <<>>)
      /\ DropFree(IF obs.enabled # spec.enabled THEN <<"enable">> ELSE <<>>)
  BY SingleStatement DEF Ops
<1>3. ~ NeedsRecreation(obs, spec) => DropFree(UpdatePlan(obs, spec))
  BY <1>2, Concatenated DEF UpdatePlan
<1> QED BY <1>1, <1>3, DropFreeFirst DEF UpdatePlan

LEMMA EmptyPlan == <<>> \in Seq({"create", "enable", "retention", "drop"})
BY SingleStatement DEF DropFree, Ops

LEMMA NoMemType == NoMem \in [spec : Specs, deleting : BOOLEAN] /\ ~ NoMem.deleting
BY AuditAssumption DEF NoMem

\* HANA's effect keeps the type, and only changes the policy the spec names.
LEMMA EffectProperties ==
    ASSUME pol \in [Names -> PolicyType], NEW spec \in SpecType, NEW op \in Ops
    PROVE  /\ Effect(op, spec) \in [Names -> PolicyType]
           /\ \A n \in Names \ {spec.name} : Effect(op, spec)[n] = pol[n]
           /\ op = "drop" => ~ Effect(op, spec)[spec.name].ours
           /\ op # "create" => (Effect(op, spec)[spec.name].ours => pol[spec.name].ours)
           /\ op # "drop" => (pol[spec.name].exists => Effect(op, spec)[spec.name].exists)
           /\ (pol[spec.name].ours => pol[spec.name].exists)
                => (Effect(op, spec)[spec.name].ours => Effect(op, spec)[spec.name].exists)
<1> USE DEF PolicyType, SpecType
<1>1. CASE op = "create"
  BY <1>1 DEF Effect
<1>2. CASE op = "enable"
  BY <1>2 DEF Effect
<1>3. CASE op = "retention"
  BY <1>3 DEF Effect
<1>4. CASE op = "drop"
  BY <1>4 DEF Effect
<1> QED BY <1>1, <1>2, <1>3, <1>4 DEF Ops

LEMMA AuditInit == Init => AuditInv
<1> SUFFICES ASSUME Init PROVE AuditInv
  OBVIOUS
<1>1. AuditTypeOK
  <2>1. cr \in [exists : BOOLEAN, spec : Specs, finalizer : BOOLEAN, deleting : BOOLEAN,
                 pending : BOOLEAN]
    BY DEF Init
  <2>2. pol \in [Names -> PolicyType]
    BY AuditAssumption DEF Init
  <2> QED BY <2>1, <2>2, NoMemType, EmptyPlan DEF Init, AuditTypeOK
<1>2. LifeInv /\ NoOrphanPolicy
  BY AuditAssumption DEF Init, LifeInv, NoOrphanPolicy
<1>3. DropInv
  BY SingleStatement, DropFreeFirst DEF Init, DropInv
<1> QED BY <1>1, <1>2, <1>3 DEF AuditInv

LEMMA AuditTypeStep ==
    ASSUME AuditInv, [Next]_vars
    PROVE  AuditTypeOK'
<1> DEFINE CrType == [exists : BOOLEAN, spec : Specs, finalizer : BOOLEAN, deleting : BOOLEAN,
                      pending : BOOLEAN]
           RunOK == /\ stale \in BOOLEAN
                    /\ pc \in {"idle", "observe", "removeFinalizer", "create", "run", "endCreate"}
                    /\ mem \in [spec : Specs, deleting : BOOLEAN]
                    /\ plan \in Seq({"create", "enable", "retention", "drop"})
           CountOK == edits \in Nat /\ faults \in Nat
<1>a. AuditTypeOK
  BY DEF AuditInv
<1>b. mem.spec \in SpecType /\ cr.spec \in SpecType
  BY <1>a, AuditAssumption DEF AuditTypeOK
<1>c. Idle => RunOK'
  BY NoMemType, EmptyPlan DEF Idle
<1>d. Return => RunOK'
  BY <1>a, <1>c, EmptyPlan DEF Return, AuditTypeOK
<1>e. (Fault => faults' \in Nat) /\ (Edited => edits' \in Nat)
  BY <1>a DEF Fault, Edited, AuditTypeOK
<1>f. ASSUME cr' \in CrType, RunOK', pol' \in [Names -> PolicyType], CountOK' PROVE AuditTypeOK'
  BY <1>f DEF AuditTypeOK
<1> HIDE DEF CrType
<1>1. CASE Reconcile
  BY <1>1, <1>a DEF Reconcile, BuildDesiredParameters, AuditTypeOK
<1>2. CASE ObserveAbsent
  BY <1>2, <1>a DEF ObserveAbsent, AuditTypeOK
<1>3. CASE Observe
  <2>1. UpdatePlan(pol[mem.spec.name], mem.spec) \in Seq(Ops) /\ <<"drop">> \in Seq(Ops)
    BY UpdatePlanFits, SingleStatement DEF DropFirst
  <2>2. RunOK'
    BY <1>3, <1>a, <1>c, <2>1 DEF Observe, AuditTypeOK, Ops
  <2>3. cr' \in CrType
    BY <1>3, <1>a DEF Observe, AuditTypeOK, CrType
  <2> QED BY <1>3, <1>a, <1>f, <2>2, <2>3 DEF Observe, AuditTypeOK
<1>4. CASE RemoveFinalizer
  BY <1>4, <1>a, <1>c, <1>f DEF RemoveFinalizer, AuditTypeOK, CrType
<1>5. CASE BeginCreate
  <2>1. CreatePlan(mem.spec) \in Seq(Ops)
    BY CreatePlanDropFree DEF DropFree
  <2>2. RunOK'
    BY <1>5, <1>a, <1>c, <2>1 DEF BeginCreate, AuditTypeOK, Ops
  <2> QED BY <1>5, <1>a, <1>f, <2>2 DEF BeginCreate, AuditTypeOK, CrType
<1>6. CASE Statement
  <2>1. Head(plan) \in Ops /\ Tail(plan) \in Seq(Ops)
    BY <1>6, <1>a DEF Statement, AuditTypeOK, Ops
  <2>2. pol' \in [Names -> PolicyType]
    BY <1>6, <1>a, <1>b, <2>1, EffectProperties DEF Statement, AuditTypeOK
  <2>3. RunOK' /\ faults' \in Nat
    BY <1>6, <1>a, <1>d, <1>e, <2>1 DEF Statement, AuditTypeOK, Ops
  <2> QED BY <1>6, <1>a, <1>f, <2>2, <2>3 DEF Statement, AuditTypeOK, CrType
<1>7. CASE StatementFails
  BY <1>7, <1>a, <1>d, <1>e, <1>f DEF StatementFails, AuditTypeOK, CrType
<1>8. CASE Finish
  BY <1>8, <1>a, <1>d, <1>f DEF Finish, AuditTypeOK, CrType
<1>9. CASE EndCreate
  BY <1>9, <1>a, <1>c, <1>f DEF EndCreate, AuditTypeOK, CrType
<1>10. CASE ObserveFails \/ Crash
  BY <1>10, <1>a, <1>c, <1>e, <1>f DEF ObserveFails, Crash, AuditTypeOK, CrType
<1>11. CASE EditSpec
  <2>1. cr' \in CrType
    BY <1>11, <1>a DEF EditSpec, AuditTypeOK, CrType
  <2> QED BY <1>11, <1>a, <1>e, <1>f, <2>1 DEF EditSpec, AuditTypeOK
<1>12. CASE RequestDelete
  <2>1. cr' \in CrType
    BY <1>12, <1>a DEF RequestDelete, AuditTypeOK, CrType
  <2> QED BY <1>12, <1>a, <1>e, <1>f, <2>1 DEF RequestDelete, AuditTypeOK
<1>13. CASE DbaChanges
  <2>1. PICK n \in Names :
            \/ pol' = [pol EXCEPT ![n].exists = FALSE, ![n].ours = FALSE]
            \/ pol' = [pol EXCEPT ![n].enabled = ~ @]
    BY <1>13 DEF DbaChanges
  <2>2. pol \in [Names -> PolicyType]
    BY <1>a DEF AuditTypeOK
  <2>3. pol' \in [Names -> PolicyType]
    <3>1. CASE pol' = [pol EXCEPT ![n].exists = FALSE, ![n].ours = FALSE]
      BY <2>2, <3>1 DEF PolicyType
    <3>2. CASE pol' = [pol EXCEPT ![n].enabled = ~ @]
      BY <2>2, <3>2 DEF PolicyType
    <3> QED BY <2>1, <3>1, <3>2
  <2> QED BY <1>13, <1>a, <1>e, <1>f, <2>3 DEF DbaChanges, AuditTypeOK, CrType
<1>14. CASE UNCHANGED vars
  BY <1>14, <1>a DEF vars, AuditTypeOK
<1> QED BY <1>1, <1>2, <1>3, <1>4, <1>5, <1>6, <1>7, <1>8, <1>9, <1>10, <1>11, <1>12, <1>13,
           <1>14 DEF Next, Controller, Environment

\* Actions that leave the policies alone.
LEMMA LifeQuiet ==
    ASSUME AuditInv, UNCHANGED pol,
           Controller \/ ObserveFails \/ EditSpec \/ RequestDelete \/ Crash \/ UNCHANGED vars
    PROVE  LifeInv' /\ NoOrphanPolicy'
<1> USE NoMemType DEF AuditInv, AuditTypeOK, LifeInv, NoOrphanPolicy, Idle, Return
<1>1. CASE Reconcile
  BY <1>1 DEF Reconcile, BuildDesiredParameters
<1>2. CASE ObserveAbsent
  BY <1>2, AuditAssumption DEF ObserveAbsent, SpecType, PolicyType
<1>3. CASE Observe
  BY <1>3 DEF Observe
<1>4. CASE RemoveFinalizer
  BY <1>4 DEF RemoveFinalizer
<1>5. CASE BeginCreate
  BY <1>5 DEF BeginCreate
<1>6. CASE Statement
  BY <1>6 DEF Statement
<1>7. CASE StatementFails \/ Finish
  BY <1>7 DEF StatementFails, Finish
<1>8. CASE EndCreate
  BY <1>8 DEF EndCreate
<1>9. CASE ObserveFails \/ Crash
  BY <1>9 DEF ObserveFails, Crash
<1>10. CASE EditSpec
  BY <1>10 DEF EditSpec
<1>11. CASE RequestDelete
  <2>1. ~ cr.finalizer => \A n \in Names : ~ pol[n].ours
    BY <1>11 DEF RequestDelete
  <2>2. cr.spec.name \in Names
    BY AuditAssumption DEF SpecType
  <2> QED BY <1>11, <2>1, <2>2 DEF RequestDelete
<1>12. CASE UNCHANGED vars
  BY <1>12 DEF vars
<1> QED BY <1>1, <1>2, <1>3, <1>4, <1>5, <1>6, <1>7, <1>8, <1>9, <1>10, <1>11, <1>12
        DEF Controller

\* The statements, and the DBA.
LEMMA LifeStep ==
    ASSUME AuditInv, [Next]_vars
    PROVE  LifeInv' /\ NoOrphanPolicy'
<1>1. CASE Statement
  <2> USE DEF AuditInv, LifeInv
  <2>1. Head(plan) \in Ops /\ mem.spec \in SpecType /\ pol \in [Names -> PolicyType]
    BY <1>1, PlanTail, AuditAssumption DEF Statement, AuditTypeOK, DropInv
  <2>2. cr.exists /\ cr.finalizer /\ UNCHANGED cr
    BY <1>1 DEF Statement
  <2>3. \A n \in Names : pol'[n].ours => pol'[n].exists
    <3>1. pol' = Effect(Head(plan), mem.spec)
      BY <1>1 DEF Statement
    <3>2. \A n \in Names : pol[n].ours => pol[n].exists
      BY DEF LifeInv
    <3>3. mem.spec.name \in Names
      BY <2>1 DEF SpecType
    <3> HIDE DEF LifeInv, AuditInv
    <3>4. pol'[mem.spec.name].ours => pol'[mem.spec.name].exists
      BY <2>1, <3>1, <3>2, <3>3, EffectProperties
    <3>5. \A n \in Names \ {mem.spec.name} : pol'[n] = pol[n]
      BY <2>1, <3>1, EffectProperties
    <3> QED BY <3>2, <3>4, <3>5
  <2>4. /\ pc' # "idle" /\ ~ stale' => cr'.exists /\ cr'.spec = mem'.spec
        /\ pc' # "removeFinalizer"
    BY <1>1 DEF Statement, Return, Idle
  <2> QED BY <2>2, <2>3, <2>4 DEF NoOrphanPolicy
<1>2. CASE DbaChanges
  <2>1. PICK n \in Names :
            \/ pol' = [pol EXCEPT ![n].exists = FALSE, ![n].ours = FALSE]
            \/ pol' = [pol EXCEPT ![n].enabled = ~ @]
    BY <1>2 DEF DbaChanges
  <2>2. \A x \in Names : pol'[x].ours => pol[x].ours /\ pol'[x].exists
    <3>1. pol \in [Names -> PolicyType] /\ \A x \in Names : pol[x].ours => pol[x].exists
      BY DEF AuditInv, AuditTypeOK, LifeInv
    <3>2. CASE pol' = [pol EXCEPT ![n].exists = FALSE, ![n].ours = FALSE]
      BY <3>1, <3>2 DEF PolicyType
    <3>3. CASE pol' = [pol EXCEPT ![n].enabled = ~ @]
      BY <3>1, <3>3 DEF PolicyType
    <3> QED BY <2>1, <3>2, <3>3
  <2>3. mem.spec.name \in Names /\ cr.spec.name \in Names
    BY AuditAssumption DEF AuditInv, AuditTypeOK, SpecType
  <2>4. cr' = cr /\ stale' = stale /\ pc' = pc /\ mem' = mem
    BY <1>2 DEF DbaChanges
  <2>5. LifeInv'
    BY <2>2, <2>3, <2>4 DEF AuditInv, LifeInv
  <2>6. NoOrphanPolicy'
    BY <2>2, <2>3, <2>4 DEF AuditInv, NoOrphanPolicy
  <2> QED BY <2>5, <2>6
<1>3. CASE ~ Statement /\ ~ DbaChanges
  <2>1. UNCHANGED pol
    BY <1>3 DEF Next, Controller, Environment, vars, Reconcile, ObserveAbsent, Observe,
        RemoveFinalizer, BeginCreate, StatementFails, Finish, EndCreate, ObserveFails, EditSpec,
        RequestDelete, Crash
  <2> QED BY <1>3, <2>1, LifeQuiet DEF Next, Environment
<1> QED BY <1>1, <1>2, <1>3

LEMMA DropStep ==
    ASSUME AuditInv, [Next]_vars
    PROVE  DropInv'
<1> USE DEF AuditInv, DropInv
<1>0. ASSUME DropFree(plan'), pc' = "run" PROVE DropInv'
  BY <1>0, DropFreeFirst
<1>1. CASE plan' = <<>>
  BY <1>1, SingleStatement, DropFreeFirst
<1>2. CASE Observe
  <2>1. CASE plan' = <<"drop">> /\ mem'.deleting /\ pc' = "run"
    BY <2>1, SingleStatement
  <2>2. CASE UNCHANGED <<pol, mem>> /\ pc' = "run" /\ plan' = UpdatePlan(pol[mem.spec.name], mem.spec)
    BY <2>2, UpdatePlanFits
  <2> QED BY <1>1, <1>2, <2>1, <2>2 DEF Observe, Idle
<1>3. CASE BeginCreate
  <2>1. plan' = <<>> \/ (plan' = CreatePlan(mem.spec) /\ pc' = "run")
    BY <1>3 DEF BeginCreate, Idle
  <2> QED BY <1>0, <1>1, <2>1, CreatePlanDropFree
<1>4. CASE Statement
  <2>1. plan' = <<>> \/ (plan' = Tail(plan) /\ pc' = "run")
    BY <1>4 DEF Statement, Return, Idle
  <2>2. DropFree(Tail(plan))
    BY <1>4, PlanTail DEF Statement
  <2> QED BY <1>0, <1>1, <2>1, <2>2
<1>5. CASE UNCHANGED <<plan, mem, pol>> /\ (pc' = pc \/ plan = <<>>)
  BY <1>5
<1>6. CASE DbaChanges
  <2>1. PICK n \in Names :
            \/ pol' = [pol EXCEPT ![n].exists = FALSE, ![n].ours = FALSE]
            \/ pol' = [pol EXCEPT ![n].enabled = ~ @]
    BY <1>6 DEF DbaChanges
  <2>2. pol \in [Names -> PolicyType] /\ mem.spec.name \in Names
    BY AuditAssumption DEF AuditTypeOK, SpecType
  <2>3. /\ pol'[mem.spec.name].exists => pol[mem.spec.name].exists
        /\ pol'[mem.spec.name].head = pol[mem.spec.name].head
        /\ pol'[mem.spec.name].actions = pol[mem.spec.name].actions
    <3>1. CASE pol' = [pol EXCEPT ![n].exists = FALSE, ![n].ours = FALSE]
      BY <2>2, <3>1 DEF PolicyType
    <3>2. CASE pol' = [pol EXCEPT ![n].enabled = ~ @]
      BY <2>2, <3>2 DEF PolicyType
    <3> QED BY <2>1, <3>1, <3>2
  <2> QED BY <1>6, <2>3 DEF DbaChanges, NeedsRecreation
<1>7. CASE Reconcile
  BY <1>1, <1>7 DEF Reconcile
<1> QED BY <1>1, <1>2, <1>3, <1>4, <1>5, <1>6, <1>7
        DEF Next, Controller, Environment, ObserveAbsent, RemoveFinalizer, StatementFails, Finish,
            EndCreate, ObserveFails, EditSpec, RequestDelete, Crash, Return, Idle, vars

LEMMA AuditInvariant == Spec => []AuditInv
<1>1. AuditInv /\ [Next]_vars => AuditInv'
  <2> SUFFICES ASSUME AuditInv, [Next]_vars PROVE AuditInv'
    OBVIOUS
  <2> QED BY AuditTypeStep, LifeStep, DropStep DEF AuditInv
<1> QED BY AuditInit, <1>1, PTL DEF Spec

\* The controller's state is well typed (AuditTypeOK): buildDesiredParameters never
\* hands on an incomplete spec.
THEOREM AuditTypeCorrect == Spec => []AuditTypeOK
BY AuditInvariant, PTL DEF AuditInv

\* A policy the provider created does not outlive its resource, whatever statement
\* of Create or RecreatePolicy fails, takes effect unanswered or is cut off.
THEOREM NoOrphanPolicyCorrect == Spec => []NoOrphanPolicy
BY AuditInvariant, PTL DEF AuditInv

\* Update drops a policy only if HANA cannot alter it into what the spec asks for.
THEOREM DropOnlyToChangeCorrect == Spec => DropOnlyToChange
<1> DEFINE Justified ==
        \A n \in Names :
            pol[n].exists /\ ~ pol'[n].exists /\ edits' = edits =>
                /\ n = mem.spec.name
                /\ mem.deleting \/ NeedsRecreation(pol[n], mem.spec)
<1>1. AuditInv /\ [Next]_vars => [Justified]_vars
  <2> SUFFICES ASSUME AuditInv, [Next]_vars PROVE Justified
    OBVIOUS
  <2>1. CASE Statement
    <3>1. Head(plan) \in Ops /\ mem.spec \in SpecType /\ pol \in [Names -> PolicyType]
      BY <2>1, PlanTail, AuditAssumption DEF AuditInv, Statement, AuditTypeOK, DropInv
    <3>2. pol' = Effect(Head(plan), mem.spec) /\ plan # <<>>
      BY <2>1 DEF Statement
    <3>3. \A n \in Names \ {mem.spec.name} : pol'[n] = pol[n]
      BY <3>1, <3>2, EffectProperties
    <3>4. pol[mem.spec.name].exists /\ ~ pol'[mem.spec.name].exists => Head(plan) = "drop"
      BY <3>1, <3>2, EffectProperties
    <3>5. Head(plan) = "drop" => ~ DropFree(plan)
      BY <3>2, PlanTail DEF AuditInv, DropInv
    <3> QED BY <3>3, <3>4, <3>5 DEF AuditInv, DropInv
  <2>2. CASE DbaChanges
    <3>1. edits' # edits
      BY <2>2 DEF DbaChanges, Edited, AuditInv, AuditTypeOK
    <3> QED BY <3>1
  <2>3. CASE UNCHANGED pol
    BY <2>3
  <2> QED BY <2>1, <2>2, <2>3
          DEF Next, Controller, Environment, vars, Reconcile, ObserveAbsent, Observe,
              RemoveFinalizer, BeginCreate, StatementFails, Finish, EndCreate, ObserveFails,
              EditSpec, RequestDelete, Crash
<1> QED BY AuditInvariant, <1>1, PTL DEF Spec, DropOnlyToChange
=============================================================================
