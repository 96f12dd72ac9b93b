------------------------------ MODULE X509Proofs ------------------------------
(***************************************************************************)
(* Proofs about X509ProviderController, for every instance of its          *)
(* constants: its types, and that it implements ManagedResource.           *)
(***************************************************************************)
EXTENDS X509ProviderController, TLAPS

ObsType == [issuer : Issuers \cup {NotRead, NoRow}, rules : Rules \cup {NotRead}]
JobType == [Ops -> {"none", "sent", "ok", "err"}]
LateType == [op : {"issuer", "rules"}, spec : Specs]

\* What the running reconcile knows of the resource.  The finalizer is there from
\* before the first statement until nothing is left, and a deletion is not taken
\* back.
CopyInv ==
    /\ cr.finalizer => cr.exists
    /\ cr.exists /\ cr.deleting => cr.finalizer
    /\ pc # "idle" /\ ~ stale => cr.exists /\ cr.spec = mem.spec
    /\ mem.deleting => cr.exists /\ cr.deleting
    /\ pc \in {"run", "endCreate"} => cr.exists /\ cr.finalizer
    /\ pc = "removeFinalizer" => mem.deleting

\* DROP is sent only for a resource that is being deleted.
DropInv ==
    /\ pc # "run" => job = NoJob
    /\ job["drop"] # "none" => mem.deleting

\* A provider that was not found, and that the resource is released without, is not
\* one the controller created: what arrives late creates none.
AbsentInv ==
    /\ pc \notin {"observe", "run"} => obs = NoObs
    /\ pc = "removeFinalizer" \/ (pc = "observe" /\ obs.issuer = NoRow) =>
            ~ (prov[mem.spec.name].exists /\ prov[mem.spec.name].ours)

LifeInv == CopyInv /\ DropInv /\ AbsentInv

-----------------------------------------------------------------------------
(* What the operators return. *)

LEMMA SpecFields ==
    ASSUME NEW s \in Specs
    PROVE  s.name \in Names /\ s.issuer \in Issuers /\ s.rules \in Rules /\ Upper[s.name] \in Names
BY X509Assumption DEF SpecType

LEMMA AbsentType ==
    Absent \in ProviderType /\ [Absent EXCEPT !.exists = TRUE] \in ProviderType
        /\ [Absent EXCEPT !.exists = FALSE] \in ProviderType
<1>1. (CHOOSE i \in Issuers : TRUE) \in Issuers /\ NoRules \in Rules
  BY X509Assumption
<1> QED BY <1>1 DEF Absent, ProviderType

LEMMA NoMemType == NoMem \in MemType
<1>1. (CHOOSE s \in Specs : TRUE) \in Specs
  BY ReconcilerAssumption
<1> QED BY <1>1 DEF NoMem, MemType

LEMMA NoObsType == NoObs \in ObsType /\ NoJob \in JobType
BY DEF NoObs, ObsType, NoJob, JobType

\* A change of one provider.
LEMMA ChangeOne ==
    ASSUME NEW P \in [Names -> ProviderType], NEW n \in Names,
           NEW i \in Issuers, NEW r \in Rules
    PROVE  /\ \A p \in ProviderType : [P EXCEPT ![n] = p] \in [Names -> ProviderType]
           /\ [P EXCEPT ![n].issuer = i] = [P EXCEPT ![n] = [P[n] EXCEPT !.issuer = i]]
           /\ [P EXCEPT ![n].rules = r] = [P EXCEPT ![n] = [P[n] EXCEPT !.rules = r]]
           /\ [P[n] EXCEPT !.issuer = i] \in ProviderType
           /\ [P[n] EXCEPT !.rules = r] \in ProviderType
<1>1. [P[n] EXCEPT !.issuer = i] \in ProviderType /\ [P[n] EXCEPT !.rules = r] \in ProviderType
  BY DEF ProviderType
<1> QED BY <1>1

\* A statement changes the provider of the unquoted name only: CREATE makes it the
\* resource's own, DROP takes it away, the others leave both as they are.
LEMMA EffectOnOne ==
    ASSUME prov \in [Names -> ProviderType], NEW op \in Ops, NEW s \in Specs
    PROVE  \E p \in ProviderType :
                /\ Effect(op, s) = [prov EXCEPT ![Upper[s.name]] = p]
                /\ op = "create" => p.exists /\ p.ours
                /\ op = "drop" => ~ p.exists
                /\ op \in {"issuer", "rules"} => /\ p.exists = prov[Upper[s.name]].exists
                                                /\ p.ours = prov[Upper[s.name]].ours
<1> DEFINE n == Upper[s.name]
<1>1. n \in Names /\ s.issuer \in Issuers /\ s.rules \in Rules /\ NoRules \in Rules
  BY SpecFields, X509Assumption
<1>2. CASE op = "create"
  <2> DEFINE p == [exists |-> TRUE, ours |-> TRUE, issuer |-> s.issuer, rules |-> NoRules]
  <2>1. p \in ProviderType /\ p.exists /\ p.ours
    BY <1>1 DEF ProviderType
  <2>2. Effect(op, s) = [prov EXCEPT ![n] = p]
    BY <1>2 DEF Effect
  <2> QED BY <1>2, <2>1, <2>2
<1>3. CASE op = "drop"
  <2>1. Absent \in ProviderType /\ ~ Absent.exists
    BY AbsentType DEF Absent
  <2>2. Effect(op, s) = [prov EXCEPT ![n] = Absent]
    BY <1>3 DEF Effect
  <2> QED BY <1>3, <2>1, <2>2
<1>4. CASE op = "issuer"
  <2> DEFINE p == [prov[n] EXCEPT !.issuer = s.issuer]
  <2>1. prov[n] \in ProviderType
    BY <1>1
  <2>2. p \in ProviderType /\ p.exists = prov[n].exists /\ p.ours = prov[n].ours
    BY <1>1, <2>1 DEF ProviderType
  <2>3. Effect(op, s) = [prov EXCEPT ![n].issuer = s.issuer]
    BY <1>4 DEF Effect
  <2> HIDE DEF n
  <2>4. Effect(op, s) = [prov EXCEPT ![n] = p]
    BY <1>1, <2>3, ChangeOne
  <2> QED BY <1>4, <2>2, <2>4 DEF n
<1>5. CASE op = "rules"
  <2> DEFINE p == [prov[n] EXCEPT !.rules = s.rules]
  <2>1. prov[n] \in ProviderType
    BY <1>1
  <2>2. p \in ProviderType /\ p.exists = prov[n].exists /\ p.ours = prov[n].ours
    BY <1>1, <2>1 DEF ProviderType
  <2>3. Effect(op, s) = [prov EXCEPT ![n].rules = s.rules]
    BY <1>5 DEF Effect
  <2> HIDE DEF n
  <2>4. Effect(op, s) = [prov EXCEPT ![n] = p]
    BY <1>1, <2>3, ChangeOne
  <2> QED BY <1>5, <2>2, <2>4 DEF n
<1> QED BY <1>2, <1>3, <1>4, <1>5 DEF Ops

\* So does a statement that arrives late: it alters a provider that is there.
LEMMA LateOnOne ==
    ASSUME prov \in [Names -> ProviderType], late \subseteq LateType, LateStatement
    PROVE  /\ late' \subseteq late
           /\ \/ prov' = prov
              \/ \E n \in Names, p \in ProviderType :
                    /\ prov' = [prov EXCEPT ![n] = p]
                    /\ p.exists = prov[n].exists /\ p.ours = prov[n].ours
<1>1. PICK l \in late : /\ late' = late \ {l}
                        /\ \/ UNCHANGED prov
                           \/ prov' = Effect(l.op, l.spec)
  BY DEF LateStatement
<1>2. CASE prov' = Effect(l.op, l.spec)
  <2>1. l.op \in {"issuer", "rules"} /\ l.op \in Ops /\ l.spec \in Specs
    BY DEF LateType, Ops
  <2>2. Upper[l.spec.name] \in Names
    BY <2>1, SpecFields, X509Assumption
  <2>a. ASSUME NEW op \in {"issuer", "rules"}, NEW s \in Specs
        PROVE  \E p \in ProviderType :
                  /\ Effect(op, s) = [prov EXCEPT ![Upper[s.name]] = p]
                  /\ p.exists = prov[Upper[s.name]].exists
                  /\ p.ours = prov[Upper[s.name]].ours
    <3>1. op \in Ops
      BY DEF Ops
    <3> QED BY <3>1, EffectOnOne
  <2>3. PICK p \in ProviderType :
            /\ Effect(l.op, l.spec) = [prov EXCEPT ![Upper[l.spec.name]] = p]
            /\ p.exists = prov[Upper[l.spec.name]].exists
            /\ p.ours = prov[Upper[l.spec.name]].ours
    BY <2>1, <2>a
  <2>4. prov' = [prov EXCEPT ![Upper[l.spec.name]] = p]
    BY <1>2, <2>3
  <2> QED BY <1>1, <2>2, <2>3, <2>4
<1> QED BY <1>1, <1>2

\* What a reconcile leaves behind are statements of its Update.
LEMMA AbandonedType ==
    ASSUME mem \in MemType, NEW ops \in SUBSET {"issuer", "rules"}
    PROVE  Abandoned(ops) \subseteq LateType
BY DEF Abandoned, MemType, LateType

\* And so does the DBA, whose providers are not the resource's.
LEMMA DbaOnOne ==
    ASSUME prov \in [Names -> ProviderType], DbaChanges
    PROVE  \E n \in Names, p \in ProviderType :
                /\ prov' = [prov EXCEPT ![n] = p]
                /\ p.exists /\ p.ours => prov[n].exists /\ prov[n].ours
<1>1. PICK n \in Names :
        \E p \in {[Absent EXCEPT !.exists = TRUE], Absent, [prov[n] EXCEPT !.rules = NoRules]} :
            prov' = [prov EXCEPT ![n] = p]
  BY DEF DbaChanges
<1>p. PICK p \in {[Absent EXCEPT !.exists = TRUE], Absent, [prov[n] EXCEPT !.rules = NoRules]} :
        prov' = [prov EXCEPT ![n] = p]
  BY <1>1
<1>2. prov[n] \in ProviderType /\ NoRules \in Rules
  BY X509Assumption
<1>3. p \in ProviderType
  BY <1>2, AbsentType DEF ProviderType
<1>4. p.exists /\ p.ours => prov[n].exists /\ prov[n].ours
  <2>1. CASE p = [prov[n] EXCEPT !.rules = NoRules]
    BY <1>2, <2>1 DEF ProviderType
  <2>2. CASE p \in {[Absent EXCEPT !.exists = TRUE], Absent}
    <3>1. ~ Absent.ours
      BY DEF Absent
    <3>2. [Absent EXCEPT !.exists = TRUE].ours = Absent.ours
      BY AbsentType DEF ProviderType
    <3> QED BY <2>2, <3>1, <3>2
  <2> QED BY <2>1, <2>2
<1> QED BY <1>p, <1>3, <1>4

-----------------------------------------------------------------------------
(* The types are kept. *)

LEMMA TypeInit == Init => X509TypeOK
<1> SUFFICES ASSUME Init PROVE X509TypeOK
  OBVIOUS
<1>1. cr \in CrType /\ mem \in MemType
  BY NoMemType DEF Init, ReconcilerInit, CrType
<1>2. prov \in [Names -> ProviderType]
  <2>1. PICK m \in Names, f \in BOOLEAN :
            prov = [n \in Names |-> IF n = m THEN [Absent EXCEPT !.exists = f] ELSE Absent]
    BY DEF Init
  <2>2. [Absent EXCEPT !.exists = f] \in ProviderType
    BY AbsentType
  <2> QED BY <2>1, <2>2, AbsentType
<1> QED BY <1>1, <1>2, NoObsType DEF Init, ReconcilerInit, X509TypeOK, ObsType, JobType

\* The part of the type invariant that takes an argument: a reconcile that is not
\* creating the provider runs statements only once both queries have answered.
ReadInv == job["create"] = "none" /\ pc = "run" => obs \in [issuer : Issuers, rules : Rules]

LEMMA ReadStep == X509TypeOK /\ [Next]_vars => ReadInv'
<1> SUFFICES ASSUME X509TypeOK, [Next]_vars PROVE ReadInv'
  OBVIOUS
<1>r. ReadInv /\ job \in JobType /\ obs \in ObsType
  BY DEF X509TypeOK, ReadInv, JobType, ObsType
<1>1. CASE pc' # "run"
  BY <1>1 DEF ReadInv
<1>2. CASE UNCHANGED <<pc, obs, job>>
  BY <1>2, <1>r DEF ReadInv
<1>3. CASE Observe /\ pc' = "run"
  <2>1. BothRead /\ UNCHANGED obs
    BY <1>3 DEF Observe, Idle, Stop
  <2>2. obs.issuer \in Issuers /\ obs.rules \in Rules
    BY <1>r, <2>1 DEF BothRead, ObsType
  <2> QED BY <1>r, <2>1, <2>2 DEF ReadInv, ObsType
<1>4. CASE BeginCreate /\ pc' = "run"
  <2>1. job' = [o \in Ops |-> IF o \in {"create"} THEN "sent" ELSE "none"]
    BY <1>4 DEF BeginCreate, Begin, Idle, Stop
  <2> QED BY <2>1 DEF ReadInv, Ops
<1>5. ASSUME NEW op \in Ops, Execute(op) \/ Fails(op) PROVE ReadInv'
  <2>1. /\ UNCHANGED <<pc, obs>> /\ pc = "run"
        /\ \E v \in {"ok", "err"} : job' = [job EXCEPT ![op] = v]
    BY <1>5 DEF Execute, Fails
  <2> QED BY <1>r, <2>1 DEF ReadInv, JobType, Ops
<1>6. CASE ReadIssuer \/ ReadMatchingRules
  BY <1>6 DEF ReadIssuer, ReadMatchingRules, ReadInv
<1>7. CASE \/ Reconcile \/ ObserveAbsent \/ RemoveFinalizer \/ Finish \/ EndCreate
           \/ ObserveFails \/ Crash
  <2>1. pc' # "run"
    BY <1>7 DEF Reconcile, Start, ObserveAbsent, NotFound, RemoveFinalizer, Release, Finish, Return,
           EndCreate, RecordCreate, ObserveFails, Idle, Crash, Die, Stop
  <2> QED BY <2>1, <1>1
<1>8. CASE LateStatement \/ EditSpec \/ RequestDelete \/ UseChanges \/ DbaChanges \/ UNCHANGED vars
  <2>1. UNCHANGED <<pc, obs, job>>
    BY <1>8 DEF LateStatement, EditSpec, Edit, RequestDelete, Delete, own, UseChanges, DbaChanges, vars
  <2> QED BY <2>1, <1>2
<1>9. CASE Observe \/ BeginCreate
  BY <1>9, <1>1, <1>3, <1>4
<1> QED BY <1>5, <1>6, <1>7, <1>8, <1>9 DEF Next, Controller, Environment

LEMMA TypeStep == X509TypeOK /\ [Next]_vars => X509TypeOK'
<1> SUFFICES ASSUME X509TypeOK, [Next]_vars PROVE X509TypeOK'
  OBVIOUS
<1> DEFINE Rec == /\ cr \in CrType /\ mem \in MemType /\ stale \in BOOLEAN
                  /\ pc \in {"idle", "observe", "removeFinalizer", "create", "run", "endCreate"}
                  /\ edits \in Nat /\ faults \in Nat
           Own == /\ prov \in [Names -> ProviderType] /\ inUse \subseteq Names
                  /\ obs \in ObsType /\ job \in JobType /\ late \subseteq LateType /\ drifts \in Nat
<1>a. Rec /\ Own
  BY DEF X509TypeOK, ObsType, JobType, LateType
<1>b. SUFFICES Rec' /\ Own'
  BY <1>b, ReadStep DEF X509TypeOK, ReadInv, ObsType, JobType, LateType
<1>c. Idle => /\ mem' \in MemType /\ pc' = "idle" /\ stale' \in BOOLEAN
              /\ obs' \in ObsType /\ job' \in JobType
  BY NoMemType, NoObsType DEF Idle, Stop
<1>d. \A ops : Begin(ops) => job' \in JobType /\ pc' = "run" /\ UNCHANGED <<stale, mem>>
  BY DEF Begin, JobType
<1>1. CASE Reconcile
  <2>1. mem' \in MemType
    BY <1>1, <1>a DEF Reconcile, Start, MemType, CrType
  <2> QED BY <1>1, <1>a, <2>1 DEF Reconcile, Start, own
<1>2. CASE ReadIssuer
  <2>1. prov[mem.spec.name] \in ProviderType
    BY <1>a, SpecFields DEF MemType
  <2>2. obs' \in ObsType
    BY <1>2, <1>a, <2>1 DEF ReadIssuer, ObsType, ProviderType
  <2> QED BY <1>2, <1>a, <2>2 DEF ReadIssuer
<1>3. CASE ReadMatchingRules
  <2>1. prov[mem.spec.name] \in ProviderType
    BY <1>a, SpecFields DEF MemType
  <2>2. obs' \in ObsType
    BY <1>3, <1>a, <2>1, X509Assumption DEF ReadMatchingRules, ObsType, ProviderType
  <2> QED BY <1>3, <1>a, <2>2 DEF ReadMatchingRules
<1>4. CASE ObserveAbsent
  BY <1>4, <1>a, NoObsType DEF ObserveAbsent, NotFound
<1>5. CASE Observe
  <2>1. cr' \in CrType
    BY <1>5, <1>a DEF Observe, CrType
  <2>2. /\ mem' \in MemType /\ pc' \in {"idle", "run"} /\ stale' \in BOOLEAN
        /\ obs' \in ObsType /\ job' \in JobType
    BY <1>5, <1>a, <1>c, <1>d DEF Observe
  <2> QED BY <1>5, <1>a, <2>1, <2>2 DEF Observe
<1>6. CASE ObserveFails
  BY <1>6, <1>a, <1>c DEF ObserveFails, Fault
<1>7. CASE RemoveFinalizer
  <2>1. cr' \in CrType
    BY <1>7, <1>a DEF RemoveFinalizer, Release, CrType
  <2> QED BY <1>7, <1>a, <2>1, NoMemType, NoObsType DEF RemoveFinalizer, Release, Stop
<1>8. CASE BeginCreate
  <2>1. cr' \in CrType
    BY <1>8, <1>a DEF BeginCreate, Claim, CrType
  <2>2. /\ mem' \in MemType /\ pc' \in {"idle", "run"} /\ stale' \in BOOLEAN
        /\ obs' \in ObsType /\ job' \in JobType
    BY <1>8, <1>a, <1>c, <1>d DEF BeginCreate
  <2> QED BY <1>8, <1>a, <2>1, <2>2 DEF BeginCreate
<1>9. ASSUME NEW op \in Ops, Execute(op) PROVE Rec' /\ Own'
  <2>1. mem.spec \in Specs
    BY <1>a DEF MemType
  <2>2. prov' \in [Names -> ProviderType]
    BY <1>9, <1>a, <2>1, EffectOnOne, SpecFields DEF Execute
  <2>3. job' \in JobType /\ faults' \in Nat
    BY <1>9, <1>a DEF Execute, JobType, Fault
  <2> QED BY <1>9, <1>a, <2>2, <2>3 DEF Execute
<1>10. ASSUME NEW op \in Ops, Fails(op) PROVE Rec' /\ Own'
  <2>1. job' \in JobType /\ faults' \in Nat
    BY <1>10, <1>a DEF Fails, JobType, Fault
  <2> QED BY <1>10, <1>a, <2>1 DEF Fails
<1>11. CASE Finish
  <2>1. Abandoned({"rules"}) \subseteq LateType
    BY <1>a, AbandonedType
  <2>2. late' \subseteq LateType
    BY <1>11, <1>a, <2>1 DEF Finish
  <2>3. mem' \in MemType /\ pc' \in {"idle", "endCreate"} /\ stale' \in BOOLEAN
    BY <1>11, <1>a, NoMemType DEF Finish, Return, Stop
  <2> QED BY <1>11, <1>a, <2>2, <2>3, NoObsType DEF Finish
<1>12. CASE EndCreate
  <2>1. cr' \in CrType
    BY <1>12, <1>a DEF EndCreate, RecordCreate, CrType
  <2> QED BY <1>12, <1>a, <2>1, NoMemType DEF EndCreate, RecordCreate, Stop, own
<1>13. CASE LateStatement
  <2>1. prov' \in [Names -> ProviderType] /\ late' \subseteq LateType
    BY <1>13, <1>a, LateOnOne
  <2> QED BY <1>13, <1>a, <2>1 DEF LateStatement
<1>14. CASE EditSpec
  <2>1. cr' \in CrType /\ drifts' \in Nat
    BY <1>14, <1>a DEF EditSpec, Edit, Drifted, CrType
  <2> QED BY <1>14, <1>a, <2>1 DEF EditSpec, Edit, Edited
<1>15. CASE RequestDelete
  <2>1. cr' \in CrType
    BY <1>15, <1>a DEF RequestDelete, Delete, CrType
  <2> QED BY <1>15, <1>a, <2>1 DEF RequestDelete, Delete, Edited, own
<1>16. CASE UseChanges
  <2>1. inUse' \subseteq Names
    BY <1>16, <1>a DEF UseChanges
  <2> QED BY <1>16, <1>a, <2>1 DEF UseChanges, Edited
<1>17. CASE DbaChanges
  <2>1. prov' \in [Names -> ProviderType]
    BY <1>17, <1>a, DbaOnOne
  <2> QED BY <1>17, <1>a, <2>1 DEF DbaChanges, Drifted
<1>18. CASE Crash
  <2>1. Idle /\ faults' \in Nat
    BY <1>18, <1>a DEF Crash, Die, Idle, Fault
  <2>2. late' \subseteq LateType
    BY <1>18, <1>a, AbandonedType DEF Crash
  <2> QED BY <1>18, <1>a, <1>c, <2>1, <2>2 DEF Crash, Die
<1>19. CASE UNCHANGED vars
  BY <1>19, <1>a DEF vars, own
<1> QED BY <1>1, <1>2, <1>3, <1>4, <1>5, <1>6, <1>7, <1>8, <1>9, <1>10, <1>11, <1>12, <1>13,
          <1>14, <1>15, <1>16, <1>17, <1>18, <1>19 DEF Next, Controller, Environment

\* Every reachable state is well typed; no Update and no DROP is sent before both
\* queries of Read have answered.
THEOREM X509TypeCorrect == Spec => []X509TypeOK
BY TypeInit, TypeStep, PTL DEF Spec

-----------------------------------------------------------------------------
(* The life of a provider. *)

LEMMA LifeInit == Init => LifeInv
<1> SUFFICES ASSUME Init PROVE LifeInv
  OBVIOUS
<1>1. pc = "idle" /\ mem.deleting = FALSE /\ cr.finalizer = FALSE /\ cr.deleting = FALSE
  BY DEF Init, ReconcilerInit, NoMem
<1>2. job = NoJob /\ job["drop"] = "none"
  BY DEF Init, NoJob, Ops
<1>3. obs = NoObs
  BY DEF Init
<1> QED BY <1>1, <1>2, <1>3 DEF LifeInv, CopyInv, DropInv, AbsentInv

LEMMA CopyStep == X509TypeOK /\ CopyInv /\ [Next]_vars => CopyInv'
<1> SUFFICES ASSUME X509TypeOK, CopyInv, [Next]_vars PROVE CopyInv'
  OBVIOUS
<1>a. cr \in CrType /\ mem \in MemType /\ stale \in BOOLEAN
  BY DEF X509TypeOK
<1>b. Stop => pc' = "idle" /\ mem'.deleting = FALSE
  BY DEF Stop, NoMem
<1>c. UNCHANGED <<cr, stale, pc, mem>> => CopyInv'
  BY DEF CopyInv
<1>d. UNCHANGED cr /\ Stop => CopyInv'
  BY <1>b DEF CopyInv
<1>1. CASE Reconcile
  BY <1>1, <1>a DEF Reconcile, Start, CopyInv, CrType
<1>2. CASE ReadIssuer \/ ReadMatchingRules
  BY <1>2, <1>c DEF ReadIssuer, ReadMatchingRules
<1>3. CASE ObserveAbsent
  BY <1>3, <1>a DEF ObserveAbsent, NotFound, CopyInv, MemType
<1>4. CASE Observe
  <2>1. CASE UNCHANGED cr /\ Idle
    BY <2>1, <1>d DEF Idle
  <2>2. CASE mem.deleting /\ Begin({"drop"}) /\ UNCHANGED cr
    BY <1>4, <2>2 DEF Observe, Begin, CopyInv
  <2>3. CASE ~ mem.deleting /\ ~ FinalizerRefused /\ cr' = [cr EXCEPT !.finalizer = TRUE]
    <3>1. cr.exists /\ cr'.exists /\ cr'.finalizer /\ cr'.spec = cr.spec /\ cr'.deleting = cr.deleting
      BY <1>4, <2>3, <1>a DEF Observe, FinalizerRefused, CopyInv, CrType
    <3>2. (pc' = "run" /\ UNCHANGED <<stale, mem>>) \/ Stop
      BY <1>4, <2>3 DEF Observe, Begin, Idle
    <3> QED BY <1>4, <3>1, <3>2, <1>b DEF Observe, CopyInv
  <2> QED BY <1>4, <2>1, <2>2, <2>3 DEF Observe
<1>5. CASE ObserveFails \/ Crash
  BY <1>5, <1>d DEF ObserveFails, Idle, Crash, Die
<1>6. CASE RemoveFinalizer
  <2>1. Stop /\ (UNCHANGED cr \/ (~ cr'.exists /\ ~ cr'.finalizer))
    BY <1>6, <1>a DEF RemoveFinalizer, Release, CrType
  <2> QED BY <2>1, <1>b DEF CopyInv
<1>7. CASE BeginCreate
  <2>1. CASE stale
    BY <1>7, <2>1, <1>d DEF BeginCreate, Idle
  <2>2. CASE ~ stale
    <3>1. cr.exists /\ cr'.exists /\ cr'.finalizer /\ cr'.spec = cr.spec /\ cr'.deleting = cr.deleting
      BY <1>7, <2>2, <1>a DEF BeginCreate, Claim, CopyInv, CrType
    <3>2. pc' = "run" /\ UNCHANGED <<stale, mem>>
      BY <1>7, <2>2 DEF BeginCreate, Begin
    <3> QED BY <1>7, <3>1, <3>2 DEF BeginCreate, CopyInv
  <2> QED BY <2>1, <2>2
<1>8. ASSUME NEW op \in Ops, Execute(op) \/ Fails(op) PROVE CopyInv'
  BY <1>8, <1>c DEF Execute, Fails
<1>9. CASE Finish
  <2>1. UNCHANGED cr /\ (Stop \/ (pc' = "endCreate" /\ UNCHANGED <<stale, mem>>)) /\ pc = "run"
    BY <1>9 DEF Finish, Return
  <2> QED BY <2>1, <1>b DEF CopyInv
<1>10. CASE EndCreate
  <2>1. /\ Stop /\ cr'.exists = cr.exists /\ cr'.finalizer = cr.finalizer
        /\ cr'.deleting = cr.deleting
    BY <1>10, <1>a DEF EndCreate, RecordCreate, CrType
  <2> QED BY <2>1, <1>b DEF CopyInv
<1>11. CASE LateStatement \/ UseChanges \/ DbaChanges \/ UNCHANGED vars
  BY <1>11, <1>c DEF LateStatement, UseChanges, DbaChanges, vars
<1>12. CASE EditSpec
  <2>1. /\ cr'.exists = cr.exists /\ cr'.finalizer = cr.finalizer
        /\ cr'.deleting = cr.deleting /\ stale' = (pc # "idle") /\ UNCHANGED <<pc, mem>>
    BY <1>12, <1>a DEF EditSpec, Edit, CrType
  <2> QED BY <2>1 DEF CopyInv
<1>13. CASE RequestDelete
  <2>1. /\ cr.exists /\ ~ cr.deleting /\ stale' = (pc # "idle") /\ UNCHANGED <<pc, mem>>
        /\ \/ cr.finalizer /\ cr'.exists /\ cr'.finalizer /\ cr'.deleting
           \/ ~ cr.finalizer /\ ~ cr'.exists /\ ~ cr'.finalizer
    BY <1>13, <1>a DEF RequestDelete, Delete, CrType
  <2> QED BY <2>1 DEF CopyInv
<1> QED BY <1>1, <1>2, <1>3, <1>4, <1>5, <1>6, <1>7, <1>8, <1>9, <1>10, <1>11, <1>12, <1>13
       DEF Next, Controller, Environment

LEMMA DropStep == X509TypeOK /\ DropInv /\ [Next]_vars => DropInv'
<1> SUFFICES ASSUME X509TypeOK, DropInv, [Next]_vars PROVE DropInv'
  OBVIOUS
<1>a. job \in JobType /\ NoJob["drop"] = "none"
  BY DEF X509TypeOK, JobType, NoJob, Ops
<1>b. job' = NoJob => DropInv'
  BY <1>a DEF DropInv
<1>c. UNCHANGED <<pc, job>> /\ mem'.deleting = mem.deleting => DropInv'
  BY DEF DropInv
<1>1. CASE \/ Reconcile \/ ReadIssuer \/ ReadMatchingRules \/ ObserveAbsent \/ RemoveFinalizer
           \/ Finish \/ EndCreate \/ ObserveFails \/ Crash
  <2>1. job' = NoJob
    BY <1>1 DEF Reconcile, Start, ReadIssuer, ReadMatchingRules, ObserveAbsent, NotFound,
           RemoveFinalizer, Release, Finish, EndCreate, RecordCreate, ObserveFails, Idle, Crash, Die,
           own, DropInv
  <2> QED BY <2>1, <1>b
<1>2. CASE Observe \/ BeginCreate
  <2>1. CASE Idle
    BY <2>1, <1>b DEF Idle
  <2>2. CASE Begin({"drop"}) /\ mem.deleting
    BY <2>2 DEF Begin, DropInv
  <2>3. ASSUME NEW ops, Begin(ops), "drop" \notin ops PROVE DropInv'
    BY <2>3 DEF Begin, DropInv, Ops
  <2>4. "drop" \notin UpdateJobs(mem.spec, obs)
    BY DEF UpdateJobs
  <2> QED BY <1>2, <2>1, <2>2, <2>3, <2>4 DEF Observe, BeginCreate
<1>3. ASSUME NEW op \in Ops, Execute(op) \/ Fails(op) PROVE DropInv'
  <2>1. /\ UNCHANGED <<pc, mem>> /\ pc = "run" /\ job[op] = "sent"
        /\ \E v \in {"ok", "err"} : job' = [job EXCEPT ![op] = v]
    BY <1>3 DEF Execute, Fails
  <2> QED BY <1>a, <2>1 DEF DropInv, JobType, Ops
<1>4. CASE LateStatement \/ EditSpec \/ RequestDelete \/ UseChanges \/ DbaChanges \/ UNCHANGED vars
  <2>1. UNCHANGED <<pc, job, mem>>
    BY <1>4 DEF LateStatement, EditSpec, Edit, RequestDelete, Delete, own, UseChanges, DbaChanges, vars
  <2> QED BY <2>1, <1>c
<1> QED BY <1>1, <1>2, <1>3, <1>4 DEF Next, Controller, Environment

LEMMA AbsentStep == X509TypeOK /\ AbsentInv /\ [Next]_vars => AbsentInv'
<1> SUFFICES ASSUME X509TypeOK, AbsentInv, [Next]_vars PROVE AbsentInv'
  OBVIOUS
<1>a. prov \in [Names -> ProviderType] /\ mem.spec \in Specs /\ mem.spec.name \in Names
  BY SpecFields DEF X509TypeOK, MemType
<1>b. obs' = NoObs /\ pc' \notin {"observe", "removeFinalizer"} => AbsentInv'
  BY DEF AbsentInv
<1>c. UNCHANGED <<pc, mem, obs, prov>> => AbsentInv'
  BY DEF AbsentInv
<1>d. ASSUME NEW n \in Names, NEW p \in ProviderType, prov' = [prov EXCEPT ![n] = p],
             p.exists /\ p.ours => prov[n].exists /\ prov[n].ours, UNCHANGED <<pc, mem, obs>>
      PROVE  AbsentInv'
  BY <1>a, <1>d DEF AbsentInv
<1>1. CASE Reconcile
  <2>1. obs' = NoObs /\ pc' = "observe"
    BY <1>1 DEF Reconcile, Start, own, AbsentInv
  <2>2. NoObs.issuer # NoRow
    BY X509Assumption DEF NoObs
  <2> QED BY <2>1, <2>2 DEF AbsentInv
<1>2. CASE ReadIssuer
  <2>1. obs'.issuer = IF prov[mem.spec.name].exists THEN prov[mem.spec.name].issuer ELSE NoRow
    BY <1>2 DEF ReadIssuer, X509TypeOK
  <2>2. prov[mem.spec.name].issuer # NoRow
    BY <1>a, X509Assumption DEF ProviderType
  <2> QED BY <1>2, <2>1, <2>2 DEF ReadIssuer, AbsentInv
<1>3. CASE ReadMatchingRules
  <2>1. obs'.issuer = obs.issuer
    BY <1>3 DEF ReadMatchingRules, X509TypeOK
  <2> QED BY <1>3, <2>1 DEF ReadMatchingRules, AbsentInv
<1>4. CASE ObserveAbsent
  BY <1>4 DEF ObserveAbsent, NotFound, AbsentInv
<1>5. CASE Observe \/ BeginCreate
  <2>1. pc' = "run" \/ Idle
    BY <1>5 DEF Observe, BeginCreate, Begin
  <2>2. CASE pc' = "run"
    BY <2>2 DEF AbsentInv
  <2>3. CASE Idle
    BY <2>3, <1>b DEF Idle, Stop
  <2> QED BY <2>1, <2>2, <2>3
<1>6. CASE RemoveFinalizer \/ Finish \/ ObserveFails \/ Crash
  <2>1. obs' = NoObs /\ pc' \notin {"observe", "removeFinalizer"}
    BY <1>6 DEF RemoveFinalizer, Release, Finish, Return, ObserveFails, Idle, Crash, Die, Stop
  <2> QED BY <2>1, <1>b
<1>7. CASE EndCreate
  <2>1. obs' = NoObs /\ pc' = "idle"
    BY <1>7 DEF EndCreate, RecordCreate, Stop, own, AbsentInv
  <2> QED BY <2>1, <1>b
<1>8. ASSUME NEW op \in Ops, Execute(op) \/ Fails(op) PROVE AbsentInv'
  BY <1>8 DEF Execute, Fails, AbsentInv
<1>9. CASE LateStatement
  <2>1. UNCHANGED <<pc, mem, obs>>
    BY <1>9 DEF LateStatement
  <2>2. late \subseteq LateType
    BY DEF X509TypeOK, LateType
  <2> QED BY <1>9, <1>a, <1>c, <1>d, <2>1, <2>2, LateOnOne
<1>10. CASE DbaChanges
  <2>1. UNCHANGED <<pc, mem, obs>>
    BY <1>10 DEF DbaChanges
  <2> QED BY <1>10, <1>a, <1>d, <2>1, DbaOnOne
<1>11. CASE EditSpec \/ RequestDelete \/ UseChanges \/ UNCHANGED vars
  BY <1>11, <1>c DEF EditSpec, Edit, RequestDelete, Delete, UseChanges, vars, own
<1> QED BY <1>1, <1>2, <1>3, <1>4, <1>5, <1>6, <1>7, <1>8, <1>9, <1>10, <1>11
       DEF Next, Controller, Environment

LEMMA LifeCorrect == Spec => []LifeInv
<1>1. X509TypeOK /\ LifeInv /\ [Next]_vars => LifeInv'
  BY CopyStep, DropStep, AbsentStep DEF LifeInv
<1> QED BY <1>1, LifeInit, X509TypeCorrect, PTL DEF Spec

-----------------------------------------------------------------------------
(* The refinement. *)

LEMMA ManagedInit == Init => Managed!Init
<1> SUFFICES ASSUME Init PROVE Managed!Init
  OBVIOUS
<1>1. cr.exists /\ ~ cr.finalizer /\ ~ cr.deleting /\ cr.spec \in Specs /\ drifts = 0
  BY DEF Init, ReconcilerInit
<1>2. cr.spec.name \in Names
  BY <1>1, SpecFields
<1>3. PICK m \in Names, f \in BOOLEAN :
        prov = [n \in Names |-> IF n = m THEN [Absent EXCEPT !.exists = f] ELSE Absent]
  BY DEF Init
<1>4. Absent.ours = FALSE /\ [Absent EXCEPT !.exists = f].ours = Absent.ours
  <2>1. Absent.ours = FALSE
    BY DEF Absent
  <2> QED BY <2>1, AbsentType DEF ProviderType
<1>5. ~ prov[cr.spec.name].ours
  BY <1>2, <1>3, <1>4
<1> QED BY <1>1, <1>5 DEF Managed!Init

LEMMA ManagedStep ==
    X509TypeOK /\ LifeInv /\ [Next]_vars => [Managed!Next]_(Managed!vars)
<1> SUFFICES ASSUME X509TypeOK, LifeInv, [Next]_vars
             PROVE  Managed!Next \/ UNCHANGED Managed!vars
  BY DEF Managed!vars
<1> DEFINE own1 == prov[cr.spec.name]
           Frame == cr'.exists = cr.exists /\ cr'.finalizer = cr.finalizer /\ cr'.deleting = cr.deleting
           Object == own1'.exists = own1.exists /\ own1'.ours = own1.ours
<1>a. /\ cr \in CrType /\ cr.spec \in Specs /\ mem.spec \in Specs
      /\ prov \in [Names -> ProviderType] /\ cr.spec.name \in Names
  BY SpecFields DEF X509TypeOK, CrType, MemType
<1>b. own1 \in ProviderType
  BY <1>a
<1>s. Frame /\ Object /\ UNCHANGED drifts => UNCHANGED Managed!vars
  BY DEF Managed!vars
<1>d. Frame /\ drifts' = drifts + 1 => Managed!Next
  BY DEF Managed!Next, Managed!Disturb
<1>1. CASE \/ Reconcile \/ ReadIssuer \/ ReadMatchingRules \/ ObserveAbsent \/ Finish
           \/ ObserveFails \/ UseChanges \/ Crash \/ UNCHANGED vars
  <2>1. UNCHANGED <<cr, prov, drifts>>
    BY <1>1 DEF Reconcile, Start, ReadIssuer, ReadMatchingRules, ObserveAbsent, NotFound, Finish,
           ObserveFails, UseChanges, Crash, Die, vars, own
  <2> QED BY <2>1, <1>s
<1>2. CASE EndCreate
  <2>1. Frame /\ cr'.spec = cr.spec /\ UNCHANGED <<prov, drifts>>
    BY <1>2, <1>a DEF EndCreate, RecordCreate, CrType, own
  <2> QED BY <2>1, <1>s
<1>3. CASE Observe \/ BeginCreate
  <2>1. UNCHANGED <<prov, drifts>>
    BY <1>3 DEF Observe, BeginCreate
  <2>2. \/ UNCHANGED cr
        \/ /\ cr.exists /\ cr'.exists /\ cr'.finalizer = TRUE /\ cr'.spec = cr.spec
           /\ cr'.deleting = cr.deleting
    BY <1>3, <1>a DEF Observe, BeginCreate, Claim, FinalizerRefused, CrType, LifeInv, CopyInv
  <2>3. CASE UNCHANGED cr
    BY <2>1, <2>3, <1>s
  <2>4. CASE cr.finalizer /\ ~ UNCHANGED cr
    <3>1. Frame /\ cr'.spec = cr.spec
      BY <2>2, <2>4, <1>a DEF CrType
    <3> QED BY <2>1, <3>1, <1>s
  <2>5. CASE ~ cr.finalizer /\ ~ UNCHANGED cr
    <3>1. Managed!Hold
      BY <2>1, <2>2, <2>5 DEF Managed!Hold
    <3> QED BY <3>1 DEF Managed!Next
  <2> QED BY <2>3, <2>4, <2>5
<1>4. CASE RemoveFinalizer
  <2>1. CASE stale
    BY <1>4, <2>1, <1>s DEF RemoveFinalizer, Release
  <2>2. CASE ~ stale
    <3>1. /\ cr.exists /\ cr.finalizer /\ cr.deleting
          /\ ~ (own1.exists /\ own1.ours)
      BY <1>4, <2>2 DEF RemoveFinalizer, Release, LifeInv, CopyInv, AbsentInv
    <3>2. /\ ~ cr'.exists /\ cr'.deleting = cr.deleting /\ cr'.spec = cr.spec
          /\ UNCHANGED <<prov, drifts>>
      BY <1>4, <2>2, <1>a DEF RemoveFinalizer, Release, CrType
    <3>3. Managed!Release
      BY <3>1, <3>2 DEF Managed!Release
    <3> QED BY <3>3 DEF Managed!Next
  <2> QED BY <2>1, <2>2
<1>5. ASSUME NEW op \in Ops, Execute(op) PROVE Managed!Next \/ UNCHANGED Managed!vars
  <2>1. /\ pc = "run" /\ job[op] = "sent" /\ Accepts(op, mem.spec)
        /\ prov' = Effect(op, mem.spec) /\ UNCHANGED <<cr, drifts>>
    BY <1>5 DEF Execute
  <2>2. cr.exists /\ cr.finalizer
    BY <2>1 DEF LifeInv, CopyInv
  <2> DEFINE n == Upper[mem.spec.name]
  <2>3. PICK p \in ProviderType :
                /\ prov' = [prov EXCEPT ![n] = p]
                /\ op = "create" => p.exists /\ p.ours
                /\ op = "drop" => ~ p.exists
                /\ op \in {"issuer", "rules"} => p.exists = prov[n].exists /\ p.ours = prov[n].ours
    BY <2>1, <1>a, EffectOnOne
  <2>4. CASE n # cr.spec.name
    <3>1. own1' = own1
      BY <2>1, <2>3, <2>4, <1>a
    <3> QED BY <2>1, <3>1, <1>s
  <2>5. CASE n = cr.spec.name
    <3>1. own1' = p
      BY <2>1, <2>3, <2>5, <1>a
    <3>2. CASE op \in {"issuer", "rules"}
      BY <2>1, <2>3, <2>5, <3>1, <3>2, <1>s
    <3>3. CASE op = "create"
      <4>1. ~ own1.exists
        BY <2>1, <2>5, <3>3 DEF Accepts
      <4>2. Managed!Create
        BY <2>1, <2>2, <2>3, <3>1, <3>3, <4>1 DEF Managed!Create
      <4> QED BY <4>2 DEF Managed!Next
    <3>4. CASE op = "drop"
      <4>1. own1.exists
        BY <2>1, <2>5, <3>4 DEF Accepts
      <4>2. cr.deleting
        BY <2>1, <3>4 DEF LifeInv, CopyInv, DropInv
      <4>3. Managed!Drop
        BY <2>1, <2>2, <2>3, <3>1, <3>4, <4>1, <4>2 DEF Managed!Drop
      <4> QED BY <4>3 DEF Managed!Next
    <3> QED BY <3>2, <3>3, <3>4 DEF Ops
  <2> QED BY <2>4, <2>5
<1>6. ASSUME NEW op \in Ops, Fails(op) PROVE Managed!Next \/ UNCHANGED Managed!vars
  <2>1. UNCHANGED <<cr, prov, drifts>>
    BY <1>6 DEF Fails
  <2> QED BY <2>1, <1>s
<1>7. CASE LateStatement
  <2>1. UNCHANGED <<cr, drifts>>
    BY <1>7 DEF LateStatement
  <2>2. late \subseteq LateType
    BY DEF X509TypeOK, LateType
  <2>3. Object
    BY <1>7, <1>a, <2>1, <2>2, LateOnOne
  <2> QED BY <2>1, <2>3, <1>s
<1>8. CASE EditSpec
  <2>1. Frame /\ UNCHANGED prov
    BY <1>8, <1>a DEF EditSpec, Edit, CrType
  <2>2. (cr'.spec.name = cr.spec.name /\ UNCHANGED drifts) \/ drifts' = drifts + 1
    BY <1>8, <1>a DEF EditSpec, Edit, Drifted, CrType
  <2> QED BY <2>1, <2>2, <1>s, <1>d
<1>9. CASE RequestDelete
  <2>1. cr.exists /\ ~ cr.deleting /\ UNCHANGED <<prov, drifts>>
    BY <1>9 DEF RequestDelete, Delete, own
  <2>2. /\ cr'.spec = cr.spec
        /\ \/ cr.finalizer /\ cr'.exists /\ cr'.finalizer /\ cr'.deleting = TRUE
           \/ ~ cr.finalizer /\ ~ cr'.exists /\ cr'.deleting = cr.deleting
    BY <1>9, <1>a DEF RequestDelete, Delete, CrType
  <2>3. Managed!RequestDelete
    BY <2>1, <2>2 DEF Managed!RequestDelete
  <2> QED BY <2>3 DEF Managed!Next
<1>10. CASE DbaChanges
  <2>1. Frame /\ drifts' = drifts + 1
    BY <1>10 DEF DbaChanges, Drifted
  <2> QED BY <2>1, <1>d
<1> QED BY <1>1, <1>2, <1>3, <1>4, <1>5, <1>6, <1>7, <1>8, <1>9, <1>10
       DEF Next, Controller, Environment

\* Every behaviour of the X509Provider controller is one of ManagedResource, in
\* spite of statements that arrive late and of edits of the name: a provider of the
\* resource's name is created only under the finalizer, dropped only on request, and
\* none of the controller's own is left when the resource is released.
THEOREM X509Refines == Spec => X509Implements
BY ManagedInit, ManagedStep, X509TypeCorrect, LifeCorrect, PTL
   DEF Spec, X509Implements, Managed!Spec
=============================================================================
