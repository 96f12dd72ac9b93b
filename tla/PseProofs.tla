------------------------------- MODULE PseProofs -------------------------------
(* Proofs about PseController, for every instance of its constants. *)
EXTENDS PseController, TLAPS

-----------------------------------------------------------------------------
(* Types.  PseTypeOK leaves out what the running reconcile has read and the   *)
(* shape of its goroutines; the induction needs both.                         *)

CrType == [exists : BOOLEAN, spec : Specs, finalizer : BOOLEAN, deleting : BOOLEAN,
           pending : BOOLEAN]
PseType == [exists : BOOLEAN, prov : Providers \cup {NoProvider}, certs : SUBSET Certs]
ObsType == [found : BOOLEAN, prov : Providers \cup {NoProvider}, certs : SUBSET Certs]
MemType == [spec : Specs, deleting : BOOLEAN, obs : ObsType, read : SUBSET {"pse", "certs", "prov"}]
GoType == [todo : Seq(StmtType), ch : {"off", "open", "nil", "err"}]
Jobs == {"purpose", "add", "drop"}
JobsType == [purpose : GoType, add : GoType, drop : GoType]

WorldType == [crs : SUBSET Providers, provs : SUBSET Providers, certs : SUBSET Certs]
Steps == {"idle", "observe", "removeFinalizer", "create", "createPse", "update", "delete",
          "wait", "endCreate"}

Typed ==
    /\ cr \in CrType /\ stale \in BOOLEAN
    /\ pse \in PseType /\ world \in WorldType /\ pse.certs \subseteq world.certs
    /\ pc \in Steps /\ mem \in MemType /\ job \in JobsType
    /\ late \subseteq StmtType
    /\ edits \in Nat /\ faults \in Nat

\* The goroutines that Create and Update start: only the first one's channel has a
\* SET PURPOSE behind it, and none sends anything more once it has answered.
Started(j) ==
    /\ j \in JobsType
    /\ \A g \in Jobs : j[g].ch # "open" => j[g].todo = <<>>
    /\ \A g \in {"add", "drop"} : \A i \in 1..Len(j[g].todo) : j[g].todo[i].op # "purpose"

JobsInv == Started(job) /\ (pc # "wait" => job = NoJobs)

\* A SET PURPOSE that nobody waits for any more.
LatePurpose == \E s \in late : s.op = "purpose"

\* The finalizer is there from before CREATE PSE until after DROP PSE.
FinalizerInv ==
    /\ cr.exists /\ ~ cr.finalizer =>
        ~ pse.exists /\ ~ LatePurpose /\ pc \in {"idle", "observe", "create"}
    /\ cr.deleting => cr.finalizer \/ ~ cr.exists
    /\ cr.pending => cr.exists /\ cr.finalizer
    /\ pc \in {"createPse", "endCreate"} => cr.pending
    /\ pc \in {"observe", "create", "removeFinalizer", "update", "delete"} => ~ cr.pending

\* What the running reconcile knows of the resource.
CopyInv ==
    /\ pc # "idle" /\ ~ stale => cr.exists /\ mem.deleting = cr.deleting /\ mem.spec = cr.spec
    /\ mem.deleting => cr.exists /\ cr.deleting
    /\ pc \in {"delete", "removeFinalizer"} => mem.deleting
    /\ pc = "create" => ~ mem.deleting

\* What it knows of the PSE: a PSE with purpose keeps it until it is dropped, and one
\* without is not given any by a late statement, unless its Create is unaccounted for.
\* A PSE that was looked for by a name in upper case and not found is not in use.
PurposeInv ==
    /\ pc = "observe" /\ mem.obs.found => InUse
    /\ pc \in {"update", "delete"} => InUse
    /\ pc = "wait" => pse.exists /\ (cr.pending \/ InUse)
    /\ pc = "observe" /\ "pse" \in mem.read /\ ~ mem.obs.found => ~ Found
    /\ pc \in {"create", "removeFinalizer"} => ~ Found
    /\ LatePurpose /\ pse.exists => InUse \/ (cr.pending /\ pc = "idle")
    /\ LatePurpose /\ ~ pse.exists => cr.deleting \/ ~ cr.exists
    /\ pc \in {"createPse", "endCreate"} \/ (pc = "wait" /\ cr.pending) => ~ LatePurpose \/ InUse
    /\ pc = "wait" /\ cr.pending => ~ LatePurpose

GoneInv ==
    ~ cr.exists => /\ cr.spec.name = Stored => ~ InUse /\ (pse.exists => ~ LatePurpose)
                   /\ pc \in {"idle", "observe", "create"}
                   /\ pc # "idle" => ~ pse.exists

LifeInv == FinalizerInv /\ CopyInv /\ PurposeInv /\ GoneInv

-----------------------------------------------------------------------------
(* What the operators return. *)

\* A certificate is a reference to itself, by ID and by name.
LEMMA CertsAreRefs == Certs \subseteq CertRef
<1>1. \A c \in Certs : c = [id |-> c.id, name |-> c.name]
  BY PseAssumption
<1> QED BY <1>1 DEF CertRef

\* HANA finds one certificate for a reference.
LEMMA RefersToOne ==
    ASSUME NEW r, NEW c \in Certs, NEW d \in Certs, Refers(r, c), Refers(r, d)
    PROVE  c = d
BY PseAssumption DEF Refers

\* updateCertificatesForPSE sends statements of its own kind, and never one without
\* references.
LEMMA CertificateStatements ==
    ASSUME NEW op \in {"add", "drop"}, NEW refs \in SUBSET CertRef
    PROVE  /\ UpdateCertificatesForPSE(op, refs) \in Seq(StmtType)
           /\ \A i \in 1..Len(UpdateCertificatesForPSE(op, refs)) :
                UpdateCertificatesForPSE(op, refs)[i].op = op
<1> DEFINE ids == {r \in refs : r.id # NoId}
           names == refs \ ids
           T == {s \in StmtType : s.op = op}
<1>1. ASSUME NEW rs \in SUBSET CertRef, rs # {} PROVE Alter(op, rs) \in T
  BY <1>1 DEF Alter, StmtType
<1>2. ids \in SUBSET CertRef /\ names \in SUBSET CertRef
  OBVIOUS
<1> DEFINE a == IF ids = {} THEN <<>> ELSE <<Alter(op, ids)>>
           b == IF names = {} THEN <<>> ELSE <<Alter(op, names)>>
<1> HIDE DEF ids, names, T
<1>3. a \in Seq(T) /\ b \in Seq(T)
  BY <1>1, <1>2
<1> HIDE DEF a, b
<1>4. a \o b \in Seq(T)
  BY <1>3
<1>5. UpdateCertificatesForPSE(op, refs) = a \o b
  BY DEF UpdateCertificatesForPSE, a, b, ids, names
<1>6. \A i \in 1..Len(a \o b) : (a \o b)[i] \in T
  BY <1>4
<1>7. a \o b \in Seq(StmtType)
  <2>1. T \subseteq StmtType
    BY DEF T
  <2> QED BY <2>1, <1>4
<1> QED BY <1>5, <1>6, <1>7 DEF T

LEMMA PurposeStatement ==
    ASSUME NEW p \in Providers PROVE SetPSEPurpose(p) \in Seq(StmtType)
<1>1. Purpose(p) \in StmtType
  BY DEF Purpose, StmtType
<1> QED BY <1>1 DEF SetPSEPurpose

LEMMA OffType == Off \in GoType /\ NoJobs \in JobsType
<1>1. Off \in GoType
  BY DEF Off, GoType
<1> QED BY <1>1 DEF NoJobs, JobsType

LEMMA GoIsType == ASSUME NEW q \in Seq(StmtType) PROVE Go(q) \in GoType
BY DEF Go, GoType

LEMMA NoMemType == NoMem \in MemType
<1>1. (CHOOSE s \in Specs : TRUE) \in Specs
  BY PseAssumption
<1>2. NoObs \in ObsType
  BY DEF NoObs, ObsType
<1> QED BY <1>1, <1>2 DEF NoMem, MemType

\* What Create and Update start, and the state in between.
LEMMA StartedJobs ==
    ASSUME NEW s \in Specs, NEW o \in ObsType
    PROVE  /\ Started(UpdateJobs(s, o))
           /\ Started(CreateJobs(s))
           /\ Started(NoJobs)
<1>1. s \in SpecType
  BY PseAssumption
<1>2. /\ s.refs \in SUBSET CertRef /\ s.prov \in Providers \cup {NoProvider}
      /\ CertListDifference(s.refs, o.certs) \in SUBSET CertRef
      /\ CertListDifference(o.certs, s.refs) \in SUBSET CertRef
  BY <1>1, CertsAreRefs DEF SpecType, ObsType, CertListDifference
<1> DEFINE w == Go(UpdateCertificatesForPSE("add", s.refs))
           a == Go(UpdateCertificatesForPSE("add", CertListDifference(s.refs, o.certs)))
           d == Go(UpdateCertificatesForPSE("drop", CertListDifference(o.certs, s.refs)))
           p == Go(SetPSEPurpose(s.prov))
<1>3. ASSUME NEW op \in {"add", "drop"}, NEW refs \in SUBSET CertRef
      PROVE  LET x == Go(UpdateCertificatesForPSE(op, refs)) IN
             /\ x \in GoType /\ x.ch = "open"
             /\ \A i \in 1..Len(x.todo) : x.todo[i].op # "purpose"
  <2>1. Go(UpdateCertificatesForPSE(op, refs)) \in GoType
    BY <1>3, CertificateStatements, GoIsType
  <2>2. \A i \in 1..Len(UpdateCertificatesForPSE(op, refs)) :
            UpdateCertificatesForPSE(op, refs)[i].op # "purpose"
    BY <1>3, CertificateStatements
  <2> QED BY <2>1, <2>2 DEF Go
<1>4. s.prov # NoProvider => p \in GoType /\ p.ch = "open"
  BY <1>2, PurposeStatement, GoIsType DEF Go
<1>5. Off.ch = "off" /\ Off.todo = <<>> /\ Len(<<>>) = 0
  BY DEF Off
<1>6. /\ w \in GoType /\ w.ch = "open" /\ \A i \in 1..Len(w.todo) : w.todo[i].op # "purpose"
      /\ a \in GoType /\ a.ch = "open" /\ \A i \in 1..Len(a.todo) : a.todo[i].op # "purpose"
      /\ d \in GoType /\ d.ch = "open" /\ \A i \in 1..Len(d.todo) : d.todo[i].op # "purpose"
  BY <1>2, <1>3
<1> HIDE DEF w, a, d, p
<1>7. ASSUME NEW x \in GoType, NEW y \in GoType, NEW z \in GoType,
             x.ch # "open" => x.todo = <<>>, y.ch # "open" => y.todo = <<>>,
             z.ch # "open" => z.todo = <<>>,
             \A i \in 1..Len(y.todo) : y.todo[i].op # "purpose",
             \A i \in 1..Len(z.todo) : z.todo[i].op # "purpose"
      PROVE  Started([purpose |-> x, add |-> y, drop |-> z])
  BY <1>7 DEF Started, JobsType, Jobs
<1>8. Started(UpdateJobs(s, o))
  <2> DEFINE x == IF s.prov \in {NoProvider, o.prov} THEN Off ELSE p
  <2>1. x \in GoType /\ (x.ch # "open" => x.todo = <<>>)
    BY <1>4, <1>5, OffType
  <2>2. UpdateJobs(s, o) = [purpose |-> x, add |-> a, drop |-> d]
    BY DEF UpdateJobs, a, d, p
  <2> HIDE DEF x
  <2>3. Started([purpose |-> x, add |-> a, drop |-> d])
    BY <2>1, <1>6, <1>7
  <2> QED BY <2>2, <2>3
<1>9. Started(CreateJobs(s))
  <2> DEFINE x == IF s.prov = NoProvider THEN Off ELSE p
  <2>1. x \in GoType /\ (x.ch # "open" => x.todo = <<>>)
    BY <1>4, <1>5, OffType
  <2>2. CreateJobs(s) = [purpose |-> x, add |-> w, drop |-> Off]
    BY DEF CreateJobs, w, p
  <2> HIDE DEF x
  <2>3. Started([purpose |-> x, add |-> w, drop |-> Off])
    BY <2>1, <1>5, <1>6, <1>7, OffType
  <2> QED BY <2>2, <2>3
<1>10. Started(NoJobs)
  BY <1>5, <1>7, OffType DEF NoJobs
<1> QED BY <1>8, <1>9, <1>10

\* An accepted statement leaves a PSE with certificates that exist; a purpose stays.
LEMMA EffectType ==
    ASSUME NEW s \in StmtType, pse \in PseType, pse.certs \subseteq world.certs,
           world.certs \subseteq Certs, Accepts(s)
    PROVE  /\ Effect(s) \in PseType /\ Effect(s).certs \subseteq world.certs
           /\ Effect(s).exists
           /\ Effect(s).prov = pse.prov \/ (s.op = "purpose" /\ Effect(s).prov \in Providers)
<1>1. CASE s.op = "purpose"
  <2>1. Upper[s.prov] \in Providers
    BY <1>1, PseAssumption DEF StmtType
  <2> QED BY <1>1, <2>1 DEF Effect, PseType, Accepts
<1>2. CASE s.op = "add"
  <2>1. Referred(s.refs) \subseteq world.certs
    <3> SUFFICES ASSUME NEW c \in Certs, NEW r \in s.refs, Refers(r, c)
                 PROVE  c \in world.certs
      BY DEF Referred
    <3>1. PICK d \in world.certs : Refers(r, d)
      BY <1>2 DEF Accepts
    <3> QED BY <3>1, RefersToOne
  <2>2. Effect(s) = [pse EXCEPT !.certs = @ \cup Referred(s.refs)]
    BY <1>2 DEF Effect
  <2> QED BY <2>1, <2>2 DEF PseType, Accepts
<1>3. CASE s.op = "drop"
  <2>1. Effect(s) = [pse EXCEPT !.certs = @ \ Referred(s.refs)]
    BY <1>3 DEF Effect
  <2> QED BY <2>1 DEF PseType, Accepts
<1> QED BY <1>1, <1>2, <1>3 DEF StmtType

\* What the goroutines have sent are statements.
LEMMA InFlightType == ASSUME job \in JobsType PROVE InFlight \subseteq StmtType
<1> SUFFICES ASSUME NEW g \in DOMAIN job, job[g].todo # <<>>
             PROVE  job[g].todo[1] \in StmtType
  BY DEF InFlight
<1>1. job[g] \in GoType
  BY DEF JobsType
<1>2. job[g].todo \in Seq(StmtType)
  BY <1>1 DEF GoType
<1> QED BY <1>2

\* A goroutine answers, or has run one statement more.
LEMMA AnsweredType ==
    ASSUME job \in JobsType, NEW g \in Jobs
    PROVE  /\ \A v \in {"nil", "err"} : Send(g, v) => job' \in JobsType
           /\ job' = [job EXCEPT ![g] = Off] => job' \in JobsType
           /\ job[g].todo # <<>> /\ job' = [job EXCEPT ![g].todo = Tail(@)] => job' \in JobsType
<1>1. job[g] \in GoType
  BY DEF JobsType, Jobs
<1>2. ASSUME NEW x \in GoType PROVE [job EXCEPT ![g] = x] \in JobsType
  BY <1>2 DEF JobsType, Jobs
<1>3. ASSUME NEW v \in {"nil", "err"} PROVE [todo |-> <<>>, ch |-> v] \in GoType
  BY DEF GoType
<1>4. ASSUME job[g].todo # <<>> PROVE [job[g] EXCEPT !.todo = Tail(@)] \in GoType
  BY <1>1, <1>4 DEF GoType
<1>5. [job EXCEPT ![g].todo = Tail(@)] = [job EXCEPT ![g] = [job[g] EXCEPT !.todo = Tail(@)]]
  OBVIOUS
<1> QED BY <1>2, <1>3, <1>4, <1>5, OffType DEF Send

LEMMA IdleType == ASSUME Idle PROVE mem' \in MemType /\ job' \in JobsType /\ stale' = FALSE /\ pc' = "idle"
BY NoMemType, OffType DEF Idle

-----------------------------------------------------------------------------
(* The types are kept. *)

LEMMA TypedInit == Init => Typed
<1> SUFFICES ASSUME Init PROVE Typed
  OBVIOUS
<1>1. cr \in CrType
  BY DEF Init, CrType
<1>2. pse \in PseType /\ world \in WorldType /\ pse.certs \subseteq world.certs
  BY DEF Init, HanaProviders, NoPse, PseType, WorldType
<1> QED BY <1>1, <1>2, NoMemType, OffType DEF Init, Typed, Steps

LEMMA TypedStep == Typed /\ [Next]_vars => Typed'
<1> SUFFICES ASSUME Typed, [Next]_vars PROVE Typed'
  OBVIOUS
<1> USE DEF Typed
<1>a. Jobs = DOMAIN job
  BY DEF Jobs, JobsType
<1>1. CASE Reconcile
  <2>1. mem' \in MemType
    BY <1>1, NoMemType DEF Reconcile, MemType, CrType
  <2> QED BY <1>1, <2>1 DEF Reconcile, Steps
<1>2. CASE SelectPSE \/ SelectPSECertificates \/ SelectPSEPurpose
  <2>1. mem.obs \in ObsType
    BY DEF MemType
  <2>2. ASSUME NEW x \in ObsType, NEW r \in {"pse", "certs", "prov"}
        PROVE  [mem EXCEPT !.read = @ \cup {r}, !.obs = x] \in MemType
    BY <2>2 DEF MemType
  <2>3. /\ [mem.obs EXCEPT !.found = Found] \in ObsType
        /\ [mem.obs EXCEPT !.certs = IF mem.spec.name = Stored THEN pse.certs ELSE {}] \in ObsType
        /\ [mem.obs EXCEPT !.prov = IF mem.spec.name = Stored THEN pse.prov ELSE NoProvider]
                \in ObsType
    BY <2>1 DEF ObsType, PseType, Found, InUse
  <2>4. CASE SelectPSE
    <3>1. mem' = [mem EXCEPT !.read = @ \cup {"pse"}, !.obs = [mem.obs EXCEPT !.found = Found]]
      BY <2>4 DEF SelectPSE
    <3> QED BY <2>2, <2>3, <2>4, <3>1 DEF SelectPSE
  <2>5. CASE SelectPSECertificates
    <3>1. mem' = [mem EXCEPT !.read = @ \cup {"certs"}, !.obs = [mem.obs EXCEPT
                !.certs = IF mem.spec.name = Stored THEN pse.certs ELSE {}]]
      BY <2>5 DEF SelectPSECertificates
    <3> QED BY <2>2, <2>3, <2>5, <3>1 DEF SelectPSECertificates
  <2>6. CASE SelectPSEPurpose
    <3>1. mem' = [mem EXCEPT !.read = @ \cup {"prov"}, !.obs = [mem.obs EXCEPT
                !.prov = IF mem.spec.name = Stored THEN pse.prov ELSE NoProvider]]
      BY <2>6 DEF SelectPSEPurpose
    <3> QED BY <2>2, <2>3, <2>6, <3>1 DEF SelectPSEPurpose
  <2> QED BY <1>2, <2>4, <2>5, <2>6
<1>3. CASE ObserveAbsent
  BY <1>3 DEF ObserveAbsent, Steps
<1>4. CASE Observe
  <2>1. mem' \in MemType /\ job' \in JobsType /\ stale' \in BOOLEAN /\ pc' \in Steps
    BY <1>4, IdleType DEF Observe, Steps
  <2> QED BY <1>4, <2>1 DEF Observe
<1>5. CASE ObserveFails
  BY <1>5, IdleType DEF ObserveFails, Fault, Steps
<1>6. CASE RemoveFinalizer
  <2>1. cr' \in CrType
    BY <1>6 DEF RemoveFinalizer, CrType
  <2> QED BY <1>6, <2>1, IdleType DEF RemoveFinalizer, Steps
<1>7. CASE BeginCreate
  <2>1. cr' \in CrType
    BY <1>7 DEF BeginCreate, CrType
  <2>2. mem' \in MemType /\ job' \in JobsType /\ stale' \in BOOLEAN /\ pc' \in Steps
    BY <1>7, IdleType DEF BeginCreate, Steps
  <2> QED BY <1>7, <2>1, <2>2 DEF BeginCreate
<1>8. CASE CreatePse
  <2>1. CreateJobs(mem.spec) \in JobsType
    BY StartedJobs DEF MemType, Started
  <2>2. pse' \in PseType /\ pse'.certs \subseteq world.certs
    BY <1>8 DEF CreatePse, NoPse, PseType
  <2>3. job' \in JobsType /\ pc' \in Steps /\ faults' \in Nat
    BY <1>8, <2>1 DEF CreatePse, Fault, Steps
  <2> QED BY <1>8, <2>2, <2>3 DEF CreatePse
<1>9. CASE Update
  <2>1. UpdateJobs(mem.spec, mem.obs) \in JobsType
    BY StartedJobs DEF MemType, Started
  <2>2. mem' \in MemType /\ job' \in JobsType /\ stale' \in BOOLEAN /\ pc' \in Steps
    BY <1>9, <2>1, IdleType DEF Update, Steps
  <2> QED BY <1>9, <2>2 DEF Update
<1>10. CASE Delete
  <2>a. NoPse \in PseType /\ NoPse.certs = {}
    BY DEF NoPse, PseType
  <2>1. pse' \in PseType /\ pse'.certs \subseteq world.certs
    BY <1>10, <2>a DEF Delete
  <2>2. faults' \in Nat
    BY <1>10 DEF Delete, Fault
  <2> QED BY <1>10, <2>1, <2>2, IdleType DEF Delete, Steps
<1>11. ASSUME NEW g \in Jobs, RunStatement(g) PROVE Typed'
  <2>1. job' \in JobsType
    BY <1>11, AnsweredType DEF RunStatement
  <2>2. Head(job[g].todo) \in StmtType
    <3>1. job[g] \in GoType
      BY DEF JobsType, Jobs
    <3>2. job[g].todo \in Seq(StmtType) /\ job[g].todo # <<>>
      BY <1>11, <3>1 DEF GoType, RunStatement
    <3> QED BY <3>2
  <2>3. pse' \in PseType /\ pse'.certs \subseteq world.certs
    <3>1. UNCHANGED pse \/ (Accepts(Head(job[g].todo)) /\ pse' = Effect(Head(job[g].todo)))
      BY <1>11 DEF RunStatement
    <3> QED BY <2>2, <3>1, EffectType DEF WorldType
  <2>4. faults' \in Nat
    BY <1>11 DEF RunStatement, Fault
  <2> QED BY <1>11, <2>1, <2>3, <2>4 DEF RunStatement
<1>12. ASSUME NEW g \in Jobs, EndGoroutine(g) PROVE Typed'
  BY <1>12, AnsweredType DEF EndGoroutine
<1>13. CASE Receive
  <2>1. PICK i \in 1..Len(Goroutines) :
            \/ /\ job' = [job EXCEPT ![Goroutines[i]] = Off]
               /\ UNCHANGED <<stale, pc, mem, late>>
            \/ /\ late' = late \cup InFlight
               /\ Return
    BY <1>13 DEF Receive
  <2>2. Goroutines[i] \in Jobs
    BY DEF Goroutines, Jobs
  <2>3. CASE /\ job' = [job EXCEPT ![Goroutines[i]] = Off]
             /\ UNCHANGED <<stale, pc, mem, late>>
    BY <1>13, <2>2, <2>3, AnsweredType DEF Receive
  <2>4. CASE late' = late \cup InFlight /\ Return
    <3>1. mem' \in MemType /\ job' \in JobsType /\ stale' \in BOOLEAN /\ pc' \in Steps
      BY <2>4, IdleType, OffType DEF Return, Steps
    <3> QED BY <1>13, <2>4, <3>1, InFlightType DEF Receive
  <2> QED BY <2>1, <2>3, <2>4
<1>14. CASE AllReceived
  <2>1. mem' \in MemType /\ job' \in JobsType /\ stale' \in BOOLEAN /\ pc' \in Steps
    BY <1>14, IdleType, OffType DEF AllReceived, Return, Steps
  <2> QED BY <1>14, <2>1 DEF AllReceived
<1>15. CASE EndCreate
  <2>1. cr' \in CrType
    BY <1>15 DEF EndCreate, CrType
  <2> QED BY <1>15, <2>1, IdleType DEF EndCreate, Steps
<1>16. CASE LateStatement
  <2>1. PICK s \in late : late' = late \ {s} /\ pse' = IF Accepts(s) THEN Effect(s) ELSE pse
    BY <1>16 DEF LateStatement
  <2>2. pse' \in PseType /\ pse'.certs \subseteq world.certs
    BY <2>1, EffectType DEF WorldType
  <2> QED BY <1>16, <2>1, <2>2 DEF LateStatement
<1>17. CASE EditSpec
  <2>1. cr' \in CrType
    BY <1>17 DEF EditSpec, CrType
  <2> QED BY <1>17, <2>1 DEF EditSpec, Edited
<1>18. CASE RequestDelete
  <2>1. cr' \in CrType
    BY <1>18 DEF RequestDelete, CrType
  <2> QED BY <1>18, <2>1 DEF RequestDelete, Edited
<1>19. CASE ChangeWorld
  <2>1. world' \in WorldType /\ pse.certs \subseteq world'.certs
    BY <1>19 DEF ChangeWorld, HanaProviders, WorldType
  <2> QED BY <1>19, <2>1 DEF ChangeWorld, Edited
<1>20. CASE Crash
  BY <1>20, IdleType, InFlightType DEF Crash, Fault, Steps
<1>21. CASE UNCHANGED vars
  BY <1>21 DEF vars
<1> QED BY <1>1, <1>2, <1>3, <1>4, <1>5, <1>6, <1>7, <1>8, <1>9, <1>10, <1>11, <1>12, <1>13,
          <1>14, <1>15, <1>16, <1>17, <1>18, <1>19, <1>20, <1>21, <1>a
       DEF Next, Controller, Environment

LEMMA TypedCorrect == Spec => []Typed
BY TypedInit, TypedStep, PTL DEF Spec

\* Every statement the goroutines send, in time or late, names a provider or
\* certificates, and the PSE holds certificates that exist.
THEOREM PseTypeCorrect == Spec => []PseTypeOK
<1>1. ASSUME Typed, NEW g \in DOMAIN job
      PROVE  /\ job[g].ch \in {"off", "open", "nil", "err"}
             /\ \A i \in 1..Len(job[g].todo) : job[g].todo[i] \in StmtType
  <2>1. job[g] \in GoType
    BY <1>1 DEF Typed, JobsType
  <2>2. job[g].todo \in Seq(StmtType)
    BY <2>1 DEF GoType
  <2> QED BY <2>1, <2>2 DEF GoType
<1>2. Typed => PseTypeOK
  BY <1>1 DEF Typed, PseTypeOK, CrType, PseType, WorldType, Steps
<1> QED BY <1>2, TypedCorrect, PTL

-----------------------------------------------------------------------------
(* The life of a PSE. *)

\* The goroutines keep their shape when one of them has run a statement or has
\* answered.
LEMMA StillStarted ==
    ASSUME Started(job), NEW g \in Jobs,
           \/ \E v \in {"nil", "err"} : Send(g, v)
           \/ job' = [job EXCEPT ![g] = Off]
           \/ /\ job[g].ch = "open" /\ job[g].todo # <<>>
              /\ job' = [job EXCEPT ![g].todo = Tail(@)]
    PROVE  Started(job')
<1>1. job \in JobsType /\ job' \in JobsType
  BY AnsweredType DEF Started
<1>2. job[g] \in GoType
  BY <1>1 DEF JobsType, Jobs
<1>3. PICK x : /\ job' = [job EXCEPT ![g] = x]
               /\ x.todo = <<>> \/ (x.ch = "open" /\ job[g].todo # <<>> /\ x.todo = Tail(job[g].todo))
  <2>1. ASSUME NEW v \in {"nil", "err"}, Send(g, v) 
        PROVE  \E x : job' = [job EXCEPT ![g] = x] /\ x.todo = <<>>
    <3> DEFINE x == [todo |-> <<>>, ch |-> v]
    <3>1. x.todo = <<>> /\ job' = [job EXCEPT ![g] = x]
      BY <2>1 DEF Send
    <3> QED BY <3>1, Zenon
  <2>2. CASE job' = [job EXCEPT ![g] = Off]
    <3>1. Off.todo = <<>>
      BY DEF Off
    <3> QED BY <2>2, <3>1, Zenon
  <2>3. CASE /\ job[g].ch = "open" /\ job[g].todo # <<>>
             /\ job' = [job EXCEPT ![g].todo = Tail(@)]
    <3>1. job' = [job EXCEPT ![g] = [job[g] EXCEPT !.todo = Tail(@)]]
      BY <2>3
    <3>2. LET x == [job[g] EXCEPT !.todo = Tail(@)] IN x.ch = "open" /\ x.todo = Tail(job[g].todo)
      BY <1>2, <2>3 DEF GoType
    <3> QED BY <2>3, <3>1, <3>2
  <2> QED BY <2>1, <2>2, <2>3
<1>4. job'[g] = x /\ \A h \in Jobs \ {g} : job'[h] = job[h]
  BY <1>1, <1>3 DEF JobsType, Jobs
<1>5. \A h \in Jobs : job'[h].ch # "open" => job'[h].todo = <<>>
  BY <1>3, <1>4 DEF Started
<1>6. ASSUME NEW h \in {"add", "drop"}, NEW i \in 1..Len(job'[h].todo)
      PROVE  job'[h].todo[i].op # "purpose"
  <2>1. CASE h # g
    BY <1>4, <2>1 DEF Started, Jobs
  <2>2. CASE h = g /\ x.todo = <<>>
    BY <1>4, <1>6, <2>2
  <2>3. CASE h = g /\ job[g].todo # <<>> /\ x.todo = Tail(job[g].todo)
    <3>1. job[g].todo \in Seq(StmtType)
      BY <1>2 DEF GoType
    <3>2. i \in 1..Len(Tail(job[g].todo))
      BY <1>4, <1>6, <2>3
    <3>3. i + 1 \in 1..Len(job[g].todo) /\ Tail(job[g].todo)[i] = job[g].todo[i + 1]
      BY <3>1, <3>2, <2>3
    <3> QED BY <1>4, <2>3, <3>3 DEF Started
  <2> QED BY <1>3, <2>1, <2>2, <2>3
<1> QED BY <1>1, <1>5, <1>6 DEF Started

LEMMA JobsStep == Typed /\ JobsInv /\ [Next]_vars => JobsInv'
<1> SUFFICES ASSUME Typed, JobsInv, [Next]_vars PROVE JobsInv'
  OBVIOUS
<1>a. Jobs = DOMAIN job
  BY DEF Jobs, JobsType, Typed
<1>b. Started(NoJobs)
  BY StartedJobs, NoMemType DEF MemType
<1>c. Idle => JobsInv'
  BY <1>b DEF Idle, JobsInv
<1>d. job' = job /\ (pc = "wait" => pc' = "wait") => JobsInv'
  BY DEF JobsInv
<1>1. CASE Reconcile \/ SelectPSE \/ SelectPSECertificates \/ SelectPSEPurpose \/ ObserveAbsent
  BY <1>1, <1>d DEF Reconcile, SelectPSE, SelectPSECertificates, SelectPSEPurpose, ObserveAbsent
<1>2. CASE Observe
  BY <1>2, <1>c, <1>d DEF Observe
<1>3. CASE ObserveFails \/ RemoveFinalizer \/ Delete \/ EndCreate \/ Crash
  BY <1>3, <1>c DEF ObserveFails, RemoveFinalizer, Delete, EndCreate, Crash
<1>4. CASE BeginCreate
  BY <1>4, <1>c, <1>d DEF BeginCreate
<1>5. CASE CreatePse
  <2>1. Started(CreateJobs(mem.spec))
    BY StartedJobs DEF MemType, Typed
  <2> QED BY <1>5, <2>1, <1>d DEF CreatePse, JobsInv
<1>6. CASE Update
  <2>1. Started(UpdateJobs(mem.spec, mem.obs))
    BY StartedJobs DEF MemType, Typed
  <2> QED BY <1>6, <2>1, <1>c DEF Update, JobsInv
<1>7. ASSUME NEW g \in Jobs, RunStatement(g) PROVE JobsInv'
  <2>1. Started(job')
    BY <1>7, StillStarted DEF RunStatement, JobsInv
  <2> QED BY <1>7, <2>1 DEF RunStatement, JobsInv
<1>8. ASSUME NEW g \in Jobs, EndGoroutine(g) PROVE JobsInv'
  <2>1. Started(job')
    BY <1>8, StillStarted DEF EndGoroutine, JobsInv
  <2> QED BY <1>8, <2>1 DEF EndGoroutine, JobsInv
<1>9. CASE Receive
  <2>1. PICK i \in 1..Len(Goroutines) :
            \/ job' = [job EXCEPT ![Goroutines[i]] = Off] /\ UNCHANGED pc
            \/ Return
    BY <1>9 DEF Receive
  <2>2. Goroutines[i] \in Jobs
    BY DEF Goroutines, Jobs
  <2>3. CASE job' = [job EXCEPT ![Goroutines[i]] = Off] /\ UNCHANGED pc
    <3>1. Started(job')
      BY <2>2, <2>3, StillStarted DEF JobsInv
    <3> QED BY <1>9, <2>3, <3>1 DEF Receive, JobsInv
  <2>4. CASE Return
    BY <2>4, <1>b, <1>c DEF Return, JobsInv
  <2> QED BY <2>1, <2>3, <2>4
<1>10. CASE AllReceived
  BY <1>10, <1>b, <1>c DEF AllReceived, Return, JobsInv
<1>11. CASE LateStatement \/ EditSpec \/ RequestDelete \/ ChangeWorld
  BY <1>11, <1>d DEF LateStatement, EditSpec, RequestDelete, ChangeWorld
<1>12. CASE UNCHANGED vars
  BY <1>12, <1>d DEF vars
<1> QED BY <1>1, <1>2, <1>3, <1>4, <1>5, <1>6, <1>7, <1>8, <1>9, <1>10, <1>11, <1>12, <1>a
       DEF Next, Controller, Environment

\* A SET PURPOSE is left behind only by a goroutine whose channel nobody has
\* received from.
LEMMA PurposeInFlight ==
    ASSUME Started(job), NEW s \in InFlight, s.op = "purpose"
    PROVE  job.purpose.ch = "open"
<1>1. PICK g \in DOMAIN job : job[g].todo # <<>> /\ s = job[g].todo[1]
  BY DEF InFlight
<1>2. g \in Jobs /\ job[g] \in GoType
  BY <1>1 DEF Started, JobsType, Jobs
<1>3. 1 \in 1..Len(job[g].todo)
  BY <1>1, <1>2 DEF GoType
<1>4. g \notin {"add", "drop"}
  BY <1>1, <1>3 DEF Started
<1> QED BY <1>1, <1>2, <1>4 DEF Started, Jobs

\* What a statement that takes effect does to a PSE in use.
LEMMA Accepted ==
    ASSUME Typed, NEW s \in StmtType, Accepts(s), pse' = Effect(s)
    PROVE  /\ pse.exists /\ pse'.exists
           /\ InUse => InUse'
           /\ InUse' => InUse \/ s.op = "purpose"
<1>1. /\ pse' \in PseType /\ pse'.exists
      /\ pse'.prov = pse.prov \/ (s.op = "purpose" /\ pse'.prov \in Providers)
  BY EffectType DEF Typed, WorldType
<1>2. pse.exists
  BY DEF Accepts
<1> QED BY <1>1, <1>2, PseAssumption DEF InUse

LEMMA LifeInit == Init => LifeInv
BY DEF Init, LifeInv, FinalizerInv, CopyInv, PurposeInv, GoneInv, Found, LatePurpose, InUse, NoPse, NoMem

LEMMA LifeStep == Typed /\ JobsInv /\ LifeInv /\ [Next]_vars => LifeInv'
<1> SUFFICES ASSUME Typed, JobsInv, LifeInv, [Next]_vars PROVE LifeInv'
  OBVIOUS
<1> USE DEF LifeInv
<1>a. Jobs = DOMAIN job
  BY DEF Jobs, JobsType, Typed
<1>b. cr \in CrType /\ mem.deleting \in BOOLEAN /\ mem.obs \in ObsType /\ stale \in BOOLEAN
  BY DEF Typed, MemType
<1>c. InUse => pse.exists
  BY DEF InUse
<1>1. CASE Reconcile
  <2>1. InUse' = InUse /\ LatePurpose' = LatePurpose
    BY <1>1 DEF Reconcile, InUse, LatePurpose
  <2> QED BY <1>b, <1>c, <1>1, <2>1
         DEF CrType, FinalizerInv, CopyInv, PurposeInv, GoneInv, Found, Reconcile, Idle, NoMem, NoObs, MemType
<1>2. CASE SelectPSE
  <2>1. InUse' = InUse /\ LatePurpose' = LatePurpose
    BY <1>2 DEF SelectPSE, InUse, LatePurpose
  <2>2. /\ pc = "observe" /\ UNCHANGED <<cr, stale, pse, pc>>
        /\ mem'.deleting = mem.deleting /\ mem'.spec = mem.spec
        /\ mem'.read = mem.read \cup {"pse"} /\ mem'.obs.found = Found
    BY <1>2 DEF SelectPSE, MemType, ObsType, Typed
  <2> QED BY <1>b, <1>c, <2>1, <2>2 DEF CrType, FinalizerInv, CopyInv, PurposeInv, GoneInv, Found
<1>3. CASE SelectPSECertificates
  <2>1. InUse' = InUse /\ LatePurpose' = LatePurpose
    BY <1>3 DEF SelectPSECertificates, InUse, LatePurpose
  <2>2. /\ pc = "observe" /\ UNCHANGED <<cr, stale, pse, pc>>
        /\ mem'.deleting = mem.deleting /\ mem'.spec = mem.spec
        /\ mem'.read = mem.read \cup {"certs"} /\ mem'.obs.found = mem.obs.found
    BY <1>3 DEF SelectPSECertificates, MemType, ObsType, Typed
  <2> QED BY <1>b, <1>c, <2>1, <2>2 DEF CrType, FinalizerInv, CopyInv, PurposeInv, GoneInv, Found
<1>4. CASE SelectPSEPurpose
  <2>1. InUse' = InUse /\ LatePurpose' = LatePurpose
    BY <1>4 DEF SelectPSEPurpose, InUse, LatePurpose
  <2>2. /\ pc = "observe" /\ UNCHANGED <<cr, stale, pse, pc>>
        /\ mem'.deleting = mem.deleting /\ mem'.spec = mem.spec
        /\ mem'.read = mem.read \cup {"prov"} /\ mem'.obs.found = mem.obs.found
    BY <1>4 DEF SelectPSEPurpose, MemType, ObsType, Typed
  <2> QED BY <1>b, <1>c, <2>1, <2>2 DEF CrType, FinalizerInv, CopyInv, PurposeInv, GoneInv, Found
<1>5. CASE ObserveAbsent
  <2>1. InUse' = InUse /\ LatePurpose' = LatePurpose
    BY <1>5 DEF ObserveAbsent, InUse, LatePurpose
  <2> QED BY <1>b, <1>c, <1>5, <2>1
         DEF CrType, FinalizerInv, CopyInv, PurposeInv, GoneInv, Found, ObserveAbsent, Idle, NoMem, NoObs
<1>6. CASE Observe
  <2>1. InUse' = InUse /\ LatePurpose' = LatePurpose
    BY <1>6 DEF Observe, InUse, LatePurpose
  <2>2. \/ pc' = "idle" /\ mem'.deleting = FALSE
        \/ /\ pc' \in {"delete", "update"} /\ UNCHANGED <<stale, mem>>
           /\ pc' = "delete" => mem.deleting
    BY <1>6 DEF Observe, Idle, NoMem
  <2>3. pc = "observe" /\ mem.obs.found /\ UNCHANGED <<cr, pse>>
    BY <1>6 DEF Observe
  <2> QED BY <1>b, <1>c, <2>1, <2>2, <2>3
         DEF CrType, FinalizerInv, CopyInv, PurposeInv, GoneInv, Found
<1>7. CASE ObserveFails
  <2>1. InUse' = InUse /\ LatePurpose' = LatePurpose
    BY <1>7 DEF ObserveFails, InUse, LatePurpose
  <2> QED BY <1>b, <1>c, <1>7, <2>1
         DEF CrType, FinalizerInv, CopyInv, PurposeInv, GoneInv, Found, ObserveFails, Idle, NoMem, NoObs
<1>8. CASE RemoveFinalizer
  <2>1. InUse' = InUse /\ LatePurpose' = LatePurpose
    BY <1>8 DEF RemoveFinalizer, InUse, LatePurpose
  <2> QED BY <1>b, <1>c, <1>8, <2>1
         DEF CrType, FinalizerInv, CopyInv, PurposeInv, GoneInv, Found, RemoveFinalizer, Idle, NoMem, NoObs
<1>9. CASE BeginCreate
  <2>1. InUse' = InUse /\ LatePurpose' = LatePurpose /\ UNCHANGED pse /\ pc = "create"
    BY <1>9 DEF BeginCreate, InUse, LatePurpose
  <2>2. CASE stale
    <3>1. UNCHANGED cr /\ pc' = "idle" /\ mem'.deleting = FALSE
      BY <1>9, <2>2 DEF BeginCreate, Idle, NoMem
    <3> QED BY <1>b, <1>c, <2>1, <3>1 DEF CrType, FinalizerInv, CopyInv, PurposeInv, GoneInv, Found
  <2>3. CASE ~ stale
    <3>1. /\ cr' = [cr EXCEPT !.finalizer = TRUE, !.pending = TRUE]
          /\ pc' \in {"createPse", "endCreate"} /\ UNCHANGED <<stale, mem>>
      BY <1>9, <2>3 DEF BeginCreate
    <3>2. /\ cr'.exists = cr.exists /\ cr'.deleting = cr.deleting
          /\ cr'.finalizer /\ cr'.pending
      BY <1>b, <3>1 DEF CrType
    <3>3. cr.exists /\ ~ cr.deleting /\ ~ mem.deleting /\ mem.spec = cr.spec
      BY <2>1, <2>3 DEF CopyInv
    <3>4. ~ LatePurpose \/ InUse
      BY <2>1, <3>3 DEF PurposeInv
    <3>5. cr'.spec = cr.spec
      BY <1>b, <3>1 DEF CrType
    <3> QED BY <1>c, <2>1, <3>1, <3>2, <3>3, <3>4, <3>5 DEF FinalizerInv, CopyInv, PurposeInv, GoneInv, Found
  <2> QED BY <2>2, <2>3
<1>10. CASE Update
  <2>1. InUse' = InUse /\ LatePurpose' = LatePurpose
    BY <1>10 DEF Update, InUse, LatePurpose
  <2> QED BY <1>b, <1>c, <1>10, <2>1
         DEF CrType, FinalizerInv, CopyInv, PurposeInv, GoneInv, Found, Update, Idle, NoMem, NoObs
<1>11. CASE EndCreate
  <2>1. InUse' = InUse /\ LatePurpose' = LatePurpose
    BY <1>11 DEF EndCreate, InUse, LatePurpose
  <2> QED BY <1>b, <1>c, <1>11, <2>1
         DEF CrType, FinalizerInv, CopyInv, PurposeInv, GoneInv, Found, EndCreate, Idle, NoMem, NoObs
<1>12. CASE EditSpec
  <2>1. InUse' = InUse /\ LatePurpose' = LatePurpose
    BY <1>12 DEF EditSpec, InUse, LatePurpose
  <2> QED BY <1>b, <1>c, <1>12, <2>1
         DEF CrType, FinalizerInv, CopyInv, PurposeInv, GoneInv, Found, EditSpec, Idle, NoMem, NoObs
<1>13. CASE RequestDelete
  <2>1. InUse' = InUse /\ LatePurpose' = LatePurpose
    BY <1>13 DEF RequestDelete, InUse, LatePurpose
  <2> QED BY <1>b, <1>c, <1>13, <2>1
         DEF CrType, FinalizerInv, CopyInv, PurposeInv, GoneInv, Found, RequestDelete, Idle, NoMem, NoObs
<1>14. CASE ChangeWorld
  <2>1. InUse' = InUse /\ LatePurpose' = LatePurpose
    BY <1>14 DEF ChangeWorld, InUse, LatePurpose
  <2> QED BY <1>b, <1>c, <1>14, <2>1
         DEF CrType, FinalizerInv, CopyInv, PurposeInv, GoneInv, Found, ChangeWorld, Idle, NoMem, NoObs
<1>15. CASE AllReceived
  <2>1. InUse' = InUse /\ LatePurpose' = LatePurpose
    BY <1>15 DEF AllReceived, InUse, LatePurpose
  <2> QED BY <1>b, <1>c, <1>15, <2>1
         DEF CrType, FinalizerInv, CopyInv, PurposeInv, GoneInv, Found, AllReceived, Idle, NoMem, NoObs, Return
<1>16. CASE CreatePse
  <2>1. LatePurpose' = LatePurpose
    BY <1>16 DEF CreatePse, LatePurpose
  <2>2. \/ ~ pse.exists /\ pse'.exists /\ ~ InUse' /\ ~ InUse
        \/ pse' = pse /\ InUse' = InUse /\ pc' = "endCreate"
    BY <1>16 DEF CreatePse, NoPse, InUse
  <2>3. pc = "createPse" /\ pc' \in {"wait", "endCreate"} /\ UNCHANGED <<cr, stale, mem>>
    BY <1>16 DEF CreatePse
  <2> QED BY <1>b, <1>c, <2>1, <2>2, <2>3 DEF CrType, FinalizerInv, CopyInv, PurposeInv, GoneInv, Found
<1>17. CASE Delete
  <2>1. LatePurpose' = LatePurpose
    BY <1>17 DEF Delete, LatePurpose
  <2>2. (~ pse'.exists /\ ~ InUse') \/ (pse' = pse /\ InUse' = InUse)
    BY <1>17 DEF Delete, NoPse, InUse
  <2>3. pc = "delete" /\ pc' = "idle" /\ UNCHANGED cr /\ mem'.deleting = FALSE
    BY <1>17 DEF Delete, Idle, NoMem
  <2> QED BY <1>b, <1>c, <2>1, <2>2, <2>3 DEF CrType, FinalizerInv, CopyInv, PurposeInv, GoneInv, Found
<1>18. ASSUME NEW g \in Jobs, RunStatement(g) PROVE LifeInv'
  <2>1. LatePurpose' = LatePurpose
    BY <1>18 DEF RunStatement, LatePurpose
  <2>2. Head(job[g].todo) \in StmtType
    <3>1. job[g] \in GoType
      BY DEF JobsType, Jobs, Typed
    <3>2. job[g].todo \in Seq(StmtType) /\ job[g].todo # <<>>
      BY <1>18, <3>1 DEF GoType, RunStatement
    <3> QED BY <3>2
  <2>3. (pse' = pse /\ InUse' = InUse) \/ (pse.exists /\ pse'.exists /\ (InUse => InUse'))
    <3>1. UNCHANGED pse \/ (Accepts(Head(job[g].todo)) /\ pse' = Effect(Head(job[g].todo)))
      BY <1>18 DEF RunStatement
    <3>2. CASE UNCHANGED pse
      BY <3>2 DEF InUse
    <3>3. CASE Accepts(Head(job[g].todo)) /\ pse' = Effect(Head(job[g].todo))
      BY <2>2, <3>3, Accepted
    <3> QED BY <3>1, <3>2, <3>3
  <2>4. pc = "wait" /\ UNCHANGED <<cr, stale, mem, pc>>
    BY <1>18 DEF RunStatement
  <2> QED BY <1>b, <1>c, <2>1, <2>3, <2>4 DEF CrType, FinalizerInv, CopyInv, PurposeInv, GoneInv, Found
<1>19. ASSUME NEW g \in Jobs, EndGoroutine(g) PROVE LifeInv'
  <2>1. InUse' = InUse /\ LatePurpose' = LatePurpose
    BY <1>19 DEF EndGoroutine, InUse, LatePurpose
  <2> QED BY <1>b, <1>c, <1>19, <2>1
         DEF CrType, FinalizerInv, CopyInv, PurposeInv, GoneInv, Found, EndGoroutine
<1>20. CASE Receive
  <2>1. PICK i \in 1..Len(Goroutines) :
            /\ \A j \in 1..(i - 1) : job[Goroutines[j]].ch = "off"
            /\ \/ UNCHANGED <<stale, pc, mem, late>>
               \/ /\ job[Goroutines[i]].ch = "err"
                  /\ late' = late \cup InFlight
                  /\ Return
    BY <1>20 DEF Receive
  <2>2. pc = "wait" /\ UNCHANGED <<cr, pse>>
    BY <1>20 DEF Receive
  <2>3. InUse' = InUse
    BY <2>2 DEF InUse
  <2>4. CASE UNCHANGED <<stale, pc, mem, late>>
    <3>1. LatePurpose' = LatePurpose
      BY <2>4 DEF LatePurpose
    <3> QED BY <2>2, <2>3, <2>4, <3>1 DEF FinalizerInv, CopyInv, PurposeInv, GoneInv, Found
  <2>5. CASE job[Goroutines[i]].ch = "err" /\ late' = late \cup InFlight /\ Return
    <3>1. job.purpose.ch # "open"
      <4>1. Goroutines[1] = "purpose" /\ Len(Goroutines) = 3
        BY DEF Goroutines
      <4>2. i = 1 \/ 1 \in 1..(i - 1)
        BY <4>1
      <4> QED BY <2>1, <2>5, <4>1, <4>2
    <3>2. \A s \in InFlight : s.op # "purpose"
      BY <3>1, PurposeInFlight DEF JobsInv
    <3>3. LatePurpose' = LatePurpose
      BY <2>5, <3>2 DEF LatePurpose
    <3> QED BY <1>b, <1>c, <2>2, <2>3, <2>5, <3>3
           DEF CrType, FinalizerInv, CopyInv, PurposeInv, GoneInv, Found, Return, Idle, NoMem
  <2> QED BY <2>1, <2>4, <2>5
<1>21. CASE LateStatement
  <2>1. PICK s \in late : late' = late \ {s} /\ pse' = IF Accepts(s) THEN Effect(s) ELSE pse
    BY <1>21 DEF LateStatement
  <2>2. (LatePurpose' => LatePurpose) /\ (s.op = "purpose" => LatePurpose)
    BY <2>1 DEF LatePurpose
  <2>3. UNCHANGED <<cr, stale, pc, mem>>
    BY <1>21 DEF LateStatement
  <2>4. CASE ~ Accepts(s)
    <3>1. pse' = pse /\ InUse' = InUse
      BY <2>1, <2>4 DEF InUse
    <3> QED BY <2>2, <2>3, <3>1 DEF FinalizerInv, CopyInv, PurposeInv, GoneInv, Found
  <2>5. CASE Accepts(s)
    <3>1. /\ pse.exists /\ pse'.exists /\ (InUse => InUse')
          /\ InUse' => InUse \/ s.op = "purpose"
      BY <2>1, <2>5, Accepted DEF Typed
    <3> QED BY <1>b, <1>c, <2>2, <2>3, <3>1 DEF CrType, FinalizerInv, CopyInv, PurposeInv, GoneInv, Found
  <2> QED BY <2>4, <2>5
<1>22. CASE Crash
  <2>1. InUse' = InUse /\ UNCHANGED <<cr, pse>> /\ pc' = "idle" /\ mem'.deleting = FALSE
    BY <1>22 DEF Crash, InUse, Idle, NoMem
  <2>2. pc # "wait" => LatePurpose' = LatePurpose
    <3>1. pc # "wait" => job.purpose.ch = "off"
      BY DEF JobsInv, NoJobs, Off
    <3>2. pc # "wait" => \A s \in InFlight : s.op # "purpose"
      BY <3>1, PurposeInFlight DEF JobsInv
    <3> QED BY <1>22, <3>2 DEF Crash, LatePurpose
  <2> QED BY <1>b, <1>c, <2>1, <2>2 DEF CrType, FinalizerInv, CopyInv, PurposeInv, GoneInv, Found
<1>23. CASE UNCHANGED vars
  <2>1. InUse' = InUse /\ LatePurpose' = LatePurpose
    BY <1>23 DEF vars, InUse, LatePurpose
  <2> QED BY <1>23, <2>1 DEF vars, FinalizerInv, CopyInv, PurposeInv, GoneInv, Found
<1> QED BY <1>1, <1>2, <1>3, <1>4, <1>5, <1>6, <1>7, <1>8, <1>9, <1>10, <1>11, <1>12, <1>13,
          <1>14, <1>15, <1>16, <1>17, <1>18, <1>19, <1>20, <1>21, <1>22, <1>23, <1>a
       DEF Next, Controller, Environment

\* A PSE that serves a provider never outlives its resource, if that is named in
\* upper case: no statement of an abandoned goroutine, no failed Create and no edit
\* of the spec, the spelling of the name included, leaves one behind.
THEOREM NoOrphanInUseCorrect == Spec => []NoOrphanInUse
<1>1. Init => JobsInv
  BY StartedJobs, NoMemType DEF Init, JobsInv, MemType
<1>2. LifeInv => NoOrphanInUse
  BY DEF LifeInv, GoneInv, NoOrphanInUse
<1> QED BY <1>1, <1>2, TypedCorrect, JobsStep, LifeInit, LifeStep, PTL DEF Spec
=============================================================================
