----------------------------- MODULE PseController -----------------------------
(***************************************************************************)
(* The PersonalSecurityEnvironment (PSE) controller.  A PSE is a trust     *)
(* store in HANA: certificates, and the X.509 provider it serves.  Read,   *)
(* Create and Update run their SQL statements in goroutines; Create and    *)
(* Update return at the first error, and leave the other goroutines with   *)
(* statements that may still take effect.                                  *)
(*                                                                         *)
(* X509Provider resources and the providers and certificates in HANA, the  *)
(* work of other controllers and of users, are part of the environment.    *)
(***************************************************************************)
EXTENDS Naturals, Sequences, FiniteSets

CONSTANTS
    Certs,       \* certificates: [id, name]
    NoId, NoName,
    Providers, NoProvider,
    Upper,       \* what HANA makes of the unquoted name of a provider
    Names,       \* spellings of the name of the PSE, the same unquoted
    Stored,      \* the one HANA stores: in upper case
    Specs,       \* the specs the CR may be given
    MaxEdits, MaxFaults

CertRef == [id : {c.id : c \in Certs} \cup {NoId}, name : {c.name : c \in Certs} \cup {NoName}]
SpecType == [name : Names, refs : SUBSET CertRef, prov : Providers \cup {NoProvider}, byRef : BOOLEAN]

ASSUME PseAssumption ==
    /\ \A c, d \in Certs : c.id = d.id \/ c.name = d.name => c = d
    /\ \A c \in Certs : c = [id |-> c.id, name |-> c.name] /\ c.id # NoId /\ c.name # NoName
    /\ NoProvider \notin Providers /\ Upper \in [Providers -> Providers] /\ Stored \in Names
    /\ Specs # {} /\ Specs \subseteq SpecType
    /\ \A s \in Specs : [id |-> NoId, name |-> NoName] \notin s.refs
    /\ MaxEdits \in Nat /\ MaxFaults \in Nat

VARIABLES
    cr,       \* the PSE resource at the API server
    stale,    \* it was written since the running reconcile read it
    pse,      \* the PSE in HANA
    world,    \* X509Provider resources, and the providers and certificates in HANA
    pc, mem,  \* the running reconcile: where it is, what it has read
    job,      \* the goroutines of Create and Update: statements to run, the channel
    late,     \* statements sent by goroutines nobody waits for any more
    edits, faults

vars == <<cr, stale, pse, world, pc, mem, job, late, edits, faults>>

-----------------------------------------------------------------------------
(* Certificates and references to them. *)

\* Two references are the same if their IDs are, or their names.
SameCert(a, b) == (a.id = b.id /\ a.id # NoId) \/ (a.name = b.name /\ a.name # NoName)
CertListDifference(A, B) == {a \in A : ~ \E b \in B : SameCert(a, b)}

\* HANA looks up a reference by the ID if it has one.
Refers(r, c) == IF r.id # NoId THEN r.id = c.id ELSE r.name = c.name
Referred(refs) == {c \in Certs : \E r \in refs : Refers(r, c)}

IsUpToDate(spec, obs) ==
    /\ Cardinality(spec.refs) = Cardinality(obs.certs)
    /\ CertListDifference(spec.refs, obs.certs) = {}
    /\ spec.prov = obs.prov

\* A provider that is referenced is looked up among the X509Provider resources.
ProviderResolves(spec) == spec.prov # NoProvider /\ spec.byRef => spec.prov \in world.crs

(* Statements, and what HANA makes of them. *)
Purpose(p) == [op |-> "purpose", prov |-> p, refs |-> {}]
Alter(op, refs) == [op |-> op, prov |-> NoProvider, refs |-> refs]
StmtType == [op : {"purpose"}, prov : Providers, refs : {{}}]
                \cup [op : {"add", "drop"}, prov : {NoProvider}, refs : (SUBSET CertRef) \ {{}}]

Accepts(s) ==
    /\ pse.exists
    /\ s.op = "purpose" => Upper[s.prov] \in world.provs
    /\ s.op = "add" => /\ \A r \in s.refs : \E c \in world.certs : Refers(r, c)
                       /\ Referred(s.refs) \cap pse.certs = {}
    /\ s.op = "drop" => Referred(s.refs) \subseteq pse.certs
Effect(s) ==
    CASE s.op = "purpose" -> [pse EXCEPT !.prov = Upper[s.prov]]
      [] s.op = "add" -> [pse EXCEPT !.certs = @ \cup Referred(s.refs)]
      [] s.op = "drop" -> [pse EXCEPT !.certs = @ \ Referred(s.refs)]

\* One statement for the references by ID, then one for those by name.
UpdateCertificatesForPSE(op, refs) ==
    LET ids == {r \in refs : r.id # NoId}
        names == refs \ ids
    IN  (IF ids = {} THEN <<>> ELSE <<Alter(op, ids)>>)
            \o (IF names = {} THEN <<>> ELSE <<Alter(op, names)>>)
SetPSEPurpose(p) == <<Purpose(p)>>

-----------------------------------------------------------------------------
(* The goroutines: their channels are received in this order. *)
Goroutines == <<"purpose", "add", "drop">>
Off == [todo |-> <<>>, ch |-> "off"]
NoJobs == [purpose |-> Off, add |-> Off, drop |-> Off]
Go(todo) == [todo |-> todo, ch |-> "open"]

HanaProviders == {p \in Providers : Upper[p] = p}
NoPse == [exists |-> FALSE, prov |-> NoProvider, certs |-> {}]
NoObs == [found |-> FALSE, prov |-> NoProvider, certs |-> {}]
NoMem == [spec |-> CHOOSE s \in Specs : TRUE, deleting |-> FALSE, obs |-> NoObs, read |-> {}]

Init ==
    /\ \E s \in Specs :
        cr = [exists |-> TRUE, spec |-> s, finalizer |-> FALSE, deleting |-> FALSE,
              pending |-> FALSE]
    /\ stale = FALSE
    /\ pse = NoPse
    /\ world = [crs |-> Providers, provs |-> HanaProviders, certs |-> Certs]
    /\ pc = "idle" /\ mem = NoMem /\ job = NoJobs
    /\ late = {}
    /\ edits = 0 /\ faults = 0

Fault == faults < MaxFaults /\ faults' = faults + 1

\* What the goroutines have sent is out of the controller's hands.
InFlight == {job[g].todo[1] : g \in {x \in DOMAIN job : job[x].todo # <<>>}}

\* The reconcile ends.
Idle == pc' = "idle" /\ mem' = NoMem /\ job' = NoJobs /\ stale' = FALSE

Reconcile ==
    /\ pc = "idle" /\ cr.exists /\ ~ cr.pending
    /\ pc' = "observe"
    /\ mem' = [NoMem EXCEPT !.spec = cr.spec, !.deleting = cr.deleting]
    /\ stale' = FALSE
    /\ UNCHANGED <<cr, pse, world, job, late, edits, faults>>

\* A PSE is in use when it has a provider: its purpose is X509.
InUse == pse.exists /\ pse.prov # NoProvider

\* Statements leave the name unquoted, so that HANA writes it in upper case; the
\* queries compare it as it is in the spec.  Only PSEs in use are selected.
Found == InUse /\ mem.spec.name = Stored

SelectPSE ==
    /\ pc = "observe" /\ "pse" \notin mem.read
    /\ mem' = [mem EXCEPT !.read = @ \cup {"pse"}, !.obs.found = Found]
    /\ UNCHANGED <<cr, stale, pse, world, pc, job, late, edits, faults>>

SelectPSECertificates ==
    /\ pc = "observe" /\ "certs" \notin mem.read
    /\ mem' = [mem EXCEPT !.read = @ \cup {"certs"}, 
                    !.obs.certs = IF mem.spec.name = Stored THEN pse.certs ELSE {}]
    /\ UNCHANGED <<cr, stale, pse, world, pc, job, late, edits, faults>>

SelectPSEPurpose ==
    /\ pc = "observe" /\ "prov" \notin mem.read
    /\ mem' = [mem EXCEPT !.read = @ \cup {"prov"}, 
                    !.obs.prov = IF mem.spec.name = Stored THEN pse.prov ELSE NoProvider]
    /\ UNCHANGED <<cr, stale, pse, world, pc, job, late, edits, faults>>

\* Read returns without waiting for the other two when the first finds no PSE.
ObserveAbsent ==
    /\ pc = "observe" /\ "pse" \in mem.read /\ ~ mem.obs.found
    /\ pc' = IF mem.deleting THEN "removeFinalizer" ELSE "create"
    /\ UNCHANGED <<cr, stale, pse, world, mem, job, late, edits, faults>>

\* The provider is looked up even for a PSE that is being deleted.
Observe ==
    /\ pc = "observe" /\ mem.read = {"pse", "certs", "prov"} /\ mem.obs.found
    /\ \/ /\ ProviderResolves(mem.spec)
          /\ mem.deleting \/ ~ IsUpToDate(mem.spec, mem.obs)
          /\ pc' = IF mem.deleting THEN "delete" ELSE "update"
          /\ UNCHANGED <<mem, job, stale>>
       \/ /\ ~ ProviderResolves(mem.spec) \/ (~ mem.deleting /\ IsUpToDate(mem.spec, mem.obs))
          /\ Idle
    /\ UNCHANGED <<cr, pse, world, late, edits, faults>>

ObserveFails ==
    /\ pc = "observe" /\ Fault
    /\ Idle
    /\ UNCHANGED <<cr, pse, world, late, edits>>

RemoveFinalizer ==
    /\ pc = "removeFinalizer"
    /\ cr' = IF stale THEN cr ELSE [cr EXCEPT !.exists = FALSE, !.finalizer = FALSE]
    /\ Idle
    /\ UNCHANGED <<pse, world, late, edits, faults>>

\* The finalizer and the create-pending annotation are written first; a write of
\* a copy that is out of date is refused.
BeginCreate ==
    /\ pc = "create"
    /\ IF stale
       THEN Idle /\ UNCHANGED cr
       ELSE /\ cr' = [cr EXCEPT !.finalizer = TRUE, !.pending = TRUE]
            /\ pc' = IF ProviderResolves(mem.spec) THEN "createPse" ELSE "endCreate"
            /\ UNCHANGED <<stale, mem, job>>
    /\ UNCHANGED <<pse, world, late, edits, faults>>

\* The purpose and the certificates of a new PSE, concurrently.
CreateJobs(spec) ==
    [purpose |-> IF spec.prov = NoProvider THEN Off ELSE Go(SetPSEPurpose(spec.prov)),
     add |-> Go(UpdateCertificatesForPSE("add", spec.refs)),
     drop |-> Off]

\* CREATE PSE, then its goroutines.
CreatePse ==
    /\ pc = "createPse"
    /\ \/ /\ ~ pse.exists
          /\ pse' = [NoPse EXCEPT !.exists = TRUE]
          /\ \/ /\ job' = CreateJobs(mem.spec)
                /\ pc' = "wait" /\ UNCHANGED faults
             \/ Fault /\ pc' = "endCreate" /\ UNCHANGED job
       \/ /\ IF pse.exists THEN UNCHANGED faults ELSE Fault
          /\ pc' = "endCreate" /\ UNCHANGED <<pse, job>>
    /\ UNCHANGED <<cr, stale, world, mem, late, edits>>

\* (mutant: certificates no longer listed stay)
AddOnly(spec, obs) ==
    [NoJobs EXCEPT
        !.purpose = IF spec.prov \in {NoProvider, obs.prov} THEN Off
                    ELSE Go(SetPSEPurpose(spec.prov)),
        !.add = Go(UpdateCertificatesForPSE("add", CertListDifference(spec.refs, obs.certs)))]

\* (mutant: a provider that was taken out of the spec is set, too)
SetAny(spec, obs) ==
    [NoJobs EXCEPT
        !.purpose = IF spec.prov = obs.prov THEN Off ELSE Go(SetPSEPurpose(spec.prov)),
        !.add = Go(UpdateCertificatesForPSE("add", CertListDifference(spec.refs, obs.certs)))]

\* A provider that was taken out of the spec is left alone.
UpdateJobs(spec, obs) ==
    [purpose |-> IF spec.prov \in {NoProvider, obs.prov} THEN Off
                 ELSE Go(SetPSEPurpose(spec.prov)),
     add |-> Go(UpdateCertificatesForPSE("add", CertListDifference(spec.refs, obs.certs))),
     drop |-> Go(UpdateCertificatesForPSE("drop", CertListDifference(obs.certs, spec.refs)))]

Update ==
    /\ pc = "update"
    /\ IF ProviderResolves(mem.spec)
       THEN job' = UpdateJobs(mem.spec, mem.obs) /\ pc' = "wait" /\ UNCHANGED <<stale, mem>>
       ELSE Idle
    /\ UNCHANGED <<cr, pse, world, late, edits, faults>>

\* (mutant: the PSE is left behind)
DropNothing ==
    /\ pc = "delete"
    /\ pc' = "removeFinalizer"
    /\ UNCHANGED <<cr, stale, pse, world, mem, job, late, edits, faults>>

Delete ==
    /\ pc = "delete"
    /\ \/ pse' = NoPse /\ (UNCHANGED faults \/ Fault)
       \/ UNCHANGED pse /\ Fault
    /\ Idle
    /\ UNCHANGED <<cr, world, late, edits>>

-----------------------------------------------------------------------------
(* The goroutines of Create and Update, and the loop that waits for them. *)

Send(g, v) == job' = [job EXCEPT ![g] = [todo |-> <<>>, ch |-> v]]

\* A goroutine runs its next statement: it takes effect, or fails, or takes effect
\* and is taken for failed.
RunStatement(g) ==
    /\ pc = "wait" /\ job[g].ch = "open" /\ job[g].todo # <<>>
    /\ LET s == Head(job[g].todo) IN
       \/ /\ Accepts(s) /\ pse' = Effect(s)
          /\ \/ job' = [job EXCEPT ![g].todo = Tail(@)] /\ UNCHANGED faults
             \/ Fault /\ Send(g, "err")
       \/ /\ IF Accepts(s) THEN Fault ELSE UNCHANGED faults
          /\ Send(g, "err") /\ UNCHANGED pse
    /\ UNCHANGED <<cr, stale, world, pc, mem, late, edits>>

EndGoroutine(g) ==
    /\ pc = "wait" /\ job[g].ch = "open" /\ job[g].todo = <<>>
    /\ Send(g, "nil")
    /\ UNCHANGED <<cr, stale, pse, world, pc, mem, late, edits, faults>>

Return ==
    IF cr.pending
    THEN pc' = "endCreate" /\ job' = NoJobs /\ UNCHANGED <<stale, mem>>
    ELSE Idle

\* The channels are received in order, up to the first error.
Receive ==
    /\ pc = "wait"
    /\ \E i \in 1..Len(Goroutines) :
        /\ \A j \in 1..(i - 1) : job[Goroutines[j]].ch = "off"
        /\ \/ /\ job[Goroutines[i]].ch = "nil"
              /\ job' = [job EXCEPT ![Goroutines[i]] = Off]
              /\ UNCHANGED <<stale, pc, mem, late>>
           \/ /\ job[Goroutines[i]].ch = "err"
              /\ late' = late \cup InFlight
              /\ Return
    /\ UNCHANGED <<cr, pse, world, edits, faults>>

AllReceived ==
    /\ pc = "wait" /\ job = NoJobs
    /\ Return
    /\ UNCHANGED <<cr, pse, world, late, edits, faults>>

EndCreate ==
    /\ pc = "endCreate"
    /\ cr' = [cr EXCEPT !.pending = FALSE]
    /\ Idle
    /\ UNCHANGED <<pse, world, late, edits, faults>>

\* A statement nobody waits for reaches HANA at any time, or never.
LateStatement ==
    \E s \in late :
        /\ late' = late \ {s}
        /\ pse' = IF Accepts(s) THEN Effect(s) ELSE pse
        /\ UNCHANGED <<cr, stale, world, pc, mem, job, edits, faults>>

-----------------------------------------------------------------------------
(* The environment. *)

Edited == edits < MaxEdits /\ edits' = edits + 1

EditSpec ==
    /\ cr.exists /\ Edited
    /\ \E s \in Specs \ {cr.spec} : cr' = [cr EXCEPT !.spec = s]
    /\ stale' = (pc # "idle")
    /\ UNCHANGED <<pse, world, pc, mem, job, late, faults>>

RequestDelete ==
    /\ cr.exists /\ ~ cr.deleting /\ Edited
    /\ cr' = IF cr.finalizer THEN [cr EXCEPT !.deleting = TRUE]
                             ELSE [cr EXCEPT !.exists = FALSE]
    /\ stale' = (pc # "idle")
    /\ UNCHANGED <<pse, world, pc, mem, job, late, faults>>

\* X509Provider resources, providers and certificates come and go; HANA keeps
\* those the PSE uses.
ChangeWorld ==
    /\ Edited
    /\ \/ \E S \in SUBSET Providers : world.crs # S /\ world' = [world EXCEPT !.crs = S]
       \/ \E S \in SUBSET HanaProviders :
            /\ world.provs # S /\ world.provs \cap {pse.prov} \subseteq S
            /\ world' = [world EXCEPT !.provs = S]
       \/ \E S \in SUBSET Certs :
            /\ world.certs # S /\ pse.certs \subseteq S
            /\ world' = [world EXCEPT !.certs = S]
    /\ UNCHANGED <<cr, stale, pse, pc, mem, job, late, faults>>

Crash ==
    /\ pc # "idle" /\ Fault
    /\ late' = late \cup InFlight
    /\ Idle
    /\ UNCHANGED <<cr, pse, world, edits>>

-----------------------------------------------------------------------------
Controller ==
    \/ Reconcile \/ SelectPSE \/ SelectPSECertificates \/ SelectPSEPurpose
    \/ ObserveAbsent \/ Observe \/ RemoveFinalizer
    \/ BeginCreate \/ CreatePse \/ Update \/ Delete
    \/ (\E g \in DOMAIN job : RunStatement(g) \/ EndGoroutine(g))
    \/ Receive \/ AllReceived \/ EndCreate

Environment == ObserveFails \/ LateStatement \/ EditSpec \/ RequestDelete \/ ChangeWorld \/ Crash

Next == Controller \/ Environment

Spec == Init /\ [][Next]_vars

\* The provider polls and retries, and its goroutines run: the controller's steps,
\* taken together, are never put off for ever.  Nothing is assumed of the others.
FairSpec == Spec /\ WF_vars(Controller)

-----------------------------------------------------------------------------
(* Properties *)

\* Every variable keeps its type: in particular no statement, sent in time or
\* late, names no provider or no certificate (updateCertificatesForPSE and Update
\* leave such statements out).
PseTypeOK ==
    /\ cr \in [exists : BOOLEAN, spec : Specs, finalizer : BOOLEAN, deleting : BOOLEAN,
               pending : BOOLEAN]
    /\ stale \in BOOLEAN
    /\ pse \in [exists : BOOLEAN, prov : Providers \cup {NoProvider}, certs : SUBSET Certs]
    /\ world \in [crs : SUBSET Providers, provs : SUBSET Providers, certs : SUBSET Certs]
    /\ pse.certs \subseteq world.certs
    /\ pc \in {"idle", "observe", "removeFinalizer", "create", "createPse", "update",
               "delete", "wait", "endCreate"}
    /\ \A g \in DOMAIN job :
        /\ job[g].ch \in {"off", "open", "nil", "err"}
        /\ \A i \in 1..Len(job[g].todo) : job[g].todo[i] \in StmtType
    /\ late \subseteq StmtType
    /\ edits \in Nat /\ faults \in Nat

\* A PSE that is in use, one with a provider, never outlives its resource: no
\* statement of an abandoned goroutine and no failed Create leaves one behind.
\* That is so for a resource whose name, when it goes, is in upper case: Read does
\* not find what Create made of another, and the finalizer is removed at once.
NoOrphanInUse == ~ cr.exists /\ cr.spec.name = Stored => ~ InUse

\* What the controller cannot get past by itself: a Create of unknown outcome; a
\* name not in upper case, and a PSE left without purpose, which Read does not
\* find and CREATE PSE does not replace; a spec without provider; a provider or
\* certificate that is missing; and a certificate that is listed twice, which the
\* count of IsUpToDate is blind to.
Missing ==
    \/ ~ ProviderResolves(cr.spec)
    \/ cr.spec.prov = NoProvider
    \/ Upper[cr.spec.prov] \notin world.provs
    \/ \E r \in cr.spec.refs : ~ \E c \in world.certs : Refers(r, c)
ListedTwice == \E r, s \in cr.spec.refs : r # s /\ Referred({r}) = Referred({s})
Blocked == cr.pending \/ cr.spec.name # Stored \/ (pse.exists /\ ~ InUse)
PseMatches == pse.exists /\ pse.prov = Upper[cr.spec.prov] /\ pse.certs = Referred(cr.spec.refs)

\* Once edits and failures stop, the PSE comes to hold exactly the certificates of
\* the spec for its provider, or is gone with its resource, even though abandoned
\* goroutines interfere with later reconciles.
PseConvergence ==
    <>[](\/ Blocked
         \/ IF cr.exists /\ ~ cr.deleting
            THEN Missing \/ ListedTwice \/ PseMatches
            ELSE (~ ProviderResolves(cr.spec) /\ cr.exists) \/ ~ (cr.exists \/ pse.exists))
=============================================================================
