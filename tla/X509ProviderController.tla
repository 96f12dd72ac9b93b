------------------------ MODULE X509ProviderController ------------------------
(***************************************************************************)
(* The X509Provider controller.  Read and Update run a query or statement  *)
(* each for the issuer and for the matching rules, in two goroutines.      *)
(* Update returns when that of the issuer fails and leaves the other       *)
(* behind: its statement may reach HANA during a later reconcile, and so   *)
(* may those of an Update that a restart of the provider cut short.  The   *)
(* statements do not quote the name, so HANA turns it to upper case, while *)
(* Read asks for the name as it is written.                                *)
(***************************************************************************)
EXTENDS ManagedReconciler

CONSTANTS
    Names, Upper,         \* names of providers; what HANA makes of an unquoted one
    Issuers, ValidIssuers,
    Rules, NoRules, ValidRules,  \* lists of matching rules; the empty one
    NotRead, NoRow,
    MaxDrifts

SpecType == [name : Names, issuer : Issuers, rules : Rules]
ProviderType == [exists : BOOLEAN, ours : BOOLEAN, issuer : Issuers, rules : Rules]

ASSUME X509Assumption ==
    /\ Specs \subseteq SpecType
    /\ Upper \in [Names -> Names] /\ \A n \in Names : Upper[Upper[n]] = Upper[n]
    /\ NoRules \in ValidRules /\ ValidRules \subseteq Rules /\ ValidIssuers \subseteq Issuers
    /\ Issuers # {} /\ {NotRead, NoRow} \cap (Issuers \cup Rules) = {} /\ NotRead # NoRow
    /\ MaxDrifts \in Nat

VARIABLES
    prov,   \* the providers in HANA
    inUse,  \* those that a PSE or a user refers to
    obs,    \* what the two queries of Read have found so far
    job,    \* the statements of the running operation and what became of them
    late,   \* statements of earlier Updates that may still reach HANA
    drifts

own == <<prov, inUse, obs, job, late, drifts>>
vars == <<cr, stale, pc, mem, edits, faults, own>>

Ops == {"create", "issuer", "rules", "drop"}
NoJob == [o \in Ops |-> "none"]
NoObs == [issuer |-> NotRead, rules |-> NotRead]
Absent == [exists |-> FALSE, ours |-> FALSE, issuer |-> CHOOSE i \in Issuers : TRUE,
           rules |-> NoRules]

-----------------------------------------------------------------------------
Init ==
    /\ ReconcilerInit
    /\ prov \in {[n \in Names |-> IF n = m THEN [Absent EXCEPT !.exists = f] ELSE Absent] :
                    m \in {n \in Names : Upper[n] = n}, f \in BOOLEAN}
    /\ inUse = {} /\ obs = NoObs /\ job = NoJob /\ late = {} /\ drifts = 0

Idle == Stop /\ obs' = NoObs /\ job' = NoJob

Reconcile == Start /\ UNCHANGED own

\* The two queries of Read; the name is bound as it is written.
ReadIssuer ==
    /\ pc = "observe" /\ obs.issuer = NotRead
    /\ obs' = [obs EXCEPT !.issuer =
                IF prov[mem.spec.name].exists THEN prov[mem.spec.name].issuer ELSE NoRow]
    /\ UNCHANGED <<cr, stale, pc, mem, edits, faults, prov, inUse, job, late, drifts>>

ReadMatchingRules ==
    /\ pc = "observe" /\ obs.rules = NotRead
    /\ obs' = [obs EXCEPT !.rules =
                IF prov[mem.spec.name].exists THEN prov[mem.spec.name].rules ELSE NoRules]
    /\ UNCHANGED <<cr, stale, pc, mem, edits, faults, prov, inUse, job, late, drifts>>

IsUpToDate(spec, o) == spec.issuer = o.issuer /\ spec.rules = o.rules

\* (mutant: the rules are not compared any more once the issuer is)
IssuerFirst(spec, o) ==
    IF spec.issuer # o.issuer THEN {"issuer"} ELSE {}

UpdateJobs(spec, o) ==
    (IF spec.issuer # o.issuer THEN {"issuer"} ELSE {}) \cup
    (IF spec.rules # o.rules THEN {"rules"} ELSE {})

Begin(ops) ==
    /\ pc' = "run" /\ job' = [o \in Ops |-> IF o \in ops THEN "sent" ELSE "none"]
    /\ UNCHANGED <<stale, mem>>

\* Without an issuer there is no provider, and the rules are not waited for.
ObserveAbsent ==
    /\ obs.issuer = NoRow /\ NotFound
    /\ obs' = NoObs
    /\ UNCHANGED <<prov, inUse, job, late, drifts>>

\* (mutant: a provider is compared before its rules are read)
RulesNotAwaited == obs.issuer \notin {NotRead, NoRow}

BothRead == obs.issuer \notin {NotRead, NoRow} /\ obs.rules # NotRead

Observe ==
    /\ pc = "observe" /\ BothRead
    /\ \/ /\ mem.deleting
          /\ Begin({"drop"}) /\ UNCHANGED <<cr, obs>>
       \/ /\ ~ mem.deleting
          /\ IF FinalizerRefused THEN Idle /\ UNCHANGED cr
             ELSE /\ cr' = [cr EXCEPT !.finalizer = TRUE]
                  /\ IF IsUpToDate(mem.spec, obs) THEN Idle
                     ELSE Begin(UpdateJobs(mem.spec, obs)) /\ UNCHANGED obs
    /\ UNCHANGED <<edits, faults, prov, inUse, late, drifts>>

\* (mutant: an error of a query is taken for no row)
ErrorIsAbsence ==
    /\ pc = "observe" /\ Fault
    /\ obs' = [obs EXCEPT !.issuer = NoRow]
    /\ UNCHANGED <<cr, stale, pc, mem, edits, prov, inUse, job, late, drifts>>

ObserveFails ==
    /\ pc = "observe" /\ Fault
    /\ Idle
    /\ UNCHANGED <<cr, edits, prov, inUse, late, drifts>>

RemoveFinalizer == Release /\ obs' = NoObs /\ UNCHANGED <<prov, inUse, job, late, drifts>>

\* CREATE names the issuer only: the rules come with the first Update.
BeginCreate ==
    /\ pc = "create"
    /\ IF stale THEN Idle /\ UNCHANGED cr ELSE Claim /\ Begin({"create"}) /\ UNCHANGED obs
    /\ UNCHANGED <<edits, faults, prov, inUse, late, drifts>>

-----------------------------------------------------------------------------
(* HANA. *)

Accepts(op, spec) ==
    LET n == Upper[spec.name] IN
    CASE op = "create" -> ~ prov[n].exists /\ spec.issuer \in ValidIssuers
      [] op = "issuer" -> prov[n].exists /\ spec.issuer \in ValidIssuers
      [] op = "rules" -> prov[n].exists /\ spec.rules \in ValidRules
      [] op = "drop" -> prov[n].exists /\ n \notin inUse

Effect(op, spec) ==
    LET n == Upper[spec.name] IN
    CASE op = "create" -> [prov EXCEPT ![n] = [exists |-> TRUE, ours |-> TRUE,
                                issuer |-> spec.issuer, rules |-> NoRules]]
      [] op = "issuer" -> [prov EXCEPT ![n].issuer = spec.issuer]
      [] op = "rules" -> [prov EXCEPT ![n].rules = spec.rules]
      [] op = "drop" -> [prov EXCEPT ![n] = Absent]

\* A statement takes effect; its answer may be lost.
Execute(op) ==
    /\ pc = "run" /\ job[op] = "sent" /\ Accepts(op, mem.spec)
    /\ prov' = Effect(op, mem.spec)
    /\ \/ job' = [job EXCEPT ![op] = "ok"] /\ UNCHANGED faults
       \/ job' = [job EXCEPT ![op] = "err"] /\ Fault
    /\ UNCHANGED <<cr, stale, pc, mem, edits, inUse, obs, late, drifts>>

Fails(op) ==
    /\ pc = "run" /\ job[op] = "sent"
    /\ IF Accepts(op, mem.spec) THEN Fault ELSE UNCHANGED faults
    /\ job' = [job EXCEPT ![op] = "err"]
    /\ UNCHANGED <<cr, stale, pc, mem, edits, prov, inUse, obs, late, drifts>>

\* The statements of the running Update that nobody waits for any more.
Abandoned(ops) == [op : {o \in ops : job[o] = "sent"}, spec : {mem.spec}]

\* The channels are read issuer first: its error ends Update, and what the other
\* goroutine has sent is left to itself.
Received == job["issuer"] = "err" \/ \A o \in Ops : job[o] # "sent"

Finish ==
    /\ pc = "run" /\ Received
    /\ late' = late \cup Abandoned({"rules"})
    /\ Return /\ obs' = NoObs /\ job' = NoJob
    /\ UNCHANGED <<cr, edits, faults, prov, inUse, drifts>>

EndCreate == RecordCreate /\ UNCHANGED own

-----------------------------------------------------------------------------
(* The environment. *)

\* An abandoned statement arrives in the end, or is cancelled on its way.
LateStatement ==
    /\ \E l \in late :
        /\ late' = late \ {l}
        /\ \/ UNCHANGED prov
           \/ Accepts(l.op, l.spec) /\ prov' = Effect(l.op, l.spec)
    /\ UNCHANGED <<cr, stale, pc, mem, edits, faults, inUse, obs, job, drifts>>

Drifted == drifts < MaxDrifts /\ drifts' = drifts + 1

\* The name is mutable: the resource then stands for another provider.
EditSpec ==
    /\ \E s \in Specs :
        /\ IF s.name = cr.spec.name THEN UNCHANGED drifts ELSE Drifted
        /\ Edit(s)
    /\ UNCHANGED <<prov, inUse, obs, job, late>>

RequestDelete == Delete /\ UNCHANGED own

\* PSEs and users take up the provider or let it go.
UseChanges ==
    /\ Edited
    /\ \E n \in {m \in Names : prov[m].exists} :
        inUse' = IF n \in inUse THEN inUse \ {n} ELSE inUse \cup {n}
    /\ UNCHANGED <<cr, stale, pc, mem, faults, prov, obs, job, late, drifts>>

\* A DBA drops a provider that is not used, creates one, or unsets its rules.
DbaChanges ==
    /\ Drifted
    /\ \E n \in {m \in Names : Upper[m] = m} :
        \E p \in IF ~ prov[n].exists THEN {[Absent EXCEPT !.exists = TRUE]}
                 ELSE {[prov[n] EXCEPT !.rules = NoRules]}
                        \cup (IF n \in inUse THEN {} ELSE {Absent}) :
            prov' = [prov EXCEPT ![n] = p]
    /\ UNCHANGED <<cr, stale, pc, mem, edits, faults, inUse, obs, job, late>>

\* A CREATE or DROP under way has reached HANA by now or never does.
Crash ==
    /\ Die /\ obs' = NoObs /\ job' = NoJob
    /\ late' = late \cup Abandoned({"issuer", "rules"})
    /\ UNCHANGED <<prov, inUse, drifts>>

-----------------------------------------------------------------------------
Controller ==
    \/ Reconcile \/ ReadIssuer \/ ReadMatchingRules \/ ObserveAbsent \/ Observe
    \/ RemoveFinalizer \/ BeginCreate \/ Finish \/ EndCreate
    \/ \E op \in Ops : Execute(op) \/ Fails(op)

Environment ==
    ObserveFails \/ LateStatement \/ EditSpec \/ RequestDelete \/ UseChanges \/ DbaChanges \/ Crash

Next == Controller \/ Environment

Spec == Init /\ [][Next]_vars

\* As for the other controllers; an abandoned statement may stay away for ever.
FairSpec == Spec /\ WF_vars(Controller)

-----------------------------------------------------------------------------
(* Properties *)

\* Every variable keeps its type, and no Update or Delete starts before both
\* queries of Read have answered.
X509TypeOK ==
    /\ cr \in CrType /\ mem \in MemType /\ stale \in BOOLEAN
    /\ pc \in {"idle", "observe", "removeFinalizer", "create", "run", "endCreate"}
    /\ prov \in [Names -> ProviderType] /\ inUse \subseteq Names
    /\ obs \in [issuer : Issuers \cup {NotRead, NoRow}, rules : Rules \cup {NotRead}]
    /\ job \in [Ops -> {"none", "sent", "ok", "err"}]
    /\ job["create"] = "none" /\ pc = "run" => obs \in [issuer : Issuers, rules : Rules]
    /\ late \subseteq [op : {"issuer", "rules"}, spec : Specs]
    /\ edits \in Nat /\ faults \in Nat /\ drifts \in Nat

\* The controller implements ManagedResource for names in upper case, in spite of
\* statements that arrive late and of edits of the name: no provider is created
\* without the finalizer, dropped without a request, or left behind under the last
\* name.  A name that is not in upper case is never found again: its provider is
\* left behind, so that nothing is promised of it.
Managed == INSTANCE ManagedResource WITH
    life <- IF ~ cr.exists THEN "gone" ELSE IF cr.finalizer THEN "held" ELSE "free",
    deleting <- cr.deleting,
    object <- LET p == prov[cr.spec.name] IN
              IF ~ p.exists THEN "none" ELSE IF p.ours THEN "ours" ELSE "foreign",
    outside <- drifts
X509Implements == Managed!Spec

Blocked == cr.pending \/ Upper[cr.spec.name] # cr.spec.name
Refused == cr.spec.issuer \notin ValidIssuers \/ cr.spec.rules \notin ValidRules

\* Once edits and failures stop, the provider has the issuer and the rules of the
\* spec and keeps them, or the resource is gone: no statement that an earlier
\* Update abandoned has the last word.
X509Convergence ==
    <>[](\/ Blocked
         \/ IF cr.exists /\ ~ cr.deleting
            THEN Refused \/ (prov[cr.spec.name].exists
                                /\ IsUpToDate(cr.spec, prov[cr.spec.name]))
            ELSE ~ cr.exists \/ cr.spec.name \in inUse)
=============================================================================
