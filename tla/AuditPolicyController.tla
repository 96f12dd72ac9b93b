------------------------ MODULE AuditPolicyController ------------------------
(***************************************************************************)
(* The AuditPolicy controller.  HANA can alter only the retention of an    *)
(* audit policy and whether it is enabled; for any other change Update     *)
(* drops the policy and creates it anew, in two or three statements that   *)
(* are not a transaction.                                                  *)
(***************************************************************************)
EXTENDS Naturals, Sequences

CONSTANTS
    Names, Heads, Actions, \* names; status and level together; sets of actions
    ValidActions,          \* the ones HANA knows
    Retentions, NoRetention,
    Specs,                 \* the specs the CR may be given, names and all in upper case
    ForeignPolicies,       \* what may be there before the CR is
    MaxEdits, MaxFaults

SpecType == [name : Names, head : Heads, actions : Actions, ret : Retentions, enabled : BOOLEAN]
PolicyType == [exists : BOOLEAN, ours : BOOLEAN, head : Heads, actions : Actions,
               ret : Retentions \cup {NoRetention}, enabled : BOOLEAN]

ASSUME AuditAssumption ==
    /\ ValidActions \subseteq Actions
    /\ NoRetention \notin Retentions
    /\ Specs # {} /\ Specs \subseteq SpecType
    /\ ForeignPolicies \subseteq [Names -> PolicyType]
    /\ \A f \in ForeignPolicies, n \in Names : ~ f[n].ours
    /\ MaxEdits \in Nat /\ MaxFaults \in Nat

VARIABLES
    cr,        \* the AuditPolicy resource at the API server
    stale,     \* it was written since the running reconcile read it
    pol,       \* the policies in HANA; "ours" marks those the provider created
    pc, mem,   \* the running reconcile: where it is, what it has read
    plan,      \* the statements it has still to send
    edits, faults

vars == <<cr, stale, pol, pc, mem, plan, edits, faults>>

-----------------------------------------------------------------------------
Parameters(p) == [head |-> p.head, actions |-> p.actions, ret |-> p.ret, enabled |-> p.enabled]

NeedsRecreation(obs, spec) == obs.actions # spec.actions \/ obs.head # spec.head

\* upToDate dereferences the retention of the observed policy once status and
\* level are equal; a policy without retention makes it panic.
Panics(obs, spec) == obs.head = spec.head /\ obs.ret = NoRetention
UpToDate(obs, spec) == Parameters(obs) = Parameters(spec)

(* The statements of each operation. *)
CreatePlan(spec) == <<"create">> \o (IF spec.enabled THEN <<"enable">> ELSE <<>>)
RecreatePolicy(spec) == <<"drop">> \o CreatePlan(spec)

\* (mutant: every difference recreates the policy)
RecreateAlways(obs, spec) == RecreatePolicy(spec)

\* (mutant: whether the policy is enabled is left alone)
RetentionOnly(obs, spec) ==
    IF NeedsRecreation(obs, spec) THEN RecreatePolicy(spec) ELSE <<"retention">>

UpdatePlan(obs, spec) ==
    IF NeedsRecreation(obs, spec) THEN RecreatePolicy(spec)
    ELSE (IF obs.ret # spec.ret THEN <<"retention">> ELSE <<>>)
            \o (IF obs.enabled # spec.enabled THEN <<"enable">> ELSE <<>>)

(* HANA. *)
Accepts(op, spec) ==
    IF op = "create" THEN ~ pol[spec.name].exists /\ spec.actions \in ValidActions
    ELSE pol[spec.name].exists
Effect(op, spec) ==
    CASE op = "create" ->
            [pol EXCEPT ![spec.name] = [exists |-> TRUE, ours |-> TRUE, head |-> spec.head,
                actions |-> spec.actions, ret |-> spec.ret, enabled |-> FALSE]]
      [] op = "enable" -> [pol EXCEPT ![spec.name].enabled = spec.enabled]
      [] op = "retention" -> [pol EXCEPT ![spec.name].ret = spec.ret]
      [] op = "drop" -> [pol EXCEPT ![spec.name].exists = FALSE, ![spec.name].ours = FALSE]

-----------------------------------------------------------------------------
NoMem == [spec |-> CHOOSE s \in Specs : TRUE, deleting |-> FALSE]

Init ==
    /\ \E s \in Specs :
        cr = [exists |-> TRUE, spec |-> s, finalizer |-> FALSE, deleting |-> FALSE,
              pending |-> FALSE]
    /\ stale = FALSE
    /\ pol \in ForeignPolicies
    /\ pc = "idle" /\ mem = NoMem /\ plan = <<>>
    /\ edits = 0 /\ faults = 0

Fault == faults < MaxFaults /\ faults' = faults + 1

\* The reconcile ends.
Idle == pc' = "idle" /\ mem' = NoMem /\ plan' = <<>> /\ stale' = FALSE

\* (mutant: the retention is forgotten)
DesiredWithoutRetention(c) ==
    [spec |-> [c.spec EXCEPT !.ret = NoRetention], deleting |-> c.deleting]

\* What the operations compare with and send.
BuildDesiredParameters(c) == [spec |-> c.spec, deleting |-> c.deleting]

Reconcile ==
    /\ pc = "idle" /\ cr.exists /\ ~ cr.pending
    /\ pc' = "observe"
    /\ mem' = BuildDesiredParameters(cr)
    /\ stale' = FALSE
    /\ UNCHANGED <<cr, pol, plan, edits, faults>>

\* No policy of that name: create it, or be done with the deletion.
ObserveAbsent ==
    /\ pc = "observe" /\ ~ pol[mem.spec.name].exists
    /\ pc' = IF mem.deleting THEN "removeFinalizer" ELSE "create"
    /\ UNCHANGED <<cr, stale, pol, mem, plan, edits, faults>>

\* There is one, whoever created it.  Update and Delete compare the spec with what
\* was observed, and the finalizer is written before an Update.
Observe ==
    /\ pc = "observe" /\ pol[mem.spec.name].exists
    /\ LET obs == pol[mem.spec.name] IN
       \/ Panics(obs, mem.spec) /\ Idle /\ UNCHANGED cr
       \/ /\ ~ Panics(obs, mem.spec) /\ mem.deleting
          /\ pc' = "run" /\ plan' = <<"drop">>
          /\ UNCHANGED <<cr, stale, mem>>
       \/ /\ ~ Panics(obs, mem.spec) /\ ~ mem.deleting
          /\ IF stale /\ ~ cr.finalizer THEN Idle /\ UNCHANGED cr
             ELSE /\ cr' = [cr EXCEPT !.finalizer = TRUE]
                  /\ IF UpToDate(obs, mem.spec) THEN Idle
                     ELSE /\ pc' = "run" /\ plan' = UpdatePlan(obs, mem.spec)
                          /\ UNCHANGED <<stale, mem>>
    /\ UNCHANGED <<pol, edits, faults>>

ObserveFails ==
    /\ pc = "observe" /\ Fault
    /\ Idle
    /\ UNCHANGED <<cr, pol, edits>>

RemoveFinalizer ==
    /\ pc = "removeFinalizer"
    /\ cr' = IF stale THEN cr ELSE [cr EXCEPT !.exists = FALSE, !.finalizer = FALSE]
    /\ Idle
    /\ UNCHANGED <<pol, edits, faults>>

\* (mutant: the finalizer is not written)
AnnotateOnly ==
    /\ pc = "create" /\ ~ stale
    /\ cr' = [cr EXCEPT !.pending = TRUE]
    /\ pc' = "run" /\ plan' = CreatePlan(mem.spec)
    /\ UNCHANGED <<stale, mem, pol, edits, faults>>

\* The finalizer and the create-pending annotation are written before Create; a
\* write of a copy that is out of date is refused.
BeginCreate ==
    /\ pc = "create"
    /\ IF stale THEN Idle /\ UNCHANGED cr
       ELSE /\ cr' = [cr EXCEPT !.finalizer = TRUE, !.pending = TRUE]
            /\ pc' = "run" /\ plan' = CreatePlan(mem.spec)
            /\ UNCHANGED <<stale, mem>>
    /\ UNCHANGED <<pol, edits, faults>>

\* Create records its outcome, whatever it is.
Return ==
    IF cr.pending THEN pc' = "endCreate" /\ plan' = <<>> /\ UNCHANGED <<stale, mem>>
    ELSE Idle

\* The next statement takes effect; its answer may be lost.
Statement ==
    /\ pc = "run" /\ plan # <<>> /\ Accepts(Head(plan), mem.spec)
    /\ pol' = Effect(Head(plan), mem.spec)
    /\ \/ plan' = Tail(plan) /\ UNCHANGED <<stale, pc, mem, faults>>
       \/ Fault /\ Return
    /\ UNCHANGED <<cr, edits>>

\* It has no effect; the others are not sent.
StatementFails ==
    /\ pc = "run" /\ plan # <<>>
    /\ IF Accepts(Head(plan), mem.spec) THEN Fault ELSE UNCHANGED faults
    /\ Return
    /\ UNCHANGED <<cr, pol, edits>>

Finish ==
    /\ pc = "run" /\ plan = <<>>
    /\ Return
    /\ UNCHANGED <<cr, pol, edits, faults>>

EndCreate ==
    /\ pc = "endCreate"
    /\ cr' = [cr EXCEPT !.pending = FALSE]
    /\ Idle
    /\ UNCHANGED <<pol, edits, faults>>

-----------------------------------------------------------------------------
(* The environment. *)

Edited == edits < MaxEdits /\ edits' = edits + 1

EditSpec ==
    /\ cr.exists /\ Edited
    /\ \E s \in Specs \ {cr.spec} : cr' = [cr EXCEPT !.spec = s]
    /\ stale' = (pc # "idle")
    /\ UNCHANGED <<pol, pc, mem, plan, faults>>

RequestDelete ==
    /\ cr.exists /\ ~ cr.deleting /\ Edited
    /\ cr' = IF cr.finalizer THEN [cr EXCEPT !.deleting = TRUE]
                             ELSE [cr EXCEPT !.exists = FALSE]
    /\ stale' = (pc # "idle")
    /\ UNCHANGED <<pol, pc, mem, plan, faults>>

\* A DBA drops a policy, or disables or enables it.
DbaChanges ==
    /\ Edited
    /\ \E n \in {x \in Names : pol[x].exists} :
        \/ pol' = [pol EXCEPT ![n].exists = FALSE, ![n].ours = FALSE]
        \/ pol' = [pol EXCEPT ![n].enabled = ~ @]
    /\ UNCHANGED <<cr, stale, pc, mem, plan, faults>>

Crash ==
    /\ pc # "idle" /\ Fault
    /\ Idle
    /\ UNCHANGED <<cr, pol, edits>>

-----------------------------------------------------------------------------
Controller ==
    \/ Reconcile \/ ObserveAbsent \/ Observe \/ RemoveFinalizer
    \/ BeginCreate \/ Statement \/ StatementFails \/ Finish \/ EndCreate

Environment == ObserveFails \/ EditSpec \/ RequestDelete \/ DbaChanges \/ Crash

Next == Controller \/ Environment

Spec == Init /\ [][Next]_vars

\* The provider polls and retries: the controller's steps, taken together, are
\* never put off for ever.  Nothing is assumed of edits, the DBA or failures.
FairSpec == Spec /\ WF_vars(Controller)

-----------------------------------------------------------------------------
(* Properties *)

\* Every variable keeps its type: what buildDesiredParameters hands on is always
\* a complete spec, never one without a retention, which the statements need.
AuditTypeOK ==
    /\ cr \in [exists : BOOLEAN, spec : Specs, finalizer : BOOLEAN, deleting : BOOLEAN,
               pending : BOOLEAN]
    /\ stale \in BOOLEAN
    /\ pol \in [Names -> PolicyType]
    /\ pc \in {"idle", "observe", "removeFinalizer", "create", "run", "endCreate"}
    /\ mem \in [spec : Specs, deleting : BOOLEAN]
    /\ plan \in Seq({"create", "enable", "retention", "drop"})
    /\ edits \in Nat /\ faults \in Nat

\* A policy the provider created does not outlive its resource under the name the
\* spec had last, wherever a Create or a recreation was interrupted.
NoOrphanPolicy == ~ cr.exists => ~ pol[cr.spec.name].ours

\* Auditing is interrupted only when it must be: the provider drops a policy only
\* to delete it, or because HANA could not alter it into what the spec asks for.
\* Edits of the retention or of enabled, and repeated reconciles, never drop it.
DropOnlyToChange ==
    [][\A n \in Names :
        pol[n].exists /\ ~ pol'[n].exists /\ edits' = edits =>
            /\ n = mem.spec.name
            /\ mem.deleting \/ NeedsRecreation(pol[n], mem.spec)]_vars

\* What the controller cannot get past by itself: a Create of unknown outcome, a
\* policy whose retention is null, actions HANA does not know.
Blocked ==
    \/ cr.pending
    \/ pol[cr.spec.name].exists /\ Panics(pol[cr.spec.name], cr.spec)
PolicyMatches == pol[cr.spec.name].exists /\ UpToDate(pol[cr.spec.name], cr.spec)

\* Once edits and failures stop, HANA audits what the spec asks for and does so
\* without further interruption, or the resource is gone: no interrupted
\* recreation leaves the policy dropped or disabled.
AuditConvergence ==
    <>[](\/ Blocked
         \/ IF cr.exists /\ ~ cr.deleting
            THEN cr.spec.actions \notin ValidActions \/ PolicyMatches
            ELSE ~ cr.exists)
=============================================================================
