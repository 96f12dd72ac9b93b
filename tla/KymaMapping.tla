------------------------------ MODULE KymaMapping ------------------------------
(***************************************************************************)
(* A KymaInstanceMapping (KIM), the child Secret and InstanceMapping (IM)  *)
(* its controller creates, the IM's own controller, the mapping in HANA    *)
(* Cloud that the IM stands for, and the garbage collector of Kubernetes.  *)
(* The two controllers run concurrently and meet only in the child Secret, *)
(* the IM and the credentials.                                             *)
(***************************************************************************)
EXTENDS Naturals

CONSTANTS
    Creds,      \* versions of the admin API credentials of the ServiceBinding
    Valid,      \* those with both keys, in which the JSON parses
    Complete,   \* those in which, moreover, no field is empty
    DeleteModes, \* how users delete: "background" is the default, "foreground" possible
    NoSecret,   \* the child Secret does not exist
    Removed,    \* neither does it when a user has deleted it
    MaxEdits,   \* deletions, rotations, losses of the Kyma cluster, drift
    MaxFaults   \* API calls that fail, answers that are lost, restarts

ASSUME KymaAssumption ==
    /\ DeleteModes \subseteq {"background", "foreground"}
    /\ Creds # {} /\ Complete \subseteq Valid /\ Valid \subseteq Creds
    /\ NoSecret \notin Creds /\ Removed \notin Creds /\ NoSecret # Removed
    /\ MaxEdits \in Nat /\ MaxFaults \in Nat

VARIABLES
    kyma,     \* the Kyma cluster: whether it answers, and its current credentials
    kim,      \* the KIM resource
    sec,      \* the child Secret: the credentials copied into it, NoSecret or Removed
    im,       \* the child IM resource
    mapping,  \* the mapping exists in HANA Cloud
    kr, ir,   \* the running reconcile of the KIM and of the IM
    edits, faults

vars == <<kyma, kim, sec, im, mapping, kr, ir, edits, faults>>

Resting == [pc |-> "idle", deleting |-> "no", creds |-> NoSecret]
NoIm == [exists |-> FALSE, deleting |-> "no", finalizer |-> FALSE, pending |-> FALSE,
         ready |-> FALSE]

Init ==
    /\ kyma \in [up : {TRUE}, creds : Creds]
    /\ kim = [exists |-> TRUE, deleting |-> "no", finalizer |-> FALSE, pending |-> FALSE,
              ready |-> FALSE]
    /\ sec = NoSecret
    /\ im = NoIm
    /\ mapping = FALSE
    /\ kr = Resting /\ ir = Resting
    /\ edits = 0 /\ faults = 0

Fault == faults < MaxFaults /\ faults' = faults + 1

-----------------------------------------------------------------------------
(* The KymaInstanceMapping controller. *)

\* The keys must be there and the JSON must parse; an empty field passes.
\* (mutant: credentials are copied without parsing them)
ExtractUnchecked == {kyma.creds}
ExtractKymaData == {kyma.creds} \cap Valid

\* The reconciler reads the KIM, Connect extracts the Kyma data; a KIM whose
\* last Create has no recorded outcome is left alone.
KimConnect ==
    /\ kr.pc = "idle" /\ kim.exists /\ ~ kim.pending /\ kyma.up
    /\ \E c \in ExtractKymaData : kr' = [pc |-> "observe", deleting |-> kim.deleting, creds |-> c]
    /\ UNCHANGED <<kyma, kim, sec, im, mapping, ir, edits, faults>>

\* (mutants: an IM that is not found blocks nothing; readiness is not taken over)
ImIgnored == im.exists /\ kr.deleting = "no"
ImFound == im.exists
ReadyNever == kim.ready /\ kr.deleting = "no"
Ready == (kim.ready \/ im.ready) /\ kr.deleting = "no"

\* The API server refuses a write by a reconcile that read the KIM before a change.
KimStale == ~ kim.exists \/ kim.deleting # kr.deleting

\* A KIM with a child IM exists and is up to date; it becomes ready with the IM
\* and stays so.  Deleting it does nothing: it waits for the IM to go.
KimObserve ==
    /\ kr.pc = "observe"
    /\ IF ImFound
       THEN /\ kim' = IF KimStale THEN kim ELSE [kim EXCEPT !.ready = Ready]
            /\ kr' = Resting
       ELSE \/ /\ kr.deleting # "no"
               /\ kim' = [kim EXCEPT !.exists = FALSE, !.finalizer = FALSE]
               /\ kr' = Resting
            \/ /\ kr.deleting = "no" /\ ~ KimStale
               /\ kim' = [kim EXCEPT !.finalizer = TRUE, !.pending = TRUE]
               /\ kr' = [kr EXCEPT !.pc = "createSecret"]
            \/ kr.deleting = "no" /\ KimStale /\ kr' = Resting /\ UNCHANGED kim
    /\ UNCHANGED <<kyma, sec, im, mapping, ir, edits, faults>>

\* Created, or, if it is there already, updated with the extracted credentials.
KimCreateSecret ==
    /\ kr.pc = "createSecret"
    /\ sec' = kr.creds
    /\ \/ kr' = [kr EXCEPT !.pc = "createIm"] /\ UNCHANGED faults
       \/ Fault /\ kr' = [kr EXCEPT !.pc = "failed"]
    /\ UNCHANGED <<kyma, kim, im, mapping, ir, edits>>

KimCreateIm ==
    /\ kr.pc = "createIm"
    /\ im' = IF im.exists THEN im ELSE [NoIm EXCEPT !.exists = TRUE]
    /\ \/ kr' = [kr EXCEPT !.pc = "created"] /\ UNCHANGED faults
       \/ Fault /\ kr' = [kr EXCEPT !.pc = "failed"]
    /\ UNCHANGED <<kyma, kim, sec, mapping, ir, edits>>

KimCreateFails ==
    /\ kr.pc \in {"createSecret", "createIm"} /\ Fault
    /\ kr' = [kr EXCEPT !.pc = "failed"]
    /\ UNCHANGED <<kyma, kim, sec, im, mapping, ir, edits>>

\* The outcome goes into the annotations, the resource is Creating and not ready;
\* a failure is retried after the next Observe.
KimEndCreate ==
    /\ kr.pc \in {"created", "failed"}
    /\ kim' = [kim EXCEPT !.pending = FALSE, !.ready = FALSE]
    /\ kr' = Resting
    /\ UNCHANGED <<kyma, sec, im, mapping, ir, edits, faults>>

-----------------------------------------------------------------------------
(* The InstanceMapping controller. *)

\* Connect reads the Secret; without it, or if a field of the credentials is
\* empty, the reconcile ends in an error.
ImConnect ==
    /\ ir.pc = "idle" /\ im.exists /\ ~ im.pending /\ sec \in Complete
    /\ ir' = [pc |-> "observe", deleting |-> im.deleting, creds |-> sec]
    /\ UNCHANGED <<kyma, kim, sec, im, mapping, kr, edits, faults>>

\* HANA Cloud accepts the current credentials of the ServiceBinding only.
Accepted == ir.creds = kyma.creds
ImStale == ~ im.exists \/ im.deleting # ir.deleting

\* (mutant: no finalizer)
AnnotateOnly == [im EXCEPT !.pending = TRUE]
Announce == [im EXCEPT !.finalizer = TRUE, !.pending = TRUE]

ImObserve ==
    /\ ir.pc = "observe" /\ Accepted
    /\ IF mapping
       THEN \/ /\ ir.deleting # "no"
               /\ ir' = [ir EXCEPT !.pc = "delete"]
               /\ UNCHANGED im
            \/ /\ ir.deleting = "no"
               /\ im' = IF ImStale THEN im ELSE [im EXCEPT !.ready = TRUE]
               /\ ir' = Resting
       ELSE \/ /\ ir.deleting # "no" /\ im' = NoIm /\ ir' = Resting
            \/ /\ ir.deleting = "no" /\ ~ ImStale
               /\ im' = Announce
               /\ ir' = [ir EXCEPT !.pc = "create"]
            \/ ir.deleting = "no" /\ ImStale /\ ir' = Resting /\ UNCHANGED im
    /\ UNCHANGED <<kyma, kim, sec, mapping, kr, edits, faults>>

ImObserveFails ==
    /\ ir.pc = "observe"
    /\ IF Accepted THEN Fault ELSE UNCHANGED faults
    /\ ir' = Resting
    /\ UNCHANGED <<kyma, kim, sec, im, mapping, kr, edits>>

ImCreate ==
    /\ ir.pc = "create"
    /\ \/ /\ Accepted /\ mapping' = TRUE
          /\ \/ ir' = [ir EXCEPT !.pc = "created"] /\ UNCHANGED faults
             \/ Fault /\ ir' = [ir EXCEPT !.pc = "failed"]
       \/ /\ UNCHANGED mapping
          /\ IF Accepted THEN Fault ELSE UNCHANGED faults
          /\ ir' = [ir EXCEPT !.pc = "failed"]
    /\ UNCHANGED <<kyma, kim, sec, im, kr, edits>>

ImEndCreate ==
    /\ ir.pc \in {"created", "failed"}
    /\ im' = [im EXCEPT !.pending = FALSE, !.ready = FALSE]
    /\ ir' = Resting
    /\ UNCHANGED <<kyma, kim, sec, mapping, kr, edits, faults>>

\* 404 is success; the IM is Deleting, not ready, whatever the answer.
ImDelete ==
    /\ ir.pc = "delete"
    /\ \/ Accepted /\ mapping' = FALSE /\ (UNCHANGED faults \/ Fault)
       \/ UNCHANGED mapping /\ IF Accepted THEN Fault ELSE UNCHANGED faults
    /\ im' = [im EXCEPT !.ready = FALSE]
    /\ ir' = Resting
    /\ UNCHANGED <<kyma, kim, sec, kr, edits>>

-----------------------------------------------------------------------------
(* Kubernetes: a delete request marks an object that has a finalizer and    *)
(* removes one that has none; the collector does this to the children of a *)
(* KIM that is gone, or is being deleted in the foreground.                *)

DeleteImObject ==
    im' = IF im.finalizer THEN [im EXCEPT !.deleting = "background"] ELSE NoIm

Orphaned == ~ kim.exists \/ kim.deleting = "foreground"

CollectSecret ==
    /\ Orphaned /\ sec \in Valid
    /\ sec' = NoSecret
    /\ UNCHANGED <<kyma, kim, im, mapping, kr, ir, edits, faults>>

CollectIm ==
    /\ Orphaned /\ im.exists /\ im.deleting = "no"
    /\ DeleteImObject
    /\ UNCHANGED <<kyma, kim, sec, mapping, kr, ir, edits, faults>>

-----------------------------------------------------------------------------
(* Users, the Kyma cluster and failures. *)

Edit == edits < MaxEdits /\ edits' = edits + 1

DeleteKim ==
    /\ kim.exists /\ kim.deleting = "no" /\ Edit
    /\ \E mode \in DeleteModes :
        kim' = IF kim.finalizer THEN [kim EXCEPT !.deleting = mode]
                                ELSE [kim EXCEPT !.exists = FALSE]
    /\ UNCHANGED <<kyma, sec, im, mapping, kr, ir, faults>>

DeleteIm ==
    /\ im.exists /\ im.deleting = "no" /\ Edit
    /\ DeleteImObject
    /\ UNCHANGED <<kyma, kim, sec, mapping, kr, ir, faults>>

\* The KIM controller watches the Secret, but Observe does not look for it.
DeleteSecret ==
    /\ sec \in Valid /\ Edit
    /\ sec' = Removed
    /\ UNCHANGED <<kyma, kim, im, mapping, kr, ir, faults>>

RotateCredentials ==
    /\ Edit
    /\ \E c \in Creds \ {kyma.creds} : kyma' = [kyma EXCEPT !.creds = c]
    /\ UNCHANGED <<kim, sec, im, mapping, kr, ir, faults>>

LoseKyma ==
    /\ kyma.up /\ Edit
    /\ kyma' = [kyma EXCEPT !.up = FALSE]
    /\ UNCHANGED <<kim, sec, im, mapping, kr, ir, faults>>

RemoveMapping ==
    /\ mapping /\ Edit
    /\ mapping' = FALSE
    /\ UNCHANGED <<kyma, kim, sec, im, kr, ir, faults>>

Crash ==
    /\ kr # Resting \/ ir # Resting
    /\ Fault
    /\ kr' = Resting /\ ir' = Resting
    /\ UNCHANGED <<kyma, kim, sec, im, mapping, edits>>

-----------------------------------------------------------------------------
KimController ==
    KimConnect \/ KimObserve \/ KimCreateSecret \/ KimCreateIm \/ KimCreateFails \/ KimEndCreate
ImController ==
    ImConnect \/ ImObserve \/ ImObserveFails \/ ImCreate \/ ImEndCreate \/ ImDelete
Collector == CollectSecret \/ CollectIm
Environment ==
    DeleteKim \/ DeleteIm \/ DeleteSecret \/ RotateCredentials \/ LoseKyma \/ RemoveMapping \/ Crash

Next == KimController \/ ImController \/ Collector \/ Environment

Spec == Init /\ [][Next]_vars

\* Both controllers poll and retry for ever, the collector runs for ever.
FairSpec ==
    Spec /\ WF_vars(KimController) /\ WF_vars(ImController) /\ WF_vars(Collector)

-----------------------------------------------------------------------------
(* Properties *)

ReconcileType(pcs) ==
    [pc : pcs, deleting : {"no", "background", "foreground"}, creds : Valid \cup {NoSecret}]
ResourceType ==
    [exists : BOOLEAN, deleting : {"no", "background", "foreground"}, finalizer : BOOLEAN,
     pending : BOOLEAN, ready : BOOLEAN]

\* Every variable keeps its type; in particular what Create writes into the
\* child Secret has parsed (extractKymaData), though fields of it may be empty.
KymaTypeOK ==
    /\ kyma \in [up : BOOLEAN, creds : Creds]
    /\ kim \in ResourceType /\ im \in ResourceType
    /\ sec \in Valid \cup {NoSecret, Removed}
    /\ mapping \in BOOLEAN
    /\ kr \in ReconcileType({"idle", "observe", "createSecret", "createIm", "created", "failed"})
    /\ ir \in ReconcileType({"idle", "observe", "create", "created", "failed", "delete"})
    /\ edits \in Nat /\ faults \in Nat

\* The IM is never gone while its mapping is still in HANA Cloud: nobody would
\* be left to remove it.
NoOrphanMapping == mapping => im.exists

\* The Secret needed to remove a mapping outlives it, unless the KIM is deleted in
\* the foreground or a user deletes the Secret itself: Create writes the Secret first, and the KIM, which
\* owns it, stays until the IM is gone.
SecretOutlivesMapping == mapping /\ kim.deleting # "foreground" => sec # NoSecret

\* What Observe does not see, it never repairs: it looks for the IM only, so a
\* Secret that was deleted, or that holds credentials rotated away since, stays as
\* it is as long as the IM exists; and credentials with an empty field are copied,
\* but no mapping is made with them.
SecretOutdated == im.exists /\ sec # kyma.creds
Unprovisionable ==
    kim.pending \/ im.pending \/ ~ kyma.up \/ kyma.creds \notin Complete \/ SecretOutdated

\* A KIM that is not being deleted ends up with its mapping and reports ready, when
\* its IM was deleted or its mapping removed behind it too, except where neither
\* controller can get there: see Unprovisionable.
Provisioned ==
    <>[](\/ Unprovisionable \/ ~ kim.exists \/ kim.deleting # "no"
         \/ mapping /\ im.exists /\ kim.ready)

\* A KIM that is deleted goes away, with its children.  The code's Delete leaves
\* that to owner references, which act only once the KIM itself is gone.
DeletionCompletes ==
    [](kim.deleting # "no" => <>(kim.pending \/ im.pending \/ ~ kyma.up \/ ~ kim.exists))
=============================================================================
