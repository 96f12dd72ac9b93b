-------------------------- MODULE ManagedReconciler --------------------------
(***************************************************************************)
(* The managed reconciler of crossplane-runtime, as far as the callbacks   *)
(* of the controllers rely on it: one custom resource (CR), the reconciles *)
(* that run for it one after the other, and the users who edit and delete  *)
(* it.  The modules of the controllers extend this one and conjoin its     *)
(* steps with their own; what a reconcile does between "create" or         *)
(* "observe" and Return is theirs.                                         *)
(***************************************************************************)
EXTENDS Naturals, Sequences

CONSTANTS
    Specs,               \* the specs the CR may be given
    MaxEdits, MaxFaults

ASSUME ReconcilerAssumption == Specs # {} /\ MaxEdits \in Nat /\ MaxFaults \in Nat

VARIABLES
    cr,      \* the resource at the API server
    stale,   \* it was written since the running reconcile read it
    pc, mem, \* the running reconcile: where it is, the copy it has read
    edits, faults

CrType == [exists : BOOLEAN, spec : Specs, finalizer : BOOLEAN, deleting : BOOLEAN,
           pending : BOOLEAN]
MemType == [spec : Specs, deleting : BOOLEAN]

NoMem == [spec |-> CHOOSE s \in Specs : TRUE, deleting |-> FALSE]

ReconcilerInit ==
    /\ \E s \in Specs :
        cr = [exists |-> TRUE, spec |-> s, finalizer |-> FALSE, deleting |-> FALSE,
              pending |-> FALSE]
    /\ stale = FALSE
    /\ pc = "idle" /\ mem = NoMem
    /\ edits = 0 /\ faults = 0

Fault == faults < MaxFaults /\ faults' = faults + 1
Edited == edits < MaxEdits /\ edits' = edits + 1

\* The reconcile ends; the next one reads the resource again.
Stop == pc' = "idle" /\ mem' = NoMem /\ stale' = FALSE

\* A reconcile reads the resource.  One whose Create has no recorded outcome is
\* left alone, also when it is to be deleted.
Start ==
    /\ pc = "idle" /\ cr.exists /\ ~ cr.pending
    /\ pc' = "observe"
    /\ mem' = [spec |-> cr.spec, deleting |-> cr.deleting]
    /\ stale' = FALSE
    /\ UNCHANGED <<cr, edits, faults>>

\* Observe found no object: create it, or be done with the deletion.
NotFound ==
    /\ pc = "observe"
    /\ pc' = IF mem.deleting THEN "removeFinalizer" ELSE "create"
    /\ UNCHANGED <<cr, stale, mem, edits, faults>>

\* The API server refuses the write of a copy that is out of date.
FinalizerRefused == stale /\ ~ cr.finalizer

Release ==
    /\ pc = "removeFinalizer"
    /\ cr' = IF stale THEN cr ELSE [cr EXCEPT !.exists = FALSE, !.finalizer = FALSE]
    /\ Stop
    /\ UNCHANGED <<edits, faults>>

\* The finalizer and the create-pending annotation are written before Create.
Claim == cr' = [cr EXCEPT !.finalizer = TRUE, !.pending = TRUE]

\* A callback returned; the outcome of Create is recorded, whatever it is.
Return ==
    IF cr.pending THEN pc' = "endCreate" /\ UNCHANGED <<stale, mem>> ELSE Stop

RecordCreate ==
    /\ pc = "endCreate"
    /\ cr' = [cr EXCEPT !.pending = FALSE]
    /\ Stop
    /\ UNCHANGED <<edits, faults>>

(* The users of the resource, and the end of the provider's process. *)
Edit(s) ==
    /\ cr.exists /\ s # cr.spec /\ Edited
    /\ cr' = [cr EXCEPT !.spec = s]
    /\ stale' = (pc # "idle")
    /\ UNCHANGED <<pc, mem, faults>>

Delete ==
    /\ cr.exists /\ ~ cr.deleting /\ Edited
    /\ cr' = IF cr.finalizer THEN [cr EXCEPT !.deleting = TRUE]
                             ELSE [cr EXCEPT !.exists = FALSE]
    /\ stale' = (pc # "idle")
    /\ UNCHANGED <<pc, mem, faults>>

Die ==
    /\ pc # "idle" /\ Fault
    /\ Stop
    /\ UNCHANGED <<cr, edits>>
=============================================================================
