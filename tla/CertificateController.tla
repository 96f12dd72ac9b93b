------------------------ MODULE CertificateController ------------------------
(***************************************************************************)
(* The Certificate controller, for one of the resources that share HANA's  *)
(* certificate store.  Create imports the chain of a secret, and Delete    *)
(* drops the certificates it finds, each in one transaction.  A            *)
(* certificate is named after the sanitised name of its resource and its   *)
(* serial number; Read finds the certificates of a resource with LIKE,     *)
(* where the underscores of the sanitised name match any character.        *)
(***************************************************************************)
EXTENDS ManagedReconciler, SequencesExt

CONSTANTS
    Self,            \* the resource
    Sanitized,       \* the base each name is sanitised to
    Like,            \* the bases that the pattern made of a base matches
    Certs,           \* certificates, by serial number and date
    NotPem,          \* what is no CERTIFICATE block
    Missing          \* the value of a secret or a key that does not exist

VARIABLES
    secret,    \* the chains in the secrets
    certs,     \* HANA's certificates: named by base and cert; who imported each
               \* and with which others
    inUse,     \* names that PSEs refer to
    todo,      \* the statements left of the running operation
    open,      \* what its transaction has created and dropped so far
    others     \* the names that transactions of other resources hold: read, never set

own == <<secret, certs, inUse, todo, open>>

Name(e) == [base |-> e.base, cert |-> e.cert]
NoTx == [add |-> {}, drop |-> {}]
Holds(tx) == {Name(e) : e \in tx.add \cup tx.drop}

\* What a transaction leaves behind when it is committed.
Committed(store, tx) == (store \ tx.drop) \cup tx.add

Rollback == todo' = <<>> /\ open' = NoTx

-----------------------------------------------------------------------------
Read(spec) == {e \in certs : e.base \in Like[Sanitized[spec.name]]}

Reconcile == Start /\ UNCHANGED own

ObserveAbsent ==
    /\ pc = "observe" /\ Read(mem.spec) = {}
    /\ NotFound
    /\ UNCHANGED own

\* Any certificate found makes the resource up to date: there is no Update.
Observe ==
    /\ pc = "observe" /\ Read(mem.spec) # {}
    /\ IF mem.deleting
       THEN pc' = "delete" /\ UNCHANGED <<cr, stale, mem>>
       ELSE /\ cr' = IF FinalizerRefused THEN cr ELSE [cr EXCEPT !.finalizer = TRUE]
            /\ Stop
    /\ UNCHANGED <<edits, faults, own>>

\* (mutant: an error of the query is taken for no rows)
ErrorIsAbsence ==
    /\ pc = "observe" /\ faults < MaxFaults /\ faults' = faults + 1
    /\ pc' = IF mem.deleting THEN "removeFinalizer" ELSE "create"
    /\ UNCHANGED <<cr, stale, mem, edits, own>>

ObserveFails ==
    /\ pc = "observe" /\ Fault
    /\ Stop
    /\ UNCHANGED <<cr, edits, own>>

RemoveFinalizer == Release /\ UNCHANGED own

BeginCreate ==
    /\ pc = "create"
    /\ IF stale THEN Stop /\ UNCHANGED cr
       ELSE Claim /\ pc' = "secret" /\ UNCHANGED <<stale, mem>>
    /\ UNCHANGED <<edits, faults, own>>

-----------------------------------------------------------------------------
(* Create *)

\* (mutant: what follows the first block is taken for garbage)
SingleBlock(chain) == chain # Missing /\ Len(chain) = 1 /\ chain[1] # NotPem

SplitPEMChain(chain) == chain \notin {Missing, <<>>} /\ NotPem \notin ToSet(chain)

\* The secret is read, its chain split, and the transaction begun.
GetCertificatePEM ==
    /\ pc = "secret"
    /\ LET chain == secret[mem.spec.secret] IN
       IF SplitPEMChain(chain)
       THEN pc' = "import" /\ todo' = chain /\ UNCHANGED <<stale, mem>>
       ELSE Return /\ UNCHANGED todo
    /\ UNCHANGED <<cr, edits, faults, secret, certs, inUse, open>>

CertName(spec, cert) == [base |-> Sanitized[spec.name], cert |-> cert]

\* HANA takes a certificate that parses, under a name that is free.
Accepts(block) ==
    /\ block \in Certs
    /\ CertName(mem.spec, block) \notin {Name(e) : e \in certs \cup open.add}

Entry(block) ==
    [base |-> Sanitized[mem.spec.name], cert |-> block, by |-> Self,
     chain |-> ToSet(todo) \cup {e.cert : e \in open.add}]

CreateCertificate ==
    /\ pc = "import" /\ todo # <<>>
    /\ Accepts(Head(todo)) /\ CertName(mem.spec, Head(todo)) \notin others
    /\ open' = [open EXCEPT !.add = @ \cup {Entry(Head(todo))}]
    /\ todo' = Tail(todo)
    /\ UNCHANGED <<cr, stale, pc, mem, edits, faults, secret, certs, inUse>>

\* (mutant: what was imported before the failure is kept)
CommitOnError ==
    /\ pc = "import" /\ todo # <<>>
    /\ IF Accepts(Head(todo)) THEN Fault ELSE UNCHANGED faults
    /\ certs' = Committed(certs, open)
    /\ Return /\ Rollback
    /\ UNCHANGED <<cr, edits, secret, inUse>>

\* The error of the loop is not the one that the deferred function tests: nothing
\* is rolled back here, and the transaction stays open until the reconcile ends.
CreateFails ==
    /\ pc = "import" /\ todo # <<>>
    /\ IF Accepts(Head(todo)) THEN Fault ELSE UNCHANGED faults
    /\ Return
    /\ todo' = <<>>
    /\ UNCHANGED <<cr, edits, secret, certs, inUse, open>>

\* The end of the reconcile cancels its context, and with it the transaction.
EndCreate ==
    /\ RecordCreate
    /\ Rollback
    /\ UNCHANGED <<secret, certs, inUse>>

-----------------------------------------------------------------------------
(* Delete *)

Before(e, f) == e.base < f.base \/ (e.base = f.base /\ e.cert <= f.cert)

\* The order of the query: by name.
Ordered(S) == {s \in SetToSeqs(S) : \A i, j \in DOMAIN s : i < j => Before(s[i], s[j])}

\* Delete reads the names again; they come in order.
ReadBeforeDelete ==
    /\ pc = "delete"
    /\ IF Read(mem.spec) = {} THEN Stop /\ UNCHANGED todo
       ELSE pc' = "drop" /\ todo' \in Ordered(Read(mem.spec)) /\ UNCHANGED <<stale, mem>>
    /\ UNCHANGED <<cr, edits, faults, secret, certs, inUse, open>>

Droppable(e) == Name(e) \in {Name(f) : f \in certs} \ inUse

DropCertificate ==
    /\ pc = "drop" /\ todo # <<>>
    /\ Droppable(Head(todo)) /\ Name(Head(todo)) \notin others
    /\ open' = [open EXCEPT !.drop = @ \cup {e \in certs : Name(e) = Name(Head(todo))}]
    /\ todo' = Tail(todo)
    /\ UNCHANGED <<cr, stale, pc, mem, edits, faults, secret, certs, inUse>>

\* (mutant: the error is shadowed here as well, and nothing is rolled back)
DropStaysOpen ==
    /\ pc = "drop" /\ todo # <<>>
    /\ IF Droppable(Head(todo)) THEN Fault ELSE UNCHANGED faults
    /\ Stop /\ todo' = <<>>
    /\ UNCHANGED <<cr, edits, secret, certs, inUse, open>>

DropFails ==
    /\ pc = "drop" /\ todo # <<>>
    /\ IF Droppable(Head(todo)) THEN Fault ELSE UNCHANGED faults
    /\ Stop /\ Rollback
    /\ UNCHANGED <<cr, edits, secret, certs, inUse>>

-----------------------------------------------------------------------------
(* The end of either transaction; the answer to the commit may be lost. *)

Committing == pc \in {"import", "drop"} /\ todo = <<>>

Commit ==
    /\ Committing
    /\ \/ certs' = Committed(certs, open) /\ UNCHANGED faults
       \/ UNCHANGED certs /\ Fault
    /\ Return /\ Rollback
    /\ UNCHANGED <<cr, edits, secret, inUse>>

\* Name and secret reference are mutable.
EditSpec == (\E s \in Specs : Edit(s)) /\ UNCHANGED own

RequestDelete == Delete /\ UNCHANGED own

Killed == Stop /\ Rollback

-----------------------------------------------------------------------------
Controller ==
    \/ Reconcile \/ ObserveAbsent \/ Observe \/ RemoveFinalizer \/ BeginCreate
    \/ GetCertificatePEM \/ CreateCertificate \/ CreateFails \/ EndCreate
    \/ ReadBeforeDelete \/ DropCertificate \/ DropFails \/ Commit

Users == ObserveFails \/ EditSpec \/ RequestDelete
=============================================================================
