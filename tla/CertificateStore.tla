--------------------------- MODULE CertificateStore ---------------------------
(***************************************************************************)
(* Two Certificate resources, reconciled concurrently by one process on    *)
(* one HANA database.  What they share are the certificates, the secrets   *)
(* and the PSEs that refer to certificates.                                *)
(***************************************************************************)
EXTENDS Naturals, Sequences, FiniteSets

CONSTANTS
    Names, Bases, Sanitized, Like, Certs, Blocks, NotPem, Missing,
    Secrets, Chains,      \* the secrets, and what users put into them
    FirstSecrets,         \* what is in them to begin with
    SpecsA, SpecsB, MaxEdits, MaxFaults, MaxDrifts

ASSUME CertificateAssumption ==
    /\ Bases \subseteq Nat /\ Certs \subseteq Nat /\ Certs \subseteq Blocks
    /\ Sanitized \in [Names -> Bases]
    /\ Like \in [Bases -> SUBSET Bases] /\ \A b \in Bases : b \in Like[b]
    /\ NotPem \in Blocks \ Certs /\ Missing \in Chains
    /\ Blocks \subseteq Nat /\ Chains \ {Missing} \subseteq Seq(Blocks)
    /\ FirstSecrets \subseteq [Secrets -> Chains]
    /\ SpecsA \cup SpecsB \subseteq [name : Names, secret : Secrets]
    /\ MaxDrifts \in Nat

VARIABLES
    crA, staleA, pcA, memA, todoA, openA,
    crB, staleB, pcB, memB, todoB, openB,
    secret, certs, inUse, edits, faults, drifts

ownA == <<crA, staleA, pcA, memA, todoA, openA>>
ownB == <<crB, staleB, pcB, memB, todoB, openB>>
vars == <<ownA, ownB, secret, certs, inUse, edits, faults, drifts>>

Held(tx) == {[base |-> e.base, cert |-> e.cert] : e \in tx.add \cup tx.drop}

A == INSTANCE CertificateController WITH
    Self <- "A", Specs <- SpecsA, cr <- crA, stale <- staleA, pc <- pcA, mem <- memA,
    todo <- todoA, open <- openA, others <- Held(openB)
B == INSTANCE CertificateController WITH
    Self <- "B", Specs <- SpecsB, cr <- crB, stale <- staleB, pc <- pcB, mem <- memB,
    todo <- todoB, open <- openB, others <- Held(openA)

Init ==
    /\ A!ReconcilerInit /\ todoA = <<>> /\ openA = A!NoTx
    /\ B!ReconcilerInit /\ todoB = <<>> /\ openB = B!NoTx
    /\ secret \in FirstSecrets
    /\ certs = {} /\ inUse = {} /\ drifts = 0

-----------------------------------------------------------------------------
Free == UNCHANGED <<ownA, ownB>>

SecretChanges ==
    /\ A!Edited /\ Free
    /\ \E s \in Secrets, c \in Chains : secret[s] # c /\ secret' = [secret EXCEPT ![s] = c]
    /\ UNCHANGED <<certs, inUse, faults, drifts>>

\* A PSE takes up a certificate, or gives it up.
UseChanges ==
    /\ A!Edited /\ Free
    /\ \E n \in {A!Name(e) : e \in certs} \ (Held(openA) \cup Held(openB)) :
        inUse' = IF n \in inUse THEN inUse \ {n} ELSE inUse \cup {n}
    /\ UNCHANGED <<secret, certs, faults, drifts>>

\* A DBA drops a certificate.
DbaDrops ==
    /\ drifts < MaxDrifts /\ drifts' = drifts + 1 /\ Free
    /\ \E e \in {f \in certs : A!Name(f) \notin inUse \cup Held(openA) \cup Held(openB)} :
        certs' = certs \ {e}
    /\ UNCHANGED <<secret, inUse, edits, faults>>

\* The process ends and HANA rolls its transactions back; a commit that was under
\* way may still have been carried out.
Crash ==
    /\ pcA # "idle" \/ pcB # "idle"
    /\ A!Fault /\ A!Killed /\ B!Killed
    /\ \/ UNCHANGED certs
       \/ A!Committing /\ certs' = A!Committed(certs, openA)
       \/ B!Committing /\ certs' = B!Committed(certs, openB)
    /\ UNCHANGED <<crA, crB, secret, inUse, edits, drifts>>

-----------------------------------------------------------------------------
StepA == A!Controller /\ UNCHANGED <<ownB, drifts>>
StepB == B!Controller /\ UNCHANGED <<ownA, drifts>>

Next ==
    \/ StepA \/ StepB
    \/ A!Users /\ UNCHANGED <<ownB, drifts>>
    \/ B!Users /\ UNCHANGED <<ownA, drifts>>
    \/ SecretChanges \/ UseChanges \/ DbaDrops \/ Crash

Spec == Init /\ [][Next]_vars

\* Every resource has a worker, as in the other modules.
FairSpec == Spec /\ WF_vars(StepA) /\ WF_vars(StepB)

-----------------------------------------------------------------------------
(* Properties *)

EntryType == [base : Bases, cert : Certs, by : {"A", "B"}, chain : SUBSET Blocks]
TxType == [add : SUBSET EntryType, drop : SUBSET EntryType]
Steps == {"idle", "observe", "removeFinalizer", "create", "secret", "import", "endCreate",
          "delete", "drop"}

\* Every variable keeps its type; a transaction is open only inside a reconcile, and
\* no two transactions hold the same name.
CertTypeOK ==
    /\ crA \in A!CrType /\ memA \in A!MemType /\ crB \in B!CrType /\ memB \in B!MemType
    /\ {staleA, staleB} \subseteq BOOLEAN /\ {pcA, pcB} \subseteq Steps
    /\ openA \in TxType /\ openB \in TxType
    /\ todoA \in IF pcA = "drop" THEN Seq(EntryType) ELSE Seq(Blocks)
    /\ todoB \in IF pcB = "drop" THEN Seq(EntryType) ELSE Seq(Blocks)
    /\ secret \in [Secrets -> Chains]
    /\ certs \subseteq EntryType /\ inUse \subseteq [base : Bases, cert : Certs]
    /\ {edits, faults, drifts} \subseteq Nat
    /\ pcA \notin {"import", "drop", "endCreate"} => openA = A!NoTx
    /\ pcB \notin {"import", "drop", "endCreate"} => openB = B!NoTx
    /\ Held(openA) \cap Held(openB) = {}

\* Chains are imported and dropped as a whole, although a failed import does not roll
\* its transaction back and two deletions may read the same names: next to every
\* certificate there are those that were imported with it, unless a DBA drops some.
WholeChains ==
    drifts = 0 => \A e \in certs : \A c \in e.chain :
        \E f \in certs : f.base = e.base /\ f.by = e.by /\ f.cert = c

Own(who, spec) == {e \in certs : e.by = who /\ e.base = Sanitized[spec.name]}

\* A resource with a finalizer goes away only when none of the certificates it
\* imported under its name is left, also if its deletion was requested while the
\* import was running.
ReleasedClean ==
    [][/\ crA.finalizer /\ ~ crA'.exists => Own("A", crA.spec) = {}
       /\ crB.finalizer /\ ~ crB'.exists => Own("B", crB.spec) = {}]_<<crA, crB>>

Found(cr) == {e \in certs : e.base \in Like[Sanitized[cr.spec.name]]}
Importable(cr) ==
    secret[cr.spec.secret] # Missing /\ secret[cr.spec.secret] \in Seq(Certs) \ {<<>>}

\* A deletion whose pattern also finds what another resource imports again.
Rivals(cr, other) ==
    cr.deleting /\ other.exists /\ Sanitized[other.spec.name] \in Like[Sanitized[cr.spec.name]]

\* The pattern of the resource's name matches another name that is in use.  What was
\* imported under that one, by another resource or before a rename, makes the
\* resource up to date: its own chain is not imported.
Overlaps(cr) ==
    \E s \in SpecsA \cup SpecsB :
        s.name # cr.spec.name /\ Sanitized[s.name] \in Like[Sanitized[cr.spec.name]]

\* A Create without a recorded outcome is left to the users.
Settled(who, cr, other) ==
    \/ cr.pending \/ Rivals(cr, other) \/ Rivals(other, cr)
    \/ ~ cr.exists
    \/ /\ ~ cr.deleting
       /\ Importable(cr) => IF Overlaps(cr) THEN Found(cr) # {} ELSE Own(who, cr.spec) # {}
    \/ cr.deleting /\ \E e \in Found(cr) : A!Name(e) \in inUse

\* Once edits and failures stop, certificates that the resource itself imported under
\* its name are in HANA, or the resource is gone: neither waits for ever on names that
\* a transaction of the other one holds.  A resource whose pattern matches another
\* name has only the promise that something it takes for its own is there.
CertConvergence == <>[]Settled("A", crA, crB) /\ <>[]Settled("B", crB, crA)

\* The certificates that the provider drops belong to the resource to be deleted.
OnlyOwnDropped ==
    [][drifts' = drifts =>
        \A e \in certs \ certs' : (e.by = "A" => crA.deleting) /\ (e.by = "B" => crB.deleting)]_vars
=============================================================================
