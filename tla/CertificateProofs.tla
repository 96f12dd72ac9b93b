-------------------------- MODULE CertificateProofs --------------------------
(***************************************************************************)
(* Proofs about CertificateStore, for every instance of its constants: its *)
(* types, that chains stay whole, and what is left when a resource goes.   *)
(* What is said of a resource takes its variables as arguments, so that it *)
(* is said once; the steps of B mirror those of A.                         *)
(***************************************************************************)
EXTENDS CertificateStore, FiniteSetTheorems, TLAPS

Elems(s) == {s[i] : i \in DOMAIN s}

\* Two entries that HANA cannot hold at the same time.
Same(e, f) == e.base = f.base /\ e.cert = f.cert
Unique(S) == \A e, f \in S : Same(e, f) => e = f

\* f is one of the certificates that were imported with e.
Links(e, f) == f.base = e.base /\ f.by = e.by /\ f.cert \in e.chain
Whole(S) == \A e \in S : \A c \in e.chain :
                \E f \in S : f.base = e.base /\ f.by = e.by /\ f.cert = c

Touched(tx) == tx.add \cup tx.drop
Apart(tx, other) == \A e \in Touched(tx), f \in Touched(other) : ~ Same(e, f)

\* What a transaction has created is new, and what it has dropped is still there.
Pending(tx) ==
    /\ \A e \in tx.add, f \in certs : ~ Same(e, f)
    /\ Unique(tx.add) /\ IsFiniteSet(tx.add)
    /\ tx.drop \subseteq certs

TxInv == IsFiniteSet(certs) /\ Unique(certs) /\ Pending(openA) /\ Pending(openB)

\* The running reconcile and the resource.
Copy(cr, stale, pc, mem) ==
    /\ mem.deleting => cr.deleting
    /\ pc \in {"removeFinalizer", "delete", "drop"} => mem.deleting
    /\ pc \in {"create", "secret", "import", "endCreate"} => ~ mem.deleting
    /\ pc # "idle" => (cr.pending <=> pc \in {"secret", "import", "endCreate"})
    /\ pc # "idle" /\ ~ stale => cr.exists /\ mem.spec = cr.spec
    /\ cr.finalizer => cr.exists

CopyInv == Copy(crA, staleA, pcA, memA) /\ Copy(crB, staleB, pcB, memB)

\* A transaction that imports has created a part of one chain, and every entry of it
\* names the chain as a whole: what is created and what is still to be.
Import(who, pc, mem, todo, tx) ==
    /\ pc # "drop" => tx.drop = {}
    /\ pc = "drop" => tx.add = {}
    /\ \A e \in tx.add : e.by = who
    /\ pc = "import" => \A e \in tx.add :
            /\ e.base = Sanitized[mem.spec.name]
            /\ e.chain = Elems(todo) \cup {f.cert : f \in tx.add}

ImportInv == Import("A", pcA, memA, todoA, openA) /\ Import("B", pcB, memB, todoB, openB)

\* What a deletion has dropped and is going to drop.
Doomed(todo, tx, e) == \E g \in Elems(todo) \cup tx.drop : Same(e, g)

\* A resource whose reconciles know that it is to be deleted: it imports nothing more.
Leaving(cr, pc, mem) == cr.deleting /\ (pc = "idle" \/ mem.deleting)

\* A deletion takes with a certificate all those that name it, and the names it has
\* read are still there unless the other resource has dropped them, which then
\* imports no others under them.
Drop(pc, todo, tx, otherLeaving) ==
    pc = "drop" =>
        /\ \A e, f \in certs : Links(e, f) /\ Doomed(todo, tx, f) => Doomed(todo, tx, e)
        /\ otherLeaving \/ \A g \in Elems(todo) : \E e \in certs : Same(e, g)

DropInv ==
    drifts = 0 =>
        /\ Drop(pcA, todoA, openA, Leaving(crB, pcB, memB))
        /\ Drop(pcB, todoB, openB, Leaving(crA, pcA, memA))

\* A resource is released when none of its certificates is found.
Gone(who, pc, mem) ==
    pc = "removeFinalizer" =>
        \A e \in certs : e.by = who => e.base \notin Like[Sanitized[mem.spec.name]]

GoneInv == Gone("A", pcA, memA) /\ Gone("B", pcB, memB)

-----------------------------------------------------------------------------
(* Sequences, names and transactions. *)

LEMMA TailElems ==
    ASSUME NEW S, NEW s \in Seq(S), s # <<>>
    PROVE  /\ Head(s) \in S /\ Tail(s) \in Seq(S)
           /\ Elems(s) = {Head(s)} \cup Elems(Tail(s))
<1>1. /\ Head(s) = s[1] /\ Head(s) \in S /\ Tail(s) \in Seq(S)
      /\ Len(Tail(s)) = Len(s) - 1 /\ Len(s) \in Nat \ {0}
      /\ \A i \in 1..(Len(s) - 1) : Tail(s)[i] = s[i + 1]
  OBVIOUS
<1>2. DOMAIN s = 1..Len(s) /\ DOMAIN Tail(s) = 1..(Len(s) - 1)
  BY <1>1
<1>3. ASSUME NEW i \in 1..Len(s)
      PROVE  s[i] \in {Head(s)} \cup Elems(Tail(s))
  <2>1. CASE i = 1
    BY <1>1, <2>1
  <2>2. CASE i # 1
    <3>1. i - 1 \in 1..(Len(s) - 1) /\ Tail(s)[i - 1] = s[i]
      BY <1>1, <2>2
    <3> QED BY <3>1, <1>2 DEF Elems
  <2> QED BY <2>1, <2>2
<1>4. ASSUME NEW i \in 1..(Len(s) - 1)
      PROVE  Tail(s)[i] \in Elems(s)
  <2>1. i + 1 \in 1..Len(s) /\ Tail(s)[i] = s[i + 1]
    BY <1>1
  <2> QED BY <2>1, <1>2 DEF Elems
<1>5. Head(s) \in Elems(s)
  BY <1>1, <1>2 DEF Elems
<1>6. Elems(s) \subseteq {Head(s)} \cup Elems(Tail(s))
  BY <1>2, <1>3 DEF Elems
<1>7. Elems(Tail(s)) \subseteq Elems(s)
  BY <1>2, <1>4 DEF Elems
<1> QED BY <1>1, <1>5, <1>6, <1>7

LEMMA ElemsType ==
    ASSUME NEW S, NEW s \in Seq(S)
    PROVE  Elems(s) \subseteq S /\ Elems(<<>>) = {}
BY DEF Elems

LEMMA HeldApart ==
    ASSUME NEW t, NEW u
    PROVE  (Held(t) \cap Held(u) = {}) <=> Apart(t, u)
<1>1. ASSUME Apart(t, u)
      PROVE  Held(t) \cap Held(u) = {}
  BY <1>1 DEF Held, Apart, Touched, Same
<1>2. ASSUME Held(t) \cap Held(u) = {}, NEW e \in Touched(t), NEW f \in Touched(u), Same(e, f)
      PROVE  FALSE
  <2>1. [base |-> e.base, cert |-> e.cert] \in Held(t)
    BY DEF Held, Touched
  <2>2. [base |-> f.base, cert |-> f.cert] \in Held(u)
    BY DEF Held, Touched
  <2>3. [base |-> e.base, cert |-> e.cert] = [base |-> f.base, cert |-> f.cert]
    BY <1>2 DEF Same
  <2> QED BY <1>2, <2>1, <2>2, <2>3
<1> QED BY <1>1, <1>2 DEF Apart

\* New names keep the names apart.
LEMMA AddUnique ==
    ASSUME NEW S, NEW N, Unique(S), Unique(N), \A e \in N, f \in S : ~ Same(e, f)
    PROVE  Unique(S \cup N)
BY DEF Unique, Same

\* The certificates that one import has created.
OneChain(N, b, w) == \A e \in N : e.base = b /\ e.by = w /\ e.chain = {f.cert : f \in N}

\* A chain that is imported to its end is whole.
LEMMA AddWhole ==
    ASSUME NEW S, NEW N, NEW b, NEW w, Whole(S), OneChain(N, b, w)
    PROVE  Whole(S \cup N)
<1>1. ASSUME NEW e \in N, NEW c \in e.chain
      PROVE  \E f \in N : f.base = e.base /\ f.by = e.by /\ f.cert = c
  <2>1. PICK f \in N : f.cert = c
    BY DEF OneChain
  <2> QED BY <2>1 DEF OneChain
<1> QED BY <1>1 DEF Whole

\* No new certificate names one that a running deletion has read.
LEMMA AddClosed ==
    ASSUME NEW S, NEW N, NEW b, NEW w, NEW todo, NEW tx,
           Whole(S), \A e \in N, f \in S : ~ Same(e, f),
           OneChain(N, b, w),
           \A e, f \in S : Links(e, f) /\ Doomed(todo, tx, f) => Doomed(todo, tx, e),
           \A g \in Elems(todo) \cup tx.drop : \E e \in S : Same(e, g),
           NEW e \in S \cup N, NEW f \in S \cup N, Links(e, f), Doomed(todo, tx, f)
    PROVE  Doomed(todo, tx, e)
<1>1. CASE e \in S /\ f \in S
  BY <1>1
<1>2. CASE f \in N
  <2>1. PICK g \in Elems(todo) \cup tx.drop : Same(f, g)
    BY DEF Doomed
  <2>2. PICK h \in S : Same(h, g)
    BY <2>1
  <2>3. Same(f, h)
    BY <2>1, <2>2 DEF Same
  <2> QED BY <1>2, <2>2, <2>3
<1>3. CASE e \in N /\ f \in S
  <2>1. PICK n \in N : n.cert = f.cert
    BY <1>3 DEF Links, OneChain
  <2>2. Same(n, f)
    BY <1>3, <2>1 DEF Links, Same, OneChain
  <2> QED BY <1>3, <2>2
<1> QED BY <1>1, <1>2, <1>3

\* A deletion that is carried out to its end leaves chains whole.
LEMMA DropWhole ==
    ASSUME NEW S, NEW todo, NEW tx, Unique(S), Whole(S), tx.drop \subseteq S,
           Elems(todo) = {},
           \A e, f \in S : Links(e, f) /\ Doomed(todo, tx, f) => Doomed(todo, tx, e)
    PROVE  Whole(S \ tx.drop)
<1>1. SUFFICES ASSUME NEW e \in S \ tx.drop, NEW c \in e.chain
               PROVE  \E f \in S \ tx.drop : f.base = e.base /\ f.by = e.by /\ f.cert = c
  BY DEF Whole
<1>2. PICK f \in S : f.base = e.base /\ f.by = e.by /\ f.cert = c
  BY DEF Whole
<1>3. ASSUME f \in tx.drop
      PROVE  FALSE
  <2>1. Doomed(todo, tx, f)
    BY <1>3 DEF Doomed, Same
  <2>2. Links(e, f)
    BY <1>2 DEF Links
  <2>3. PICK g \in tx.drop : Same(e, g)
    BY <2>1, <2>2 DEF Doomed
  <2> QED BY <2>3 DEF Unique
<1> QED BY <1>2, <1>3

-----------------------------------------------------------------------------
(* Types. *)

TypeA ==
    /\ crA \in A!CrType /\ memA \in A!MemType /\ staleA \in BOOLEAN /\ pcA \in Steps
    /\ openA \in TxType
    /\ todoA \in IF pcA = "drop" THEN Seq(EntryType) ELSE Seq(Blocks)
    /\ pcA \notin {"import", "drop", "endCreate"} => openA = A!NoTx

TypeB ==
    /\ crB \in B!CrType /\ memB \in B!MemType /\ staleB \in BOOLEAN /\ pcB \in Steps
    /\ openB \in TxType
    /\ todoB \in IF pcB = "drop" THEN Seq(EntryType) ELSE Seq(Blocks)
    /\ pcB \notin {"import", "drop", "endCreate"} => openB = B!NoTx

Counters == edits \in Nat /\ faults \in Nat /\ drifts \in Nat

SharedType ==
    /\ secret \in [Secrets -> Chains]
    /\ certs \subseteq EntryType /\ inUse \subseteq [base : Bases, cert : Certs]
    /\ Counters

\* The inductive invariant.
CertInv ==
    /\ TypeA /\ TypeB /\ SharedType /\ Apart(openA, openB)
    /\ TxInv /\ CopyInv /\ ImportInv /\ DropInv /\ GoneInv /\ WholeChains

-----------------------------------------------------------------------------
(* Steps of A. *)

\* What Delete reads are all the rows that the query finds.
LEMMA OrderedA ==
    ASSUME NEW S, IsFiniteSet(S), NEW s \in A!Ordered(S)
    PROVE  s \in Seq(S) /\ Elems(s) = S
<1>1. A!Cardinality(S) = Cardinality(S)
  BY DEF A!Cardinality, Cardinality
<1> DEFINE D == 1..Cardinality(S)
<1>2. Cardinality(S) \in Nat /\ IsFiniteSet(D) /\ Cardinality(D) = Cardinality(S)
  BY FS_CardinalityType, FS_Interval
<1>3. s \in [D -> S] /\ \A i, j \in D : i # j => s[i] # s[j]
  BY <1>1 DEF A!Ordered, A!SetToSeqs
<1>4. s \in Injection(D, S)
  BY <1>3 DEF Injection, IsInjective
<1>5. s \in Surjection(D, S)
  BY <1>2, <1>4, FS_Injection
<1> QED BY <1>2, <1>3, <1>5 DEF Elems, Surjection

LEMMA RestA ==
    ASSUME TypeA
    PROVE  /\ A!NoMem \in A!MemType /\ A!NoTx \in TxType /\ <<>> \in Seq(Blocks)
           /\ A!NoMem.deleting = FALSE
           /\ A!NoTx.add = {} /\ A!NoTx.drop = {}
<1>1. (CHOOSE s \in SpecsA : TRUE) \in SpecsA
  BY DEF TypeA, A!CrType
<1>2. A!NoMem \in A!MemType /\ A!NoMem.deleting = FALSE
  BY <1>1 DEF A!NoMem, A!MemType
<1> QED BY <1>2 DEF A!NoTx, TxType

\* The steps of the reconciler.
LEMMA TypeManagedA ==
    ASSUME TypeA, A!Users \/ A!Reconcile \/ A!ObserveAbsent \/ A!Observe \/ A!RemoveFinalizer
                    \/ A!BeginCreate \/ A!EndCreate
    PROVE  TypeA'
<1> USE RestA
<1>1. CASE A!ObserveFails
  BY <1>1 DEF TypeA, A!ObserveFails, A!Stop, A!own, Steps
<1>2. CASE A!EditSpec
  <2>1. PICK s \in SpecsA : A!Edit(s)
    BY <1>2 DEF A!EditSpec
  <2>2. crA' \in A!CrType
    BY <2>1 DEF TypeA, A!Edit, A!CrType
  <2> QED BY <1>2, <2>1, <2>2 DEF TypeA, A!EditSpec, A!Edit, A!own
<1>3. CASE A!RequestDelete
  <2>1. crA' \in A!CrType
    BY <1>3 DEF TypeA, A!RequestDelete, A!Delete, A!CrType
  <2> QED BY <1>3, <2>1 DEF TypeA, A!RequestDelete, A!Delete, A!own
<1>4. CASE A!Reconcile
  <2>1. memA' \in A!MemType
    BY <1>4 DEF TypeA, A!Reconcile, A!Start, A!CrType, A!MemType
  <2> QED BY <1>4, <2>1 DEF TypeA, A!Reconcile, A!Start, A!own, Steps
<1>5. CASE A!ObserveAbsent
  BY <1>5 DEF TypeA, A!ObserveAbsent, A!NotFound, A!own, Steps
<1>6. CASE A!Observe
  <2>1. crA' \in A!CrType
    BY <1>6 DEF TypeA, A!Observe, A!CrType
  <2> QED BY <1>6, <2>1 DEF TypeA, A!Observe, A!Stop, A!own, Steps
<1>7. CASE A!RemoveFinalizer
  <2>1. crA' \in A!CrType
    BY <1>7 DEF TypeA, A!RemoveFinalizer, A!Release, A!CrType
  <2> QED BY <1>7, <2>1 DEF TypeA, A!RemoveFinalizer, A!Release, A!Stop, A!own, Steps
<1>8. CASE A!BeginCreate
  <2>1. crA' \in A!CrType
    BY <1>8 DEF TypeA, A!BeginCreate, A!Claim, A!CrType
  <2> QED BY <1>8, <2>1 DEF TypeA, A!BeginCreate, A!Claim, A!Stop, A!own, Steps
<1>9. CASE A!EndCreate
  <2>1. crA' \in A!CrType
    BY <1>9 DEF TypeA, A!EndCreate, A!RecordCreate, A!CrType
  <2> QED BY <1>9, <2>1 DEF TypeA, A!EndCreate, A!RecordCreate, A!Stop, A!Rollback, Steps
<1> QED BY <1>1, <1>2, <1>3, <1>4, <1>5, <1>6, <1>7, <1>8, <1>9 DEF A!Users

\* Create and Delete.
LEMMA TypeClientA ==
    ASSUME TypeA, SharedType, IsFiniteSet(certs), Copy(crA, staleA, pcA, memA),
           A!GetCertificatePEM \/ A!CreateCertificate \/ A!CreateFails
             \/ A!ReadBeforeDelete \/ A!DropCertificate \/ A!DropFails \/ A!Commit
    PROVE  TypeA'
<1> USE RestA
<1>1. CASE A!GetCertificatePEM
  <2>1. memA.spec.secret \in Secrets
    BY CertificateAssumption DEF TypeA, A!MemType
  <2>2. secret[memA.spec.secret] \in Chains
    BY <2>1 DEF SharedType
  <2>3. A!SplitPEMChain(secret[memA.spec.secret]) => secret[memA.spec.secret] \in Seq(Blocks)
    BY <2>2, CertificateAssumption DEF A!SplitPEMChain
  <2> QED BY <1>1, <2>3 DEF TypeA, A!GetCertificatePEM, A!Return, A!Stop, Steps
<1>2. CASE A!CreateCertificate
  <2>1. todoA \in Seq(Blocks) /\ todoA # <<>>
    BY <1>2 DEF TypeA, A!CreateCertificate
  <2>2. Head(todoA) \in Certs /\ Tail(todoA) \in Seq(Blocks) /\ Elems(todoA) \subseteq Blocks
    BY <1>2, <2>1, TailElems, ElemsType DEF A!CreateCertificate, A!Accepts
  <2>3. Sanitized[memA.spec.name] \in Bases
    BY CertificateAssumption DEF TypeA, A!MemType
  <2>4. {e.cert : e \in openA.add} \subseteq Blocks
    <3>1. openA.add \subseteq EntryType
      BY DEF TypeA, TxType
    <3>2. \A e \in openA.add : e.cert \in Blocks
      BY <3>1, CertificateAssumption DEF EntryType
    <3> QED BY <3>2
  <2>5. A!Entry(Head(todoA)) \in EntryType
    BY <2>2, <2>3, <2>4 DEF A!Entry, EntryType, A!ToSet, Elems
  <2>6. openA' \in TxType
    BY <1>2, <2>5 DEF TypeA, A!CreateCertificate, TxType
  <2> QED BY <1>2, <2>2, <2>6 DEF TypeA, A!CreateCertificate, Steps
<1>3. CASE A!CreateFails
  BY <1>3 DEF TypeA, Copy, A!CreateFails, A!Return, A!Stop, Steps
<1>4. CASE A!ReadBeforeDelete
  <2>1. IsFiniteSet(A!Read(memA.spec)) /\ A!Read(memA.spec) \subseteq EntryType
    BY FS_Subset DEF A!Read, SharedType
  <2>2. \A s \in A!Ordered(A!Read(memA.spec)) : s \in Seq(EntryType)
    <3>1. Seq(A!Read(memA.spec)) \subseteq Seq(EntryType)
      BY <2>1
    <3> QED BY <2>1, <3>1, OrderedA
  <2> QED BY <1>4, <2>2 DEF TypeA, A!ReadBeforeDelete, A!Stop, Steps
<1>5. CASE A!DropCertificate
  <2>1. Tail(todoA) \in Seq(EntryType)
    BY <1>5, TailElems DEF TypeA, A!DropCertificate
  <2>2. openA' \in TxType
    BY <1>5 DEF TypeA, SharedType, A!DropCertificate, TxType
  <2> QED BY <1>5, <2>1, <2>2 DEF TypeA, A!DropCertificate
<1>6. CASE A!DropFails
  BY <1>6 DEF TypeA, A!DropFails, A!Stop, A!Rollback, Steps
<1>7. CASE A!Commit
  BY <1>7 DEF TypeA, A!Commit, A!Return, A!Stop, A!Rollback, Steps
<1> QED BY <1>1, <1>2, <1>3, <1>4, <1>5, <1>6, <1>7

LEMMA SharedTypeStepA ==
    ASSUME TypeA, SharedType, A!Controller \/ A!Users, UNCHANGED drifts
    PROVE  SharedType'
<1>1. ASSUME ~ A!Commit
      PROVE  UNCHANGED <<secret, certs, inUse>>
  BY <1>1 DEF A!Controller, A!Users, A!own, A!Reconcile, A!ObserveAbsent, A!Observe,
       A!RemoveFinalizer, A!BeginCreate, A!GetCertificatePEM, A!CreateCertificate, A!CreateFails,
       A!EndCreate, A!ReadBeforeDelete, A!DropCertificate, A!DropFails, A!ObserveFails,
       A!EditSpec, A!RequestDelete
<1>2. ASSUME A!Commit
      PROVE  certs' \subseteq EntryType /\ UNCHANGED <<secret, inUse>>
  BY <1>2 DEF A!Commit, A!Committed, TypeA, TxType, SharedType
<1>3. /\ edits' \in {edits, edits + 1}
      /\ faults' \in {faults, faults + 1}
  BY DEF A!Controller, A!Users, A!Reconcile, A!Start, A!ObserveAbsent, A!NotFound, A!Observe,
       A!RemoveFinalizer, A!Release, A!BeginCreate, A!GetCertificatePEM, A!CreateCertificate,
       A!CreateFails, A!EndCreate, A!RecordCreate, A!ReadBeforeDelete, A!DropCertificate,
       A!DropFails, A!Commit, A!ObserveFails, A!EditSpec, A!Edit, A!RequestDelete, A!Delete,
       A!Fault, A!Edited
<1> QED BY <1>1, <1>2, <1>3 DEF SharedType, Counters

LEMMA CopyStepA ==
    ASSUME TypeA, Copy(crA, staleA, pcA, memA), A!Controller \/ A!Users
    PROVE  /\ Copy(crA, staleA, pcA, memA)'
           /\ Leaving(crA, pcA, memA) => Leaving(crA, pcA, memA)'
<1> USE RestA DEF Copy, Leaving
<1>1. CASE A!ObserveFails
  BY <1>1 DEF A!ObserveFails, A!Stop
<1>2. CASE A!EditSpec
  <2>1. PICK s \in SpecsA : A!Edit(s)
    BY <1>2 DEF A!EditSpec
  <2> QED BY <2>1 DEF TypeA, A!Edit, A!CrType
<1>3. CASE A!RequestDelete
  BY <1>3 DEF TypeA, A!RequestDelete, A!Delete, A!CrType
<1>4. CASE A!Reconcile
  BY <1>4 DEF A!Reconcile, A!Start
<1>5. CASE A!ObserveAbsent
  BY <1>5 DEF A!ObserveAbsent, A!NotFound
<1>6. CASE A!Observe
  BY <1>6 DEF TypeA, A!Observe, A!FinalizerRefused, A!Stop, A!CrType
<1>7. CASE A!RemoveFinalizer
  BY <1>7 DEF TypeA, A!RemoveFinalizer, A!Release, A!Stop, A!CrType
<1>8. CASE A!BeginCreate
  BY <1>8 DEF TypeA, A!BeginCreate, A!Claim, A!Stop, A!CrType
<1>9. CASE A!EndCreate
  BY <1>9 DEF TypeA, A!EndCreate, A!RecordCreate, A!Stop, A!CrType
<1>10. CASE A!GetCertificatePEM
  BY <1>10 DEF A!GetCertificatePEM, A!Return, A!Stop
<1>11. CASE A!CreateCertificate \/ A!DropCertificate
  BY <1>11 DEF A!CreateCertificate, A!DropCertificate
<1>12. CASE A!CreateFails
  BY <1>12 DEF A!CreateFails, A!Return, A!Stop
<1>13. CASE A!ReadBeforeDelete
  BY <1>13 DEF A!ReadBeforeDelete, A!Stop
<1>14. CASE A!DropFails
  BY <1>14 DEF A!DropFails, A!Stop
<1>15. CASE A!Commit
  BY <1>15 DEF A!Commit, A!Committing, A!Return, A!Stop
<1> QED BY <1>1, <1>2, <1>3, <1>4, <1>5, <1>6, <1>7, <1>8, <1>9, <1>10, <1>11, <1>12, <1>13,
           <1>14, <1>15 DEF A!Controller, A!Users

\* A step that changes neither the certificates nor what A is about to do to them.
QuietA ==
    /\ certs' = certs
    /\ \/ UNCHANGED <<pcA, memA, todoA, openA>>
       \/ pcA' \notin {"import", "drop"} /\ openA' = A!NoTx
       \/ pcA = "import" /\ pcA' = "endCreate" /\ openA' = openA

LEMMA QuietStepA ==
    ASSUME TypeA, Copy(crA, staleA, pcA, memA), A!Controller \/ A!Users,
           ~ (A!GetCertificatePEM \/ A!CreateCertificate \/ A!ReadBeforeDelete
                \/ A!DropCertificate \/ A!Commit)
    PROVE  QuietA
<1> USE DEF QuietA, A!own
<1>1. CASE A!ObserveFails
  BY <1>1 DEF TypeA, A!ObserveFails, A!Stop
<1>2. CASE A!EditSpec \/ A!RequestDelete
  BY <1>2 DEF A!EditSpec, A!Edit, A!RequestDelete, A!Delete
<1>3. CASE A!Reconcile
  BY <1>3 DEF TypeA, A!Reconcile, A!Start
<1>4. CASE A!ObserveAbsent \/ A!Observe
  BY <1>4 DEF TypeA, A!ObserveAbsent, A!NotFound, A!Observe, A!Stop
<1>5. CASE A!RemoveFinalizer \/ A!BeginCreate
  BY <1>5 DEF TypeA, A!RemoveFinalizer, A!Release, A!BeginCreate, A!Stop
<1>6. CASE A!EndCreate
  BY <1>6 DEF A!EndCreate, A!RecordCreate, A!Stop, A!Rollback
<1>7. CASE A!CreateFails
  BY <1>7 DEF Copy, A!CreateFails, A!Return
<1>8. CASE A!DropFails
  BY <1>8 DEF A!DropFails, A!Stop, A!Rollback
<1> QED BY <1>1, <1>2, <1>3, <1>4, <1>5, <1>6, <1>7, <1>8 DEF A!Controller, A!Users

\* What a step of A does not disturb when it leaves the certificates alone.
LEMMA FrameB ==
    ASSUME TypeB, Pending(openB), Import("B", pcB, memB, todoB, openB), Gone("B", pcB, memB),
           certs' = certs, UNCHANGED ownB
    PROVE  /\ TypeB' /\ Pending(openB)' /\ Import("B", pcB, memB, todoB, openB)'
           /\ Gone("B", pcB, memB)'
BY DEF ownB, TypeB, Pending, Unique, Import, Gone

LEMMA FrameDropB ==
    ASSUME Drop(pcB, todoB, openB, Leaving(crA, pcA, memA)),
           Leaving(crA, pcA, memA) => Leaving(crA, pcA, memA)',
           certs' = certs, UNCHANGED ownB
    PROVE  Drop(pcB, todoB, openB, Leaving(crA, pcA, memA))'
<1>1. pcB' = pcB /\ todoB' = todoB /\ openB' = openB
  BY DEF ownB
<1> QED BY <1>1 DEF Drop, Doomed

\* A has read what Like matches: with every row, all rows of the same base.
LEMMA ReadStepA ==
    ASSUME TypeA, SharedType, IsFiniteSet(certs), Import("A", pcA, memA, todoA, openA),
           A!ReadBeforeDelete
    PROVE  /\ Import("A", pcA, memA, todoA, openA)'
           /\ Drop(pcA, todoA, openA, Leaving(crB, pcB, memB))'
           /\ openA' = openA /\ certs' = certs
<1>0. pcA = "delete" /\ openA = A!NoTx /\ openA' = openA /\ certs' = certs
  BY DEF A!ReadBeforeDelete, TypeA
<1>1. CASE A!Read(memA.spec) = {}
  <2>1. pcA' = "idle"
    BY <1>1 DEF A!ReadBeforeDelete, A!Stop
  <2> QED BY <1>0, <2>1, RestA DEF Import, Drop
<1>2. CASE A!Read(memA.spec) # {}
  <2>1. pcA' = "drop" /\ todoA' \in A!Ordered(A!Read(memA.spec))
    BY <1>2 DEF A!ReadBeforeDelete
  <2>2. IsFiniteSet(A!Read(memA.spec))
    BY FS_Subset DEF A!Read
  <2>3. Elems(todoA') = A!Read(memA.spec)
    BY <2>1, <2>2, OrderedA
  <2>4. \A f : Doomed(todoA', openA', f) <=> \E g \in A!Read(memA.spec) : Same(f, g)
    BY <1>0, <2>3, RestA DEF Doomed
  <2>5. ASSUME NEW e \in certs, NEW f \in certs, Links(e, f), Doomed(todoA', openA', f)
        PROVE  Doomed(todoA', openA', e)
    <3>1. PICK g \in A!Read(memA.spec) : Same(f, g)
      BY <2>4, <2>5
    <3>2. e \in A!Read(memA.spec)
      BY <2>5, <3>1 DEF A!Read, Same, Links
    <3> QED BY <2>4, <3>2 DEF Same
  <2>6. \A g \in Elems(todoA') : \E e \in certs : Same(e, g)
    BY <2>3 DEF A!Read, Same
  <2>7. Drop(pcA, todoA, openA, Leaving(crB, pcB, memB))'
    BY <1>0, <2>5, <2>6 DEF Drop
  <2> QED BY <1>0, <2>1, <2>7, RestA DEF Import
<1> QED BY <1>1, <1>2

\* The next certificate of the chain.
LEMMA CreateStepA ==
    ASSUME TypeA, TypeB, TxInv, Import("A", pcA, memA, todoA, openA), Apart(openA, openB),
           A!CreateCertificate, openB' = openB
    PROVE  /\ Import("A", pcA, memA, todoA, openA)' /\ Pending(openA)' /\ Apart(openA, openB)'
           /\ pcA' = "import" /\ certs' = certs
<1> DEFINE n == A!Entry(Head(todoA))
<1>1. /\ pcA = "import" /\ pcA' = "import" /\ todoA # <<>> /\ todoA \in Seq(Blocks)
      /\ certs' = certs /\ memA' = memA /\ todoA' = Tail(todoA)
      /\ openA' = [openA EXCEPT !.add = openA.add \cup {n}]
  BY DEF A!CreateCertificate, TypeA
<1>2. openA'.add = openA.add \cup {n} /\ openA'.drop = {} /\ openA.drop = {}
  BY <1>1 DEF TypeA, TxType, Import
<1>3. /\ n.base = Sanitized[memA.spec.name] /\ n.by = "A" /\ n.cert = Head(todoA)
      /\ n.chain = Elems(todoA) \cup {e.cert : e \in openA.add}
  BY DEF A!Entry, A!ToSet, Elems
<1>4. Elems(todoA) = {n.cert} \cup Elems(todoA')
  BY <1>1, <1>3, TailElems
<1>5. {f.cert : f \in openA'.add} = {n.cert} \cup {f.cert : f \in openA.add}
  BY <1>2
<1>6. \A e \in openA'.add :
        /\ e.base = Sanitized[memA'.spec.name] /\ e.by = "A"
        /\ e.chain = Elems(todoA') \cup {f.cert : f \in openA'.add}
  <2>1. n.chain = Elems(todoA') \cup {f.cert : f \in openA'.add}
    BY <1>3, <1>4, <1>5
  <2>2. \A e \in openA.add : /\ e.base = Sanitized[memA.spec.name] /\ e.by = "A"
                             /\ e.chain = Elems(todoA) \cup {f.cert : f \in openA.add}
    BY <1>1 DEF Import
  <2>3. \A e \in openA.add : e.chain = n.chain
    BY <1>3, <2>2
  <2> QED BY <1>1, <1>2, <1>3, <2>1, <2>2, <2>3
<1>7. Import("A", pcA, memA, todoA, openA)'
  BY <1>1, <1>2, <1>6 DEF Import
<1>8. \A f \in certs \cup openA.add : ~ Same(n, f)
  <2>1. A!CertName(memA.spec, Head(todoA)) \notin {A!Name(e) : e \in certs \cup openA.add}
    BY DEF A!CreateCertificate, A!Accepts
  <2> QED BY <1>3, <2>1 DEF A!CertName, A!Name, Same
<1>9. \A f \in Touched(openB) : ~ Same(n, f)
  <2>1. A!CertName(memA.spec, Head(todoA)) \notin Held(openB)
    BY DEF A!CreateCertificate
  <2> QED BY <1>3, <2>1 DEF A!CertName, Held, Touched, Same
<1>10. IsFiniteSet(openA'.add)
  BY <1>2, FS_AddElement DEF TxInv, Pending
<1>11. Pending(openA)'
  <2>1. Unique(openA'.add)
    <3>1. Unique(openA.add)
      BY DEF TxInv, Pending
    <3> QED BY <1>2, <1>8, <3>1 DEF Unique, Same
  <2>2. \A e \in openA'.add, f \in certs' : ~ Same(e, f)
    BY <1>1, <1>2, <1>8 DEF TxInv, Pending
  <2> QED BY <1>2, <1>10, <2>1, <2>2 DEF Pending
<1>12. Apart(openA, openB)'
  BY <1>2, <1>9 DEF Apart, Touched, Same
<1> QED BY <1>1, <1>7, <1>11, <1>12

\* The next name that was read.
LEMMA DropStepA ==
    ASSUME TypeA, TypeB, TxInv, Import("A", pcA, memA, todoA, openA), Apart(openA, openB),
           A!DropCertificate, openB' = openB
    PROVE  /\ Import("A", pcA, memA, todoA, openA)' /\ Pending(openA)' /\ Apart(openA, openB)'
           /\ pcA = "drop" /\ pcA' = "drop" /\ certs' = certs
           /\ Elems(todoA') \subseteq Elems(todoA)
           /\ \A e \in certs : Doomed(todoA', openA', e) <=> Doomed(todoA, openA, e)
<1> DEFINE n == Head(todoA)
           R == {e \in certs : A!Name(e) = A!Name(n)}
<1>1. /\ pcA = "drop" /\ pcA' = "drop" /\ todoA # <<>> /\ todoA \in Seq(EntryType)
      /\ certs' = certs /\ todoA' = Tail(todoA)
      /\ openA' = [openA EXCEPT !.drop = openA.drop \cup R]
  BY DEF A!DropCertificate, TypeA
<1>2. openA'.drop = openA.drop \cup R /\ openA'.add = {} /\ openA.add = {}
  BY <1>1 DEF TypeA, TxType, Import
<1>3. Elems(todoA) = {n} \cup Elems(todoA')
  BY <1>1, TailElems
<1>4. \A e \in certs : e \in R <=> Same(e, n)
  BY DEF A!Name, Same
<1>5. \E e \in R : Same(e, n)
  <2>1. A!Name(n) \in {A!Name(f) : f \in certs}
    BY DEF A!DropCertificate, A!Droppable
  <2>2. PICK f \in certs : A!Name(f) = A!Name(n)
    BY <2>1
  <2> QED BY <2>2, <1>4
<1>6. ASSUME NEW e \in certs
      PROVE  Doomed(todoA', openA', e) <=> Doomed(todoA, openA, e)
  <2>1. ASSUME Doomed(todoA, openA, e)
        PROVE  Doomed(todoA', openA', e)
    <3>1. PICK g \in Elems(todoA) \cup openA.drop : Same(e, g)
      BY <2>1 DEF Doomed
    <3>2. CASE g = n
      BY <1>2, <1>4, <3>1, <3>2 DEF Doomed, Same
    <3>3. CASE g # n
      BY <1>2, <1>3, <3>1, <3>3 DEF Doomed
    <3> QED BY <3>2, <3>3
  <2>2. ASSUME Doomed(todoA', openA', e)
        PROVE  Doomed(todoA, openA, e)
    <3>1. PICK g \in Elems(todoA') \cup openA'.drop : Same(e, g)
      BY <2>2 DEF Doomed
    <3>2. CASE g \in R
      <4>1. Same(e, n)
        BY <1>4, <3>1, <3>2 DEF Same
      <4> QED BY <1>3, <4>1 DEF Doomed
    <3>3. CASE g \notin R
      BY <1>2, <1>3, <3>1, <3>3 DEF Doomed
    <3> QED BY <3>2, <3>3
  <2> QED BY <2>1, <2>2
<1>7. Import("A", pcA, memA, todoA, openA)'
  BY <1>1, <1>2 DEF Import
<1>8. Pending(openA)'
  BY <1>1, <1>2, FS_EmptySet DEF TxInv, Pending, Unique
<1>9. \A f \in Touched(openB) : ~ Same(n, f)
  <2>1. A!Name(n) \notin Held(openB)
    BY DEF A!DropCertificate
  <2> QED BY <2>1 DEF A!Name, Held, Touched, Same
<1>10. Apart(openA, openB)'
  BY <1>2, <1>4, <1>9 DEF Apart, Touched, Same
<1> QED BY <1>1, <1>3, <1>6, <1>7, <1>8, <1>10

\* What a transaction of A that is carried out does to the certificates, and to those
\* that B is about to create or to drop.
LEMMA CommittedA ==
    ASSUME TypeA, TypeB, TxInv, Apart(openA, openB), Import("A", pcA, memA, todoA, openA),
           WholeChains, drifts = 0 => Drop(pcA, todoA, openA, Leaving(crB, pcB, memB)),
           A!Committing, certs' = A!Committed(certs, openA)
    PROVE  /\ IsFiniteSet(certs') /\ Unique(certs')
           /\ drifts = 0 => Whole(certs')
           /\ \A e \in openB.add, f \in certs' : ~ Same(e, f)
           /\ openB.drop \subseteq certs'
<1>0. pcA \in {"import", "drop"} /\ todoA = <<>> /\ Elems(todoA) = {}
  BY DEF A!Committing, Elems
<1>1. CASE pcA = "import"
  <2>1. certs' = certs \cup openA.add
    BY <1>1 DEF A!Committed, Import
  <2>2. OneChain(openA.add, Sanitized[memA.spec.name], "A")
    BY <1>0, <1>1 DEF Import, OneChain
  <2>3. Unique(certs')
    BY <2>1, AddUnique DEF TxInv, Pending
  <2>4. IsFiniteSet(certs')
    BY <2>1, FS_Union DEF TxInv, Pending
  <2>5. ASSUME drifts = 0
        PROVE  Whole(certs')
    <3>1. Whole(certs)
      BY <2>5 DEF WholeChains, Whole
    <3> QED BY <2>1, <2>2, <3>1, AddWhole
  <2>6. \A e \in openB.add, f \in certs' : ~ Same(e, f)
    BY <2>1 DEF TxInv, Pending, Apart, Touched, Same
  <2>7. openB.drop \subseteq certs'
    BY <2>1 DEF TxInv, Pending
  <2> QED BY <2>3, <2>4, <2>5, <2>6, <2>7
<1>2. CASE pcA = "drop"
  <2>1. certs' = certs \ openA.drop
    BY <1>2 DEF A!Committed, Import
  <2>2. IsFiniteSet(certs') /\ Unique(certs')
    BY <2>1, FS_Subset DEF TxInv, Unique
  <2>3. ASSUME drifts = 0
        PROVE  Whole(certs')
    <3>1. Whole(certs)
      BY <2>3 DEF WholeChains, Whole
    <3>2. \A e, f \in certs : Links(e, f) /\ Doomed(todoA, openA, f) => Doomed(todoA, openA, e)
      BY <1>2, <2>3 DEF Drop
    <3>3. Unique(certs) /\ openA.drop \subseteq certs
      BY DEF TxInv, Pending
    <3> QED BY <1>0, <2>1, <3>1, <3>2, <3>3, DropWhole
  <2>4. \A e \in openB.add, f \in certs' : ~ Same(e, f)
    BY <2>1 DEF TxInv, Pending
  <2>5. openB.drop \subseteq certs'
    <3>1. \A f \in openB.drop : f \in certs /\ f \notin openA.drop
      BY DEF TxInv, Pending, Apart, Touched, Same
    <3> QED BY <2>1, <3>1
  <2> QED BY <2>2, <2>3, <2>4, <2>5
<1> QED BY <1>0, <1>1, <1>2

\* What B has read stays whole under it.
LEMMA CommitDropB ==
    ASSUME TypeA, TypeB, TxInv, Import("A", pcA, memA, todoA, openA), Copy(crA, staleA, pcA, memA),
           drifts = 0, WholeChains, Drop(pcB, todoB, openB, Leaving(crA, pcA, memA)),
           A!Commit, certs' = A!Committed(certs, openA), UNCHANGED ownB
    PROVE  Drop(pcB, todoB, openB, Leaving(crA, pcA, memA))'
<1>0. /\ pcA \in {"import", "drop"} /\ todoA = <<>> /\ Elems(todoA) = {}
      /\ pcB' = pcB /\ todoB' = todoB /\ openB' = openB
  BY DEF A!Commit, A!Committing, Elems, ownB
<1>1. SUFFICES ASSUME pcB = "drop"
               PROVE  Drop(pcB, todoB, openB, Leaving(crA, pcA, memA))'
  BY <1>0 DEF Drop
<1>2. \A e, f \in certs : Links(e, f) /\ Doomed(todoB, openB, f) => Doomed(todoB, openB, e)
  BY <1>1 DEF Drop
<1>3. CASE pcA = "import"
  <2>1. certs' = certs \cup openA.add
    BY <1>3 DEF A!Committed, Import
  <2>2. OneChain(openA.add, Sanitized[memA.spec.name], "A")
    BY <1>0, <1>3 DEF Import, OneChain
  <2>3. ~ Leaving(crA, pcA, memA)
    BY <1>3 DEF Leaving, Copy
  <2>4. \A g \in Elems(todoB) : \E e \in certs : Same(e, g)
    BY <1>1, <2>3 DEF Drop
  <2>5. \A g \in openB.drop : \E e \in certs : Same(e, g)
    BY DEF TxInv, Pending, Same
  <2>6. Whole(certs) /\ \A e \in openA.add, f \in certs : ~ Same(e, f)
    BY DEF WholeChains, Whole, TxInv, Pending
  <2>7. \A e, f \in certs' : Links(e, f) /\ Doomed(todoB, openB, f) => Doomed(todoB, openB, e)
    BY <1>2, <2>1, <2>2, <2>4, <2>5, <2>6, AddClosed
  <2>8. \A g \in Elems(todoB) : \E e \in certs' : Same(e, g)
    BY <2>1, <2>4
  <2> QED BY <1>0, <2>7, <2>8 DEF Drop
<1>4. CASE pcA = "drop"
  <2>1. certs' \subseteq certs
    BY <1>4 DEF A!Committed, Import
  <2>2. Leaving(crA, pcA, memA)'
    BY <1>4 DEF A!Commit, A!Return, A!Stop, Copy, Leaving
  <2>3. \A e, f \in certs' : Links(e, f) /\ Doomed(todoB, openB, f) => Doomed(todoB, openB, e)
    BY <1>2, <2>1
  <2> QED BY <1>0, <2>2, <2>3 DEF Drop
<1> QED BY <1>0, <1>3, <1>4

LEMMA GoneStepA ==
    ASSUME Gone("A", pcA, memA), Copy(crA, staleA, pcA, memA), A!Controller \/ A!Users
    PROVE  Gone("A", pcA, memA)'
<1>1. CASE A!ObserveAbsent
  BY <1>1 DEF A!ObserveAbsent, A!NotFound, A!Read, A!own, Gone
<1>2. CASE A!EditSpec \/ A!RequestDelete
  BY <1>2 DEF A!EditSpec, A!Edit, A!RequestDelete, A!Delete, A!own, Gone
<1>3. CASE ~ (A!ObserveAbsent \/ A!EditSpec \/ A!RequestDelete)
  <2>1. pcA' # "removeFinalizer"
    BY <1>3 DEF A!Controller, A!Users, A!Reconcile, A!Start, A!Observe, A!RemoveFinalizer,
         A!Release, A!BeginCreate, A!GetCertificatePEM, A!CreateCertificate, A!CreateFails,
         A!EndCreate, A!RecordCreate, A!ReadBeforeDelete, A!DropCertificate, A!DropFails,
         A!Commit, A!ObserveFails, A!Stop, A!Return
  <2> QED BY <2>1 DEF Gone
<1> QED BY <1>1, <1>2, <1>3

LEMMA StepAInv ==
    ASSUME CertInv, A!Controller \/ A!Users, UNCHANGED <<ownB, drifts>>
    PROVE  CertInv'
<1>0. /\ TypeA /\ TypeB /\ SharedType /\ TxInv /\ WholeChains
      /\ Copy(crA, staleA, pcA, memA) /\ Copy(crB, staleB, pcB, memB)
      /\ Import("A", pcA, memA, todoA, openA) /\ Import("B", pcB, memB, todoB, openB)
      /\ Gone("A", pcA, memA) /\ Gone("B", pcB, memB)
      /\ Pending(openA) /\ Pending(openB) /\ IsFiniteSet(certs) /\ Unique(certs)
      /\ Apart(openA, openB) /\ DropInv /\ drifts' = drifts /\ UNCHANGED ownB /\ openB' = openB
  BY DEF CertInv, TxInv, CopyInv, ImportInv, GoneInv, ownB
<1>1. TypeA' /\ SharedType'
  <2>1. TypeA'
    BY <1>0, TypeManagedA, TypeClientA DEF A!Controller
  <2> QED BY <1>0, <2>1, SharedTypeStepA
<1>2. /\ Copy(crA, staleA, pcA, memA)' /\ Gone("A", pcA, memA)'
      /\ Leaving(crA, pcA, memA) => Leaving(crA, pcA, memA)'
  BY <1>0, CopyStepA, GoneStepA
<1>3. Copy(crB, staleB, pcB, memB)' /\ (Leaving(crB, pcB, memB)' <=> Leaving(crB, pcB, memB))
  BY <1>0 DEF ownB, Copy, Leaving
<1>4. ASSUME certs' = certs, Import("A", pcA, memA, todoA, openA)', Pending(openA)',
             Apart(openA, openB)',
             drifts = 0 => Drop(pcA, todoA, openA, Leaving(crB, pcB, memB))'
      PROVE  CertInv'
  <2>1. /\ TypeB' /\ Pending(openB)' /\ Import("B", pcB, memB, todoB, openB)'
        /\ Gone("B", pcB, memB)'
    BY <1>0, <1>4, FrameB
  <2>2. ASSUME drifts = 0
        PROVE  Drop(pcB, todoB, openB, Leaving(crA, pcA, memA))'
    <3>1. Drop(pcB, todoB, openB, Leaving(crA, pcA, memA))
      BY <1>0, <2>2 DEF DropInv
    <3> QED BY <1>0, <1>2, <1>4, <3>1, FrameDropB
  <2>3. DropInv'
    BY <1>0, <1>4, <2>2 DEF DropInv
  <2>4. TxInv'
    BY <1>0, <1>4, <2>1 DEF TxInv, Unique
  <2>5. WholeChains'
    BY <1>0, <1>4 DEF WholeChains
  <2> QED BY <1>1, <1>2, <1>3, <1>4, <2>1, <2>3, <2>4, <2>5
          DEF CertInv, CopyInv, ImportInv, GoneInv
<1>5. CASE QuietA
  <2>0. A!NoTx.add = {} /\ A!NoTx.drop = {} /\ certs' = certs
    BY <1>0, <1>5, RestA DEF QuietA
  <2>1. Pending(openA)' /\ Apart(openA, openB)'
    BY <1>0, <1>5, <2>0, FS_EmptySet DEF QuietA, Pending, Unique, Apart, Touched
  <2>2. Import("A", pcA, memA, todoA, openA)'
    BY <1>0, <1>5, <2>0 DEF QuietA, Import
  <2>3. ASSUME drifts = 0
        PROVE  Drop(pcA, todoA, openA, Leaving(crB, pcB, memB))'
    <3>1. CASE pcA' # "drop"
      BY <3>1 DEF Drop
    <3>2. CASE pcA' = "drop"
      <4>1. UNCHANGED <<pcA, memA, todoA, openA, certs>>
        BY <1>5, <3>2 DEF QuietA
      <4>2. Drop(pcA, todoA, openA, Leaving(crB, pcB, memB))
        BY <1>0, <2>3 DEF DropInv
      <4> QED BY <1>3, <4>1, <4>2 DEF Drop, Doomed
    <3> QED BY <3>1, <3>2
  <2> QED BY <1>4, <2>0, <2>1, <2>2, <2>3
<1>6. CASE A!GetCertificatePEM
  <2>1. /\ pcA' \in {"import", "endCreate"} /\ openA = A!NoTx /\ openA' = openA /\ certs' = certs
    BY <1>0, <1>6 DEF A!GetCertificatePEM, A!Return, TypeA, Copy
  <2>2. Import("A", pcA, memA, todoA, openA)'
    BY <1>0, <2>1, RestA DEF Import
  <2>3. Pending(openA)' /\ Apart(openA, openB)'
    BY <1>0, <2>1 DEF Pending, Unique, Apart, Touched
  <2>4. Drop(pcA, todoA, openA, Leaving(crB, pcB, memB))'
    BY <2>1 DEF Drop
  <2> QED BY <1>4, <2>1, <2>2, <2>3, <2>4
<1>7. CASE A!CreateCertificate
  <2>1. Drop(pcA, todoA, openA, Leaving(crB, pcB, memB))'
    BY <1>0, <1>7, CreateStepA DEF Drop
  <2> QED BY <1>0, <1>4, <1>7, <2>1, CreateStepA
<1>8. CASE A!ReadBeforeDelete
  <2>1. /\ Import("A", pcA, memA, todoA, openA)' /\ openA' = openA /\ certs' = certs
        /\ Drop(pcA, todoA, openA, Leaving(crB, pcB, memB))'
    BY <1>0, <1>8, ReadStepA
  <2>2. Pending(openA)' /\ Apart(openA, openB)'
    BY <1>0, <2>1 DEF Pending, Unique, Apart, Touched
  <2> QED BY <1>4, <2>1, <2>2
<1>9. CASE A!DropCertificate
  <2>1. /\ Import("A", pcA, memA, todoA, openA)' /\ Pending(openA)' /\ Apart(openA, openB)'
        /\ pcA = "drop" /\ pcA' = "drop" /\ certs' = certs
        /\ Elems(todoA') \subseteq Elems(todoA)
        /\ \A e \in certs : Doomed(todoA', openA', e) <=> Doomed(todoA, openA, e)
    BY <1>0, <1>9, DropStepA
  <2>2. ASSUME drifts = 0
        PROVE  Drop(pcA, todoA, openA, Leaving(crB, pcB, memB))'
    <3>1. Drop(pcA, todoA, openA, Leaving(crB, pcB, memB))
      BY <1>0, <2>2 DEF DropInv
    <3> QED BY <1>3, <2>1, <3>1 DEF Drop
  <2> QED BY <1>4, <2>1, <2>2
<1>10. CASE A!Commit /\ certs' = certs
  <2>1. QuietA
    BY <1>10 DEF QuietA, A!Commit, A!Return, A!Stop, A!Rollback
  <2> QED BY <1>5, <2>1
<1>11. CASE A!Commit /\ certs' = A!Committed(certs, openA)
  <2>1. drifts = 0 => /\ Drop(pcA, todoA, openA, Leaving(crB, pcB, memB))
                      /\ Drop(pcB, todoB, openB, Leaving(crA, pcA, memA))
    BY <1>0 DEF DropInv
  <2>2. A!Committing /\ pcA' \in {"endCreate", "idle"} /\ openA' = A!NoTx
    BY <1>11 DEF A!Commit, A!Return, A!Stop, A!Rollback
  <2>3. /\ IsFiniteSet(certs') /\ Unique(certs')
        /\ drifts = 0 => Whole(certs')
        /\ \A e \in openB.add, f \in certs' : ~ Same(e, f)
        /\ openB.drop \subseteq certs'
    BY <1>0, <1>11, <2>1, <2>2, CommittedA
  <2>4. drifts = 0 => Drop(pcB, todoB, openB, Leaving(crA, pcA, memA))'
    BY <1>0, <1>11, <2>1, CommitDropB
  <2>5. drifts = 0 => Drop(pcA, todoA, openA, Leaving(crB, pcB, memB))'
    BY <2>2 DEF Drop
  <2>6. DropInv' /\ WholeChains'
    BY <1>0, <2>3, <2>4, <2>5 DEF DropInv, WholeChains, Whole
  <2>7. A!NoTx.add = {} /\ A!NoTx.drop = {}
    BY <1>0, RestA
  <2>8. Pending(openA)' /\ Import("A", pcA, memA, todoA, openA)' /\ Apart(openA, openB)'
    BY <2>2, <2>7, FS_EmptySet DEF Pending, Unique, Import, Apart, Touched
  <2>9. Pending(openB)' /\ TypeB' /\ Import("B", pcB, memB, todoB, openB)'
    BY <1>0, <2>3 DEF Pending, Unique, TypeB, Import, ownB
  <2>10. Gone("B", pcB, memB)'
    <3>1. \A e \in certs' : e \in certs \/ e.by = "A"
      BY <1>0, <1>11 DEF A!Committed, Import
    <3>2. pcB' = pcB /\ memB' = memB
      BY <1>0 DEF ownB
    <3> QED BY <1>0, <3>1, <3>2 DEF Gone
  <2>11. TxInv'
    BY <2>3, <2>8, <2>9 DEF TxInv
  <2> QED BY <1>1, <1>2, <1>3, <2>6, <2>8, <2>9, <2>10, <2>11
          DEF CertInv, CopyInv, ImportInv, GoneInv
<1>12. CASE ~ (A!GetCertificatePEM \/ A!CreateCertificate \/ A!ReadBeforeDelete
                \/ A!DropCertificate \/ A!Commit)
  BY <1>0, <1>5, <1>12, QuietStepA
<1> QED BY <1>6, <1>7, <1>8, <1>9, <1>10, <1>11, <1>12 DEF A!Commit

-----------------------------------------------------------------------------
(* Steps of B: the mirror image. *)

LEMMA OrderedB ==
    ASSUME NEW S, IsFiniteSet(S), NEW s \in B!Ordered(S)
    PROVE  s \in Seq(S) /\ Elems(s) = S
<1>1. B!Cardinality(S) = Cardinality(S)
  BY DEF B!Cardinality, Cardinality
<1> DEFINE D == 1..Cardinality(S)
<1>2. Cardinality(S) \in Nat /\ IsFiniteSet(D) /\ Cardinality(D) = Cardinality(S)
  BY FS_CardinalityType, FS_Interval
<1>3. s \in [D -> S] /\ \A i, j \in D : i # j => s[i] # s[j]
  BY <1>1 DEF B!Ordered, B!SetToSeqs
<1>4. s \in Injection(D, S)
  BY <1>3 DEF Injection, IsInjective
<1>5. s \in Surjection(D, S)
  BY <1>2, <1>4, FS_Injection
<1> QED BY <1>2, <1>3, <1>5 DEF Elems, Surjection

LEMMA RestB ==
    ASSUME TypeB
    PROVE  /\ B!NoMem \in B!MemType /\ B!NoTx \in TxType /\ <<>> \in Seq(Blocks)
           /\ B!NoMem.deleting = FALSE
           /\ B!NoTx.add = {} /\ B!NoTx.drop = {}
<1>1. (CHOOSE s \in SpecsB : TRUE) \in SpecsB
  BY DEF TypeB, B!CrType
<1>2. B!NoMem \in B!MemType /\ B!NoMem.deleting = FALSE
  BY <1>1 DEF B!NoMem, B!MemType
<1> QED BY <1>2 DEF B!NoTx, TxType

LEMMA TypeManagedB ==
    ASSUME TypeB, B!Users \/ B!Reconcile \/ B!ObserveAbsent \/ B!Observe \/ B!RemoveFinalizer
                    \/ B!BeginCreate \/ B!EndCreate
    PROVE  TypeB'
<1> USE RestB
<1>1. CASE B!ObserveFails
  BY <1>1 DEF TypeB, B!ObserveFails, B!Stop, B!own, Steps
<1>2. CASE B!EditSpec
  <2>1. PICK s \in SpecsB : B!Edit(s)
    BY <1>2 DEF B!EditSpec
  <2>2. crB' \in B!CrType
    BY <2>1 DEF TypeB, B!Edit, B!CrType
  <2> QED BY <1>2, <2>1, <2>2 DEF TypeB, B!EditSpec, B!Edit, B!own
<1>3. CASE B!RequestDelete
  <2>1. crB' \in B!CrType
    BY <1>3 DEF TypeB, B!RequestDelete, B!Delete, B!CrType
  <2> QED BY <1>3, <2>1 DEF TypeB, B!RequestDelete, B!Delete, B!own
<1>4. CASE B!Reconcile
  <2>1. memB' \in B!MemType
    BY <1>4 DEF TypeB, B!Reconcile, B!Start, B!CrType, B!MemType
  <2> QED BY <1>4, <2>1 DEF TypeB, B!Reconcile, B!Start, B!own, Steps
<1>5. CASE B!ObserveAbsent
  BY <1>5 DEF TypeB, B!ObserveAbsent, B!NotFound, B!own, Steps
<1>6. CASE B!Observe
  <2>1. crB' \in B!CrType
    BY <1>6 DEF TypeB, B!Observe, B!CrType
  <2> QED BY <1>6, <2>1 DEF TypeB, B!Observe, B!Stop, B!own, Steps
<1>7. CASE B!RemoveFinalizer
  <2>1. crB' \in B!CrType
    BY <1>7 DEF TypeB, B!RemoveFinalizer, B!Release, B!CrType
  <2> QED BY <1>7, <2>1 DEF TypeB, B!RemoveFinalizer, B!Release, B!Stop, B!own, Steps
<1>8. CASE B!BeginCreate
  <2>1. crB' \in B!CrType
    BY <1>8 DEF TypeB, B!BeginCreate, B!Claim, B!CrType
  <2> QED BY <1>8, <2>1 DEF TypeB, B!BeginCreate, B!Claim, B!Stop, B!own, Steps
<1>9. CASE B!EndCreate
  <2>1. crB' \in B!CrType
    BY <1>9 DEF TypeB, B!EndCreate, B!RecordCreate, B!CrType
  <2> QED BY <1>9, <2>1 DEF TypeB, B!EndCreate, B!RecordCreate, B!Stop, B!Rollback, Steps
<1> QED BY <1>1, <1>2, <1>3, <1>4, <1>5, <1>6, <1>7, <1>8, <1>9 DEF B!Users

LEMMA TypeClientB ==
    ASSUME TypeB, SharedType, IsFiniteSet(certs), Copy(crB, staleB, pcB, memB),
           B!GetCertificatePEM \/ B!CreateCertificate \/ B!CreateFails
             \/ B!ReadBeforeDelete \/ B!DropCertificate \/ B!DropFails \/ B!Commit
    PROVE  TypeB'
<1> USE RestB
<1>1. CASE B!GetCertificatePEM
  <2>1. memB.spec.secret \in Secrets
    BY CertificateAssumption DEF TypeB, B!MemType
  <2>2. secret[memB.spec.secret] \in Chains
    BY <2>1 DEF SharedType
  <2>3. B!SplitPEMChain(secret[memB.spec.secret]) => secret[memB.spec.secret] \in Seq(Blocks)
    BY <2>2, CertificateAssumption DEF B!SplitPEMChain
  <2> QED BY <1>1, <2>3 DEF TypeB, B!GetCertificatePEM, B!Return, B!Stop, Steps
<1>2. CASE B!CreateCertificate
  <2>1. todoB \in Seq(Blocks) /\ todoB # <<>>
    BY <1>2 DEF TypeB, B!CreateCertificate
  <2>2. Head(todoB) \in Certs /\ Tail(todoB) \in Seq(Blocks) /\ Elems(todoB) \subseteq Blocks
    BY <1>2, <2>1, TailElems, ElemsType DEF B!CreateCertificate, B!Accepts
  <2>3. Sanitized[memB.spec.name] \in Bases
    BY CertificateAssumption DEF TypeB, B!MemType
  <2>4. {e.cert : e \in openB.add} \subseteq Blocks
    <3>1. openB.add \subseteq EntryType
      BY DEF TypeB, TxType
    <3>2. \A e \in openB.add : e.cert \in Blocks
      BY <3>1, CertificateAssumption DEF EntryType
    <3> QED BY <3>2
  <2>5. B!Entry(Head(todoB)) \in EntryType
    BY <2>2, <2>3, <2>4 DEF B!Entry, EntryType, B!ToSet, Elems
  <2>6. openB' \in TxType
    BY <1>2, <2>5 DEF TypeB, B!CreateCertificate, TxType
  <2> QED BY <1>2, <2>2, <2>6 DEF TypeB, B!CreateCertificate, Steps
<1>3. CASE B!CreateFails
  BY <1>3 DEF TypeB, Copy, B!CreateFails, B!Return, B!Stop, Steps
<1>4. CASE B!ReadBeforeDelete
  <2>1. IsFiniteSet(B!Read(memB.spec)) /\ B!Read(memB.spec) \subseteq EntryType
    BY FS_Subset DEF B!Read, SharedType
  <2>2. \A s \in B!Ordered(B!Read(memB.spec)) : s \in Seq(EntryType)
    <3>1. Seq(B!Read(memB.spec)) \subseteq Seq(EntryType)
      BY <2>1
    <3> QED BY <2>1, <3>1, OrderedB
  <2> QED BY <1>4, <2>2 DEF TypeB, B!ReadBeforeDelete, B!Stop, Steps
<1>5. CASE B!DropCertificate
  <2>1. Tail(todoB) \in Seq(EntryType)
    BY <1>5, TailElems DEF TypeB, B!DropCertificate
  <2>2. openB' \in TxType
    BY <1>5 DEF TypeB, SharedType, B!DropCertificate, TxType
  <2> QED BY <1>5, <2>1, <2>2 DEF TypeB, B!DropCertificate
<1>6. CASE B!DropFails
  BY <1>6 DEF TypeB, B!DropFails, B!Stop, B!Rollback, Steps
<1>7. CASE B!Commit
  BY <1>7 DEF TypeB, B!Commit, B!Return, B!Stop, B!Rollback, Steps
<1> QED BY <1>1, <1>2, <1>3, <1>4, <1>5, <1>6, <1>7

LEMMA SharedTypeStepB ==
    ASSUME TypeB, SharedType, B!Controller \/ B!Users, UNCHANGED drifts
    PROVE  SharedType'
<1>1. ASSUME ~ B!Commit
      PROVE  UNCHANGED <<secret, certs, inUse>>
  BY <1>1 DEF B!Controller, B!Users, B!own, B!Reconcile, B!ObserveAbsent, B!Observe,
       B!RemoveFinalizer, B!BeginCreate, B!GetCertificatePEM, B!CreateCertificate, B!CreateFails,
       B!EndCreate, B!ReadBeforeDelete, B!DropCertificate, B!DropFails, B!ObserveFails,
       B!EditSpec, B!RequestDelete
<1>2. ASSUME B!Commit
      PROVE  certs' \subseteq EntryType /\ UNCHANGED <<secret, inUse>>
  BY <1>2 DEF B!Commit, B!Committed, TypeB, TxType, SharedType
<1>3. /\ edits' \in {edits, edits + 1}
      /\ faults' \in {faults, faults + 1}
  BY DEF B!Controller, B!Users, B!Reconcile, B!Start, B!ObserveAbsent, B!NotFound, B!Observe,
       B!RemoveFinalizer, B!Release, B!BeginCreate, B!GetCertificatePEM, B!CreateCertificate,
       B!CreateFails, B!EndCreate, B!RecordCreate, B!ReadBeforeDelete, B!DropCertificate,
       B!DropFails, B!Commit, B!ObserveFails, B!EditSpec, B!Edit, B!RequestDelete, B!Delete,
       B!Fault, B!Edited
<1> QED BY <1>1, <1>2, <1>3 DEF SharedType, Counters

LEMMA CopyStepB ==
    ASSUME TypeB, Copy(crB, staleB, pcB, memB), B!Controller \/ B!Users
    PROVE  /\ Copy(crB, staleB, pcB, memB)'
           /\ Leaving(crB, pcB, memB) => Leaving(crB, pcB, memB)'
<1> USE RestB DEF Copy, Leaving
<1>1. CASE B!ObserveFails
  BY <1>1 DEF B!ObserveFails, B!Stop
<1>2. CASE B!EditSpec
  <2>1. PICK s \in SpecsB : B!Edit(s)
    BY <1>2 DEF B!EditSpec
  <2> QED BY <2>1 DEF TypeB, B!Edit, B!CrType
<1>3. CASE B!RequestDelete
  BY <1>3 DEF TypeB, B!RequestDelete, B!Delete, B!CrType
<1>4. CASE B!Reconcile
  BY <1>4 DEF B!Reconcile, B!Start
<1>5. CASE B!ObserveAbsent
  BY <1>5 DEF B!ObserveAbsent, B!NotFound
<1>6. CASE B!Observe
  BY <1>6 DEF TypeB, B!Observe, B!FinalizerRefused, B!Stop, B!CrType
<1>7. CASE B!RemoveFinalizer
  BY <1>7 DEF TypeB, B!RemoveFinalizer, B!Release, B!Stop, B!CrType
<1>8. CASE B!BeginCreate
  BY <1>8 DEF TypeB, B!BeginCreate, B!Claim, B!Stop, B!CrType
<1>9. CASE B!EndCreate
  BY <1>9 DEF TypeB, B!EndCreate, B!RecordCreate, B!Stop, B!CrType
<1>10. CASE B!GetCertificatePEM
  BY <1>10 DEF B!GetCertificatePEM, B!Return, B!Stop
<1>11. CASE B!CreateCertificate \/ B!DropCertificate
  BY <1>11 DEF B!CreateCertificate, B!DropCertificate
<1>12. CASE B!CreateFails
  BY <1>12 DEF B!CreateFails, B!Return, B!Stop
<1>13. CASE B!ReadBeforeDelete
  BY <1>13 DEF B!ReadBeforeDelete, B!Stop
<1>14. CASE B!DropFails
  BY <1>14 DEF B!DropFails, B!Stop
<1>15. CASE B!Commit
  BY <1>15 DEF B!Commit, B!Committing, B!Return, B!Stop
<1> QED BY <1>1, <1>2, <1>3, <1>4, <1>5, <1>6, <1>7, <1>8, <1>9, <1>10, <1>11, <1>12, <1>13,
           <1>14, <1>15 DEF B!Controller, B!Users

QuietB ==
    /\ certs' = certs
    /\ \/ UNCHANGED <<pcB, memB, todoB, openB>>
       \/ pcB' \notin {"import", "drop"} /\ openB' = B!NoTx
       \/ pcB = "import" /\ pcB' = "endCreate" /\ openB' = openB

LEMMA QuietStepB ==
    ASSUME TypeB, Copy(crB, staleB, pcB, memB), B!Controller \/ B!Users,
           ~ (B!GetCertificatePEM \/ B!CreateCertificate \/ B!ReadBeforeDelete
                \/ B!DropCertificate \/ B!Commit)
    PROVE  QuietB
<1> USE DEF QuietB, B!own
<1>1. CASE B!ObserveFails
  BY <1>1 DEF TypeB, B!ObserveFails, B!Stop
<1>2. CASE B!EditSpec \/ B!RequestDelete
  BY <1>2 DEF B!EditSpec, B!Edit, B!RequestDelete, B!Delete
<1>3. CASE B!Reconcile
  BY <1>3 DEF TypeB, B!Reconcile, B!Start
<1>4. CASE B!ObserveAbsent \/ B!Observe
  BY <1>4 DEF TypeB, B!ObserveAbsent, B!NotFound, B!Observe, B!Stop
<1>5. CASE B!RemoveFinalizer \/ B!BeginCreate
  BY <1>5 DEF TypeB, B!RemoveFinalizer, B!Release, B!BeginCreate, B!Stop
<1>6. CASE B!EndCreate
  BY <1>6 DEF B!EndCreate, B!RecordCreate, B!Stop, B!Rollback
<1>7. CASE B!CreateFails
  BY <1>7 DEF Copy, B!CreateFails, B!Return
<1>8. CASE B!DropFails
  BY <1>8 DEF B!DropFails, B!Stop, B!Rollback
<1> QED BY <1>1, <1>2, <1>3, <1>4, <1>5, <1>6, <1>7, <1>8 DEF B!Controller, B!Users

LEMMA FrameA ==
    ASSUME TypeA, Pending(openA), Import("A", pcA, memA, todoA, openA), Gone("A", pcA, memA),
           certs' = certs, UNCHANGED ownA
    PROVE  /\ TypeA' /\ Pending(openA)' /\ Import("A", pcA, memA, todoA, openA)'
           /\ Gone("A", pcA, memA)'
BY DEF ownA, TypeA, Pending, Unique, Import, Gone

LEMMA FrameDropA ==
    ASSUME Drop(pcA, todoA, openA, Leaving(crB, pcB, memB)),
           Leaving(crB, pcB, memB) => Leaving(crB, pcB, memB)',
           certs' = certs, UNCHANGED ownA
    PROVE  Drop(pcA, todoA, openA, Leaving(crB, pcB, memB))'
<1>1. pcA' = pcA /\ todoA' = todoA /\ openA' = openA
  BY DEF ownA
<1> QED BY <1>1 DEF Drop, Doomed

LEMMA ReadStepB ==
    ASSUME TypeB, SharedType, IsFiniteSet(certs), Import("B", pcB, memB, todoB, openB),
           B!ReadBeforeDelete
    PROVE  /\ Import("B", pcB, memB, todoB, openB)'
           /\ Drop(pcB, todoB, openB, Leaving(crA, pcA, memA))'
           /\ openB' = openB /\ certs' = certs
<1>0. pcB = "delete" /\ openB = B!NoTx /\ openB' = openB /\ certs' = certs
  BY DEF B!ReadBeforeDelete, TypeB
<1>1. CASE B!Read(memB.spec) = {}
  <2>1. pcB' = "idle"
    BY <1>1 DEF B!ReadBeforeDelete, B!Stop
  <2> QED BY <1>0, <2>1, RestB DEF Import, Drop
<1>2. CASE B!Read(memB.spec) # {}
  <2>1. pcB' = "drop" /\ todoB' \in B!Ordered(B!Read(memB.spec))
    BY <1>2 DEF B!ReadBeforeDelete
  <2>2. IsFiniteSet(B!Read(memB.spec))
    BY FS_Subset DEF B!Read
  <2>3. Elems(todoB') = B!Read(memB.spec)
    BY <2>1, <2>2, OrderedB
  <2>4. \A f : Doomed(todoB', openB', f) <=> \E g \in B!Read(memB.spec) : Same(f, g)
    BY <1>0, <2>3, RestB DEF Doomed
  <2>5. ASSUME NEW e \in certs, NEW f \in certs, Links(e, f), Doomed(todoB', openB', f)
        PROVE  Doomed(todoB', openB', e)
    <3>1. PICK g \in B!Read(memB.spec) : Same(f, g)
      BY <2>4, <2>5
    <3>2. e \in B!Read(memB.spec)
      BY <2>5, <3>1 DEF B!Read, Same, Links
    <3> QED BY <2>4, <3>2 DEF Same
  <2>6. \A g \in Elems(todoB') : \E e \in certs : Same(e, g)
    BY <2>3 DEF B!Read, Same
  <2>7. Drop(pcB, todoB, openB, Leaving(crA, pcA, memA))'
    BY <1>0, <2>5, <2>6 DEF Drop
  <2> QED BY <1>0, <2>1, <2>7, RestB DEF Import
<1> QED BY <1>1, <1>2

LEMMA CreateStepB ==
    ASSUME TypeB, TypeA, TxInv, Import("B", pcB, memB, todoB, openB), Apart(openA, openB),
           B!CreateCertificate, openA' = openA
    PROVE  /\ Import("B", pcB, memB, todoB, openB)' /\ Pending(openB)' /\ Apart(openA, openB)'
           /\ pcB' = "import" /\ certs' = certs
<1> DEFINE n == B!Entry(Head(todoB))
<1>1. /\ pcB = "import" /\ pcB' = "import" /\ todoB # <<>> /\ todoB \in Seq(Blocks)
      /\ certs' = certs /\ memB' = memB /\ todoB' = Tail(todoB)
      /\ openB' = [openB EXCEPT !.add = openB.add \cup {n}]
  BY DEF B!CreateCertificate, TypeB
<1>2. openB'.add = openB.add \cup {n} /\ openB'.drop = {} /\ openB.drop = {}
  BY <1>1 DEF TypeB, TxType, Import
<1>3. /\ n.base = Sanitized[memB.spec.name] /\ n.by = "B" /\ n.cert = Head(todoB)
      /\ n.chain = Elems(todoB) \cup {e.cert : e \in openB.add}
  BY DEF B!Entry, B!ToSet, Elems
<1>4. Elems(todoB) = {n.cert} \cup Elems(todoB')
  BY <1>1, <1>3, TailElems
<1>5. {f.cert : f \in openB'.add} = {n.cert} \cup {f.cert : f \in openB.add}
  BY <1>2
<1>6. \A e \in openB'.add :
        /\ e.base = Sanitized[memB'.spec.name] /\ e.by = "B"
        /\ e.chain = Elems(todoB') \cup {f.cert : f \in openB'.add}
  <2>1. n.chain = Elems(todoB') \cup {f.cert : f \in openB'.add}
    BY <1>3, <1>4, <1>5
  <2>2. \A e \in openB.add : /\ e.base = Sanitized[memB.spec.name] /\ e.by = "B"
                             /\ e.chain = Elems(todoB) \cup {f.cert : f \in openB.add}
    BY <1>1 DEF Import
  <2>3. \A e \in openB.add : e.chain = n.chain
    BY <1>3, <2>2
  <2> QED BY <1>1, <1>2, <1>3, <2>1, <2>2, <2>3
<1>7. Import("B", pcB, memB, todoB, openB)'
  BY <1>1, <1>2, <1>6 DEF Import
<1>8. \A f \in certs \cup openB.add : ~ Same(n, f)
  <2>1. B!CertName(memB.spec, Head(todoB)) \notin {B!Name(e) : e \in certs \cup openB.add}
    BY DEF B!CreateCertificate, B!Accepts
  <2> QED BY <1>3, <2>1 DEF B!CertName, B!Name, Same
<1>9. \A f \in Touched(openA) : ~ Same(n, f)
  <2>1. B!CertName(memB.spec, Head(todoB)) \notin Held(openA)
    BY DEF B!CreateCertificate
  <2> QED BY <1>3, <2>1 DEF B!CertName, Held, Touched, Same
<1>10. IsFiniteSet(openB'.add)
  BY <1>2, FS_AddElement DEF TxInv, Pending
<1>11. Pending(openB)'
  <2>1. Unique(openB'.add)
    <3>1. Unique(openB.add)
      BY DEF TxInv, Pending
    <3> QED BY <1>2, <1>8, <3>1 DEF Unique, Same
  <2>2. \A e \in openB'.add, f \in certs' : ~ Same(e, f)
    BY <1>1, <1>2, <1>8 DEF TxInv, Pending
  <2> QED BY <1>2, <1>10, <2>1, <2>2 DEF Pending
<1>12. Apart(openA, openB)'
  BY <1>2, <1>9 DEF Apart, Touched, Same
<1> QED BY <1>1, <1>7, <1>11, <1>12

LEMMA DropStepB ==
    ASSUME TypeB, TypeA, TxInv, Import("B", pcB, memB, todoB, openB), Apart(openA, openB),
           B!DropCertificate, openA' = openA
    PROVE  /\ Import("B", pcB, memB, todoB, openB)' /\ Pending(openB)' /\ Apart(openA, openB)'
           /\ pcB = "drop" /\ pcB' = "drop" /\ certs' = certs
           /\ Elems(todoB') \subseteq Elems(todoB)
           /\ \A e \in certs : Doomed(todoB', openB', e) <=> Doomed(todoB, openB, e)
<1> DEFINE n == Head(todoB)
           R == {e \in certs : B!Name(e) = B!Name(n)}
<1>1. /\ pcB = "drop" /\ pcB' = "drop" /\ todoB # <<>> /\ todoB \in Seq(EntryType)
      /\ certs' = certs /\ todoB' = Tail(todoB)
      /\ openB' = [openB EXCEPT !.drop = openB.drop \cup R]
  BY DEF B!DropCertificate, TypeB
<1>2. openB'.drop = openB.drop \cup R /\ openB'.add = {} /\ openB.add = {}
  BY <1>1 DEF TypeB, TxType, Import
<1>3. Elems(todoB) = {n} \cup Elems(todoB')
  BY <1>1, TailElems
<1>4. \A e \in certs : e \in R <=> Same(e, n)
  BY DEF B!Name, Same
<1>5. \E e \in R : Same(e, n)
  <2>1. B!Name(n) \in {B!Name(f) : f \in certs}
    BY DEF B!DropCertificate, B!Droppable
  <2>2. PICK f \in certs : B!Name(f) = B!Name(n)
    BY <2>1
  <2> QED BY <2>2, <1>4
<1>6. ASSUME NEW e \in certs
      PROVE  Doomed(todoB', openB', e) <=> Doomed(todoB, openB, e)
  <2>1. ASSUME Doomed(todoB, openB, e)
        PROVE  Doomed(todoB', openB', e)
    <3>1. PICK g \in Elems(todoB) \cup openB.drop : Same(e, g)
      BY <2>1 DEF Doomed
    <3>2. CASE g = n
      BY <1>2, <1>4, <3>1, <3>2 DEF Doomed, Same
    <3>3. CASE g # n
      BY <1>2, <1>3, <3>1, <3>3 DEF Doomed
    <3> QED BY <3>2, <3>3
  <2>2. ASSUME Doomed(todoB', openB', e)
        PROVE  Doomed(todoB, openB, e)
    <3>1. PICK g \in Elems(todoB') \cup openB'.drop : Same(e, g)
      BY <2>2 DEF Doomed
    <3>2. CASE g \in R
      <4>1. Same(e, n)
        BY <1>4, <3>1, <3>2 DEF Same
      <4> QED BY <1>3, <4>1 DEF Doomed
    <3>3. CASE g \notin R
      BY <1>2, <1>3, <3>1, <3>3 DEF Doomed
    <3> QED BY <3>2, <3>3
  <2> QED BY <2>1, <2>2
<1>7. Import("B", pcB, memB, todoB, openB)'
  BY <1>1, <1>2 DEF Import
<1>8. Pending(openB)'
  BY <1>1, <1>2, FS_EmptySet DEF TxInv, Pending, Unique
<1>9. \A f \in Touched(openA) : ~ Same(n, f)
  <2>1. B!Name(n) \notin Held(openA)
    BY DEF B!DropCertificate
  <2> QED BY <2>1 DEF B!Name, Held, Touched, Same
<1>10. Apart(openA, openB)'
  BY <1>2, <1>4, <1>9 DEF Apart, Touched, Same
<1> QED BY <1>1, <1>3, <1>6, <1>7, <1>8, <1>10

LEMMA CommittedB ==
    ASSUME TypeB, TypeA, TxInv, Apart(openA, openB), Import("B", pcB, memB, todoB, openB),
           WholeChains, drifts = 0 => Drop(pcB, todoB, openB, Leaving(crA, pcA, memA)),
           B!Committing, certs' = B!Committed(certs, openB)
    PROVE  /\ IsFiniteSet(certs') /\ Unique(certs')
           /\ drifts = 0 => Whole(certs')
           /\ \A e \in openA.add, f \in certs' : ~ Same(e, f)
           /\ openA.drop \subseteq certs'
<1>0. pcB \in {"import", "drop"} /\ todoB = <<>> /\ Elems(todoB) = {}
  BY DEF B!Committing, Elems
<1>1. CASE pcB = "import"
  <2>1. certs' = certs \cup openB.add
    BY <1>1 DEF B!Committed, Import
  <2>2. OneChain(openB.add, Sanitized[memB.spec.name], "B")
    BY <1>0, <1>1 DEF Import, OneChain
  <2>3. Unique(certs')
    BY <2>1, AddUnique DEF TxInv, Pending
  <2>4. IsFiniteSet(certs')
    BY <2>1, FS_Union DEF TxInv, Pending
  <2>5. ASSUME drifts = 0
        PROVE  Whole(certs')
    <3>1. Whole(certs)
      BY <2>5 DEF WholeChains, Whole
    <3> QED BY <2>1, <2>2, <3>1, AddWhole
  <2>6. \A e \in openA.add, f \in certs' : ~ Same(e, f)
    BY <2>1 DEF TxInv, Pending, Apart, Touched, Same
  <2>7. openA.drop \subseteq certs'
    BY <2>1 DEF TxInv, Pending
  <2> QED BY <2>3, <2>4, <2>5, <2>6, <2>7
<1>2. CASE pcB = "drop"
  <2>1. certs' = certs \ openB.drop
    BY <1>2 DEF B!Committed, Import
  <2>2. IsFiniteSet(certs') /\ Unique(certs')
    BY <2>1, FS_Subset DEF TxInv, Unique
  <2>3. ASSUME drifts = 0
        PROVE  Whole(certs')
    <3>1. Whole(certs)
      BY <2>3 DEF WholeChains, Whole
    <3>2. \A e, f \in certs : Links(e, f) /\ Doomed(todoB, openB, f) => Doomed(todoB, openB, e)
      BY <1>2, <2>3 DEF Drop
    <3>3. Unique(certs) /\ openB.drop \subseteq certs
      BY DEF TxInv, Pending
    <3> QED BY <1>0, <2>1, <3>1, <3>2, <3>3, DropWhole
  <2>4. \A e \in openA.add, f \in certs' : ~ Same(e, f)
    BY <2>1 DEF TxInv, Pending
  <2>5. openA.drop \subseteq certs'
    <3>1. \A f \in openA.drop : f \in certs /\ f \notin openB.drop
      BY DEF TxInv, Pending, Apart, Touched, Same
    <3> QED BY <2>1, <3>1
  <2> QED BY <2>2, <2>3, <2>4, <2>5
<1> QED BY <1>0, <1>1, <1>2

LEMMA CommitDropA ==
    ASSUME TypeB, TypeA, TxInv, Import("B", pcB, memB, todoB, openB), Copy(crB, staleB, pcB, memB),
           drifts = 0, WholeChains, Drop(pcA, todoA, openA, Leaving(crB, pcB, memB)),
           B!Commit, certs' = B!Committed(certs, openB), UNCHANGED ownA
    PROVE  Drop(pcA, todoA, openA, Leaving(crB, pcB, memB))'
<1>0. /\ pcB \in {"import", "drop"} /\ todoB = <<>> /\ Elems(todoB) = {}
      /\ pcA' = pcA /\ todoA' = todoA /\ openA' = openA
  BY DEF B!Commit, B!Committing, Elems, ownA
<1>1. SUFFICES ASSUME pcA = "drop"
               PROVE  Drop(pcA, todoA, openA, Leaving(crB, pcB, memB))'
  BY <1>0 DEF Drop
<1>2. \A e, f \in certs : Links(e, f) /\ Doomed(todoA, openA, f) => Doomed(todoA, openA, e)
  BY <1>1 DEF Drop
<1>3. CASE pcB = "import"
  <2>1. certs' = certs \cup openB.add
    BY <1>3 DEF B!Committed, Import
  <2>2. OneChain(openB.add, Sanitized[memB.spec.name], "B")
    BY <1>0, <1>3 DEF Import, OneChain
  <2>3. ~ Leaving(crB, pcB, memB)
    BY <1>3 DEF Leaving, Copy
  <2>4. \A g \in Elems(todoA) : \E e \in certs : Same(e, g)
    BY <1>1, <2>3 DEF Drop
  <2>5. \A g \in openA.drop : \E e \in certs : Same(e, g)
    BY DEF TxInv, Pending, Same
  <2>6. Whole(certs) /\ \A e \in openB.add, f \in certs : ~ Same(e, f)
    BY DEF WholeChains, Whole, TxInv, Pending
  <2>7. \A e, f \in certs' : Links(e, f) /\ Doomed(todoA, openA, f) => Doomed(todoA, openA, e)
    BY <1>2, <2>1, <2>2, <2>4, <2>5, <2>6, AddClosed
  <2>8. \A g \in Elems(todoA) : \E e \in certs' : Same(e, g)
    BY <2>1, <2>4
  <2> QED BY <1>0, <2>7, <2>8 DEF Drop
<1>4. CASE pcB = "drop"
  <2>1. certs' \subseteq certs
    BY <1>4 DEF B!Committed, Import
  <2>2. Leaving(crB, pcB, memB)'
    BY <1>4 DEF B!Commit, B!Return, B!Stop, Copy, Leaving
  <2>3. \A e, f \in certs' : Links(e, f) /\ Doomed(todoA, openA, f) => Doomed(todoA, openA, e)
    BY <1>2, <2>1
  <2> QED BY <1>0, <2>2, <2>3 DEF Drop
<1> QED BY <1>0, <1>3, <1>4

LEMMA GoneStepB ==
    ASSUME Gone("B", pcB, memB), Copy(crB, staleB, pcB, memB), B!Controller \/ B!Users
    PROVE  Gone("B", pcB, memB)'
<1>1. CASE B!ObserveAbsent
  BY <1>1 DEF B!ObserveAbsent, B!NotFound, B!Read, B!own, Gone
<1>2. CASE B!EditSpec \/ B!RequestDelete
  BY <1>2 DEF B!EditSpec, B!Edit, B!RequestDelete, B!Delete, B!own, Gone
<1>3. CASE ~ (B!ObserveAbsent \/ B!EditSpec \/ B!RequestDelete)
  <2>1. pcB' # "removeFinalizer"
    BY <1>3 DEF B!Controller, B!Users, B!Reconcile, B!Start, B!Observe, B!RemoveFinalizer,
         B!Release, B!BeginCreate, B!GetCertificatePEM, B!CreateCertificate, B!CreateFails,
         B!EndCreate, B!RecordCreate, B!ReadBeforeDelete, B!DropCertificate, B!DropFails,
         B!Commit, B!ObserveFails, B!Stop, B!Return
  <2> QED BY <2>1 DEF Gone
<1> QED BY <1>1, <1>2, <1>3

LEMMA StepBInv ==
    ASSUME CertInv, B!Controller \/ B!Users, UNCHANGED <<ownA, drifts>>
    PROVE  CertInv'
<1>0. /\ TypeB /\ TypeA /\ SharedType /\ TxInv /\ WholeChains
      /\ Copy(crB, staleB, pcB, memB) /\ Copy(crA, staleA, pcA, memA)
      /\ Import("B", pcB, memB, todoB, openB) /\ Import("A", pcA, memA, todoA, openA)
      /\ Gone("B", pcB, memB) /\ Gone("A", pcA, memA)
      /\ Pending(openB) /\ Pending(openA) /\ IsFiniteSet(certs) /\ Unique(certs)
      /\ Apart(openA, openB) /\ DropInv /\ drifts' = drifts /\ UNCHANGED ownA /\ openA' = openA
  BY DEF CertInv, TxInv, CopyInv, ImportInv, GoneInv, ownA
<1>1. TypeB' /\ SharedType'
  <2>1. TypeB'
    BY <1>0, TypeManagedB, TypeClientB DEF B!Controller
  <2> QED BY <1>0, <2>1, SharedTypeStepB
<1>2. /\ Copy(crB, staleB, pcB, memB)' /\ Gone("B", pcB, memB)'
      /\ Leaving(crB, pcB, memB) => Leaving(crB, pcB, memB)'
  BY <1>0, CopyStepB, GoneStepB
<1>3. Copy(crA, staleA, pcA, memA)' /\ (Leaving(crA, pcA, memA)' <=> Leaving(crA, pcA, memA))
  BY <1>0 DEF ownA, Copy, Leaving
<1>4. ASSUME certs' = certs, Import("B", pcB, memB, todoB, openB)', Pending(openB)',
             Apart(openA, openB)',
             drifts = 0 => Drop(pcB, todoB, openB, Leaving(crA, pcA, memA))'
      PROVE  CertInv'
  <2>1. /\ TypeA' /\ Pending(openA)' /\ Import("A", pcA, memA, todoA, openA)'
        /\ Gone("A", pcA, memA)'
    BY <1>0, <1>4, FrameA
  <2>2. ASSUME drifts = 0
        PROVE  Drop(pcA, todoA, openA, Leaving(crB, pcB, memB))'
    <3>1. Drop(pcA, todoA, openA, Leaving(crB, pcB, memB))
      BY <1>0, <2>2 DEF DropInv
    <3> QED BY <1>0, <1>2, <1>4, <3>1, FrameDropA
  <2>3. DropInv'
    BY <1>0, <1>4, <2>2 DEF DropInv
  <2>4. TxInv'
    BY <1>0, <1>4, <2>1 DEF TxInv, Unique
  <2>5. WholeChains'
    BY <1>0, <1>4 DEF WholeChains
  <2> QED BY <1>1, <1>2, <1>3, <1>4, <2>1, <2>3, <2>4, <2>5
          DEF CertInv, CopyInv, ImportInv, GoneInv
<1>5. CASE QuietB
  <2>0. B!NoTx.add = {} /\ B!NoTx.drop = {} /\ certs' = certs
    BY <1>0, <1>5, RestB DEF QuietB
  <2>1. Pending(openB)' /\ Apart(openA, openB)'
    BY <1>0, <1>5, <2>0, FS_EmptySet DEF QuietB, Pending, Unique, Apart, Touched
  <2>2. Import("B", pcB, memB, todoB, openB)'
    BY <1>0, <1>5, <2>0 DEF QuietB, Import
  <2>3. ASSUME drifts = 0
        PROVE  Drop(pcB, todoB, openB, Leaving(crA, pcA, memA))'
    <3>1. CASE pcB' # "drop"
      BY <3>1 DEF Drop
    <3>2. CASE pcB' = "drop"
      <4>1. UNCHANGED <<pcB, memB, todoB, openB, certs>>
        BY <1>5, <3>2 DEF QuietB
      <4>2. Drop(pcB, todoB, openB, Leaving(crA, pcA, memA))
        BY <1>0, <2>3 DEF DropInv
      <4> QED BY <1>3, <4>1, <4>2 DEF Drop, Doomed
    <3> QED BY <3>1, <3>2
  <2> QED BY <1>4, <2>0, <2>1, <2>2, <2>3
<1>6. CASE B!GetCertificatePEM
  <2>1. /\ pcB' \in {"import", "endCreate"} /\ openB = B!NoTx /\ openB' = openB /\ certs' = certs
    BY <1>0, <1>6 DEF B!GetCertificatePEM, B!Return, TypeB, Copy
  <2>2. Import("B", pcB, memB, todoB, openB)'
    BY <1>0, <2>1, RestB DEF Import
  <2>3. Pending(openB)' /\ Apart(openA, openB)'
    BY <1>0, <2>1 DEF Pending, Unique, Apart, Touched
  <2>4. Drop(pcB, todoB, openB, Leaving(crA, pcA, memA))'
    BY <2>1 DEF Drop
  <2> QED BY <1>4, <2>1, <2>2, <2>3, <2>4
<1>7. CASE B!CreateCertificate
  <2>1. Drop(pcB, todoB, openB, Leaving(crA, pcA, memA))'
    BY <1>0, <1>7, CreateStepB DEF Drop
  <2> QED BY <1>0, <1>4, <1>7, <2>1, CreateStepB
<1>8. CASE B!ReadBeforeDelete
  <2>1. /\ Import("B", pcB, memB, todoB, openB)' /\ openB' = openB /\ certs' = certs
        /\ Drop(pcB, todoB, openB, Leaving(crA, pcA, memA))'
    BY <1>0, <1>8, ReadStepB
  <2>2. Pending(openB)' /\ Apart(openA, openB)'
    BY <1>0, <2>1 DEF Pending, Unique, Apart, Touched
  <2> QED BY <1>4, <2>1, <2>2
<1>9. CASE B!DropCertificate
  <2>1. /\ Import("B", pcB, memB, todoB, openB)' /\ Pending(openB)' /\ Apart(openA, openB)'
        /\ pcB = "drop" /\ pcB' = "drop" /\ certs' = certs
        /\ Elems(todoB') \subseteq Elems(todoB)
        /\ \A e \in certs : Doomed(todoB', openB', e) <=> Doomed(todoB, openB, e)
    BY <1>0, <1>9, DropStepB
  <2>2. ASSUME drifts = 0
        PROVE  Drop(pcB, todoB, openB, Leaving(crA, pcA, memA))'
    <3>1. Drop(pcB, todoB, openB, Leaving(crA, pcA, memA))
      BY <1>0, <2>2 DEF DropInv
    <3> QED BY <1>3, <2>1, <3>1 DEF Drop
  <2> QED BY <1>4, <2>1, <2>2
<1>10. CASE B!Commit /\ certs' = certs
  <2>1. QuietB
    BY <1>10 DEF QuietB, B!Commit, B!Return, B!Stop, B!Rollback
  <2> QED BY <1>5, <2>1
<1>11. CASE B!Commit /\ certs' = B!Committed(certs, openB)
  <2>1. drifts = 0 => /\ Drop(pcB, todoB, openB, Leaving(crA, pcA, memA))
                      /\ Drop(pcA, todoA, openA, Leaving(crB, pcB, memB))
    BY <1>0 DEF DropInv
  <2>2. B!Committing /\ pcB' \in {"endCreate", "idle"} /\ openB' = B!NoTx
    BY <1>11 DEF B!Commit, B!Return, B!Stop, B!Rollback
  <2>3. /\ IsFiniteSet(certs') /\ Unique(certs')
        /\ drifts = 0 => Whole(certs')
        /\ \A e \in openA.add, f \in certs' : ~ Same(e, f)
        /\ openA.drop \subseteq certs'
    BY <1>0, <1>11, <2>1, <2>2, CommittedB
  <2>4. drifts = 0 => Drop(pcA, todoA, openA, Leaving(crB, pcB, memB))'
    BY <1>0, <1>11, <2>1, CommitDropA
  <2>5. drifts = 0 => Drop(pcB, todoB, openB, Leaving(crA, pcA, memA))'
    BY <2>2 DEF Drop
  <2>6. DropInv' /\ WholeChains'
    BY <1>0, <2>3, <2>4, <2>5 DEF DropInv, WholeChains, Whole
  <2>7. B!NoTx.add = {} /\ B!NoTx.drop = {}
    BY <1>0, RestB
  <2>8. Pending(openB)' /\ Import("B", pcB, memB, todoB, openB)' /\ Apart(openA, openB)'
    BY <2>2, <2>7, FS_EmptySet DEF Pending, Unique, Import, Apart, Touched
  <2>9. Pending(openA)' /\ TypeA' /\ Import("A", pcA, memA, todoA, openA)'
    BY <1>0, <2>3 DEF Pending, Unique, TypeA, Import, ownA
  <2>10. Gone("A", pcA, memA)'
    <3>1. \A e \in certs' : e \in certs \/ e.by = "B"
      BY <1>0, <1>11 DEF B!Committed, Import
    <3>2. pcA' = pcA /\ memA' = memA
      BY <1>0 DEF ownA
    <3> QED BY <1>0, <3>1, <3>2 DEF Gone
  <2>11. TxInv'
    BY <2>3, <2>8, <2>9 DEF TxInv
  <2> QED BY <1>1, <1>2, <1>3, <2>6, <2>8, <2>9, <2>10, <2>11
          DEF CertInv, CopyInv, ImportInv, GoneInv
<1>12. CASE ~ (B!GetCertificatePEM \/ B!CreateCertificate \/ B!ReadBeforeDelete
                \/ B!DropCertificate \/ B!Commit)
  BY <1>0, <1>5, <1>12, QuietStepB
<1> QED BY <1>6, <1>7, <1>8, <1>9, <1>10, <1>11, <1>12 DEF B!Commit

-----------------------------------------------------------------------------
(* The users, the DBA and the end of the process. *)

LEMMA CertInit == Init => CertInv
<1> SUFFICES ASSUME Init PROVE CertInv
  OBVIOUS
<1>1. /\ crA \in A!CrType /\ pcA = "idle" /\ staleA = FALSE /\ memA = A!NoMem
      /\ todoA = <<>> /\ openA = A!NoTx /\ ~ crA.finalizer
  BY DEF Init, A!ReconcilerInit, A!CrType
<1>2. /\ crB \in B!CrType /\ pcB = "idle" /\ staleB = FALSE /\ memB = B!NoMem
      /\ todoB = <<>> /\ openB = B!NoTx /\ ~ crB.finalizer
  BY DEF Init, B!ReconcilerInit, B!CrType
<1>3. /\ A!NoTx = [add |-> {}, drop |-> {}] /\ B!NoTx = [add |-> {}, drop |-> {}]
      /\ A!NoTx \in TxType /\ B!NoTx \in TxType /\ <<>> \in Seq(Blocks)
  BY DEF A!NoTx, B!NoTx, TxType
<1>4. TypeA
  <2>1. (CHOOSE s \in SpecsA : TRUE) \in SpecsA
    BY <1>1 DEF A!CrType
  <2>2. A!NoMem \in A!MemType
    BY <2>1 DEF A!NoMem, A!MemType
  <2> QED BY <1>1, <1>3, <2>2 DEF TypeA, Steps
<1>5. TypeB
  <2>1. (CHOOSE s \in SpecsB : TRUE) \in SpecsB
    BY <1>2 DEF B!CrType
  <2>2. B!NoMem \in B!MemType
    BY <2>1 DEF B!NoMem, B!MemType
  <2> QED BY <1>2, <1>3, <2>2 DEF TypeB, Steps
<1>6. SharedType
  BY CertificateAssumption DEF Init, A!ReconcilerInit, SharedType, Counters
<1>7. TxInv /\ Apart(openA, openB) /\ ImportInv
  BY <1>1, <1>2, <1>3, FS_EmptySet
     DEF Init, TxInv, Pending, Unique, Apart, Touched, ImportInv, Import
<1>8. CopyInv
  BY <1>1, <1>2, <1>4, <1>5, RestA, RestB DEF CopyInv, Copy
<1>9. DropInv /\ GoneInv /\ WholeChains
  BY <1>1, <1>2 DEF Init, DropInv, Drop, GoneInv, Gone, WholeChains
<1> QED BY <1>4, <1>5, <1>6, <1>7, <1>8, <1>9 DEF CertInv

\* What the resources and their transactions rest on is left alone.
LEMMA FreeStep ==
    ASSUME CertInv, Free, certs' = certs, drifts' = drifts, SharedType'
    PROVE  CertInv'
<1>1. TypeA' /\ TypeB' /\ Apart(openA, openB)'
  BY DEF CertInv, Free, ownA, ownB, TypeA, TypeB, Apart
<1>2. TxInv' /\ CopyInv' /\ ImportInv'
  BY DEF CertInv, Free, ownA, ownB, TxInv, Pending, CopyInv, ImportInv
<1>3. DropInv' /\ GoneInv' /\ WholeChains'
  BY DEF CertInv, Free, ownA, ownB, DropInv, Drop, Leaving, Doomed, GoneInv, Gone, WholeChains
<1> QED BY <1>1, <1>2, <1>3 DEF CertInv

LEMMA UserStep ==
    ASSUME CertInv, SecretChanges \/ UseChanges
    PROVE  CertInv'
<1>1. /\ Free /\ certs' = certs /\ drifts' = drifts /\ faults' = faults
      /\ edits' \in {edits, edits + 1}
  BY DEF SecretChanges, UseChanges, A!Edited
<1>2. CASE SecretChanges
  <2>1. secret' \in [Secrets -> Chains] /\ inUse' = inUse
    BY <1>2 DEF SecretChanges, CertInv, SharedType
  <2> QED BY <1>1, <2>1, FreeStep DEF CertInv, SharedType, Counters
<1>3. CASE UseChanges
  <2>1. PICK n \in {A!Name(e) : e \in certs} :
            inUse' = IF n \in inUse THEN inUse \ {n} ELSE inUse \cup {n}
    BY <1>3 DEF UseChanges
  <2>2. n \in [base : Bases, cert : Certs]
    BY DEF A!Name, CertInv, SharedType, EntryType
  <2>3. inUse' \subseteq [base : Bases, cert : Certs] /\ secret' = secret
    BY <1>3, <2>1, <2>2 DEF UseChanges, CertInv, SharedType
  <2> QED BY <1>1, <2>3, FreeStep DEF CertInv, SharedType, Counters
<1> QED BY <1>2, <1>3

\* A DBA drops no certificate that a transaction holds.
LEMMA DbaStep ==
    ASSUME CertInv, DbaDrops
    PROVE  CertInv'
<1>1. PICK d \in certs : certs' = certs \ {d} /\ A!Name(d) \notin Held(openA) \cup Held(openB)
  BY DEF DbaDrops
<1>2. /\ Free /\ drifts' = drifts + 1 /\ drifts' # 0
      /\ UNCHANGED <<secret, inUse, edits, faults>>
  BY DEF DbaDrops, CertInv, SharedType, Counters
<1>3. d \notin openA.drop /\ d \notin openB.drop
  BY <1>1 DEF Held, A!Name
<1>4. TypeA' /\ TypeB' /\ Apart(openA, openB)' /\ CopyInv' /\ ImportInv'
  BY <1>2 DEF CertInv, Free, ownA, ownB, TypeA, TypeB, Apart, CopyInv, ImportInv
<1>5. SharedType'
  BY <1>1, <1>2 DEF CertInv, SharedType, Counters
<1>6. IsFiniteSet(certs')
  BY <1>1, FS_Subset DEF CertInv, TxInv
<1>7. TxInv'
  <2>1. openA' = openA /\ openB' = openB
    BY <1>2 DEF Free, ownA, ownB
  <2> QED BY <1>1, <1>3, <1>6, <2>1 DEF CertInv, TxInv, Pending, Unique
<1>8. DropInv' /\ WholeChains'
  BY <1>2 DEF DropInv, WholeChains
<1>9. GoneInv'
  BY <1>1, <1>2 DEF CertInv, Free, ownA, ownB, GoneInv, Gone
<1> QED BY <1>4, <1>5, <1>7, <1>8, <1>9 DEF CertInv

\* Both transactions are rolled back, but for a commit that was under way.
LEMMA CrashStep ==
    ASSUME CertInv, Crash
    PROVE  CertInv'
<1>0. /\ TypeA /\ TypeB /\ SharedType /\ TxInv /\ WholeChains /\ Apart(openA, openB)
      /\ Copy(crA, staleA, pcA, memA) /\ Copy(crB, staleB, pcB, memB)
      /\ Import("A", pcA, memA, todoA, openA) /\ Import("B", pcB, memB, todoB, openB)
      /\ DropInv
  BY DEF CertInv, CopyInv, ImportInv
<1>1. /\ pcA' = "idle" /\ staleA' = FALSE /\ memA' = A!NoMem /\ todoA' = <<>> /\ openA' = A!NoTx
      /\ pcB' = "idle" /\ staleB' = FALSE /\ memB' = B!NoMem /\ todoB' = <<>> /\ openB' = B!NoTx
      /\ faults' = faults + 1 /\ UNCHANGED <<crA, crB, secret, inUse, edits, drifts>>
  BY DEF Crash, A!Killed, A!Stop, A!Rollback, B!Killed, B!Stop, B!Rollback, A!Fault
<1>2. /\ A!NoTx.add = {} /\ A!NoTx.drop = {} /\ B!NoTx.add = {} /\ B!NoTx.drop = {}
      /\ A!NoTx \in TxType /\ B!NoTx \in TxType /\ <<>> \in Seq(Blocks)
      /\ A!NoMem \in A!MemType /\ ~ A!NoMem.deleting
      /\ B!NoMem \in B!MemType /\ ~ B!NoMem.deleting
  BY <1>0, RestA, RestB
<1>3. /\ IsFiniteSet(certs') /\ Unique(certs') /\ (drifts = 0 => Whole(certs'))
      /\ certs' \subseteq EntryType
  <2>1. CASE certs' = certs
    BY <1>0, <2>1 DEF TxInv, WholeChains, Whole, SharedType
  <2>2. CASE A!Committing /\ certs' = A!Committed(certs, openA)
    <3>1. certs' \subseteq EntryType
      BY <1>0, <2>2 DEF A!Committed, TypeA, TxType, SharedType
    <3> QED BY <1>0, <2>2, <3>1, CommittedA DEF DropInv
  <2>3. CASE B!Committing /\ certs' = B!Committed(certs, openB)
    <3>1. certs' \subseteq EntryType
      BY <1>0, <2>3 DEF B!Committed, TypeB, TxType, SharedType
    <3> QED BY <1>0, <2>3, <3>1, CommittedB DEF DropInv
  <2> QED BY <2>1, <2>2, <2>3 DEF Crash
<1>4. TypeA' /\ TypeB'
  BY <1>0, <1>1, <1>2 DEF TypeA, TypeB, Steps
<1>5. SharedType'
  BY <1>0, <1>1, <1>3 DEF SharedType, Counters
<1>6. TxInv' /\ Apart(openA, openB)' /\ ImportInv'
  BY <1>1, <1>2, <1>3, FS_EmptySet DEF TxInv, Pending, Unique, Apart, Touched, ImportInv, Import
<1>7. CopyInv'
  BY <1>0, <1>1, <1>2 DEF CopyInv, Copy
<1>8. DropInv' /\ GoneInv' /\ WholeChains'
  BY <1>1, <1>3 DEF DropInv, Drop, GoneInv, Gone, WholeChains, Whole
<1> QED BY <1>4, <1>5, <1>6, <1>7, <1>8 DEF CertInv

LEMMA CertCorrect == Spec => []CertInv
<1>1. ASSUME CertInv, [Next]_vars
      PROVE  CertInv'
  <2>1. CASE UNCHANGED vars
    <3>1. Free /\ certs' = certs /\ drifts' = drifts /\ SharedType'
      BY <1>1, <2>1 DEF vars, Free, CertInv, SharedType, Counters
    <3> QED BY <1>1, <3>1, FreeStep
  <2>2. CASE Next
    BY <1>1, <2>2, StepAInv, StepBInv, UserStep, DbaStep, CrashStep DEF Next, StepA, StepB
  <2> QED BY <1>1, <2>1, <2>2
<1> QED BY <1>1, CertInit, PTL DEF Spec

-----------------------------------------------------------------------------
(* The properties. *)

\* The resources, their reconciles and HANA's certificates keep their types; no
\* transaction outlives its reconcile, although a failed import does not roll its own
\* back, and no two transactions hold the same name.
THEOREM CertTypeCorrect == Spec => []CertTypeOK
<1>1. CertInv => CertTypeOK
  BY HeldApart DEF CertInv, TypeA, TypeB, SharedType, Counters, CertTypeOK
<1> QED BY <1>1, CertCorrect, PTL

\* However imports, deletions, lost answers and ends of the process interleave, next to
\* every certificate are those that Create imported with it: only a DBA splits a chain.
THEOREM WholeChainsCorrect == Spec => []WholeChains
<1>1. CertInv => WholeChains
  BY DEF CertInv
<1> QED BY <1>1, CertCorrect, PTL

LEMMA ReleaseA ==
    ASSUME CertInv, [Next]_vars, crA.finalizer, ~ crA'.exists
    PROVE  Own("A", crA.spec) = {}
<1>0. crA \in A!CrType /\ crA.exists /\ crA' # crA
  BY DEF CertInv, CopyInv, Copy, TypeA
<1>1. A!Controller \/ A!Users
  BY <1>0 DEF Next, vars, StepA, StepB, ownA, SecretChanges, UseChanges, DbaDrops, Free, Crash
<1>2. A!RemoveFinalizer
  <2>1. ASSUME NEW s \in SpecsA, A!Edit(s)
        PROVE  FALSE
    BY <1>0, <2>1 DEF A!Edit, A!CrType
  <2>2. ASSUME A!RequestDelete \/ A!Observe \/ A!BeginCreate \/ A!EndCreate
        PROVE  FALSE
    BY <1>0, <2>2 DEF A!RequestDelete, A!Delete, A!Observe, A!BeginCreate, A!Claim, A!EndCreate,
         A!RecordCreate, A!CrType
  <2> QED BY <1>0, <1>1, <2>1, <2>2 DEF A!Controller, A!Users, A!EditSpec, A!Reconcile, A!Start,
         A!ObserveAbsent, A!NotFound, A!GetCertificatePEM, A!CreateCertificate, A!CreateFails,
         A!ReadBeforeDelete, A!DropCertificate, A!DropFails, A!Commit, A!ObserveFails
<1>3. pcA = "removeFinalizer" /\ ~ staleA
  BY <1>0, <1>2 DEF A!RemoveFinalizer, A!Release
<1>4. memA.spec = crA.spec /\ Gone("A", pcA, memA)
  BY <1>3 DEF CertInv, CopyInv, Copy, GoneInv
<1>5. Sanitized[crA.spec.name] \in Like[Sanitized[crA.spec.name]]
  BY <1>0, CertificateAssumption DEF A!CrType
<1> QED BY <1>3, <1>4, <1>5 DEF Gone, Own

LEMMA ReleaseB ==
    ASSUME CertInv, [Next]_vars, crB.finalizer, ~ crB'.exists
    PROVE  Own("B", crB.spec) = {}
<1>0. crB \in B!CrType /\ crB.exists /\ crB' # crB
  BY DEF CertInv, CopyInv, Copy, TypeB
<1>1. B!Controller \/ B!Users
  BY <1>0 DEF Next, vars, StepB, StepA, ownB, SecretChanges, UseChanges, DbaDrops, Free, Crash
<1>2. B!RemoveFinalizer
  <2>1. ASSUME NEW s \in SpecsB, B!Edit(s)
        PROVE  FALSE
    BY <1>0, <2>1 DEF B!Edit, B!CrType
  <2>2. ASSUME B!RequestDelete \/ B!Observe \/ B!BeginCreate \/ B!EndCreate
        PROVE  FALSE
    BY <1>0, <2>2 DEF B!RequestDelete, B!Delete, B!Observe, B!BeginCreate, B!Claim, B!EndCreate,
         B!RecordCreate, B!CrType
  <2> QED BY <1>0, <1>1, <2>1, <2>2 DEF B!Controller, B!Users, B!EditSpec, B!Reconcile, B!Start,
         B!ObserveAbsent, B!NotFound, B!GetCertificatePEM, B!CreateCertificate, B!CreateFails,
         B!ReadBeforeDelete, B!DropCertificate, B!DropFails, B!Commit, B!ObserveFails
<1>3. pcB = "removeFinalizer" /\ ~ staleB
  BY <1>0, <1>2 DEF B!RemoveFinalizer, B!Release
<1>4. memB.spec = crB.spec /\ Gone("B", pcB, memB)
  BY <1>3 DEF CertInv, CopyInv, Copy, GoneInv
<1>5. Sanitized[crB.spec.name] \in Like[Sanitized[crB.spec.name]]
  BY <1>0, CertificateAssumption DEF B!CrType
<1> QED BY <1>3, <1>4, <1>5 DEF Gone, Own

\* A resource with a finalizer goes away only when none of the certificates that it
\* imported under its name is left, also if it was deleted during the import.
THEOREM ReleasedCleanCorrect == Spec => ReleasedClean
<1>1. CertInv /\ [Next]_vars =>
        [/\ crA.finalizer /\ ~ crA'.exists => Own("A", crA.spec) = {}
         /\ crB.finalizer /\ ~ crB'.exists => Own("B", crB.spec) = {}]_<<crA, crB>>
  BY ReleaseA, ReleaseB
<1> QED BY <1>1, CertCorrect, PTL DEF Spec, ReleasedClean
=============================================================================
