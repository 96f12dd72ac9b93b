-------------------------- MODULE KymaMappingProofs --------------------------
(* The safety of the two mapping controllers, for every instance. *)
EXTENDS KymaMapping, TLAPS

\* Each object is covered by the finalizer of the one it needs: the mapping by the
\* IM, the IM by the KIM, which also keeps the Secret from the collector unless it
\* is deleted in the foreground.
MappingInv ==
    /\ mapping \/ ir.pc = "create" => im.exists /\ im.finalizer
    /\ im.exists \/ kr.pc \in {"createSecret", "createIm"} => kim.exists /\ kim.finalizer
    /\ (im.exists \/ kr.pc = "createIm") /\ kim.deleting # "foreground" => sec # NoSecret
    /\ kr.pc \in {"observe", "createSecret"} => kr.creds \in Valid

LEMMA KymaInit == Init => KymaTypeOK /\ MappingInv
<1> SUFFICES ASSUME Init PROVE KymaTypeOK /\ MappingInv
  OBVIOUS
<1>1. KymaTypeOK
  BY DEF Init, KymaTypeOK, ResourceType, ReconcileType, Resting, NoIm
<1>2. MappingInv
  BY DEF Init, MappingInv, Resting, NoIm
<1> QED BY <1>1, <1>2

KimLocations == {"idle", "observe", "createSecret", "createIm", "created", "failed"}
ImLocations == {"idle", "observe", "create", "created", "failed", "delete"}

LEMMA RestingType ==
    Resting \in ReconcileType(KimLocations) /\ Resting \in ReconcileType(ImLocations)
BY DEF Resting, ReconcileType, KimLocations, ImLocations

\* What the controllers do to a resource leaves a resource.
LEMMA ResourceEdits ==
    ASSUME NEW r \in ResourceType, NEW b \in BOOLEAN,
           NEW mode \in {"no", "background", "foreground"}
    PROVE  /\ NoIm \in ResourceType
           /\ [NoIm EXCEPT !.exists = TRUE] \in ResourceType
           /\ [r EXCEPT !.ready = b] \in ResourceType
           /\ [r EXCEPT !.exists = FALSE] \in ResourceType
           /\ [r EXCEPT !.exists = FALSE, !.finalizer = FALSE] \in ResourceType
           /\ [r EXCEPT !.finalizer = TRUE, !.pending = TRUE] \in ResourceType
           /\ [r EXCEPT !.pending = FALSE, !.ready = b] \in ResourceType
           /\ [r EXCEPT !.deleting = mode] \in ResourceType
BY DEF ResourceType, NoIm

\* A reconcile that moves on is a reconcile.
LEMMA ReconcileEdits ==
    ASSUME NEW P, NEW r \in ReconcileType(P), NEW l \in P
    PROVE  [r EXCEPT !.pc = l] \in ReconcileType(P)
BY DEF ReconcileType

\* Every action of the two controllers, the collector and the users keeps the type.
LEMMA KymaTypeStep == KymaTypeOK /\ [Next]_vars => KymaTypeOK'
<1> SUFFICES ASSUME KymaTypeOK, [Next]_vars PROVE KymaTypeOK'
  OBVIOUS
<1>t. /\ kim \in ResourceType /\ im \in ResourceType /\ sec \in Valid \cup {NoSecret, Removed}
      /\ kr \in ReconcileType(KimLocations) /\ ir \in ReconcileType(ImLocations)
      /\ kyma \in [up : BOOLEAN, creds : Creds] /\ mapping \in BOOLEAN
      /\ edits \in Nat /\ faults \in Nat
  BY DEF KymaTypeOK, KimLocations, ImLocations
<1>q. SUFFICES /\ kim' \in ResourceType /\ im' \in ResourceType /\ sec' \in Valid \cup {NoSecret, Removed}
               /\ kr' \in ReconcileType(KimLocations) /\ ir' \in ReconcileType(ImLocations)
               /\ kyma' \in [up : BOOLEAN, creds : Creds] /\ mapping' \in BOOLEAN
               /\ edits' \in Nat /\ faults' \in Nat
  BY DEF KymaTypeOK, KimLocations, ImLocations
<1>b. im.ready \in BOOLEAN /\ kim.ready \in BOOLEAN /\ kr.creds \in Valid \cup {NoSecret}
  BY <1>t DEF ResourceType, ReconcileType
<1>l. /\ {"observe", "createSecret", "createIm", "created", "failed"} \subseteq KimLocations
      /\ {"observe", "create", "created", "failed", "delete"} \subseteq ImLocations
  BY DEF KimLocations, ImLocations
<1>1. CASE KimConnect
  <2>1. PICK c \in {kyma.creds} \cap Valid : kr' = [pc |-> "observe", deleting |-> kim.deleting, creds |-> c]
    BY <1>1 DEF KimConnect, ExtractKymaData
  <2>2. kr' \in ReconcileType(KimLocations)
    BY <2>1, <1>t, <1>l DEF ReconcileType, ResourceType
  <2> QED BY <1>1, <1>t, <2>2 DEF KimConnect
<1>2. CASE KimObserve
  <2>1. Ready \in BOOLEAN
    BY <1>b DEF Ready
  <2>2. kim' \in {kim, [kim EXCEPT !.ready = Ready],
                   [kim EXCEPT !.exists = FALSE, !.finalizer = FALSE],
                   [kim EXCEPT !.finalizer = TRUE, !.pending = TRUE]}
    BY <1>2 DEF KimObserve
  <2>3. kr' \in {Resting, [kr EXCEPT !.pc = "createSecret"]}
    BY <1>2 DEF KimObserve
  <2>4. kim' \in ResourceType
    BY <1>t, <2>1, <2>2, ResourceEdits
  <2>5. kr' \in ReconcileType(KimLocations)
    BY <1>t, <1>l, <2>3, ReconcileEdits, RestingType
  <2> QED BY <1>2, <1>t, <2>4, <2>5 DEF KimObserve
<1>3. CASE KimCreateSecret
  <2>1. kr' \in ReconcileType(KimLocations)
    BY <1>3, <1>t, <1>l, ReconcileEdits DEF KimCreateSecret
  <2> QED BY <1>3, <1>t, <1>b, <2>1 DEF KimCreateSecret, Fault
<1>4. CASE KimCreateIm
  <2>1. kr' \in ReconcileType(KimLocations)
    BY <1>4, <1>t, <1>l, ReconcileEdits DEF KimCreateIm
  <2>2. im' \in ResourceType
    BY <1>4, <1>t, ResourceEdits DEF KimCreateIm
  <2> QED BY <1>4, <1>t, <2>1, <2>2 DEF KimCreateIm, Fault
<1>5. CASE KimCreateFails
  <2>1. kr' \in ReconcileType(KimLocations)
    BY <1>5, <1>t, <1>l, ReconcileEdits DEF KimCreateFails
  <2> QED BY <1>5, <1>t, <2>1 DEF KimCreateFails, Fault
<1>6. CASE KimEndCreate
  <2>2. kim' \in ResourceType
    BY <1>6, <1>t, ResourceEdits DEF KimEndCreate
  <2> QED BY <1>6, <1>t, <2>2, RestingType DEF KimEndCreate
<1>7. CASE ImConnect
  <2>1. ir' \in ReconcileType(ImLocations)
    BY <1>7, <1>t, <1>l, KymaAssumption DEF ImConnect, ReconcileType, ResourceType
  <2> QED BY <1>7, <1>t, <2>1 DEF ImConnect
<1>8. CASE ImObserve
  <2>1. im' \in ResourceType
    BY <1>8, <1>t, <1>b, ResourceEdits DEF ImObserve, Announce
  <2>2. ir' \in ReconcileType(ImLocations)
    <3>1. ir' \in {Resting, [ir EXCEPT !.pc = "delete"], [ir EXCEPT !.pc = "create"]}
      BY <1>8 DEF ImObserve
    <3> QED BY <3>1, <1>t, <1>l, ReconcileEdits, RestingType
  <2> QED BY <1>8, <1>t, <2>1, <2>2 DEF ImObserve
<1>9. CASE ImObserveFails
  BY <1>9, <1>t, RestingType DEF ImObserveFails, Fault
<1>10. CASE ImCreate
  <2>1. ir' \in ReconcileType(ImLocations)
    BY <1>10, <1>t, <1>l, ReconcileEdits DEF ImCreate
  <2>2. mapping' \in BOOLEAN
    BY <1>10, <1>t, Zenon DEF ImCreate
  <2>3. faults' \in Nat /\ UNCHANGED <<kyma, kim, sec, im, kr, edits>>
    BY <1>10, <1>t DEF ImCreate, Fault
  <2> QED BY <1>t, <2>1, <2>2, <2>3
<1>11. CASE ImEndCreate
  <2>2. im' \in ResourceType
    BY <1>11, <1>t, ResourceEdits DEF ImEndCreate
  <2> QED BY <1>11, <1>t, <2>2, RestingType DEF ImEndCreate
<1>12. CASE ImDelete
  <2>1. mapping' \in BOOLEAN
    BY <1>12, <1>t, Zenon DEF ImDelete
  <2>2. faults' \in Nat /\ ir' = Resting /\ UNCHANGED <<kyma, kim, sec, kr, edits>>
    BY <1>12, <1>t DEF ImDelete, Fault
  <2>3. im' \in ResourceType
    BY <1>12, <1>t, ResourceEdits DEF ImDelete
  <2> QED BY <1>t, <2>1, <2>2, <2>3, RestingType
<1>13. CASE CollectSecret
  BY <1>13, <1>t DEF CollectSecret
<1>14. ASSUME DeleteImObject PROVE im' \in ResourceType
  BY <1>14, <1>t, ResourceEdits DEF DeleteImObject
<1>15. CASE CollectIm \/ DeleteIm
  BY <1>14, <1>15, <1>t DEF CollectIm, DeleteIm, Edit
<1>16. CASE DeleteKim
  <2>1. PICK mode \in DeleteModes :
            kim' = IF kim.finalizer THEN [kim EXCEPT !.deleting = mode]
                                    ELSE [kim EXCEPT !.exists = FALSE]
    BY <1>16 DEF DeleteKim
  <2>2. kim' \in ResourceType
    BY <2>1, <1>t, KymaAssumption, ResourceEdits
  <2> QED BY <1>16, <1>t, <2>2 DEF DeleteKim, Edit
<1>17. CASE RotateCredentials \/ LoseKyma
  <2>1. kyma' \in [up : BOOLEAN, creds : Creds]
    BY <1>17, <1>t DEF RotateCredentials, LoseKyma
  <2> QED BY <1>17, <1>t, <2>1 DEF RotateCredentials, LoseKyma, Edit
<1>18. CASE RemoveMapping
  <2>1. mapping' \in BOOLEAN
    BY <1>18, Zenon DEF RemoveMapping
  <2>2. edits' \in Nat /\ UNCHANGED <<kyma, kim, sec, im, kr, ir, faults>>
    BY <1>18, <1>t DEF RemoveMapping, Edit
  <2> QED BY <1>t, <2>1, <2>2
<1>19. CASE Crash
  BY <1>19, <1>t, RestingType DEF Crash, Fault
<1>21. CASE DeleteSecret
  BY <1>21, <1>t DEF DeleteSecret, Edit
<1>20. CASE UNCHANGED vars
  BY <1>20, <1>t DEF vars
<1> QED BY <1>1, <1>2, <1>3, <1>4, <1>5, <1>6, <1>7, <1>8, <1>9, <1>10, <1>11, <1>12, <1>13,
           <1>15, <1>16, <1>17, <1>18, <1>19, <1>20, <1>21
        DEF Next, KimController, ImController, Collector, Environment

LEMMA MappingStep == KymaTypeOK /\ MappingInv /\ [Next]_vars => MappingInv'
<1> SUFFICES ASSUME KymaTypeOK, MappingInv, [Next]_vars PROVE MappingInv'
  OBVIOUS
<1>t. /\ kim \in ResourceType /\ im \in ResourceType /\ sec \in Valid \cup {NoSecret, Removed}
      /\ kr \in ReconcileType({"idle", "observe", "createSecret", "createIm", "created", "failed"})
      /\ ir \in ReconcileType({"idle", "observe", "create", "created", "failed", "delete"})
  BY DEF KymaTypeOK
<1> USE DEF MappingInv, ResourceType, ReconcileType
<1>r. Resting.pc = "idle" /\ ~ NoIm.exists
  BY DEF Resting, NoIm
<1>k. kyma.creds \in Creds
  BY DEF KymaTypeOK
<1>1. CASE KimConnect
  BY <1>1, <1>t, <1>k DEF KimConnect, ExtractKymaData
<1>2. CASE KimObserve
  <2>1. UNCHANGED <<kyma, sec, im, mapping, ir, edits, faults>>
    BY <1>2 DEF KimObserve
  <2>2. CASE kim' = kim /\ kr' = Resting
    BY <2>1, <2>2, <1>r
  <2>3. CASE im.exists /\ kim' = [kim EXCEPT !.ready = Ready] /\ kr' = Resting
    BY <2>1, <2>3, <1>t, <1>r
  <2>4. CASE /\ ~ im.exists /\ kr' = Resting
             /\ kim' = [kim EXCEPT !.exists = FALSE, !.finalizer = FALSE]
    BY <2>1, <2>4, <1>t, <1>r
  <2>5. CASE /\ kr.pc = "observe" /\ ~ im.exists /\ kim.exists
             /\ kim' = [kim EXCEPT !.finalizer = TRUE, !.pending = TRUE]
             /\ kr' = [kr EXCEPT !.pc = "createSecret"]
    BY <2>1, <2>5, <1>t
  <2> QED BY <1>2, <2>2, <2>3, <2>4, <2>5 DEF KimObserve, ImFound, KimStale
<1>3. CASE KimCreateSecret
  <2>1. sec' \in Valid
    BY <1>3 DEF KimCreateSecret
  <2> QED BY <1>3, <1>t, <2>1, KymaAssumption DEF KimCreateSecret
<1>4. CASE KimCreateIm
  BY <1>4, <1>t DEF KimCreateIm, NoIm
<1>5. CASE KimCreateFails
  BY <1>5, <1>t DEF KimCreateFails
<1>6. CASE KimEndCreate
  BY <1>6, <1>t, <1>r DEF KimEndCreate
<1>7. CASE ImConnect
  BY <1>7, <1>t DEF ImConnect
<1>8. CASE ImObserve
  <2>1. UNCHANGED <<kyma, kim, sec, mapping, kr, edits, faults>>
    BY <1>8 DEF ImObserve
  <2>2. CASE im' = im /\ ir'.pc # "create"
    BY <2>1, <2>2
  <2>3. CASE im' = [im EXCEPT !.ready = TRUE] /\ ir' = Resting
    BY <2>1, <2>3, <1>t, <1>r
  <2>4. CASE ~ mapping /\ im' = NoIm /\ ir' = Resting
    BY <2>1, <2>4, <1>r
  <2>5. CASE im.exists /\ im' = Announce
    BY <2>1, <2>5, <1>t DEF Announce
  <2> QED BY <1>8, <1>t, <1>r, <2>2, <2>3, <2>4, <2>5 DEF ImObserve, ImStale
<1>9. CASE ImObserveFails \/ ImDelete
  BY <1>9, <1>t, <1>r DEF ImObserveFails, ImDelete
<1>16. CASE ImCreate
  BY <1>16, <1>t DEF ImCreate
<1>17. CASE ImEndCreate
  BY <1>17, <1>t, <1>r DEF ImEndCreate
<1>10. CASE CollectSecret
  BY <1>10 DEF CollectSecret, Orphaned
<1>11. CASE CollectIm \/ DeleteIm
  BY <1>11, <1>t, <1>r DEF CollectIm, DeleteIm, DeleteImObject
<1>12. CASE DeleteKim
  BY <1>12, <1>t DEF DeleteKim
<1>18. CASE DeleteSecret
  BY <1>18, KymaAssumption DEF DeleteSecret
<1>13. CASE RotateCredentials \/ LoseKyma \/ RemoveMapping
  BY <1>13 DEF RotateCredentials, LoseKyma, RemoveMapping
<1>14. CASE Crash
  BY <1>14, <1>r DEF Crash
<1>15. CASE UNCHANGED vars
  BY <1>15 DEF vars
<1> QED BY <1>1, <1>2, <1>3, <1>4, <1>5, <1>6, <1>7, <1>8, <1>9, <1>10, <1>11, <1>12, <1>13,
           <1>14, <1>15, <1>16, <1>17, <1>18 DEF Next, KimController, ImController, Collector, Environment

LEMMA MappingCorrect == Spec => [](KymaTypeOK /\ MappingInv)
<1> QED BY KymaInit, KymaTypeStep, MappingStep, PTL DEF Spec

\* Both resources, the Secret, HANA Cloud and the two reconciles keep their types.
THEOREM KymaTypeCorrect == Spec => []KymaTypeOK
<1> QED BY MappingCorrect, PTL

\* As long as a mapping is in HANA Cloud its InstanceMapping exists: the finalizer
\* written before Create holds it until Observe has found no mapping.
THEOREM NoOrphanMappingCorrect == Spec => []NoOrphanMapping
<1>1. MappingInv => NoOrphanMapping
  BY DEF MappingInv, NoOrphanMapping
<1> QED BY <1>1, MappingCorrect, PTL

\* The Secret that the InstanceMapping controller needs to remove a mapping is
\* there as long as the mapping is, however KIM and IM are deleted, unless the KIM
\* is deleted in the foreground or a user deletes the Secret.
THEOREM SecretOutlivesMappingCorrect == Spec => []SecretOutlivesMapping
<1>1. MappingInv => SecretOutlivesMapping
  BY DEF MappingInv, SecretOutlivesMapping
<1> QED BY <1>1, MappingCorrect, PTL
=============================================================================
