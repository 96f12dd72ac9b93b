--------------------------- MODULE ManagedResource ---------------------------
(***************************************************************************)
(* What a controller promises of one custom resource and the HANA object   *)
(* of its name, whatever the object is: the object is created only while   *)
(* the resource carries the finalizer, it is dropped only after somebody   *)
(* asked for the deletion of the resource, and the resource goes away only *)
(* when nothing the provider created is left.                              *)
(***************************************************************************)
EXTENDS Naturals

VARIABLES
    life,     \* the resource: without finalizer, with it, or gone
    deleting, \* its deletion was requested
    object,   \* the object: none, created by the provider, or by somebody else
    outside   \* how often somebody else created or dropped the object

vars == <<life, deleting, object, outside>>

Init ==
    /\ life = "free" /\ ~ deleting /\ outside = 0
    /\ object \in {"none", "foreign"}

\* The provider takes charge of the resource.
Hold == life = "free" /\ life' = "held" /\ UNCHANGED <<deleting, object, outside>>

\* A deletion may be requested while Create is still running.
RequestDelete ==
    /\ ~ deleting
    /\ \/ life = "held" /\ deleting' = TRUE /\ UNCHANGED life
       \/ life = "free" /\ life' = "gone" /\ UNCHANGED deleting
    /\ UNCHANGED <<object, outside>>

Create ==
    /\ life = "held" /\ object = "none" /\ object' = "ours"
    /\ UNCHANGED <<life, deleting, outside>>

Drop ==
    /\ life = "held" /\ deleting
    /\ object # "none" /\ object' = "none"
    /\ UNCHANGED <<life, deleting, outside>>

Release ==
    /\ life = "held" /\ deleting /\ object # "ours"
    /\ life' = "gone"
    /\ UNCHANGED <<deleting, object, outside>>

\* Somebody else creates, changes or drops the object, or points the resource at
\* another one.
Disturb ==
    /\ outside' = outside + 1
    /\ object' \in {"none", "ours", "foreign"}
    /\ UNCHANGED <<life, deleting>>

Next == Hold \/ RequestDelete \/ Create \/ Drop \/ Release \/ Disturb

Spec == Init /\ [][Next]_vars
=============================================================================
