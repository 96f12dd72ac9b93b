-------------------------------- MODULE MCPse --------------------------------
(* Small instances of PseController. *)
EXTENDS PseController

C1 == [id |-> 1, name |-> "c1"]
C2 == [id |-> 2, name |-> "c2"]
MCCerts == {C1, C2}
ById(c) == [id |-> c.id, name |-> "none"]
ByName(c) == [id |-> 0, name |-> c.name]

\* References by ID and by name; the provider by name or by reference, changing and
\* taken out; one spec lists a certificate twice, one names the provider and one
\* the PSE in lower case.
MCSpecs ==
    {[name |-> "PSE", refs |-> {ById(C1), ByName(C2)}, prov |-> "P", byRef |-> TRUE],
     [name |-> "PSE", refs |-> {ByName(C2)}, prov |-> "q", byRef |-> FALSE],
     [name |-> "PSE", refs |-> {ById(C1), ByName(C1)}, prov |-> "P", byRef |-> FALSE],
     [name |-> "PSE", refs |-> {ById(C1)}, prov |-> "", byRef |-> FALSE],
     [name |-> "pse", refs |-> {ById(C1)}, prov |-> "P", byRef |-> FALSE]}
MCUpper == [p \in Providers |-> IF p = "q" THEN "Q" ELSE p]
=============================================================================
