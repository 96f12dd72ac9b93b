------------------------------- MODULE MCX509 -------------------------------
(* A small instance of X509ProviderController. *)
EXTENDS X509ProviderController

Provider(n, i, r) == [name |-> n, issuer |-> i, rules |-> r]

\* Issuer and rules change, apart and together, and so does the name; one spec has
\* rules HANA refuses, one an issuer it refuses, one a name in lower case.
MCSpecs ==
    {Provider("X", "i", "r"), Provider("X", "j", "r2"), Provider("X", "j", "none"),
     Provider("X", "i", "bad"), Provider("X", "bad", "r"), Provider("Y", "i", "none"),
     Provider("x", "i", "r")}
MCUpper == [n \in Names |-> IF n = "x" THEN "X" ELSE n]
=============================================================================
