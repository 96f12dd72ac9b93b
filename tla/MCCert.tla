------------------------------- MODULE MCCert -------------------------------
(* Small instances of CertificateStore. *)
EXTENDS CertificateStore

Resource(n, s) == [name |-> n, secret |-> s]

\* The names a_b, a-b and axb, sanitised to A_B, A_B and AXB: the pattern of the
\* first matches both.
MCSanitized == [n \in Names |-> IF n = "axb" THEN 2 ELSE 1]
MCLike == [b \in Bases |-> IF b = 1 THEN {1, 2} ELSE {2}]

\* B has a name of its own, or may be renamed to what is the name of A as well.
MCSpecsA == {Resource("a_b", "s")}
MCApartB == {Resource("axb", "t")}
MCSpecsB == {Resource("axb", "t"), Resource("a-b", "t")}

\* A chain of two, one with a certificate of the other at its end, one with a block
\* that is no certificate, one with a certificate that cannot be parsed, and a secret
\* that is gone.
MCChains == {<<1, 2>>, <<3, 1>>, <<1, NotPem>>, <<2, 5>>, Missing}
MCFirst == {[x \in Secrets |-> IF x = "s" THEN <<1, 2>> ELSE c] : c \in {<<3, 1>>, <<2, 5>>}}
=============================================================================
