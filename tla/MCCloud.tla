------------------------------ MODULE MCCloud ------------------------------
(* Instances of Cloud for TLC. *)
EXTENDS Cloud, TLC

\* A public bootstrap with a domain has every resource of the others.
MCOptions == {[network |-> TRUE, ingress |-> "public", domain |-> TRUE, cert |-> "none"]}
Symmetry == Permutations(Operators) \cup Permutations(Versions)

=============================================================================
