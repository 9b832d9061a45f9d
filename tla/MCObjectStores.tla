--------------------------- MODULE MCObjectStores ---------------------------
(* Instances of ObjectStores for TLC. *)
EXTENDS ObjectStores, TLC

CONSTANTS b1, b2

MCTags == {b1, b2} \cup 1..MaxVersion

\* Everything but listings on one object; listings while objects appear.
MCWorkloads ==
  {{<<op, 1, None>> : op \in {"get", "head"}} \cup {"create", "cas"} \X {1} \X Bodies,
   {<<"create", k, b1>> : k \in Keys} \cup {<<"list", None, None>>}}

Interchangeable == Permutations(Clients)
=============================================================================
