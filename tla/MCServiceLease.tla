--------------------------- MODULE MCServiceLease ---------------------------
(* Bounded instance of ServiceLease. *)
EXTENDS ServiceLease, TLC

ActorSymmetry == Permutations(Actors)

=============================================================================
