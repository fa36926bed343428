---------------------------- MODULE MCIdempotency ----------------------------
(* Instances of Idempotency: ids, clients and parameters are alike. *)
EXTENDS Idempotency, TLC

Symmetry == Permutations(OrderIds) \cup Permutations(Clients)
              \cup Permutations(Hashed) \cup Permutations(Keys)
=============================================================================
