--------------------------- MODULE MCIdempotency ----------------------------
(* A small instance of Idempotency: enough requests for a run, a retry that
   overlaps it and a retry that comes later, on one key or two.            *)
EXTENDS Idempotency, TLC

Symmetric == Permutations(Requests)
=============================================================================
