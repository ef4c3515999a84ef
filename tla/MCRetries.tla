------------------------------ MODULE MCRetries ------------------------------
(* The small instance of MCCheckout, behind the middleware.                *)
EXTENDS Retries, MCCheckout
=============================================================================
