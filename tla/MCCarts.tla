------------------------------ MODULE MCCarts -------------------------------
(* A small instance of Carts: two products, one scarcer than the other, and
   quantities below, at and above what the checks allow.                   *)
EXTENDS Carts

CONSTANTS p1, p2

MCProducts == {p1, p2}
MCPrice == (p1 :> 1) @@ (p2 :> 3)
MCStock == (p1 :> 2) @@ (p2 :> 1)
AllQuantities == {-1, 1, 2}
FewQuantities == {1, 2}

Symmetric == Permutations(Requests)
=============================================================================
