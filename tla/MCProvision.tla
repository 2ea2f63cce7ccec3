---------------------------- MODULE MCProvision ----------------------------
(* Instances of Provision for TLC.                                         *)
EXTENDS Provision, TLC

CONSTANTS orders, ordersApi

\* orders/api is a service of its own, nested under orders.
Nested == orders :> {ordersApi} @@ ordersApi :> {}
Flat == [n \in Names |-> {}]

Symmetry == Permutations(Keys) \cup Permutations(Producers)
=============================================================================
