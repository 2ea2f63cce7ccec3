------------------------------ MODULE MCSystem ------------------------------
(* Instances of System for TLC.                                            *)
EXTENDS System, TLC

Home == "example.org"
Uri(parts) == [scheme |-> TRUE, parts |-> parts]
Orders == Uri(<<Home, "orders">>)
Billing == Uri(<<Home, "billing">>)

DomainTexts == {Home}
PathTexts == {"orders", "billing"}

Services == {Orders, Billing}
Checkers == {Billing}

Symmetry == Permutations(Keys)
=============================================================================
