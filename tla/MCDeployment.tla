---------------------------- MODULE MCDeployment ----------------------------
(* Instances of Deployment for TLC.                                        *)
EXTENDS Deployment

Home == "example.org"
Uri(parts) == [scheme |-> TRUE, parts |-> parts]
Orders == Uri(<<Home, "orders">>)
Billing == Uri(<<Home, "billing">>)

DomainTexts == {Home}
PathTexts == {"orders", "billing"}

Services == {Orders, Billing}
Checkers == {Billing}
Flat == [n \in Names |-> {}]
=============================================================================
