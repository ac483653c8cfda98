-------------------------- MODULE MCPackageCheckout --------------------------
(* Two purchases, as rows with an id, for TLC. *)
EXTENDS PackageCheckout

MCPurchases == {1, 2}
=============================================================================
