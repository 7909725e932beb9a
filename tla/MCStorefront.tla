----------------------------- MODULE MCStorefront -----------------------------
(* Storefront on a small instance. *)
EXTENDS Storefront

OneUnit == {1}
OneCancelled == <<"cancelled">>
OneDelivered == <<"delivered">>
AllFaults == FaultKinds
=============================================================================
