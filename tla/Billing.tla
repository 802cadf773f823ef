------------------------------- MODULE Billing -------------------------------
(* A session is sold while payments are entered.  The two share the cafe   *)
(* and no state: the amount of a payment is what the desk types.           *)
EXTENDS Pricing, Payments

Init == SaleInit /\ PayInit

Next ==
    \/ SaleNext /\ UNCHANGED payVars
    \/ PayNext /\ UNCHANGED saleVars

Spec == Init /\ [][Next]_<<saleVars, payVars>>
=============================================================================
