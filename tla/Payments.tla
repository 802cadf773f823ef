------------------------------ MODULE Payments ------------------------------
(***************************************************************************)
(* POST /payments: an idempotent insert, and the ledger row that follows   *)
(* it in a statement of its own.                                           *)
(*                                                                         *)
(* A request and its retries carry one idempotency key.  The row that a    *)
(* request inserts is known by the request.  Requests whose session or     *)
(* order is not the cafe's are turned down and change nothing.  All is     *)
(* entered on one day, that of the dashboard.                              *)
(***************************************************************************)
EXTENDS Integers, Functions

CONSTANTS Requests, Keys, Cafes, Amounts, NoPayment

ASSUME NoPaymentAssumption == NoPayment \notin Requests
ASSUME AmountsAssumption == Amounts \subseteq Nat \ {0}

VARIABLES
    request,    \* what each request asked for, and how far it is
    payment,    \* rows of payments: was the request's row inserted?
    charge      \* rows of payment_transactions per payment

payVars == <<request, payment, charge>>

Step == {"idle", "checked", "inserted", "taken", "answered", "broken"}
Request ==
    [step : Step, key : Keys, cafe : Cafes, amount : Amounts,
     answer : Requests \cup {NoPayment}]

PayTypeOK ==
    /\ request \in [Requests -> Request]
    /\ payment \in SUBSET Requests
    /\ charge \in [Requests -> Nat]

PayInit ==
    /\ request \in [Requests -> [step : {"idle"}, key : Keys, cafe : Cafes,
                                 amount : Amounts, answer : {NoPayment}]]
    /\ payment = {}
    /\ charge = [r \in Requests |-> 0]

\* The body is parsed, session and order are looked up.
CheckRequest(r) ==
    /\ request[r].step = "idle"
    /\ request' = [request EXCEPT ![r].step = "checked"]
    /\ UNCHANGED <<payment, charge>>

\* Mutant: keys are unique per cafe and amount only.
InsertOtherAmount(r) ==
    /\ request[r].step = "checked"
    /\ IF \E p \in payment : /\ request[p].key = request[r].key
                             /\ request[p].amount = request[r].amount
       THEN /\ request' = [request EXCEPT ![r].step = "taken"]
            /\ UNCHANGED payment
       ELSE /\ request' = [request EXCEPT ![r].step = "inserted"]
            /\ payment' = payment \cup {r}
    /\ UNCHANGED charge

\* INSERT ... ON CONFLICT (idempotency_key) DO NOTHING.
InsertPayment(r) ==
    /\ request[r].step = "checked"
    /\ IF \E p \in payment : request[p].key = request[r].key
       THEN /\ request' = [request EXCEPT ![r].step = "taken"]
            /\ UNCHANGED payment
       ELSE /\ request' = [request EXCEPT ![r].step = "inserted"]
            /\ payment' = payment \cup {r}
    /\ UNCHANGED charge

\* Mutant: a repeated request writes the ledger for the payment it found.
ChargeAgain(r) ==
    /\ request[r].step = "taken"
    /\ \E p \in payment :
           /\ request[p].key = request[r].key
           /\ request' = [request EXCEPT ![r].step = "answered", ![r].answer = p]
           /\ charge' = [charge EXCEPT ![p] = @ + 1]
    /\ UNCHANGED payment

\* Mutant: the prior payment is looked up by the key alone.
ReadAnyPrior(r) ==
    /\ request[r].step = "taken"
    /\ \E p \in payment :
           /\ request[p].key = request[r].key
           /\ request' = [request EXCEPT ![r].step = "answered", ![r].answer = p]
    /\ UNCHANGED <<payment, charge>>

\* The prior payment, unless another cafe has the key: then there is none in
\* the answer, which is a success all the same.
ReadPrior(r) ==
    /\ request[r].step = "taken"
    /\ LET prior == {p \in payment : /\ request[p].key = request[r].key
                                     /\ request[p].cafe = request[r].cafe}
       IN  \E p \in IF prior = {} THEN {NoPayment} ELSE prior :
               request' = [request EXCEPT ![r].step = "answered", ![r].answer = p]
    /\ UNCHANGED <<payment, charge>>

\* The ledger row, the audit row, the answer.
WriteCharge(r) ==
    /\ request[r].step = "inserted"
    /\ charge' = [charge EXCEPT ![r] = @ + 1]
    /\ request' = [request EXCEPT ![r].step = "answered", ![r].answer = r]
    /\ UNCHANGED payment

\* A statement fails or the API stops.
Break(r) ==
    /\ request[r].step \in {"checked", "inserted", "taken"}
    /\ request' = [request EXCEPT ![r].step = "broken"]
    /\ UNCHANGED <<payment, charge>>

PayNext ==
    \E r \in Requests :
        \/ CheckRequest(r) \/ InsertPayment(r) \/ ReadPrior(r)
        \/ WriteCharge(r) \/ Break(r)

-----------------------------------------------------------------------------
(* Reports.                                                                *)

\* handleDashboard: revenue of a cafe, and the same from the ledger.
Paid == [p \in payment |-> request[p].amount]
Entered == [p \in payment |-> charge[p] * request[p].amount]

OfCafe(c) == {p \in payment : request[p].cafe = c}

Revenue(c) == SumFunctionOnSet(Paid, OfCafe(c))
Charged(c) == SumFunctionOnSet(Entered, OfCafe(c))

-----------------------------------------------------------------------------
(* Properties.                                                             *)

\* However often a payment is sent, with whatever amounts and from whatever
\* cafe, it is entered once.
OnePaymentPerKey ==
    \A p, q \in payment : request[p].key = request[q].key => p = q

\* The revenue on the dashboard is the revenue of the ledger, but for the
\* payments whose request is between the two statements or broke there (no
\* retry writes that ledger row).
LedgerExplainsRevenue ==
    \A c \in Cafes :
        Revenue(c) - Charged(c) =
            SumFunctionOnSet(Paid, {p \in OfCafe(c) :
                                request[p].step \in {"inserted", "broken"}})

\* A request that was answered stands for one payment of its key, in the books
\* of its cafe; it has none only if another cafe took the key.
AnsweredIsPaid ==
    \A r \in Requests : request[r].step = "answered" =>
        \E p \in payment :
            /\ request[p].key = request[r].key
            /\ IF request[p].cafe = request[r].cafe
               THEN request[r].answer = p ELSE request[r].answer = NoPayment
=============================================================================
