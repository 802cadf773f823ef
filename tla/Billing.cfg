\* A session of up to three minutes under eight tables of rules, on a PC that
\* changes its tier; two payment requests.
CONSTANTS
    Hour = 2
    Day = 4
    Week = 2
    RuleSets <- Tables
    NoRule = NoRule
    AnyTier = AnyTier
    Tiers = {"basic", "vip"}
    MaxMinutes = 3
    Requests = {r1, r2}
    Keys = {k1, k2}
    Cafes = {"here", "there"}
    Amounts = {1, 2}
    NoPayment = NoPayment
SPECIFICATION Spec
INVARIANTS
    PriceIsSumOfRates
    BreakdownExplainsPrice
    OnePaymentPerKey
    LedgerExplainsRevenue
    AnsweredIsPaid
PROPERTIES
    PriceNeverDrops
SYMMETRY Symmetry
\* A session at its bound and answered requests are the end.
CHECK_DEADLOCK FALSE
