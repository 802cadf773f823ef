----------------------------- MODULE MCBilling -----------------------------
(* Instances of Billing for TLC: a day of four minutes, two to the hour,    *)
(* two to the week.                                                        *)
EXTENDS Billing, TLC

Rule(days, start, end, tierOf, rate, priority) ==
    [days |-> days, start |-> start, end |-> end, tier |-> tierOf,
     rate |-> rate, priority |-> priority]

Always == Rule({0, 1}, 0, 0, AnyTier, 1, 0)
Night == Rule({0, 1}, 3, 1, AnyTier, 3, 0)
Weekend == Rule({1}, 0, 2, AnyTier, 3, 1)
LateFriday == Rule({0}, 3, 1, AnyTier, 5, 2)
Better == Rule({0, 1}, 2, 2, "vip", 4, 1)

Tables ==
    {{}, {Always}, {Night}, {Always, Night}, {Always, Weekend},
     {Night, Weekend, Better}, {Always, Night, Better},
     {Weekend, LateFriday}}

Symmetry == Permutations(Requests) \cup Permutations(Keys)
=============================================================================
