------------------------------ MODULE Pricing ------------------------------
(***************************************************************************)
(* The price of a session: which rule a minute falls under, the price of a *)
(* stretch of minutes, and a session that is booked and extended.          *)
(*                                                                         *)
(* Hour, day and week have Hour minutes, Day minutes and Week days; in the *)
(* code 60, 1440 and 7.  Instants count minutes from a midnight that       *)
(* begins a week.  Rules of one cafe do not change while it is open: no    *)
(* endpoint writes them.  The tier of the PC does: the desk may change it  *)
(* between the booking and an extension, which prices all of the session   *)
(* at the tier of that moment.                                             *)
(***************************************************************************)
EXTENDS Integers, FiniteSets, SequencesExt

CONSTANTS
    Hour, Day, Week,
    RuleSets,       \* the tables of active rules to consider
    NoRule, AnyTier,
    Tiers,          \* of a PC; one without a tier falls under rules of AnyTier
    MaxMinutes      \* bound on the minutes of a session

\* Columns of type time reach from 00:00 to 24:00; the rates that are seeded
\* are not negative.
TableOK(table) ==
    /\ IsFiniteSet(table) /\ NoRule \notin table
    /\ \A rule \in table :
           /\ rule.start \in 0 .. Day /\ rule.end \in 0 .. Day
           /\ rule.rate \in Nat /\ rule.priority \in Int

ASSUME ClockAssumption == {Hour, Day, Week} \subseteq Nat \ {0}
ASSUME BoundAssumption == MaxMinutes \in Nat
ASSUME RulesAssumption == \A table \in RuleSets : TableOK(table)

VARIABLES
    rules,      \* rows of pricing_rules, a set of records
    tier,       \* of the PC
    booking     \* the session: startedAt, minutes, price, breakdown, and
                \* the tier it was priced at, which no column keeps

saleVars == <<rules, tier, booking>>

NoBooking == [startedAt |-> 0, minutes |-> 0, price |-> 0, breakdown |-> <<>>,
              tier |-> AnyTier]

-----------------------------------------------------------------------------
(* Rules.                                                                  *)

\* A window that does not end after its start goes on past midnight.
RuleWindow(rule) ==
    [startMin |-> rule.start,
     endMin |-> IF rule.end <= rule.start THEN rule.end + Day ELSE rule.end]

RuleMatchesMinute(rule, minute) ==
    LET w == RuleWindow(rule) IN
    IF w.endMin > Day
    THEN minute >= w.startMin \/ minute < w.endMin - Day
    ELSE minute >= w.startMin /\ minute < w.endMin

\* Mutant: after midnight the day a window began on is looked for.
AppliesFromItsDay(rule, t) ==
    LET began == IF t % Day < rule.start THEN t - Day ELSE t IN
    /\ rule.tier \in {AnyTier, tier}
    /\ (began \div Day) % Week \in rule.days
    /\ RuleMatchesMinute(rule, t % Day)

\* The day of the week is that of the minute, also behind midnight.
Applies(rule, t) ==
    /\ rule.tier \in {AnyTier, tier}
    /\ (t \div Day) % Week \in rule.days
    /\ RuleMatchesMinute(rule, t % Day)

Beats(rule, winner) ==
    \/ winner = NoRule
    \/ rule.priority > winner.priority
    \/ rule.priority = winner.priority /\ rule.rate > winner.rate

\* rows is the table in the order the query returned it, which is any.
PickWinner(rows, t) ==
    FoldLeft(LAMBDA winner, rule :
                 IF Applies(rule, t) /\ Beats(rule, winner)
                 THEN rule ELSE winner,
             NoRule, rows)

-----------------------------------------------------------------------------
(* computePrice.                                                           *)

Rate(rule) == IF rule = NoRule THEN 0 ELSE rule.rate

\* One more minute, at t: the current segment grows or another one begins.
NextMinute(rows, segments, t) ==
    LET winner == PickWinner(rows, t) IN
    IF segments # <<>> /\ Last(segments).rule = winner
    THEN [segments EXCEPT ![Len(segments)].minutes = @ + 1]
    ELSE Append(segments, [from |-> t, rule |-> winner, minutes |-> 1])

Breakdown(rows, startAt, minutes) ==
    FoldLeft(LAMBDA segments, i : NextMinute(rows, segments, startAt + i - 1),
             <<>>, [i \in 1 .. minutes |-> i])

RateMinutes(segments) ==
    SumFunction([i \in DOMAIN segments |->
                    Rate(segments[i].rule) * segments[i].minutes])

\* Math.round(rateMinutes / 60).
RoundToHours(rateMinutes) == (2 * rateMinutes + Hour) \div (2 * Hour)

ComputePrice(rows, startAt, minutes) ==
    LET segments == Breakdown(rows, startAt, minutes) IN
    [startedAt |-> startAt, minutes |-> minutes,
     price |-> RoundToHours(RateMinutes(segments)), breakdown |-> segments,
     tier |-> tier]

-----------------------------------------------------------------------------
(* A session.                                                              *)

SaleInit ==
    /\ rules \in RuleSets
    /\ tier \in Tiers
    /\ booking = NoBooking

\* handleStartSession.
Book(startAt, minutes) ==
    /\ booking = NoBooking
    /\ minutes <= MaxMinutes
    /\ \E rows \in SetToSeqs(rules) :
           booking' = ComputePrice(rows, startAt, minutes)
    /\ UNCHANGED <<rules, tier>>

\* Mutant: the added minutes are priced and added to the price.
ExtendByDelta(minutes) ==
    /\ booking # NoBooking
    /\ booking.minutes + minutes <= MaxMinutes
    /\ \E rows \in SetToSeqs(rules) :
           LET all == ComputePrice(rows, booking.startedAt,
                                   booking.minutes + minutes)
               added == ComputePrice(rows, booking.startedAt + booking.minutes,
                                     minutes)
           IN  booking' = [all EXCEPT !.price = booking.price + added.price]
    /\ UNCHANGED <<rules, tier>>

\* Mutant: the whole is priced from the end of what was booked.
ExtendFromExpiry(minutes) ==
    /\ booking # NoBooking
    /\ booking.minutes + minutes <= MaxMinutes
    /\ \E rows \in SetToSeqs(rules) :
           booking' = [ComputePrice(rows, booking.startedAt + booking.minutes,
                                    booking.minutes + minutes)
                         EXCEPT !.startedAt = booking.startedAt]
    /\ UNCHANGED <<rules, tier>>

\* handleExtendSession: all of it is priced again, from its start.
Extend(minutes) ==
    /\ booking # NoBooking
    /\ booking.minutes + minutes <= MaxMinutes
    /\ \E rows \in SetToSeqs(rules) :
           booking' = ComputePrice(rows, booking.startedAt,
                                   booking.minutes + minutes)
    /\ UNCHANGED <<rules, tier>>

\* handlePatchPc: what is booked keeps its price until it is extended.
PatchPc(class) ==
    /\ tier' = class
    /\ UNCHANGED <<rules, booking>>

SaleNext ==
    \/ \E startAt \in 0 .. Day * Week - 1, minutes \in 1 .. MaxMinutes :
           Book(startAt, minutes)
    \/ \E minutes \in 1 .. MaxMinutes : Extend(minutes)
    \/ \E class \in Tiers : PatchPc(class)

-----------------------------------------------------------------------------
(* Properties.                                                             *)

\* The rules as a cafe would state them: a rule holds from its start for the
\* length of its band, today's or the one that began yesterday, on the minutes
\* that fall on one of its days, for PCs of its tier; of those that hold the
\* most important counts, of several the dearest.
BandLength(rule) ==
    IF rule.end > rule.start THEN rule.end - rule.start
    ELSE rule.end - rule.start + Day

InBand(rule, minute) ==
    \E passed \in {minute - rule.start, minute + Day - rule.start} :
        0 <= passed /\ passed < BandLength(rule)

Holds(rule, t, class) ==
    /\ rule.tier \in {AnyTier, class}
    /\ (t \div Day) % Week \in rule.days
    /\ InBand(rule, t % Day)

RateAt(t, class) ==
    LET holding == {rule \in rules : Holds(rule, t, class)}
        most == {rule \in holding :
                    \A other \in holding : other.priority <= rule.priority}
    IN  Max({rule.rate : rule \in most} \cup {0})

\* What a session costs does not depend on the order in which the database
\* returns the rules, nor on the extensions by which it got its minutes: it is
\* the rate of every minute, rounded once, all of them at the tier the PC had
\* when the session was booked or last extended, whatever it had before or has
\* been given since.
PriceIsSumOfRates ==
    LET minutes == booking.startedAt .. booking.startedAt + booking.minutes - 1
    IN  booking.price =
            RoundToHours(SumFunction([t \in minutes |-> RateAt(t, booking.tier)]))

\* The breakdown shown to the customer explains the price: its segments follow
\* each other from the start to the end of the session, two neighbours differ
\* in their rule, and the price is their sum.
BreakdownExplainsPrice ==
    LET b == booking.breakdown IN
    /\ booking.price = RoundToHours(RateMinutes(b))
    /\ booking.minutes = SumFunction([i \in DOMAIN b |-> b[i].minutes])
    /\ b # <<>> => b[1].from = booking.startedAt
    /\ \A i \in 1 .. Len(b) - 1 :
           /\ b[i + 1].from = b[i].from + b[i].minutes
           /\ b[i + 1].rule # b[i].rule

\* An extension never makes a session cheaper, unless the desk moved the PC to
\* another tier in between: then all of the session costs what that tier does.
PriceNeverDrops ==
    [][booking # NoBooking /\ booking'.tier = booking.tier =>
           booking'.price >= booking.price]_booking
=============================================================================
