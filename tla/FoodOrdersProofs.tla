-------------------------- MODULE FoodOrdersProofs --------------------------
(***************************************************************************)
(* Proofs about FoodOrders, for any number of orders, items and members of *)
(* staff, any menu and any number of days and changes.                     *)
(*                                                                         *)
(* The three properties are about different columns and have an invariant  *)
(* each.  The numbers of a day are 1 .. n because whoever has been given   *)
(* one holds the lock of the day, and the one it has been given is n + 1   *)
(* until it commits (NumberIsNext, LockApart).  A sum keeps the menu it    *)
(* was taken from, because the menus only grow (PricedSince).  A move      *)
(* under way leaves a status the order has or had (MovesAllowed); if that  *)
(* is not the present one the history forks when it commits, and if it is, *)
(* the status moved to is new, because moves go up in rank (HistoryKept).  *)
(***************************************************************************)
EXTENDS FoodOrders, FiniteSetTheorems, TLAPS

\* What orders may cost: the sum of an order's lines on some menu.
Sums ==
    {0} \cup {Cost(menu, lines) :
                 menu \in [Items -> Item \cup {NoItem}], lines \in Lines}

\* The type of the tables; a sum is one of Sums, a type of its own.
PricedRow ==
    [step : {"none", "begun", "loaded", "numbered", "placed"},
     lines : Lines, since : Nat, total : Sums, day : 0 .. MaxDay,
     number : Nat]
Tables ==
    /\ menus \in Seq([Items -> Item \cup {NoItem}]) /\ Len(menus) >= 1
    /\ day \in 0 .. MaxDay
    /\ order \in [Orders -> PricedRow]
    /\ status \in [Orders -> OrderStatus]
    /\ history \in [Orders -> [Move -> Nat]]
    /\ desk \in [Desks -> [order : Orders \cup {NoOrder}, from : OrderStatus,
                           to : OrderStatus, written : BOOLEAN]]

NumbersWithoutGap ==
    \A d \in 0 .. MaxDay :
        /\ \E n \in Nat : NumbersOn(d) = 1 .. n
        /\ \A o, p \in PlacedOn(d) :
               order[o].number = order[p].number => o = p

\* The number an order has been given is the next one of its day, ...
NumberIsNext ==
    \A o \in Orders : order[o].step = "numbered" =>
        \E n \in Nat : /\ NumbersOn(order[o].day) = 1 .. n
                       /\ order[o].number = n + 1

\* ... and one order of a day has been given it: it holds the lock.
LockApart ==
    \A o, p \in Orders :
        /\ order[o].step = "numbered" /\ order[p].step = "numbered"
        /\ order[o].day = order[p].day
        => o = p

\* A transaction that has its sum took it from one menu since it began.
PricedSince ==
    \A o \in Orders :
        /\ order[o].step # "none" => order[o].since \in 1 .. Len(menus)
        /\ order[o].step \in {"loaded", "numbered", "placed"} =>
               \E k \in order[o].since .. Len(menus) :
                   /\ Orderable(menus[k], order[o].lines)
                   /\ order[o].total = Cost(menus[k], order[o].lines)

\* A move under way was allowed from the status it read, which the order has
\* or had.
MovesAllowed ==
    \A d \in Desks :
        /\ desk[d].written => desk[d].order # NoOrder
        /\ desk[d].order # NoOrder =>
               /\ <<desk[d].from, desk[d].to>> \in Transitions
               /\ desk[d].from \in Reached(history[desk[d].order])

\* Moves go up: no order returns to a status it left.
Rank(x) ==
    CASE x = "placed" -> 0 [] x = "accepted" -> 1 [] x = "preparing" -> 2
      [] x = "ready" -> 3 [] x = "delivered" -> 4 [] OTHER -> 5

\* HistoryTellsStatus for one order, and that it climbs.
Climbs(h, s) ==
    /\ Reached(h) \ Left(h) = {s}
    /\ \A x \in Left(h) : Rank(x) < Rank(s)
Tells(h, s) ==
    /\ Rows(h) \subseteq Transitions
    /\ s \in Reached(h) /\ Left(h) \subseteq Reached(h)
    /\ Forked(h) \/ Climbs(h, s)
HistoryKept == \A o \in Orders : Tells(history[o], status[o])

NumberInv == NumbersWithoutGap /\ NumberIsNext /\ LockApart
FoodInv ==
    /\ Tables
    /\ NumberInv
    /\ PricedSince
    /\ MovesAllowed
    /\ HistoryKept

-----------------------------------------------------------------------------
(* The start.                                                              *)

LEMMA NoRowIsRow == NoRow \in PricedRow
<1>1. MaxDay \in Nat /\ MaxQty \in Nat
  BY FoodBounds
<1>2. [i \in Items |-> 0] \in Lines
  BY <1>1 DEF Lines
<1> QED
  BY <1>1, <1>2 DEF NoRow, PricedRow, Sums

LEMMA FoodInvInitially == FoodInit => FoodInv
<1> SUFFICES ASSUME FoodInit PROVE FoodInv
  OBVIOUS
<1>1. PICK m \in [Items -> {NoItem, FirstItem}] : menus = <<m>>
  BY DEF FoodInit
<1>2. NoRow \in PricedRow
  BY NoRowIsRow
<1>3. FirstItem \in Item
  <2>1. (CHOOSE p \in Prices : TRUE) \in Prices
    BY PricesAssumption
  <2> QED
    BY <2>1 DEF FirstItem, Item
<1>4. Tables
  <2>1. m \in [Items -> Item \cup {NoItem}]
    BY <1>3
  <2>2. menus \in Seq([Items -> Item \cup {NoItem}]) /\ Len(menus) = 1
    BY <1>1, <2>1
  <2> QED
    BY <1>2, <2>2, FoodBounds DEF FoodInit, Tables, OrderStatus, Free
<1>5. \A o \in Orders : order[o].step = "none"
  BY DEF FoodInit, NoRow
<1>6. NumberInv
  <2>1. \A d \in 0 .. MaxDay : PlacedOn(d) = {} /\ NumbersOn(d) = {}
    BY <1>5 DEF PlacedOn, NumbersOn
  <2>2. 1 .. 0 = {}
    OBVIOUS
  <2> QED
    BY <1>5, <2>1, <2>2 DEF NumberInv, NumbersWithoutGap, NumberIsNext, LockApart
<1>7. PricedSince
  BY <1>5 DEF PricedSince
<1>8. MovesAllowed
  BY DEF FoodInit, MovesAllowed, Free
<1>9. HistoryKept
  <2>1. PICK h : h = [v \in Move |-> 0]
    OBVIOUS
  <2>2. Rows(h) = {} /\ Left(h) = {} /\ Reached(h) = {"placed"}
    BY <2>1 DEF Rows, Left, Reached
  <2> QED
    BY <2>1, <2>2 DEF FoodInit, HistoryKept, Tells, Climbs
<1> QED
  BY <1>4, <1>6, <1>7, <1>8, <1>9 DEF FoodInv

-----------------------------------------------------------------------------
(* Numbers.                                                                *)

\* A step that moves one order between states before "placed", and gives it no
\* number, keeps what is said of the numbers.
LEMMA UnplacedKeepsNumbers ==
  ASSUME FoodInv, NEW o \in Orders, NEW row \in PricedRow,
         order' = [order EXCEPT ![o] = row],
         order[o].step # "placed", row.step \notin {"placed", "numbered"}
  PROVE  NumberInv'
<1>1. /\ order'[o] = row
      /\ \A p \in Orders : p # o => order'[p] = order[p]
  BY DEF FoodInv, Tables
<1>2. \A d \in 0 .. MaxDay : PlacedOn(d)' = PlacedOn(d)
  BY <1>1 DEF PlacedOn
<1>3. \A d \in 0 .. MaxDay : \A p \in PlacedOn(d) :
          order'[p].number = order[p].number
  BY <1>1 DEF PlacedOn
<1>4. \A d \in 0 .. MaxDay : NumbersOn(d)' = NumbersOn(d)
  BY <1>2, <1>3 DEF NumbersOn
<1>5. \A p \in Orders : order'[p].step = "numbered" =>
          order'[p] = order[p] /\ order[p].day \in 0 .. MaxDay
  BY <1>1 DEF FoodInv, Tables, PricedRow
<1>6. NumbersWithoutGap'
  BY <1>2, <1>3, <1>4 DEF FoodInv, NumberInv, NumbersWithoutGap
<1>7. NumberIsNext'
  BY <1>4, <1>5 DEF FoodInv, NumberInv, NumberIsNext
<1>8. LockApart'
  BY <1>5 DEF FoodInv, NumberInv, LockApart
<1> QED
  BY <1>6, <1>7, <1>8 DEF NumberInv

\* The greatest of 1 .. n, or 0.
LEMMA MaxOfNumbers ==
  ASSUME NEW n \in Nat
  PROVE  Max(1 .. n \cup {0}) = n
<1>1. n \in 1 .. n \cup {0} /\ \A y \in 1 .. n \cup {0} : n >= y
  OBVIOUS
<1>2. \A x \in 1 .. n \cup {0} :
          (\A y \in 1 .. n \cup {0} : x >= y) => x = n
  BY <1>1
<1> QED
  BY <1>1, <1>2 DEF Max

\* Taking the lock and the next number.
LEMMA NumberingKeepsNumbers ==
  ASSUME FoodInv, NEW o \in Orders, NextOrderNumber(o)
  PROVE  NumberInv' /\ order' \in [Orders -> PricedRow]
<1> DEFINE number == Max(NumbersOn(order[o].day) \cup {0}) + 1
<1>1. /\ order[o].step = "loaded" /\ LockFree(o)
      /\ order' = [order EXCEPT ![o].step = "numbered", ![o].number = number]
  BY DEF NextOrderNumber
<1>2. PICK d \in 0 .. MaxDay : d = order[o].day
  BY DEF FoodInv, Tables, PricedRow
<1>3. PICK n \in Nat : NumbersOn(d) = 1 .. n
  BY <1>2 DEF FoodInv, NumberInv, NumbersWithoutGap
<1>4. number = n + 1 /\ number \in Nat
  BY <1>2, <1>3, MaxOfNumbers
<1> HIDE DEF number
<1>5. /\ order'[o] = [order[o] EXCEPT !.step = "numbered", !.number = number]
      /\ \A p \in Orders : p # o => order'[p] = order[p]
  BY <1>1 DEF FoodInv, Tables
<1>6. order'[o] \in PricedRow
  <2>1. order[o] \in PricedRow
    BY DEF FoodInv, Tables
  <2> QED
    BY <1>4, <1>5, <2>1 DEF PricedRow
<1>7. order' \in [Orders -> PricedRow]
  BY <1>1, <1>5, <1>6 DEF FoodInv, Tables
<1>8. /\ order'[o].step = "numbered" /\ order'[o].number = number
      /\ order'[o].day = d
  BY <1>2, <1>5 DEF FoodInv, Tables, PricedRow
<1>9. \A e \in 0 .. MaxDay : PlacedOn(e)' = PlacedOn(e)
  BY <1>1, <1>5, <1>8 DEF PlacedOn
<1>10. \A e \in 0 .. MaxDay : \A p \in PlacedOn(e) : order'[p] = order[p]
  BY <1>1, <1>5 DEF PlacedOn
<1>11. \A e \in 0 .. MaxDay : NumbersOn(e)' = NumbersOn(e)
  BY <1>9, <1>10 DEF NumbersOn
<1>12. NumbersWithoutGap'
  BY <1>9, <1>10, <1>11 DEF FoodInv, NumberInv, NumbersWithoutGap
<1>13. NumberIsNext'
  <2> SUFFICES ASSUME NEW p \in Orders, order'[p].step = "numbered"
               PROVE  \E k \in Nat : /\ NumbersOn(order[p].day)' = 1 .. k
                                     /\ order'[p].number = k + 1
                                     /\ order'[p].day = order[p].day
    BY DEF NumberIsNext
  <2>1. CASE p = o
    BY <1>2, <1>3, <1>4, <1>8, <1>11, <2>1
  <2>2. CASE p # o
    <3>1. order[p].day \in 0 .. MaxDay /\ order'[p] = order[p]
      BY <1>5, <2>2 DEF FoodInv, Tables, PricedRow
    <3> QED
      BY <1>11, <3>1 DEF FoodInv, NumberInv, NumberIsNext
  <2> QED
    BY <2>1, <2>2
<1>14. LockApart'
  <2>1. \A p \in Orders : p # o /\ order[p].step = "numbered" => order[p].day # d
    BY <1>1, <1>2 DEF LockFree
  <2>2. \A p, q \in Orders :
            /\ order[p].step = "numbered" /\ order[q].step = "numbered"
            /\ order[p].day = order[q].day
            => p = q
    BY DEF FoodInv, NumberInv, LockApart
  <2> SUFFICES ASSUME NEW p \in Orders, NEW q \in Orders,
                      order'[p].step = "numbered", order'[q].step = "numbered",
                      order'[p].day = order'[q].day
               PROVE  p = q
    BY DEF LockApart
  <2>3. CASE p = o \/ q = o
    BY <1>5, <1>8, <2>1, <2>3
  <2>4. CASE p # o /\ q # o
    BY <1>5, <2>2, <2>4
  <2> QED
    BY <2>3, <2>4
<1> QED
  BY <1>7, <1>12, <1>13, <1>14 DEF NumberInv

\* The commit enters the number that follows the last one, and gives the lock
\* back.
LEMMA CommitKeepsNumbers ==
  ASSUME FoodInv, NEW o \in Orders, InsertOrder(o)
  PROVE  NumberInv' /\ order' \in [Orders -> PricedRow]
<1>1. /\ order[o].step = "numbered"
      /\ order' = [order EXCEPT ![o].step = "placed"]
  BY DEF InsertOrder
<1>2. PICK d \in 0 .. MaxDay : d = order[o].day
  BY DEF FoodInv, Tables, PricedRow
<1>3. PICK n \in Nat : NumbersOn(d) = 1 .. n /\ order[o].number = n + 1
  BY <1>1, <1>2 DEF FoodInv, NumberInv, NumberIsNext
<1>4. /\ order'[o] = [order[o] EXCEPT !.step = "placed"]
      /\ \A p \in Orders : p # o => order'[p] = order[p]
  BY <1>1 DEF FoodInv, Tables
<1>5. /\ order'[o] \in PricedRow
      /\ order'[o].step = "placed" /\ order'[o].day = d
      /\ order'[o].number = n + 1
  <2>1. order[o] \in PricedRow
    BY DEF FoodInv, Tables
  <2> QED
    BY <1>2, <1>3, <1>4, <2>1 DEF PricedRow
<1>6. order' \in [Orders -> PricedRow]
  BY <1>1, <1>4, <1>5 DEF FoodInv, Tables
<1>7. /\ PlacedOn(d)' = PlacedOn(d) \cup {o}
      /\ \A e \in 0 .. MaxDay : e # d => PlacedOn(e)' = PlacedOn(e)
  BY <1>1, <1>2, <1>4, <1>5 DEF PlacedOn
<1>8. \A e \in 0 .. MaxDay : \A p \in PlacedOn(e) :
          p \in Orders /\ p # o /\ order'[p] = order[p]
  BY <1>1, <1>4 DEF PlacedOn
<1>9. NumbersOn(d)' = 1 .. n + 1
  <2>1. NumbersOn(d)' = NumbersOn(d) \cup {n + 1}
    BY <1>2, <1>5, <1>7, <1>8 DEF NumbersOn
  <2>2. 1 .. n + 1 = 1 .. n \cup {n + 1}
    OBVIOUS
  <2> QED
    BY <1>3, <2>1, <2>2
<1>10. \A e \in 0 .. MaxDay : e # d => NumbersOn(e)' = NumbersOn(e)
  BY <1>7, <1>8 DEF NumbersOn
<1>11. NumbersWithoutGap'
  <2> SUFFICES ASSUME NEW e \in 0 .. MaxDay
               PROVE  /\ \E k \in Nat : NumbersOn(e)' = 1 .. k
                      /\ \A p, q \in PlacedOn(e)' :
                             order'[p].number = order'[q].number => p = q
    BY DEF NumbersWithoutGap
  <2>1. CASE e = d
    <3>1. \A p \in PlacedOn(d) : order[p].number \in 1 .. n
      BY <1>3 DEF NumbersOn
    <3>2. \A p \in PlacedOn(d) : order'[p].number # n + 1
      BY <1>2, <1>8, <3>1
    <3>3. \A p, q \in PlacedOn(d) :
              order'[p].number = order'[q].number => p = q
      BY <1>2, <1>8 DEF FoodInv, NumberInv, NumbersWithoutGap
    <3>4. n + 1 \in Nat
      OBVIOUS
    <3>5. \A p, q \in PlacedOn(d) \cup {o} :
              order'[p].number = order'[q].number => p = q
      BY <1>5, <3>2, <3>3
    <3> QED
      BY <1>7, <1>9, <2>1, <3>4, <3>5
  <2>2. CASE e # d
    BY <1>7, <1>8, <1>10, <2>2 DEF FoodInv, NumberInv, NumbersWithoutGap
  <2> QED
    BY <2>1, <2>2
<1>12. \A p \in Orders : order'[p].step = "numbered" =>
           /\ p # o /\ order'[p] = order[p]
           /\ order[p].day \in 0 .. MaxDay /\ order[p].day # d
  <2>1. \A p \in Orders : p # o /\ order[p].step = "numbered" => order[p].day # d
    BY <1>1, <1>2 DEF FoodInv, NumberInv, LockApart
  <2>2. \A p \in Orders : order[p].day \in 0 .. MaxDay
    BY DEF FoodInv, Tables, PricedRow
  <2>3. \A p \in Orders : order'[p].step = "numbered" => p # o /\ order'[p] = order[p]
    BY <1>4, <1>5
  <2> QED
    BY <2>1, <2>2, <2>3
<1>13. NumberIsNext'
  BY <1>10, <1>12 DEF FoodInv, NumberInv, NumberIsNext
<1>14. LockApart'
  BY <1>12 DEF FoodInv, NumberInv, LockApart
<1> QED
  BY <1>6, <1>11, <1>13, <1>14 DEF NumberInv

\* The numbers of a day are as many as its orders, so NumbersWithoutGap is
\* what the run checks.
LEMMA NumbersAreOrders == Tables /\ NumbersWithoutGap => NumbersGapFree
<1> SUFFICES ASSUME Tables, NumbersWithoutGap, NEW d \in 0 .. MaxDay,
                    NEW n \in Nat, NumbersOn(d) = 1 .. n
             PROVE  n \in 0 .. Cardinality(Orders)
  BY DEF NumbersWithoutGap, NumbersGapFree
<1> DEFINE f == [o \in PlacedOn(d) |-> order[o].number]
<1>1. PlacedOn(d) \in SUBSET Orders
  BY DEF PlacedOn
<1>2. f \in Surjection(PlacedOn(d), 1 .. n)
  <2>1. \A o \in PlacedOn(d) : order[o].number \in 1 .. n
    BY DEF NumbersOn
  <2>2. \A k \in 1 .. n : \E o \in PlacedOn(d) : order[o].number = k
    BY DEF NumbersOn
  <2> QED
    BY <2>1, <2>2 DEF Surjection
<1>3. /\ IsFiniteSet(PlacedOn(d))
      /\ Cardinality(PlacedOn(d)) <= Cardinality(Orders)
      /\ Cardinality(Orders) \in Nat
  BY <1>1, OrdersAssumption, FS_Subset, FS_CardinalityType
<1>4. Cardinality(PlacedOn(d)) \in Nat
  BY <1>3, FS_CardinalityType
<1>5. Cardinality(1 .. n) <= Cardinality(PlacedOn(d))
  BY <1>2, <1>3, FS_Surjection
<1>6. Cardinality(1 .. n) = n
  BY FS_Interval
<1> QED
  BY <1>3, <1>4, <1>5, <1>6

-----------------------------------------------------------------------------
(* Steps.                                                                  *)

LEMMA NumbersUntouched ==
  ASSUME NumberInv, order' = order
  PROVE  NumberInv'
<1>1. \A d \in 0 .. MaxDay : PlacedOn(d)' = PlacedOn(d) /\ NumbersOn(d)' = NumbersOn(d)
  BY DEF PlacedOn, NumbersOn
<1> QED
  BY <1>1 DEF NumberInv, NumbersWithoutGap, NumberIsNext, LockApart,
              NumbersOn, PlacedOn

\* Steps that leave orders, histories and requests alone, and the menus too.
LEMMA UntouchedKeepsInv ==
  ASSUME FoodInv, UNCHANGED <<menus, orderVars, desk>>, day' \in 0 .. MaxDay
  PROVE  FoodInv'
<1>1. Tables'
  BY DEF FoodInv, Tables, orderVars
<1>2. NumberInv'
  BY DEF FoodInv, orderVars, NumberInv, NumbersWithoutGap, NumberIsNext,
         LockApart, NumbersOn, PlacedOn
<1>3. PricedSince' /\ MovesAllowed' /\ HistoryKept'
  BY DEF FoodInv, orderVars, PricedSince, MovesAllowed, HistoryKept
<1> QED
  BY <1>1, <1>2, <1>3 DEF FoodInv

\* A new state of the menu: the old ones keep their places.
LEMMA MenuKeepsInv ==
  ASSUME FoodInv, NEW i \in Items, NEW row \in Item, ChangeItem(i, row)
  PROVE  FoodInv'
<1> DEFINE Menus == [Items -> Item \cup {NoItem}]
           new == [Menu EXCEPT ![i] = row]
<1>1. menus \in Seq(Menus) /\ Len(menus) >= 1
  BY DEF FoodInv, Tables
<1>2. Menu \in Menus
  BY <1>1 DEF Menu
<1>3. new \in Menus
  BY <1>2
<1>4. menus' = Append(menus, new) /\ UNCHANGED <<day, order, status, history, desk>>
  BY DEF ChangeItem, orderVars
<1> HIDE DEF new, Menus
<1>5. /\ menus' \in Seq(Menus) /\ Len(menus') = Len(menus) + 1
      /\ \A k \in 1 .. Len(menus) : menus'[k] = menus[k]
  BY <1>1, <1>3, <1>4
<1>6. Tables'
  BY <1>1, <1>4, <1>5 DEF FoodInv, Tables, Menus
<1>7. NumberInv'
  BY <1>4, NumbersUntouched DEF FoodInv
<1>8. PricedSince'
  <2> SUFFICES ASSUME NEW o \in Orders
               PROVE  /\ order[o].step # "none" =>
                             order[o].since \in 1 .. Len(menus')
                      /\ order[o].step \in {"loaded", "numbered", "placed"} =>
                             \E k \in order[o].since .. Len(menus') :
                                 /\ Orderable(menus'[k], order[o].lines)
                                 /\ order[o].total =
                                        Cost(menus'[k], order[o].lines)
    BY <1>4 DEF PricedSince
  <2>1. order[o].step # "none" => order[o].since \in 1 .. Len(menus)
    BY DEF FoodInv, PricedSince
  <2>2. ASSUME order[o].step \in {"loaded", "numbered", "placed"}
        PROVE  \E k \in order[o].since .. Len(menus) :
                   /\ Orderable(menus[k], order[o].lines)
                   /\ order[o].total = Cost(menus[k], order[o].lines)
    BY <2>2 DEF FoodInv, PricedSince
  <2>3. Len(menus) \in Nat
    BY <1>1
  <2> QED
    BY <1>5, <2>1, <2>2, <2>3
<1>9. MovesAllowed' /\ HistoryKept'
  BY <1>4 DEF FoodInv, MovesAllowed, HistoryKept
<1> QED
  BY <1>6, <1>7, <1>8, <1>9 DEF FoodInv

\* A step of one order's transaction: the rest follows from its row.
LEMMA OrderStepKeepsInv ==
  ASSUME FoodInv, NEW o \in Orders, NEW row \in PricedRow,
         order' = [order EXCEPT ![o] = row], NumberInv',
         row.step # "none" => row.since \in 1 .. Len(menus),
         row.step \in {"loaded", "numbered", "placed"} =>
             \E k \in row.since .. Len(menus) :
                 /\ Orderable(menus[k], row.lines)
                 /\ row.total = Cost(menus[k], row.lines),
         UNCHANGED <<menus, day, status, history, desk>>
  PROVE  FoodInv'
<1>1. Tables'
  BY DEF FoodInv, Tables
<1>2. /\ order'[o] = row
      /\ \A p \in Orders : p # o => order'[p] = order[p]
  BY DEF FoodInv, Tables
<1>3. PricedSince'
  BY <1>2 DEF FoodInv, PricedSince
<1>4. MovesAllowed' /\ HistoryKept'
  BY DEF FoodInv, MovesAllowed, HistoryKept
<1> QED
  BY <1>1, <1>3, <1>4 DEF FoodInv

LEMMA BeginKeepsInv ==
  ASSUME FoodInv, NEW o \in Orders, BeginOrder(o)
  PROVE  FoodInv'
<1>1. /\ order[o].step = "none"
      /\ UNCHANGED <<menus, day, status, history, desk>>
  BY DEF BeginOrder, menuVars
<1>2. PICK lines \in Lines :
          order' = [order EXCEPT ![o] =
              [NoRow EXCEPT !.step = "begun", !.lines = lines,
                            !.since = Len(menus), !.day = day]]
  BY DEF BeginOrder
<1>3. Len(menus) \in Nat /\ Len(menus) >= 1 /\ day \in 0 .. MaxDay
  BY DEF FoodInv, Tables
<1>4. PICK row \in PricedRow :
          /\ row.step = "begun" /\ row.since = Len(menus)
          /\ order' = [order EXCEPT ![o] = row]
  <2>1. NoRow \in PricedRow
    BY NoRowIsRow
  <2> QED
    BY <1>2, <1>3, <2>1 DEF PricedRow
<1>5. NumberInv'
  BY <1>1, <1>4, UnplacedKeepsNumbers
<1>6. row.since \in 1 .. Len(menus) /\ row.step \notin {"loaded", "numbered", "placed"}
  BY <1>3, <1>4
<1> QED
  BY <1>1, <1>4, <1>5, <1>6, OrderStepKeepsInv

LEMMA LoadKeepsInv ==
  ASSUME FoodInv, NEW o \in Orders, LoadItems(o)
  PROVE  FoodInv'
<1>1. /\ order[o].step = "begun" /\ Orderable(Menu, order[o].lines)
      /\ UNCHANGED <<menus, day, status, history, desk>>
  BY DEF LoadItems, menuVars
<1>2. order[o] \in PricedRow
  BY DEF FoodInv, Tables
<1>3. Menu \in [Items -> Item \cup {NoItem}] /\ Len(menus) \in Nat
  BY DEF FoodInv, Tables, Menu
<1>4. Cost(Menu, order[o].lines) \in Sums
  BY <1>2, <1>3 DEF Sums, PricedRow
<1>5. PICK row \in PricedRow :
          /\ row.step = "loaded"
          /\ row.since = order[o].since /\ row.lines = order[o].lines
          /\ row.total = Cost(Menu, order[o].lines)
          /\ order' = [order EXCEPT ![o] = row]
  <2>1. [order[o] EXCEPT !.step = "loaded",
                         !.total = Cost(Menu, order[o].lines)] \in PricedRow
    BY <1>2, <1>4 DEF PricedRow
  <2>2. order' = [order EXCEPT ![o] =
            [order[o] EXCEPT !.step = "loaded",
                             !.total = Cost(Menu, order[o].lines)]]
    BY DEF LoadItems, FoodInv, Tables
  <2> QED
    BY <1>2, <2>1, <2>2 DEF PricedRow
<1>6. row.since \in 1 .. Len(menus)
  BY <1>1, <1>5 DEF FoodInv, PricedSince
<1>7. \E k \in row.since .. Len(menus) :
          /\ Orderable(menus[k], row.lines)
          /\ row.total = Cost(menus[k], row.lines)
  BY <1>1, <1>3, <1>5, <1>6 DEF Menu
<1>8. NumberInv'
  BY <1>1, <1>2, <1>5, UnplacedKeepsNumbers
<1> QED
  BY <1>1, <1>2, <1>5, <1>6, <1>7, <1>8, OrderStepKeepsInv

LEMMA AbortKeepsInv ==
  ASSUME FoodInv, NEW o \in Orders, AbortOrder(o)
  PROVE  FoodInv'
<1>1. /\ order[o].step # "placed" /\ order' = [order EXCEPT ![o] = NoRow]
      /\ UNCHANGED <<menus, day, status, history, desk>>
  BY DEF AbortOrder, menuVars
<1>2. NoRow \in PricedRow /\ NoRow.step = "none"
  BY NoRowIsRow DEF NoRow
<1>3. NumberInv'
  BY <1>1, <1>2, UnplacedKeepsNumbers
<1> QED
  BY <1>1, <1>2, <1>3, OrderStepKeepsInv

\* Number and commit leave lines and sum of the order as they are.
LEMMA EnterKeepsInv ==
  ASSUME FoodInv, NEW o \in Orders, NextOrderNumber(o) \/ CommitOrder(o)
  PROVE  FoodInv'
<1>1. /\ order[o].step \in {"loaded", "numbered"}
      /\ UNCHANGED <<menus, day, status, history, desk>>
  BY DEF NextOrderNumber, CommitOrder, InsertOrder, menuVars
<1>2. NumberInv' /\ order' \in [Orders -> PricedRow]
  BY NumberingKeepsNumbers, CommitKeepsNumbers DEF CommitOrder
<1>3. order' = [order EXCEPT ![o] = order'[o]]
  BY DEF NextOrderNumber, CommitOrder, InsertOrder, FoodInv, Tables
<1>4. /\ order'[o].since = order[o].since /\ order'[o].lines = order[o].lines
      /\ order'[o].total = order[o].total /\ order'[o] \in PricedRow
  <2>1. order[o] \in PricedRow
    BY DEF FoodInv, Tables
  <2>2. \/ order'[o] = [order[o] EXCEPT !.step = "placed"]
        \/ order'[o] = [order[o] EXCEPT !.step = "numbered",
                        !.number = Max(NumbersOn(order[o].day) \cup {0}) + 1]
    BY DEF NextOrderNumber, CommitOrder, InsertOrder, FoodInv, Tables
  <2> QED
    BY <1>2, <2>1, <2>2 DEF PricedRow
<1>5. /\ order[o].since \in 1 .. Len(menus)
      /\ \E k \in order[o].since .. Len(menus) :
             /\ Orderable(menus[k], order[o].lines)
             /\ order[o].total = Cost(menus[k], order[o].lines)
  BY <1>1 DEF FoodInv, PricedSince
<1> QED
  BY <1>1, <1>2, <1>3, <1>4, <1>5, OrderStepKeepsInv

-----------------------------------------------------------------------------
(* Moves.                                                                  *)

\* One more row of move m, by which history h becomes g.
Grown(h, m, g) ==
    /\ Rows(g) = Rows(h) \cup {m}
    /\ Left(g) = Left(h) \cup {m[1]}
    /\ Reached(g) = Reached(h) \cup {m[2]}
    /\ Forked(h) => Forked(g)
    /\ m[1] \in Left(h) => Forked(g)

LEMMA HistoryGrows ==
  ASSUME NEW h \in [Move -> Nat], NEW m \in Move,
         NEW g, g = [h EXCEPT ![m] = @ + 1]
  PROVE  g \in [Move -> Nat] /\ Grown(h, m, g)
<1>1. /\ g \in [Move -> Nat] /\ g[m] = h[m] + 1
      /\ \A n \in Move : n # m => g[n] = h[n]
  OBVIOUS
<1>2. \A n \in Move : h[n] \in Nat /\ g[n] \in Nat /\ g[n] >= h[n]
  BY <1>1
<1>3. Rows(g) = Rows(h) \cup {m}
  BY <1>1, <1>2 DEF Rows
<1>4. Left(g) = Left(h) \cup {m[1]}
  BY <1>3 DEF Left
<1>5. Reached(g) = Reached(h) \cup {m[2]}
  BY <1>3 DEF Reached
<1>6. Forked(h) => Forked(g)
  <2> SUFFICES ASSUME NEW p \in Rows(h), NEW q \in Rows(h), p[1] = q[1],
                      p # q \/ h[p] > 1
               PROVE  Forked(g)
    BY DEF Forked
  <2>1. p \in Rows(g) /\ q \in Rows(g) /\ p \in Move
    BY <1>3 DEF Rows
  <2>2. h[p] > 1 => g[p] > 1
    BY <1>2, <2>1
  <2> QED
    BY <2>1, <2>2 DEF Forked
<1>7. ASSUME m[1] \in Left(h) PROVE Forked(g)
  <2>1. PICK n \in Rows(h) : n[1] = m[1]
    BY <1>7 DEF Left
  <2>2. n \in Rows(g) /\ m \in Rows(g)
    BY <1>3
  <2>3. n = m => g[m] > 1
    <3>1. n = m => h[m] \in Nat /\ h[m] > 0
      BY <1>2 DEF Rows
    <3> QED
      BY <1>1, <3>1
  <2> QED
    BY <2>1, <2>2, <2>3 DEF Forked
<1> QED
  BY <1>1, <1>3, <1>4, <1>5, <1>6, <1>7 DEF Grown

LEMMA TransitionsClimb ==
  \A m \in Transitions : /\ m[1] # m[2] /\ Rank(m[1]) < Rank(m[2])
                         /\ Rank(m[1]) \in Nat /\ Rank(m[2]) \in Nat
BY DEF Transitions, Rank

\* If the history does not fork, the row left the present status for one that
\* the order had not been in.
LEMMA StaysTold ==
  ASSUME NEW h, NEW s, Tells(h, s), NEW m \in Transitions, m[1] \in Reached(h),
         NEW g, Grown(h, m, g)
  PROVE  Tells(g, m[2])
<1> USE DEF Tells
<1>1. SUFFICES ASSUME ~Forked(g) PROVE Climbs(g, m[2])
  BY DEF Grown
<1>2. Climbs(h, s) /\ m[1] \notin Left(h)
  BY <1>1 DEF Grown
<1>3. m[1] = s
  BY <1>2 DEF Climbs
<1>4. m[1] # m[2] /\ Rank(s) < Rank(m[2]) /\ Rank(s) \in Nat /\ Rank(m[2]) \in Nat
  BY <1>3, TransitionsClimb
<1>5. \A x \in Left(h) : Rank(x) < Rank(s) /\ Rank(x) \in Nat
  <2>1. \A x \in Left(h) : \E n \in Transitions : x = n[1]
    BY DEF Left
  <2> QED
    BY <1>2, <2>1, TransitionsClimb DEF Climbs
<1>6. \A x \in Left(g) : Rank(x) < Rank(m[2])
  BY <1>3, <1>4, <1>5 DEF Grown
<1>7. m[2] \notin Left(g)
  BY <1>4, <1>6
<1> QED
  BY <1>2, <1>3, <1>6, <1>7 DEF Climbs, Grown

\* Steps of a request that leave the orders and their histories alone.
LEMMA DeskStepKeepsInv ==
  ASSUME FoodInv, NEW d \in Desks,
         NEW row \in [order : Orders \cup {NoOrder}, from : OrderStatus,
                      to : OrderStatus, written : BOOLEAN],
         desk' = [desk EXCEPT ![d] = row],
         row.written => row.order # NoOrder,
         row.order # NoOrder =>
             /\ <<row.from, row.to>> \in Transitions
             /\ row.from \in Reached(history[row.order]),
         UNCHANGED <<menus, day, order, status, history>>
  PROVE  FoodInv'
<1>1. Tables'
  BY DEF FoodInv, Tables
<1>2. NumberInv'
  BY NumbersUntouched DEF FoodInv
<1>3. PricedSince' /\ HistoryKept'
  BY DEF FoodInv, PricedSince, HistoryKept
<1>4. MovesAllowed'
  <2>1. /\ desk'[d] = row
        /\ \A e \in Desks : e # d => desk'[e] = desk[e]
    BY DEF FoodInv, Tables
  <2> QED
    BY <2>1 DEF FoodInv, MovesAllowed
<1> QED
  BY <1>1, <1>2, <1>3, <1>4 DEF FoodInv

LEMMA MoveKeepsInv ==
  ASSUME FoodInv, NEW d \in Desks, NEW o \in Orders, NEW to \in OrderStatus,
         MoveOrder(d, o, to)
  PROVE  FoodInv'
<1>1. /\ <<status[o], to>> \in Transitions
      /\ desk' = [desk EXCEPT ![d] = [order |-> o, from |-> status[o],
                                     to |-> to, written |-> FALSE]]
      /\ UNCHANGED <<menus, day, order, status, history>>
  BY DEF MoveOrder, ReadOrder, menuVars, orderVars
<1>2. PICK s \in OrderStatus : s = status[o]
  BY DEF FoodInv, Tables
<1>3. o # NoOrder
  BY OrdersAssumption
<1>4. s \in Reached(history[o])
  BY <1>2 DEF FoodInv, HistoryKept, Tells
<1> QED
  BY <1>1, <1>2, <1>3, <1>4, DeskStepKeepsInv

LEMMA WriteKeepsInv ==
  ASSUME FoodInv, NEW d \in Desks, WriteOrder(d)
  PROVE  FoodInv'
<1>1. /\ desk[d].order # NoOrder
      /\ desk' = [desk EXCEPT ![d].written = TRUE]
      /\ UNCHANGED <<menus, day, order, status, history>>
  BY DEF WriteOrder, menuVars, orderVars
<1>2. PICK old \in [order : Orders \cup {NoOrder}, from : OrderStatus,
                    to : OrderStatus, written : BOOLEAN] : old = desk[d]
  BY DEF FoodInv, Tables
<1>3. PICK row \in [order : Orders \cup {NoOrder}, from : OrderStatus,
                    to : OrderStatus, written : BOOLEAN] :
          /\ desk' = [desk EXCEPT ![d] = row]
          /\ row.order = old.order /\ row.from = old.from /\ row.to = old.to
  <2>1. desk' = [desk EXCEPT ![d] = [old EXCEPT !.written = TRUE]]
    BY <1>1, <1>2
  <2>2. [old EXCEPT !.written = TRUE]
            \in [order : Orders \cup {NoOrder}, from : OrderStatus,
                to : OrderStatus, written : BOOLEAN]
    OBVIOUS
  <2>3. /\ [old EXCEPT !.written = TRUE].order = old.order
        /\ [old EXCEPT !.written = TRUE].from = old.from
        /\ [old EXCEPT !.written = TRUE].to = old.to
    OBVIOUS
  <2> QED
    BY <2>1, <2>2, <2>3
<1>4. /\ row.order # NoOrder
      /\ <<row.from, row.to>> \in Transitions
      /\ row.from \in Reached(history[row.order])
  BY <1>1, <1>2, <1>3 DEF FoodInv, MovesAllowed
<1> QED
  BY <1>1, <1>2, <1>3, <1>4, DeskStepKeepsInv

LEMMA AbortMoveKeepsInv ==
  ASSUME FoodInv, NEW d \in Desks, AbortMove(d)
  PROVE  FoodInv'
<1>1. /\ desk' = [desk EXCEPT ![d] = Free]
      /\ UNCHANGED <<menus, day, order, status, history>>
  BY DEF AbortMove, menuVars, orderVars
<1>2. /\ Free \in [order : Orders \cup {NoOrder}, from : OrderStatus,
                   to : OrderStatus, written : BOOLEAN]
      /\ ~Free.written /\ Free.order = NoOrder
  BY DEF Free, OrderStatus
<1> QED
  BY <1>1, <1>2, DeskStepKeepsInv

\* The commit adds a row to the history of the order.  The status it moves the
\* order on from is the current one, or was left already and the history forks.
LEMMA CommitMoveKeepsInv ==
  ASSUME FoodInv, NEW d \in Desks, CommitMove(d)
  PROVE  FoodInv'
<1>1. PICK o \in Orders : o = desk[d].order
  BY DEF CommitMove, FoodInv, Tables, MovesAllowed
<1>2. PICK m \in Move : m = <<desk[d].from, desk[d].to>>
  BY DEF FoodInv, Tables, Move
<1>3. m[1] = desk[d].from /\ m[2] = desk[d].to /\ m[2] \in OrderStatus
  BY <1>2 DEF Move
<1>4. PICK h \in [Move -> Nat] : h = history[o]
  BY DEF FoodInv, Tables
<1>5. PICK s \in OrderStatus : s = status[o]
  BY DEF FoodInv, Tables
<1>6. PICK g \in [Move -> Nat] : g = [h EXCEPT ![m] = @ + 1] /\ Grown(h, m, g)
  BY HistoryGrows
<1>7. /\ status' = [status EXCEPT ![o] = m[2]]
      /\ history' = [history EXCEPT ![o] = g]
      /\ desk' = [desk EXCEPT ![d] = Free]
      /\ UNCHANGED <<menus, day, order>>
  BY <1>1, <1>2, <1>3, <1>4, <1>6 DEF CommitMove, menuVars
<1>8. Tables'
  <2>1. Free \in [order : Orders \cup {NoOrder}, from : OrderStatus,
                 to : OrderStatus, written : BOOLEAN]
    BY DEF Free, OrderStatus
  <2> QED
    BY <1>3, <1>7, <2>1 DEF FoodInv, Tables
<1>9. NumberInv'
  BY <1>7, NumbersUntouched DEF FoodInv
<1>10. PricedSince'
  BY <1>7 DEF FoodInv, PricedSince
<1>11. m \in Transitions /\ m[1] \in Reached(h)
  <2>1. desk[d].order # NoOrder
    BY DEF CommitMove, FoodInv, MovesAllowed
  <2> QED
    BY <1>1, <1>2, <1>3, <1>4, <2>1 DEF FoodInv, MovesAllowed
<1>12. /\ history'[o] = g /\ status'[o] = m[2]
       /\ \A p \in Orders : p # o => /\ history'[p] = history[p]
                                    /\ status'[p] = status[p]
  BY <1>7 DEF FoodInv, Tables
<1>13. HistoryKept'
  <2>1. Tells(h, s)
    BY <1>4, <1>5 DEF FoodInv, HistoryKept
  <2>2. Tells(g, m[2])
    BY <1>6, <1>11, <2>1, StaysTold
  <2> QED
    BY <1>12, <2>2 DEF FoodInv, HistoryKept
<1>14. MovesAllowed'
  <2>1. /\ desk'[d] = Free
        /\ \A e \in Desks : e # d => desk'[e] = desk[e]
    BY <1>7 DEF FoodInv, Tables
  <2>2. Reached(h) \subseteq Reached(g)
    BY <1>6 DEF Grown
  <2> SUFFICES ASSUME NEW e \in Desks
               PROVE  /\ desk'[e].written => desk'[e].order # NoOrder
                      /\ desk'[e].order # NoOrder =>
                             /\ <<desk'[e].from, desk'[e].to>> \in Transitions
                             /\ desk'[e].from \in Reached(history'[desk'[e].order])
    BY DEF MovesAllowed
  <2>3. CASE e = d
    BY <2>1, <2>3 DEF Free
  <2>4. CASE e # d
    <3>1. PICK p \in Orders \cup {NoOrder} : p = desk[e].order
      BY DEF FoodInv, Tables
    <3>2. p # NoOrder => Reached(history[p]) \subseteq Reached(history'[p])
      BY <1>4, <1>12, <2>2, <3>1
    <3>3. /\ desk[e].written => p # NoOrder
          /\ p # NoOrder => /\ <<desk[e].from, desk[e].to>> \in Transitions
                            /\ desk[e].from \in Reached(history[p])
      BY <3>1 DEF FoodInv, MovesAllowed
    <3> QED
      BY <2>1, <2>4, <3>1, <3>2, <3>3
  <2> QED
    BY <2>3, <2>4
<1> QED
  BY <1>8, <1>9, <1>10, <1>13, <1>14 DEF FoodInv

-----------------------------------------------------------------------------
(* The theorems.                                                           *)

LEMMA MenuOperationKeepsInv ==
  ASSUME FoodInv, NEW i \in Items,
         CreateItem(i) \/ PatchItem(i) \/ DeleteItem(i)
  PROVE  FoodInv'
<1>1. Menu \in [Items -> Item \cup {NoItem}]
  BY DEF FoodInv, Tables, Menu
<1>2. Menu[i] # NoItem => Menu[i] \in Item
  BY <1>1
<1>3. CASE CreateItem(i)
  <2>1. PICK row \in Item : ChangeItem(i, row)
    BY <1>3 DEF CreateItem, Item
  <2> QED
    BY <2>1, MenuKeepsInv
<1>4. CASE PatchItem(i)
  <2>1. PICK p \in Prices, a \in BOOLEAN :
            ChangeItem(i, [Menu[i] EXCEPT !.price = p, !.available = a])
    BY <1>4 DEF PatchItem
  <2>2. PICK row \in Item :
            row = [Menu[i] EXCEPT !.price = p, !.available = a]
    BY <1>2, <1>4 DEF PatchItem, Item
  <2> QED
    BY <2>1, <2>2, MenuKeepsInv
<1>5. CASE DeleteItem(i)
  <2>1. PICK row \in Item :
            row = [Menu[i] EXCEPT !.available = FALSE, !.deleted = TRUE]
    BY <1>2, <1>5 DEF DeleteItem, Item
  <2> QED
    BY <1>5, <2>1, MenuKeepsInv DEF DeleteItem
<1> QED
  BY <1>3, <1>4, <1>5

\* The invariant, from the start and through every step.
THEOREM FoodInvCorrect == Spec => []FoodInv
<1>1. FoodInit => FoodInv
  BY FoodInvInitially
<1>2. FoodInv /\ [Next]_foodVars => FoodInv'
  <2> SUFFICES ASSUME FoodInv, [Next]_foodVars PROVE FoodInv'
    OBVIOUS
  <2>1. ASSUME NEW i \in Items, CreateItem(i) \/ PatchItem(i) \/ DeleteItem(i)
        PROVE  FoodInv'
    BY <2>1, MenuOperationKeepsInv
  <2>2. CASE NewDay
    <3>1. day' \in 0 .. MaxDay
      BY <2>2, FoodBounds DEF NewDay, FoodInv, Tables
    <3> QED
      BY <2>2, <3>1, UntouchedKeepsInv DEF NewDay
  <2>3. ASSUME NEW o \in Orders,
               \/ BeginOrder(o) \/ LoadItems(o) \/ NextOrderNumber(o)
               \/ CommitOrder(o) \/ AbortOrder(o)
        PROVE  FoodInv'
    BY <2>3, BeginKeepsInv, LoadKeepsInv, EnterKeepsInv, AbortKeepsInv
  <2>4. ASSUME NEW d \in Desks, NEW o \in Orders, NEW to \in OrderStatus,
               MoveOrder(d, o, to)
        PROVE  FoodInv'
    BY <2>4, MoveKeepsInv
  <2>5. ASSUME NEW d \in Desks, WriteOrder(d) \/ CommitMove(d) \/ AbortMove(d)
        PROVE  FoodInv'
    BY <2>5, WriteKeepsInv, CommitMoveKeepsInv, AbortMoveKeepsInv
  <2>6. CASE Poll \/ ListOrders \/ ShowOrders \/ UNCHANGED foodVars
    <3>1. UNCHANGED <<menus, orderVars, desk>> /\ day' = day
      BY <2>6 DEF Poll, ListOrders, ShowOrders, foodVars, menuVars
    <3>2. day' \in 0 .. MaxDay
      BY <3>1 DEF FoodInv, Tables
    <3> QED
      BY <3>1, <3>2, UntouchedKeepsInv
  <2> QED
    BY <2>1, <2>2, <2>3, <2>4, <2>5, <2>6 DEF Next
<1> QED
  BY <1>1, <1>2, PTL DEF Spec

\* The numbers of every day are 1, 2, 3, ..., each given once, however many
\* orders are created at once, fail, or cross midnight.
THEOREM NumbersCorrect == Spec => []NumbersGapFree
<1>1. FoodInv => NumbersGapFree
  BY NumbersAreOrders DEF FoodInv, NumberInv
<1> QED
  BY <1>1, FoodInvCorrect, PTL

\* Every placed order costs what its lines cost on one menu that was current
\* after its transaction began.
THEOREM PricesCorrect == Spec => []PricedAtOneMoment
<1>1. FoodInv => PricedAtOneMoment
  BY DEF FoodInv, PricedSince, PricedAtOneMoment
<1> QED
  BY <1>1, FoodInvCorrect, PTL

\* Without an order among its rows a history tells the status: unless it forks
\* it is the only one that was reached and not left.
THEOREM HistoryCorrect == Spec => []HistoryTellsStatus
<1>1. FoodInv => HistoryTellsStatus
  BY DEF FoodInv, HistoryKept, Tells, Climbs, HistoryTellsStatus
<1> QED
  BY <1>1, FoodInvCorrect, PTL
=============================================================================
