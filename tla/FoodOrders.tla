----------------------------- MODULE FoodOrders -----------------------------
(***************************************************************************)
(* Food: the menu, the transaction that creates an order, the transitions  *)
(* of its status, and the kitchen's screen.                                *)
(*                                                                         *)
(* One cafe.  Statements run at READ COMMITTED, each seeing what was       *)
(* committed before it; variants and add-ons are left out, because no      *)
(* client sends any.  Requests that are turned down change nothing.        *)
(***************************************************************************)
EXTENDS Integers, Sequences, FiniteSets, FiniteSetsExt

CONSTANTS
    Orders, Items,
    Desks,          \* transition requests that can be in progress at once
    NoOrder,
    Prices,         \* of an item
    MaxQty,         \* bound on the quantity of a line
    MaxDay,         \* bound on the days that pass
    MaxMenuChanges, \* bound on changes of the menu
    MaxMoves,       \* bound on the rows of an order's history
    Worked          \* the orders staff moves, and the screen is looked at for

ASSUME OrdersAssumption == IsFiniteSet(Orders) /\ NoOrder \notin Orders
ASSUME WorkedAssumption == Worked \subseteq Orders
ASSUME PricesAssumption == Prices \subseteq Nat /\ Prices # {}
ASSUME FoodBounds == {MaxQty, MaxDay, MaxMenuChanges, MaxMoves} \subseteq Nat

VARIABLES
    menus,      \* every state of menu_items so far, the last one is current
    day,        \* current_date
    order,      \* per order its transaction, then its row
    status,     \* column status, of orders that are placed
    history,    \* order_status_history: per order the rows of each move
    desk,       \* transitions in progress
    screen,     \* what the kitchen sees
    fetch       \* the screen's query: idle, asked, or the rows it read

menuVars == <<menus, day>>
orderVars == <<order, status, history>>
screenVars == <<screen, fetch>>
foodVars == <<menuVars, orderVars, desk, screenVars>>

OrderStatus ==
    {"placed", "accepted", "preparing", "ready", "delivered", "completed",
     "cancelled"}

\* ORDER_TRANSITIONS.
Transitions ==
    {<<"placed", "accepted">>, <<"placed", "cancelled">>,
     <<"accepted", "preparing">>, <<"accepted", "cancelled">>,
     <<"preparing", "ready">>, <<"preparing", "cancelled">>,
     <<"ready", "delivered">>, <<"delivered", "completed">>}

Lines == [Items -> 0 .. MaxQty]
Item == [price : Prices, available : BOOLEAN, deleted : BOOLEAN]
NoItem == [price |-> 0, available |-> FALSE, deleted |-> FALSE]

Row ==
    [step : {"none", "begun", "loaded", "numbered", "placed"},
     lines : Lines, since : Nat, total : Nat, day : 0 .. MaxDay,
     number : Nat]
NoRow ==
    [step |-> "none", lines |-> [i \in Items |-> 0], since |-> 0,
     total |-> 0, day |-> 0, number |-> 0]

\* Rows of order_status_history are told apart by a random id and bear the
\* start of their transaction, changed_at, which is neither the order of the
\* commits nor that of the updates: what the table keeps is a bag of moves.
Move == OrderStatus \X OrderStatus
Free == [order |-> NoOrder, from |-> "placed", to |-> "placed",
         written |-> FALSE]

FirstItem == [price |-> CHOOSE p \in Prices : TRUE, available |-> TRUE,
              deleted |-> FALSE]

TypeOK ==
    /\ menus \in Seq([Items -> Item \cup {NoItem}]) /\ menus # <<>>
    /\ day \in 0 .. MaxDay
    /\ order \in [Orders -> Row]
    /\ status \in [Orders -> OrderStatus]
    /\ history \in [Orders -> [Move -> Nat]]
    /\ desk \in [Desks -> [order : Orders \cup {NoOrder}, from : OrderStatus,
                           to : OrderStatus, written : BOOLEAN]]
    /\ screen \in [Worked -> OrderStatus \cup {"absent"}]
    /\ fetch \in {<<"idle">>, <<"asked">>}
                 \cup ({"read"} \X [Worked -> OrderStatus \cup {"absent"}])

FoodInit ==
    /\ menus \in {<<m>> : m \in [Items -> {NoItem, FirstItem}]}
    /\ day = 0
    /\ order = [o \in Orders |-> NoRow]
    /\ status = [o \in Orders |-> "placed"]
    /\ history = [o \in Orders |-> [m \in Move |-> 0]]
    /\ desk = [d \in Desks |-> Free]
    /\ screen = [o \in Worked |-> "absent"]
    /\ fetch = <<"idle">>

-----------------------------------------------------------------------------
(* The menu.                                                               *)

Menu == menus[Len(menus)]

ChangeItem(i, row) ==
    /\ Len(menus) <= MaxMenuChanges
    /\ row # Menu[i]
    /\ menus' = Append(menus, [Menu EXCEPT ![i] = row])
    /\ UNCHANGED <<day, orderVars, desk, screenVars>>

CreateItem(i) ==
    /\ Menu[i] = NoItem
    /\ \E p \in Prices, a \in BOOLEAN :
           ChangeItem(i, [price |-> p, available |-> a, deleted |-> FALSE])

\* Price and availability, each of which the request may leave out.
PatchItem(i) ==
    /\ Menu[i] # NoItem /\ ~Menu[i].deleted
    /\ \E p \in Prices, a \in BOOLEAN :
           ChangeItem(i, [Menu[i] EXCEPT !.price = p, !.available = a])

DeleteItem(i) ==
    /\ Menu[i] # NoItem /\ ~Menu[i].deleted
    /\ ChangeItem(i, [Menu[i] EXCEPT !.available = FALSE, !.deleted = TRUE])

NewDay ==
    /\ day < MaxDay
    /\ day' = day + 1
    /\ UNCHANGED <<menus, orderVars, desk, screenVars>>

-----------------------------------------------------------------------------
(* createOrderInTx.                                                        *)

\* validateOrderItems: every line is found and available.
Orderable(menu, lines) ==
    \A i \in Items :
        lines[i] > 0 => /\ menu[i] # NoItem /\ ~menu[i].deleted
                        /\ menu[i].available

\* buildOrderLines and the sum over them.
Cost(menu, lines) ==
    MapThenSumSet(LAMBDA i : lines[i] * menu[i].price, Items)

\* The transaction starts: now(), with it current_date and placed_at.
BeginOrder(o) ==
    /\ order[o].step = "none"
    /\ \E lines \in Lines :
           /\ \E i \in Items : lines[i] > 0
           /\ order' = [order EXCEPT ![o] =
                  [NoRow EXCEPT !.step = "begun", !.lines = lines,
                                !.since = Len(menus), !.day = day]]
    /\ UNCHANGED <<menuVars, status, history, desk, screenVars>>

LoadItems(o) ==
    /\ order[o].step = "begun"
    /\ Orderable(Menu, order[o].lines)
    /\ order' = [order EXCEPT ![o].step = "loaded",
                              ![o].total = Cost(Menu, order[o].lines)]
    /\ UNCHANGED <<menuVars, status, history, desk, screenVars>>

PlacedOn(d) == {o \in Orders : order[o].step = "placed" /\ order[o].day = d}
NumbersOn(d) == {order[o].number : o \in PlacedOn(d)}

\* The advisory lock of the day is kept until the commit.
LockFree(o) ==
    \A p \in Orders : order[p].step = "numbered" => order[p].day # order[o].day

\* Mutant: without the lock.
NumberUnlocked(o) ==
    /\ order[o].step = "loaded"
    /\ order' = [order EXCEPT ![o].step = "numbered",
                     ![o].number = Max(NumbersOn(order[o].day) \cup {0}) + 1]
    /\ UNCHANGED <<menuVars, status, history, desk, screenVars>>

NextOrderNumber(o) ==
    /\ order[o].step = "loaded"
    /\ LockFree(o)
    /\ order' = [order EXCEPT ![o].step = "numbered",
                     ![o].number = Max(NumbersOn(order[o].day) \cup {0}) + 1]
    /\ UNCHANGED <<menuVars, status, history, desk, screenVars>>

\* order.updated makes a screen that is connected fetch again, and drops the
\* answer it was waiting for.
Announce == fetch' \in {fetch, <<"asked">>}

\* Mutant: the sum is taken anew when the order is inserted.
CommitRepriced(o) ==
    /\ order[o].step = "numbered"
    /\ order' = [order EXCEPT ![o].step = "placed",
                              ![o].total = Cost(Menu, order[o].lines)]
    /\ Announce
    /\ UNCHANGED <<menuVars, status, history, desk, screen>>

InsertOrder(o) ==
    /\ order[o].step = "numbered"
    /\ order' = [order EXCEPT ![o].step = "placed"]

\* Order, lines and history are committed, then the event is published.
\* (A request stopped between the two publishes nothing: an event may be lost.)
CommitOrder(o) ==
    /\ InsertOrder(o)
    /\ Announce
    /\ UNCHANGED <<menuVars, status, history, desk, screen>>

\* A validation or a statement fails, or the API stops: all is rolled back.
AbortOrder(o) ==
    /\ order[o].step \in {"begun", "loaded", "numbered"}
    /\ order' = [order EXCEPT ![o] = NoRow]
    /\ UNCHANGED <<menuVars, status, history, desk, screenVars>>

-----------------------------------------------------------------------------
(* transitionOrder.                                                        *)

\* The row is read without a lock.
ReadOrder(d, o, to) ==
    /\ order[o].step = "placed"
    /\ <<status[o], to>> \in Transitions
    /\ desk' = [desk EXCEPT ![d] = [order |-> o, from |-> status[o],
                                    to |-> to, written |-> FALSE]]

\* handleOrderTransition.
MoveOrder(d, o, to) ==
    /\ desk[d] = Free
    /\ o \in Worked
    /\ ReadOrder(d, o, to)
    /\ UNCHANGED <<menuVars, orderVars, screenVars>>

RowCount(o) == MapThenSumSet(LAMBDA m : history[o][m], Move)

\* Mutant: the history row is written outside the transaction.
WriteHistoryAtOnce(d) ==
    LET o == desk[d].order IN
    /\ o # NoOrder /\ ~desk[d].written
    /\ \A e \in Desks : desk[e].order = o => ~desk[e].written
    /\ RowCount(o) < MaxMoves
    /\ desk' = [desk EXCEPT ![d].written = TRUE]
    /\ history' = [history EXCEPT ![o][<<desk[d].from, desk[d].to>>] = @ + 1]
    /\ Announce
    /\ UNCHANGED <<menuVars, order, status, screen>>

\* The UPDATE waits for the row, not for a status; the history row and the
\* audit row follow, and the event is published before the commit.
WriteOrder(d) ==
    /\ desk[d].order # NoOrder /\ ~desk[d].written
    /\ \A e \in Desks : desk[e].order = desk[d].order => ~desk[e].written
    /\ RowCount(desk[d].order) < MaxMoves
    /\ desk' = [desk EXCEPT ![d].written = TRUE]
    /\ Announce
    /\ UNCHANGED <<menuVars, orderVars, screen>>

CommitMove(d) ==
    LET o == desk[d].order IN
    /\ desk[d].written
    /\ status' = [status EXCEPT ![o] = desk[d].to]
    /\ history' = [history EXCEPT ![o][<<desk[d].from, desk[d].to>>] = @ + 1]
    /\ desk' = [desk EXCEPT ![d] = Free]
    /\ UNCHANGED <<menuVars, order, screenVars>>

AbortMove(d) ==
    /\ desk[d].order # NoOrder
    /\ desk' = [desk EXCEPT ![d] = Free]
    /\ UNCHANGED <<menuVars, orderVars, screenVars>>

-----------------------------------------------------------------------------
(* useKitchenOrders and handleListOrders.                                  *)

KitchenStatus == {"placed", "accepted", "preparing", "ready"}

Listed ==
    [o \in Worked |->
        IF order[o].step = "placed" /\ status[o] \in KitchenStatus
        THEN status[o] ELSE "absent"]

\* refetchInterval.
Poll ==
    /\ fetch = <<"idle">>
    /\ fetch' = <<"asked">>
    /\ UNCHANGED <<menuVars, orderVars, desk, screen>>

ListOrders ==
    /\ fetch = <<"asked">>
    /\ fetch' = <<"read", Listed>>
    /\ UNCHANGED <<menuVars, orderVars, desk, screen>>

\* Mutant: an empty answer is taken for a failed one.
ShowUnlessEmpty ==
    /\ fetch[1] = "read"
    /\ screen' = IF \A o \in Worked : fetch[2][o] = "absent"
                 THEN screen ELSE fetch[2]
    /\ fetch' = <<"idle">>
    /\ UNCHANGED <<menuVars, orderVars, desk>>

ShowOrders ==
    /\ fetch[1] = "read"
    /\ screen' = fetch[2]
    /\ fetch' = <<"idle">>
    /\ UNCHANGED <<menuVars, orderVars, desk>>

-----------------------------------------------------------------------------

Next ==
    \/ \E i \in Items : CreateItem(i) \/ PatchItem(i) \/ DeleteItem(i)
    \/ NewDay
    \/ \E o \in Orders :
           \/ BeginOrder(o) \/ LoadItems(o) \/ NextOrderNumber(o)
           \/ CommitOrder(o) \/ AbortOrder(o)
    \/ \E d \in Desks :
           \/ \E o \in Orders, to \in OrderStatus : MoveOrder(d, o, to)
           \/ WriteOrder(d) \/ CommitMove(d) \/ AbortMove(d)
    \/ Poll \/ ListOrders \/ ShowOrders

Spec == FoodInit /\ [][Next]_foodVars

\* The screen polls every ten seconds, a query is answered, and not every
\* answer is overtaken by the next event: orders move at the pace of people.
FairSpec ==
    /\ Spec
    /\ WF_foodVars(Poll) /\ WF_foodVars(ListOrders) /\ SF_foodVars(ShowOrders)

-----------------------------------------------------------------------------
(* Properties.                                                             *)

\* Orders of a day are numbered 1, 2, 3, ... without a gap and without a
\* number given twice, whatever orders are created at once and fail, also
\* around midnight.
NumbersGapFree ==
    \A d \in 0 .. MaxDay :
        /\ \E n \in 0 .. Cardinality(Orders) : NumbersOn(d) = 1 .. n
        /\ \A o, p \in PlacedOn(d) :
               order[o].number = order[p].number => o = p

\* An order's total is what its lines cost on one menu that was current after
\* its transaction began and on which all of them could be ordered: prices of
\* two menus never mix, and no item is sold that was gone all along.
PricedAtOneMoment ==
    \A o \in Orders : order[o].step = "placed" =>
        \E k \in order[o].since .. Len(menus) :
            /\ Orderable(menus[k], order[o].lines)
            /\ order[o].total = Cost(menus[k], order[o].lines)

\* Of a history h; the row that creation writes, from no status to "placed",
\* is there always.
Rows(h) == {m \in Move : h[m] > 0}
Left(h) == {m[1] : m \in Rows(h)}
Reached(h) == {"placed"} \cup {m[2] : m \in Rows(h)}
Forked(h) == \E m, n \in Rows(h) : m[1] = n[1] /\ (m # n \/ h[m] > 1)

\* The rows of a history, which bear no order, tell the status nevertheless:
\* each is an allowed move from a status the order had, and the order is in
\* one it had.  Unless two members of staff moved it on from the same status,
\* which nothing stops, it is the one status that was reached and not left.
HistoryTellsStatus ==
    \A o \in Orders :
        LET h == history[o] IN
        /\ Rows(h) \subseteq Transitions
        /\ status[o] \in Reached(h) /\ Left(h) \subseteq Reached(h)
        /\ Forked(h) \/ Reached(h) \ Left(h) = {status[o]}

\* A status that stays comes to the kitchen's screen and stays there, although
\* events may be lost and come before the commit they are about.
KitchenCatchesUp ==
    \A o \in Worked, s \in KitchenStatus \cup {"absent"} :
        <>[](Listed[o] = s) => <>[](screen[o] = s)
=============================================================================
