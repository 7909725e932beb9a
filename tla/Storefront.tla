------------------------------ MODULE Storefront ------------------------------
(***************************************************************************)
(* The e-commerce load generator and the tables it writes: stock, orders   *)
(* with their payment, and shipments.  main runs bursts: each starts the   *)
(* goroutines, which pick operations until the burst's context is done.    *)
(* Between two bursts it may run a chaos pattern, a flash sale for one.    *)
(*                                                                         *)
(* The database reads committed data.  A checkout and a buyer of a flash   *)
(* sale lock the row of the stock they sell from; an UPDATE by a sub-      *)
(* select picks its row in a snapshot and then waits for that row, which   *)
(* may have moved on.  An order, its item and its payment are one row of   *)
(* "orders": their transaction inserts one of each.  That a payment is     *)
(* settled is left out, and when a shipment was delivered: nothing reads   *)
(* it.  The generator waits for a database that is seeded, with orders and *)
(* shipments in every state, made independently of each other: an order    *)
(* that is pending, or cancelled, may have its shipment.  The seeded       *)
(* orders took nothing from the seeded stock.                              *)
(*                                                                         *)
(* Bounds: MaxOrders orders, MaxShipments shipments, those of the seed     *)
(* among them, MaxRestocked units restocked.                               *)
(***************************************************************************)
EXTENDS Integers, Sequences, FiniteSets

CONSTANTS
    Goroutines,     \* of a burst, and the buyers of a flash sale
    Variants,
    PoolSize,       \* connections of the pool
    Quantities,     \* that a checkout asks for
    InitialStock, InitialReserved,
    SeededOrders, SeededShipments,   \* the states of the seeded ones, in their order
    RestockUnits,   \* that a restock may add
    ReleaseUnits,   \* reserved units a restock releases
    Faults,         \* which of FaultKinds can happen
    Nobody,
    MaxOrders, MaxShipments, MaxRestocked

\* "error": a statement of a transaction raises
\* "shutdown": the generator is told to stop, or its duration is over
\* "kill": the generator dies, and is started again
FaultKinds == {"error", "shutdown", "kill"}

OrderStates == {"pending", "processing", "shipped", "delivered", "cancelled"}
OrderMoves == {<<"pending", "processing">>, <<"processing", "shipped">>,
               <<"shipped", "delivered">>}
ShipmentStates == {"label_created", "in_transit", "out_for_delivery", "delivered", "returned"}
ShipmentMoves == {<<"label_created", "in_transit">>,
                  <<"in_transit", "out_for_delivery">>,
                  <<"out_for_delivery", "delivered">>}

ASSUME StorefrontAssumption ==
    /\ Quantities \subseteq Nat \ {0}
    /\ RestockUnits \subseteq Nat
    /\ SeededOrders \in Seq(OrderStates) /\ SeededShipments \in Seq(ShipmentStates)
    /\ Len(SeededShipments) <= Len(SeededOrders)
    /\ {InitialStock, InitialReserved, ReleaseUnits, MaxOrders, MaxShipments, MaxRestocked} \subseteq Nat
    /\ PoolSize \in Nat \ {0}
    /\ Nobody \notin Goroutines
    /\ Faults \subseteq FaultKinds

VARIABLES
    main,       \* what main does
    stopping,   \* is main's context done?
    expired,    \* is the context of the burst, or of the flash sale, done?
    gr,         \* the goroutines
    stock,      \* per variant: [available, reserved]
    lock,       \* per variant: the goroutine whose transaction locks its stock
    orders, shipments,
    restocked,  \* (history) units added, per variant
    flashed     \* (history) units sold in flash sales, per variant

tables == <<stock, orders, shipments, restocked, flashed>>
context == <<main, stopping, expired>>
vars == <<context, gr, lock, tables>>

\* What needs a connection, and what holds one.
Connected == {"locking", "writing", "committing", "order", "shipment", "query"}

\* A goroutine: where it is, the variant and units it sells, the row it updates
\* and the state it writes.
State == [at : Connected \cup {"out", "top", "begin"},
          variant : Variants \cup {Nobody}, qty : Nat, row : Nat,
          to : OrderStates \cup ShipmentStates \cup {""}]
Stock == [available : Int, reserved : Nat]
Order == [variant : Variants \cup {Nobody}, qty : Nat, status : OrderStates]
Shipment == [order : Nat, status : ShipmentStates]

Out == [at |-> "out", variant |-> Nobody, qty |-> 0, row |-> 0, to |-> ""]
Top == [Out EXCEPT !.at = "top"]

\* A connection of the pool is free.
Connection == Cardinality({g \in Goroutines : gr[g].at \in Connected}) < PoolSize

Init ==
    /\ main = "pause" /\ stopping = FALSE /\ expired = FALSE
    /\ gr = [g \in Goroutines |-> Out]
    /\ stock = [v \in Variants |-> [available |-> InitialStock, reserved |-> InitialReserved]]
    /\ lock = [v \in Variants |-> Nobody]
    /\ orders = [i \in DOMAIN SeededOrders |->
                   [variant |-> Nobody, qty |-> 0, status |-> SeededOrders[i]]]
    /\ shipments = [i \in DOMAIN SeededShipments |-> [order |-> i, status |-> SeededShipments[i]]]
    /\ restocked = [v \in Variants |-> 0]
    /\ flashed = [v \in Variants |-> 0]

\* Where a goroutine goes when its operation is over: a worker takes the next,
\* a buyer leaves.
Idle(g) == IF main = "flash" THEN Out ELSE Top

\* The operation is over, and with it a transaction that was not committed.
Return(g) ==
    /\ gr' = [gr EXCEPT ![g] = Idle(g)]
    /\ lock' = [v \in Variants |-> IF lock[v] = g THEN Nobody ELSE lock[v]]

-----------------------------------------------------------------------------
(* doCheckout and the buyers of chaosFlashSale *)

Underway == Cardinality({g \in Goroutines : gr[g].at \notin {"out", "top"}})

Checkout(g) ==
    /\ gr[g].at = "top" /\ ~expired
    /\ Len(orders) + Underway < MaxOrders
    /\ \E v \in Variants, qty \in Quantities :
          gr' = [gr EXCEPT ![g] = [Top EXCEPT !.at = "begin", !.variant = v, !.qty = qty]]
    /\ UNCHANGED <<context, lock, tables>>

Begin(g) ==
    /\ gr[g].at = "begin" /\ Connection
    /\ gr' = [gr EXCEPT ![g].at = "locking"]
    /\ UNCHANGED <<context, lock, tables>>

\* Mutant: the row is read without FOR UPDATE.
ReadStock(g) ==
    LET v == gr[g].variant IN
    /\ gr[g].at = "locking"
    /\ IF stock[v].available < gr[g].qty
         THEN Return(g)
         ELSE /\ gr' = [gr EXCEPT ![g].at = "writing"]
              /\ UNCHANGED lock
    /\ UNCHANGED <<context, tables>>

\* SELECT ... FOR UPDATE, and nothing more when the stock does not suffice.
LockStock(g) ==
    LET v == gr[g].variant IN
    /\ gr[g].at = "locking" /\ lock[v] = Nobody
    /\ IF stock[v].available < gr[g].qty
         THEN Return(g)
         ELSE /\ gr' = [gr EXCEPT ![g].at = "writing"]
              /\ lock' = [lock EXCEPT ![v] = g]
    /\ UNCHANGED <<context, tables>>

\* Mutant: the stock is updated outside the transaction.
WriteThrough(g) ==
    /\ gr[g].at = "writing"
    /\ gr' = [gr EXCEPT ![g].at = "committing"]
    /\ stock' = [stock EXCEPT ![gr[g].variant].available = @ - gr[g].qty]
    /\ UNCHANGED <<context, lock, orders, shipments, restocked, flashed>>

\* The statements of the transaction: nobody sees them before it commits.
Write(g) ==
    /\ gr[g].at = "writing"
    /\ gr' = [gr EXCEPT ![g].at = "committing"]
    /\ UNCHANGED <<context, lock, tables>>

\* A checkout reserves what it sells; a flash sale only takes it.
Commit(g) ==
    LET v == gr[g].variant  qty == gr[g].qty IN
    /\ gr[g].at = "committing"
    /\ IF main = "flash"
         THEN /\ stock' = [stock EXCEPT ![v].available = @ - qty]
              /\ flashed' = [flashed EXCEPT ![v] = @ + qty]
              /\ UNCHANGED orders
         ELSE /\ stock' = [stock EXCEPT ![v].available = @ - qty, ![v].reserved = @ + qty]
              /\ orders' = Append(orders, [variant |-> v, qty |-> qty,
                                           status |-> "pending"])
              /\ UNCHANGED flashed
    /\ Return(g)
    /\ UNCHANGED <<context, shipments, restocked>>

\* A statement raises, or the context is done: the deferred rollback, or the
\* connection's end, undoes the transaction.
Abort(g) ==
    /\ gr[g].at \notin {"out", "top"}
    /\ expired \/ "error" \in Faults
    /\ Return(g)
    /\ UNCHANGED <<context, tables>>

-----------------------------------------------------------------------------
(* doOrderMgmt *)

\* UPDATE ... WHERE id = (SELECT ... LIMIT 1): first a row is picked ...
Pick(g, at, row, to) ==
    /\ gr[g].at = "top" /\ ~expired /\ Connection
    /\ gr' = [gr EXCEPT ![g] = [Top EXCEPT !.at = at, !.row = row, !.to = to]]
    /\ UNCHANGED <<context, lock, tables>>

PickOrder(g) ==
    \E i \in DOMAIN orders, move \in OrderMoves :
       orders[i].status = move[1] /\ Pick(g, "order", i, move[2])
PickShipment(g) ==
    \E i \in DOMAIN shipments, move \in ShipmentMoves :
       shipments[i].status = move[1] /\ Pick(g, "shipment", i, move[2])

\* ... and then updated, whatever has become of it: its id is the same.
UpdateOrder(g) ==
    /\ gr[g].at = "order"
    /\ orders' = [orders EXCEPT ![gr[g].row].status = gr[g].to]
    /\ Return(g)
    /\ UNCHANGED <<context, stock, shipments, restocked, flashed>>

UpdateShipment(g) ==
    /\ gr[g].at = "shipment"
    /\ shipments' = [shipments EXCEPT ![gr[g].row].status = gr[g].to]
    /\ Return(g)
    /\ UNCHANGED <<context, stock, orders, restocked, flashed>>

\* Mutant: any order is shipped.
ShipAny(g) ==
    /\ gr[g].at = "top" /\ ~expired /\ Connection
    /\ Len(shipments) < MaxShipments
    /\ \E i \in DOMAIN orders :
          shipments' = Append(shipments, [order |-> i, status |-> "in_transit"])
    /\ Return(g)
    /\ UNCHANGED <<context, stock, orders, restocked, flashed>>

\* createShipment: only of an order that is being processed or shipped.  Of which
\* orders, LOADGEN_MAX_ORDERS says: the seeded ones, or more.
CreateShipment(g) ==
    /\ gr[g].at = "top" /\ ~expired /\ Connection
    /\ Len(shipments) < MaxShipments
    /\ \E i \in DOMAIN orders :
          /\ orders[i].status \in {"processing", "shipped"}
          /\ shipments' = Append(shipments, [order |-> i, status |-> "in_transit"])
    /\ Return(g)
    /\ UNCHANGED <<context, stock, orders, restocked, flashed>>

-----------------------------------------------------------------------------
(* Browsing, carts, background work and reports write none of these tables *)

Query(g) ==
    /\ gr[g].at = "top" /\ ~expired /\ Connection
    /\ gr' = [gr EXCEPT ![g].at = "query"]
    /\ UNCHANGED <<context, lock, tables>>

Answer(g) ==
    /\ gr[g].at = "query"
    /\ Return(g)
    /\ UNCHANGED <<context, tables>>

-----------------------------------------------------------------------------
(* The bursts *)

\* Mutant: the worker does not look at its context.
LeaveNever(g) == FALSE /\ UNCHANGED vars

\* worker sees the context done.
Leave(g) ==
    /\ gr[g].at = "top" /\ expired
    /\ gr' = [gr EXCEPT ![g] = Out]
    /\ UNCHANGED <<context, lock, tables>>

StartBurst ==
    /\ main = "pause" /\ ~stopping
    /\ main' = "burst" /\ expired' = FALSE
    /\ gr' = [g \in Goroutines |-> Top]
    /\ UNCHANGED <<stopping, lock, tables>>

\* The burst's, or the flash sale's, timeout.
Timeout ==
    /\ main \in {"burst", "flash"} /\ ~expired
    /\ expired' = TRUE
    /\ UNCHANGED <<main, stopping, gr, lock, tables>>

AllOut == \A g \in Goroutines : gr[g] = Out

\* wg.Wait returns; a chaos pattern may follow.
BurstOver ==
    /\ main = "burst" /\ AllOut
    /\ main' \in {"chaos", "pause"}
    /\ UNCHANGED <<stopping, expired, gr, lock, tables>>

-----------------------------------------------------------------------------
(* The chaos patterns *)

\* chaosFlashSale: every buyer wants one unit of the same variant.
FlashSale ==
    /\ main = "chaos"
    /\ main' = "flash" /\ expired' = stopping
    /\ \E v \in Variants :
          gr' = [g \in Goroutines |-> [Top EXCEPT !.at = "begin", !.variant = v, !.qty = 1]]
    /\ UNCHANGED <<stopping, lock, tables>>

FlashSaleOver ==
    /\ main = "flash" /\ AllOut
    /\ main' = "pause"
    /\ UNCHANGED <<stopping, expired, gr, lock, tables>>

LargerOf(a, b) == IF a > b THEN a ELSE b

\* chaosInventoryRestock: one statement for all of its variants.
Restock ==
    /\ main = "chaos" /\ ~stopping
    /\ \E units \in [Variants -> RestockUnits] :
          /\ \A v \in Variants : restocked[v] + units[v] <= MaxRestocked
          /\ stock' = [v \in Variants |->
                         [available |-> stock[v].available + units[v],
                          reserved |-> LargerOf(stock[v].reserved - ReleaseUnits, 0)]]
          /\ restocked' = [v \in Variants |-> restocked[v] + units[v]]
    /\ main' = "pause"
    /\ UNCHANGED <<stopping, expired, gr, lock, orders, shipments, flashed>>

\* chaosAbandonedCheckout holds a row's lock and lets it go: no goroutine is
\* there to wait for it.  The other patterns write none of these tables, and
\* one that fails writes nothing.
OtherPattern ==
    /\ main = "chaos"
    /\ main' = "pause"
    /\ UNCHANGED <<stopping, expired, gr, lock, tables>>

-----------------------------------------------------------------------------
(* The generator's end and its restart *)

Shutdown ==
    /\ "shutdown" \in Faults /\ main # "stopped" /\ ~stopping
    /\ stopping' = TRUE /\ expired' = TRUE
    /\ UNCHANGED <<main, gr, lock, tables>>

Stop ==
    /\ main = "pause" /\ stopping
    /\ main' = "stopped"
    /\ UNCHANGED <<stopping, expired, gr, lock, tables>>

Fresh ==
    /\ main' = "pause" /\ stopping' = FALSE /\ expired' = FALSE
    /\ gr' = [g \in Goroutines |-> Out]
    /\ lock' = [v \in Variants |-> Nobody]
    /\ UNCHANGED tables

\* The database undoes the transactions of the lost connections.
Kill == "kill" \in Faults /\ main # "stopped" /\ Fresh
Restart == main = "stopped" /\ Fresh

-----------------------------------------------------------------------------

Goroutine(g) ==
    \/ Begin(g) \/ LockStock(g) \/ Write(g) \/ Commit(g) \/ Abort(g)
    \/ UpdateOrder(g) \/ UpdateShipment(g) \/ Answer(g) \/ Leave(g)

Operation(g) ==
    \/ Checkout(g) \/ PickOrder(g) \/ PickShipment(g) \/ CreateShipment(g)
    \/ Query(g)

Main ==
    \/ StartBurst \/ Timeout \/ BurstOver \/ FlashSale \/ FlashSaleOver
    \/ Restock \/ OtherPattern \/ Stop \/ Restart

Next ==
    \/ \E g \in Goroutines : Goroutine(g) \/ Operation(g)
    \/ Main \/ Shutdown \/ Kill

\* The Go scheduler runs every goroutine, timers fire, and the database answers.
Fairness ==
    /\ \A g \in Goroutines : WF_vars(Goroutine(g))
    /\ WF_vars(Main)

Spec == Init /\ [][Next]_vars
FairSpec == Spec /\ Fairness

-----------------------------------------------------------------------------
(* Properties *)

\* Every variable keeps its shape.
TypeOK ==
    /\ main \in {"pause", "burst", "chaos", "flash", "stopped"}
    /\ stopping \in BOOLEAN /\ expired \in BOOLEAN
    /\ gr \in [Goroutines -> State]
    /\ stock \in [Variants -> Stock]
    /\ lock \in [Variants -> Goroutines \cup {Nobody}]
    /\ orders \in Seq(Order)
    /\ shipments \in Seq(Shipment)
    /\ restocked \in [Variants -> Nat]
    /\ flashed \in [Variants -> Nat]

\* The units of a variant that an order takes, and the first orders of a table.
UnitsOf(row, v) == IF row.variant = v THEN row.qty ELSE 0
UnitsUpTo(rows, v) ==
    LET units[n \in 0 .. Len(rows)] ==
          IF n = 0 THEN 0 ELSE units[n - 1] + UnitsOf(rows[n], v)
    IN units
Ordered(v) == UnitsUpTo(orders, v)[Len(orders)]

\* However checkouts and buyers interleave, nothing is sold that is not there.
NeverOversold == \A v \in Variants : stock[v].available >= 0

\* Every unit is accounted for, through aborted transactions, timeouts and kills:
\* what is available is what was put there less what committed orders and flash
\* sales took, and only the seed and orders reserve.
StockLedger ==
    \A v \in Variants :
        /\ stock[v].available = InitialStock + restocked[v] - Ordered(v) - flashed[v]
        /\ stock[v].reserved <= InitialReserved + Ordered(v)

\* A shipment that the generator made is of an order under way, neither pending nor
\* cancelled, and remains so, although racing updates may move the order back from
\* shipped to processing; those of the seed may be of any order.
ShippedUnderWay ==
    \A i \in DOMAIN shipments : i > Len(SeededShipments) =>
        orders[shipments[i].order].status \in {"processing", "shipped", "delivered"}

\* A burst and a flash sale end: no goroutine waits for a row or for a connection
\* beyond its context.
RoundsEnd == main \in {"burst", "flash"} ~> main \notin {"burst", "flash"}
=============================================================================
