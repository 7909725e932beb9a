--------------------------- MODULE StorefrontProofs ---------------------------
(***************************************************************************)
(* What the shop's transactions guarantee for any number of goroutines,    *)
(* variants and connections, whatever fails.                               *)
(***************************************************************************)
EXTENDS Storefront, WellFoundedInduction, TLAPS

\* A goroutine that has passed the check of its stock holds the lock of the row,
\* and the row still has what it will take.
Covered ==
    \A g \in Goroutines :
        /\ gr[g].at \in {"begin", "locking", "writing", "committing"} =>
              gr[g].variant \in Variants
        /\ gr[g].at \in {"writing", "committing"} =>
              /\ lock[gr[g].variant] = g
              /\ gr[g].qty <= stock[gr[g].variant].available

Moving == {"processing", "shipped", "delivered"}

\* A row that was picked exists, and an UPDATE only writes a state of an order under way.
Picked ==
    \A g \in Goroutines :
        /\ gr[g].at = "order" => /\ gr[g].row \in DOMAIN orders
                                 /\ gr[g].to \in Moving
        /\ gr[g].at = "shipment" => /\ gr[g].row \in DOMAIN shipments
                                    /\ gr[g].to \in ShipmentStates

\* A shipment is one of an order there is, and a new one of an order under way.
Shipped ==
    /\ \A i \in DOMAIN shipments : shipments[i].order \in DOMAIN orders
    /\ Len(SeededShipments) <= Len(shipments)
    /\ ShippedUnderWay

IInv == TypeOK /\ Covered /\ NeverOversold /\ Picked /\ Shipped

LEMMA InitialStates == Init => IInv
<1> SUFFICES ASSUME Init PROVE IInv
  OBVIOUS
<1>1. InitialStock \in Nat /\ InitialReserved \in Nat
  BY StorefrontAssumption
<1>2. Out \in State /\ Out.at = "out"
  BY DEF Out, State, Connected
<1>3. gr \in [Goroutines -> State] /\ \A g \in Goroutines : gr[g].at = "out"
  BY <1>2 DEF Init
<1>4. /\ stock \in [Variants -> Stock]
      /\ \A v \in Variants : stock[v].available = InitialStock
  BY <1>1 DEF Init, Stock
<1>5. orders \in Seq(Order) /\ DOMAIN orders = DOMAIN SeededOrders
  <2>1. SeededOrders \in Seq(OrderStates)
    BY StorefrontAssumption
  <2>2. orders = [i \in DOMAIN SeededOrders |->
                    [variant |-> Nobody, qty |-> 0, status |-> SeededOrders[i]]]
    BY DEF Init
  <2>3. ASSUME NEW i \in DOMAIN SeededOrders
        PROVE  [variant |-> Nobody, qty |-> 0, status |-> SeededOrders[i]] \in Order
    BY <2>1 DEF Order
  <2>4. orders \in [1 .. Len(SeededOrders) -> Order]
    BY <2>1, <2>2, <2>3
  <2>. QED BY <2>1, <2>4
<1>7. /\ shipments \in Seq(Shipment) /\ DOMAIN shipments = DOMAIN SeededShipments
      /\ Len(shipments) = Len(SeededShipments)
      /\ \A i \in DOMAIN shipments : shipments[i].order = i
  <2>1. SeededShipments \in Seq(ShipmentStates)
    BY StorefrontAssumption
  <2>2. shipments = [i \in DOMAIN SeededShipments |-> [order |-> i, status |-> SeededShipments[i]]]
    BY DEF Init
  <2>3. ASSUME NEW i \in DOMAIN SeededShipments
        PROVE  [order |-> i, status |-> SeededShipments[i]] \in Shipment
    BY <2>1 DEF Shipment
  <2>4. shipments \in [1 .. Len(SeededShipments) -> Shipment]
    BY <2>1, <2>2, <2>3
  <2>. QED BY <2>1, <2>2, <2>4
<1>8. Shipped
  <2>1. /\ SeededShipments \in Seq(ShipmentStates) /\ SeededOrders \in Seq(OrderStates)
        /\ Len(SeededShipments) <= Len(SeededOrders)
    BY StorefrontAssumption
  <2>. QED BY <1>5, <1>7, <2>1 DEF Shipped, ShippedUnderWay
<1>6. TypeOK
  BY <1>3, <1>4, <1>5, <1>7 DEF Init, TypeOK
<1>. QED
  BY <1>1, <1>3, <1>4, <1>6, <1>8 DEF IInv, Covered, NeverOversold, Picked

\* The two places a goroutine goes to when its operation is over.
LEMMA IdleTypes ==
    ASSUME TypeOK, NEW g \in Goroutines
    PROVE  /\ Out \in State /\ Out.at = "out"
           /\ Top \in State /\ Top.at = "top"
           /\ Idle(g) \in {Out, Top}
<1>1. Out \in State /\ Out.at = "out"
  BY DEF Out, State, Connected
<1>2. Top = [Out EXCEPT !.at = "top"]
  BY DEF Top
<1>3. Top \in State /\ Top.at = "top"
  BY <1>1, <1>2 DEF State
<1>4. Idle(g) \in {Out, Top}
  BY DEF Idle
<1>. QED
  BY <1>1, <1>3, <1>4

\* An operation that ends leaves the other goroutines, and their locks, alone.
LEMMA Returned ==
    ASSUME IInv, NEW g \in Goroutines, Return(g)
    PROVE  /\ gr' \in [Goroutines -> State]
           /\ lock' \in [Variants -> Goroutines \cup {Nobody}]
           /\ gr'[g].at \in {"out", "top"}
           /\ \A h \in Goroutines \ {g} : gr'[h] = gr[h]
           /\ \A v \in Variants : lock[v] # g => lock'[v] = lock[v]
<1>1. Idle(g) \in State /\ Idle(g).at \in {"out", "top"}
  BY IdleTypes DEF IInv
<1>2. gr \in [Goroutines -> State] /\ lock \in [Variants -> Goroutines \cup {Nobody}]
  BY DEF IInv, TypeOK
<1>3. gr' = [gr EXCEPT ![g] = Idle(g)]
  BY DEF Return
<1>4. lock' = [v \in Variants |-> IF lock[v] = g THEN Nobody ELSE lock[v]]
  BY DEF Return
<1> HIDE DEF Idle
<1>. QED
  BY <1>1, <1>2, <1>3, <1>4

\* One goroutine moves and may take a lock nobody has; the tables stay.
LEMMA Moved ==
    ASSUME IInv, NEW g \in Goroutines, NEW s \in State,
           gr' = [gr EXCEPT ![g] = s],
           lock' \in [Variants -> Goroutines \cup {Nobody}],
           \A v \in Variants : lock[v] \notin {g, Nobody} => lock'[v] = lock[v],
           s.at \in {"begin", "locking"} => s.variant \in Variants,
           s.at \in {"writing", "committing"} =>
               /\ s.variant \in Variants /\ lock'[s.variant] = g
               /\ s.qty <= stock[s.variant].available,
           s.at = "order" => s.row \in DOMAIN orders /\ s.to \in Moving,
           s.at = "shipment" => s.row \in DOMAIN shipments /\ s.to \in ShipmentStates,
           main' \in {"pause", "burst", "chaos", "flash", "stopped"},
           stopping' \in BOOLEAN, expired' \in BOOLEAN,
           UNCHANGED tables
    PROVE  IInv'
<1>1. /\ gr' \in [Goroutines -> State] /\ gr'[g] = s
      /\ \A h \in Goroutines \ {g} : gr'[h] = gr[h]
  BY DEF IInv, TypeOK
<1>2. TypeOK'
  BY <1>1 DEF IInv, TypeOK, tables
<1>3. Covered'
  <2> SUFFICES ASSUME NEW h \in Goroutines
               PROVE  /\ gr'[h].at \in {"begin", "locking", "writing", "committing"} =>
                            gr'[h].variant \in Variants
                      /\ gr'[h].at \in {"writing", "committing"} =>
                            /\ lock'[gr'[h].variant] = h
                            /\ gr'[h].qty <= stock[gr'[h].variant].available
    BY DEF Covered, tables
  <2>1. CASE h = g
    BY <2>1, <1>1
  <2>2. CASE h # g
    <3>1. gr'[h] = gr[h] /\ h # Nobody
      BY <2>2, <1>1, StorefrontAssumption
    <3>. QED BY <3>1, <2>2 DEF IInv, Covered
  <2>. QED BY <2>1, <2>2
<1>4. Picked'
  BY <1>1 DEF IInv, Picked, tables
<1>5. NeverOversold' /\ Shipped'
  BY DEF IInv, NeverOversold, Shipped, ShippedUnderWay, tables
<1>. QED BY <1>2, <1>3, <1>4, <1>5 DEF IInv

\* An operation that writes nothing ends.
LEMMA ReturnsIdle ==
    ASSUME IInv, NEW g \in Goroutines, Return(g), UNCHANGED <<context, tables>>
    PROVE  IInv'
<1>1. Idle(g) \in State /\ Idle(g).at \in {"out", "top"}
  BY IdleTypes DEF IInv
<1>2. gr' = [gr EXCEPT ![g] = Idle(g)]
  BY DEF Return
<1>3. /\ main' = main /\ stopping' = stopping /\ expired' = expired
      /\ UNCHANGED tables
  BY DEF context
<1>4. /\ main \in {"pause", "burst", "chaos", "flash", "stopped"}
      /\ stopping \in BOOLEAN /\ expired \in BOOLEAN
  BY DEF IInv, TypeOK
<1>5. /\ lock' \in [Variants -> Goroutines \cup {Nobody}]
      /\ \A v \in Variants : lock[v] # g => lock'[v] = lock[v]
  BY Returned
<1> HIDE DEF Idle
<1>. QED
  BY <1>1, <1>2, <1>3, <1>4, <1>5, Moved

\* An operation that writes the tables and ends: the other goroutines keep what
\* covers them if the rows they lock and those they picked are still there.
LEMMA WritesAndReturns ==
    ASSUME IInv, NEW g \in Goroutines, Return(g), UNCHANGED context,
           TypeOK', NeverOversold', Shipped',
           \A v \in Variants : lock[v] \notin {g, Nobody} => stock'[v] = stock[v],
           DOMAIN orders \subseteq DOMAIN orders',
           DOMAIN shipments \subseteq DOMAIN shipments'
    PROVE  IInv'
<1>1. /\ gr'[g].at \in {"out", "top"}
      /\ \A h \in Goroutines \ {g} : gr'[h] = gr[h]
      /\ \A v \in Variants : lock[v] # g => lock'[v] = lock[v]
  BY Returned
<1>2. Covered'
  <2> SUFFICES ASSUME NEW h \in Goroutines
               PROVE  /\ gr'[h].at \in {"begin", "locking", "writing", "committing"} =>
                            gr'[h].variant \in Variants
                      /\ gr'[h].at \in {"writing", "committing"} =>
                            /\ lock'[gr'[h].variant] = h
                            /\ gr'[h].qty <= stock'[gr'[h].variant].available
    BY DEF Covered
  <2>1. CASE h = g
    BY <2>1, <1>1
  <2>2. CASE h # g
    <3>1. gr'[h] = gr[h] /\ h # Nobody
      BY <2>2, <1>1, StorefrontAssumption
    <3>. QED BY <3>1, <2>2, <1>1 DEF IInv, Covered
  <2>. QED BY <2>1, <2>2
<1>3. Picked'
  BY <1>1 DEF IInv, Picked
<1>. QED BY <1>2, <1>3 DEF IInv

\* A goroutine that only goes on to another place.
LEMMA Advanced ==
    ASSUME TypeOK, NEW g \in Goroutines, NEW at \in Connected \cup {"begin"}
    PROVE  LET s == [gr[g] EXCEPT !.at = at]
           IN  /\ s \in State /\ s.at = at /\ s.variant = gr[g].variant
               /\ s.qty = gr[g].qty /\ s.row = gr[g].row /\ s.to = gr[g].to
<1>1. gr[g] \in State
  BY DEF TypeOK
<1>. QED BY <1>1 DEF State

LEMMA CheckoutStep ==
    ASSUME IInv, NEW g \in Goroutines, Checkout(g)
    PROVE  IInv'
<1>1. PICK v \in Variants, qty \in Quantities :
         gr' = [gr EXCEPT ![g] = [Top EXCEPT !.at = "begin", !.variant = v, !.qty = qty]]
  BY DEF Checkout
<1> DEFINE s == [Top EXCEPT !.at = "begin", !.variant = v, !.qty = qty]
<1>2. qty \in Nat
  BY StorefrontAssumption
<1>3. s \in State /\ s.at = "begin" /\ s.variant = v
  BY <1>2 DEF Top, Out, State
<1>4. gr' = [gr EXCEPT ![g] = s]
  BY <1>1
<1> HIDE DEF s
<1>5. /\ UNCHANGED <<main, stopping, expired, lock>> /\ UNCHANGED tables
  BY DEF Checkout, context
<1>6. TypeOK
  BY DEF IInv
<1>. QED BY <1>3, <1>4, <1>5, <1>6, Moved DEF TypeOK

LEMMA LockStockStep ==
    ASSUME IInv, NEW g \in Goroutines, LockStock(g)
    PROVE  IInv'
<1>1. CASE stock[gr[g].variant].available < gr[g].qty
  <2>1. Return(g) /\ UNCHANGED <<context, tables>>
    BY <1>1 DEF LockStock
  <2>. QED BY <2>1, ReturnsIdle
<1>2. CASE ~(stock[gr[g].variant].available < gr[g].qty)
  <2>1. PICK v \in Variants : v = gr[g].variant
    BY DEF LockStock, IInv, Covered
  <2>2. /\ TypeOK /\ lock[v] = Nobody
        /\ gr' = [gr EXCEPT ![g].at = "writing"]
        /\ lock' = [lock EXCEPT ![v] = g]
        /\ UNCHANGED <<main, stopping, expired>> /\ UNCHANGED tables
    BY <1>2, <2>1 DEF LockStock, IInv, context
  <2>3. "writing" \in Connected \cup {"begin"}
    BY DEF Connected
  <2> DEFINE s == [gr[g] EXCEPT !.at = "writing"]
  <2>4. /\ s \in State /\ s.at = "writing"
        /\ s.variant = gr[g].variant /\ s.qty = gr[g].qty
    BY <2>2, <2>3, Advanced
  <2>5. gr' = [gr EXCEPT ![g] = s]
    BY <2>2
  <2> HIDE DEF s
  <2>6. gr[g] \in State /\ stock[v] \in Stock /\ lock \in [Variants -> Goroutines \cup {Nobody}]
    BY <2>1, <2>2 DEF TypeOK
  <2>7. gr[g].qty \in Nat /\ stock[v].available \in Int
    BY <2>6 DEF State, Stock
  <2>8. s.variant \in Variants /\ s.qty <= stock[s.variant].available
    BY <1>2, <2>1, <2>4, <2>7
  <2>9. s.variant = v
    BY <2>1, <2>4
  <2>10. /\ lock' \in [Variants -> Goroutines \cup {Nobody}] /\ lock'[v] = g
        /\ \A u \in Variants : u # v => lock'[u] = lock[u]
    BY <2>1, <2>2, <2>6
  <2>11. /\ lock'[s.variant] = g
        /\ \A u \in Variants : lock[u] \notin {g, Nobody} => lock'[u] = lock[u]
    BY <2>1, <2>2, <2>9, <2>10
  <2>12. /\ main' \in {"pause", "burst", "chaos", "flash", "stopped"}
        /\ stopping' \in BOOLEAN /\ expired' \in BOOLEAN
    BY <2>2 DEF TypeOK
  <2>. QED BY <2>2, <2>4, <2>8, <2>11, <2>12, <2>5, <2>10, Moved
<1>. QED BY <1>1, <1>2

LEMMA BeginStep ==
    ASSUME IInv, NEW g \in Goroutines, Begin(g)
    PROVE  IInv'
<1>1. /\ TypeOK /\ gr[g].variant \in Variants
      /\ gr' = [gr EXCEPT ![g].at = "locking"]
      /\ UNCHANGED <<main, stopping, expired, lock>> /\ UNCHANGED tables
  BY DEF Begin, IInv, Covered, context
<1>2. "locking" \in Connected \cup {"begin"}
  BY DEF Connected
<1> DEFINE s == [gr[g] EXCEPT !.at = "locking"]
<1>3. s \in State /\ s.at = "locking" /\ s.variant = gr[g].variant
  BY <1>1, <1>2, Advanced
<1>5. gr' = [gr EXCEPT ![g] = s]
  BY <1>1
<1> HIDE DEF s
<1>4. /\ lock' \in [Variants -> Goroutines \cup {Nobody}]
      /\ main' \in {"pause", "burst", "chaos", "flash", "stopped"}
      /\ stopping' \in BOOLEAN /\ expired' \in BOOLEAN
  BY <1>1 DEF TypeOK
<1>. QED BY <1>1, <1>3, <1>4, <1>5, Moved

LEMMA WriteStep ==
    ASSUME IInv, NEW g \in Goroutines, Write(g)
    PROVE  IInv'
<1>1. /\ TypeOK /\ gr[g].variant \in Variants
      /\ lock[gr[g].variant] = g /\ gr[g].qty <= stock[gr[g].variant].available
      /\ gr' = [gr EXCEPT ![g].at = "committing"]
      /\ UNCHANGED <<main, stopping, expired, lock>> /\ UNCHANGED tables
  BY DEF Write, IInv, Covered, context
<1>2. "committing" \in Connected \cup {"begin"}
  BY DEF Connected
<1> DEFINE s == [gr[g] EXCEPT !.at = "committing"]
<1>3. /\ s \in State /\ s.at = "committing"
      /\ s.variant = gr[g].variant /\ s.qty = gr[g].qty
  BY <1>1, <1>2, Advanced
<1>6. gr' = [gr EXCEPT ![g] = s]
  BY <1>1
<1> HIDE DEF s
<1>4. /\ lock' \in [Variants -> Goroutines \cup {Nobody}]
      /\ main' \in {"pause", "burst", "chaos", "flash", "stopped"}
      /\ stopping' \in BOOLEAN /\ expired' \in BOOLEAN
  BY <1>1 DEF TypeOK
<1>5. s.variant \in Variants /\ lock'[s.variant] = g /\ s.qty <= stock[s.variant].available
  BY <1>1, <1>3
<1>. QED BY <1>1, <1>3, <1>4, <1>5, <1>6, Moved

LEMMA QueryStep ==
    ASSUME IInv, NEW g \in Goroutines, Query(g)
    PROVE  IInv'
<1>1. /\ TypeOK /\ gr' = [gr EXCEPT ![g].at = "query"]
      /\ UNCHANGED <<main, stopping, expired, lock>> /\ UNCHANGED tables
  BY DEF Query, IInv, context
<1>2. "query" \in Connected \cup {"begin"}
  BY DEF Connected
<1> DEFINE s == [gr[g] EXCEPT !.at = "query"]
<1>3. s \in State /\ s.at = "query"
  BY <1>1, <1>2, Advanced
<1>5. gr' = [gr EXCEPT ![g] = s]
  BY <1>1
<1> HIDE DEF s
<1>4. /\ lock' \in [Variants -> Goroutines \cup {Nobody}]
      /\ main' \in {"pause", "burst", "chaos", "flash", "stopped"}
      /\ stopping' \in BOOLEAN /\ expired' \in BOOLEAN
  BY <1>1 DEF TypeOK
<1>. QED BY <1>1, <1>3, <1>4, <1>5, Moved

\* What a statement picks is there.
LEMMA PickStep ==
    ASSUME IInv, NEW g \in Goroutines, NEW at \in {"order", "shipment"}, NEW row \in Nat,
           NEW to \in OrderStates \cup ShipmentStates, Pick(g, at, row, to),
           at = "order" => row \in DOMAIN orders /\ to \in Moving,
           at = "shipment" => row \in DOMAIN shipments /\ to \in ShipmentStates
    PROVE  IInv'
<1>1. /\ TypeOK /\ gr' = [gr EXCEPT ![g] = [Top EXCEPT !.at = at, !.row = row, !.to = to]]
      /\ UNCHANGED <<main, stopping, expired, lock>> /\ UNCHANGED tables
  BY DEF Pick, IInv, context
<1> DEFINE s == [Top EXCEPT !.at = at, !.row = row, !.to = to]
<1>2. s \in State /\ s.at = at /\ s.row = row /\ s.to = to
  BY DEF Top, Out, State, Connected
<1>3. gr' = [gr EXCEPT ![g] = s]
  BY <1>1
<1> HIDE DEF s
<1>4. /\ lock' \in [Variants -> Goroutines \cup {Nobody}]
      /\ main' \in {"pause", "burst", "chaos", "flash", "stopped"}
      /\ stopping' \in BOOLEAN /\ expired' \in BOOLEAN
  BY <1>1 DEF TypeOK
<1>5. s.at \notin {"begin", "locking", "writing", "committing"}
  BY <1>2
<1>. QED BY <1>1, <1>2, <1>3, <1>4, <1>5, Moved

LEMMA SoldFields ==
    ASSUME NEW r \in Stock, NEW qty \in Nat
    PROVE  [r EXCEPT !.available = @ - qty, !.reserved = @ + qty]
             = [available |-> r.available - qty, reserved |-> r.reserved + qty]
<1> DEFINE e == [r EXCEPT !.available = @ - qty, !.reserved = @ + qty]
           f == [available |-> r.available - qty, reserved |-> r.reserved + qty]
<1>1. /\ DOMAIN e = {"available", "reserved"}
      /\ e.available = r.available - qty /\ e.reserved = r.reserved + qty
  BY DEF Stock
<1>2. e = [x \in {"available", "reserved"} |-> e[x]]
  BY <1>1, Zenon
<1>3. f = [x \in {"available", "reserved"} |-> f[x]]
  OBVIOUS
<1>4. f.available = r.available - qty /\ f.reserved = r.reserved + qty
  OBVIOUS
<1>5. e = f
  <2> HIDE DEF e, f
  <2>. QED BY <1>1, <1>2, <1>3, <1>4
<1>. QED BY <1>5, Zenon

\* What a committed transaction leaves behind, and that no other transaction is
\* at its row.
LEMMA CommitStep ==
    ASSUME IInv, NEW g \in Goroutines, Commit(g)
    PROVE  IInv'
<1> DEFINE v == gr[g].variant
           qty == gr[g].qty
           order == [variant |-> v, qty |-> qty, status |-> "pending"]
<1>1. /\ v \in Variants /\ lock[v] = g /\ qty <= stock[v].available
      /\ Return(g) /\ UNCHANGED context
      /\ shipments' = shipments /\ restocked' = restocked
  BY DEF Commit, IInv, Covered
<1>2. gr[g] \in State /\ stock[v] \in Stock /\ flashed \in [Variants -> Nat]
  BY <1>1 DEF IInv, TypeOK
<1>3. /\ qty \in Nat /\ flashed[v] \in Nat
      /\ stock[v].available \in Int /\ stock[v].reserved \in Nat
  BY <1>1, <1>2 DEF State, Stock
<1>4. ASSUME NEW n \in Nat, stock[v].available - qty \in Int,
             stock' = [stock EXCEPT ![v] = [available |-> stock[v].available - qty,
                                            reserved |-> n]]
      PROVE  /\ stock' \in [Variants -> Stock] /\ NeverOversold'
             /\ \A u \in Variants : lock[u] \notin {g, Nobody} => stock'[u] = stock[u]
  <2> DEFINE r == [available |-> stock[v].available - qty, reserved |-> n]
  <2>1. r \in Stock /\ r.available >= 0
    BY <1>1, <1>3 DEF Stock
  <2>2. stock' = [stock EXCEPT ![v] = r] /\ stock \in [Variants -> Stock]
    BY <1>4 DEF IInv, TypeOK
  <2> HIDE DEF r
  <2>3. /\ stock' \in [Variants -> Stock]
        /\ \A u \in Variants : stock'[u] = IF u = v THEN r ELSE stock[u]
    BY <1>1, <2>1, <2>2
  <2>. QED BY <1>1, <2>1, <2>3 DEF IInv, NeverOversold
<1>5. \E n \in Nat :
         stock' = [stock EXCEPT ![v] = [available |-> stock[v].available - qty,
                                        reserved |-> n]]
  <2>1. CASE main = "flash"
    <3>1. stock' = [stock EXCEPT ![v] = [stock[v] EXCEPT !.available = @ - qty]]
      BY <2>1 DEF Commit
    <3>2. [stock[v] EXCEPT !.available = @ - qty]
            = [available |-> stock[v].available - qty, reserved |-> stock[v].reserved]
      BY <1>2 DEF Stock
    <3>. QED BY <1>3, <3>1, <3>2
  <2>2. CASE main # "flash"
    <3>1. stock' = [stock EXCEPT ![v] = [stock[v] EXCEPT !.available = @ - qty,
                                                         !.reserved = @ + qty]]
      BY <2>2 DEF Commit
    <3>2. [stock[v] EXCEPT !.available = @ - qty, !.reserved = @ + qty]
            = [available |-> stock[v].available - qty, reserved |-> stock[v].reserved + qty]
      BY <1>2, <1>3, SoldFields
    <3>3. stock[v].reserved + qty \in Nat
      BY <1>3
    <3>. QED BY <3>1, <3>2, <3>3
  <2>. QED BY <2>1, <2>2
<1>6. /\ stock' \in [Variants -> Stock] /\ NeverOversold'
      /\ \A u \in Variants : lock[u] \notin {g, Nobody} => stock'[u] = stock[u]
  <2>1. stock[v].available - qty \in Int
    BY <1>3
  <2>. QED BY <1>4, <1>5, <2>1
<1>7. flashed' \in [Variants -> Nat]
  <2>1. CASE main = "flash"
    <3>1. flashed' = [flashed EXCEPT ![v] = flashed[v] + qty]
      BY <2>1 DEF Commit
    <3>2. flashed[v] + qty \in Nat
      BY <1>3
    <3>. QED BY <1>2, <3>1, <3>2
  <2>2. CASE main # "flash"
    BY <1>2, <2>2 DEF Commit
  <2>. QED BY <2>1, <2>2
<1>8. /\ orders' \in Seq(Order) /\ DOMAIN orders \subseteq DOMAIN orders'
      /\ \A i \in DOMAIN orders : orders'[i] = orders[i]
  <2>1. order \in Order
    BY <1>1, <1>3 DEF Order, OrderStates
  <2>2. orders' = orders \/ orders' = Append(orders, order)
    BY DEF Commit
  <2>3. orders \in Seq(Order)
    BY DEF IInv, TypeOK
  <2> HIDE DEF order
  <2>. QED BY <2>1, <2>2, <2>3
<1>9. Shipped'
  BY <1>1, <1>8 DEF IInv, Shipped, ShippedUnderWay
<1>10. TypeOK'
  BY <1>1, <1>6, <1>7, <1>8, Returned DEF IInv, TypeOK, context
<1>. QED BY <1>1, <1>6, <1>8, <1>9, <1>10, WritesAndReturns

LEMMA UpdateOrderStep ==
    ASSUME IInv, NEW g \in Goroutines, UpdateOrder(g)
    PROVE  IInv'
<1> DEFINE i == gr[g].row
           o == [orders[i] EXCEPT !.status = gr[g].to]
<1>1. /\ i \in DOMAIN orders /\ gr[g].to \in Moving
      /\ Return(g) /\ UNCHANGED <<context, stock, shipments, restocked, flashed>>
      /\ orders' = [orders EXCEPT ![i] = o]
  BY DEF UpdateOrder, IInv, Picked
<1>2. orders \in Seq(Order)
  BY DEF IInv, TypeOK
<1>3. o \in Order /\ o.status \in Moving
  <2>1. orders[i] \in Order
    BY <1>1, <1>2
  <2>. QED BY <1>1, <2>1 DEF Order, OrderStates, Moving
<1> HIDE DEF i, o
<1>4. /\ orders' \in Seq(Order) /\ DOMAIN orders' = DOMAIN orders
      /\ \A j \in DOMAIN orders : orders'[j] = IF j = i THEN o ELSE orders[j]
  BY <1>1, <1>2, <1>3
<1>5. Shipped'
  BY <1>1, <1>3, <1>4 DEF IInv, Shipped, ShippedUnderWay, Moving
<1>6. TypeOK' /\ NeverOversold'
  BY <1>1, <1>4, Returned DEF IInv, TypeOK, context, NeverOversold
<1>. QED BY <1>1, <1>4, <1>5, <1>6, WritesAndReturns

LEMMA UpdateShipmentStep ==
    ASSUME IInv, NEW g \in Goroutines, UpdateShipment(g)
    PROVE  IInv'
<1> DEFINE i == gr[g].row
           s == [shipments[i] EXCEPT !.status = gr[g].to]
<1>1. /\ i \in DOMAIN shipments /\ gr[g].to \in ShipmentStates
      /\ Return(g) /\ UNCHANGED <<context, stock, orders, restocked, flashed>>
      /\ shipments' = [shipments EXCEPT ![i] = s]
  BY DEF UpdateShipment, IInv, Picked
<1>2. shipments \in Seq(Shipment)
  BY DEF IInv, TypeOK
<1>3. s \in Shipment /\ s.order = shipments[i].order
  <2>1. shipments[i] \in Shipment
    BY <1>1, <1>2
  <2>. QED BY <1>1, <2>1 DEF Shipment
<1> HIDE DEF i, s
<1>4. /\ shipments' \in Seq(Shipment) /\ DOMAIN shipments' = DOMAIN shipments
      /\ \A j \in DOMAIN shipments : shipments'[j] = IF j = i THEN s ELSE shipments[j]
  BY <1>1, <1>2, <1>3
<1>5. Shipped'
  <2>1. Len(shipments') = Len(shipments)
    BY <1>2, <1>4
  <2>. QED BY <1>1, <1>3, <1>4, <2>1 DEF IInv, Shipped, ShippedUnderWay
<1>6. TypeOK' /\ NeverOversold'
  BY <1>1, <1>4, Returned DEF IInv, TypeOK, context, NeverOversold
<1>. QED BY <1>1, <1>4, <1>5, <1>6, WritesAndReturns

LEMMA CreateShipmentStep ==
    ASSUME IInv, NEW g \in Goroutines, CreateShipment(g)
    PROVE  IInv'
<1>1. PICK i \in DOMAIN orders :
         /\ orders[i].status \in {"processing", "shipped"}
         /\ shipments' = Append(shipments, [order |-> i, status |-> "in_transit"])
  BY DEF CreateShipment
<1> DEFINE s == [order |-> i, status |-> "in_transit"]
<1>2. /\ Return(g) /\ UNCHANGED <<context, stock, orders, restocked, flashed>>
      /\ shipments' = Append(shipments, s)
  BY <1>1 DEF CreateShipment
<1>3. shipments \in Seq(Shipment) /\ orders \in Seq(Order)
  BY DEF IInv, TypeOK
<1>4. i \in Nat
  BY <1>3
<1>5. s \in Shipment /\ s.order = i
  BY <1>4 DEF Shipment, ShipmentStates
<1> HIDE DEF s
<1>6. /\ shipments' \in Seq(Shipment) /\ DOMAIN shipments \subseteq DOMAIN shipments'
      /\ Len(shipments) <= Len(shipments')
      /\ \A j \in DOMAIN shipments' : shipments'[j] = s \/ (j \in DOMAIN shipments /\ shipments'[j] = shipments[j])
  BY <1>2, <1>3, <1>5
<1>7. Len(SeededShipments) \in Nat /\ Len(shipments) \in Nat /\ Len(shipments') \in Nat
  BY <1>3, <1>6, StorefrontAssumption
<1>8. Shipped'
  BY <1>1, <1>2, <1>5, <1>6, <1>7 DEF IInv, Shipped, ShippedUnderWay
<1>9. TypeOK' /\ NeverOversold'
  BY <1>2, <1>6, Returned DEF IInv, TypeOK, context, NeverOversold
<1>. QED BY <1>2, <1>6, <1>8, <1>9, WritesAndReturns

\* The steps that set all goroutines at once, and no lock is held by any that
\* goes on.
LEMMA AllMoved ==
    ASSUME IInv, NEW s \in State, gr' = [g \in Goroutines |-> s],
           s.at \in {"out", "top", "begin"}, s.at = "begin" => s.variant \in Variants,
           main' \in {"pause", "burst", "chaos", "flash", "stopped"},
           stopping' \in BOOLEAN, expired' \in BOOLEAN,
           lock' \in [Variants -> Goroutines \cup {Nobody}],
           UNCHANGED tables
    PROVE  IInv'
<1>1. \A g \in Goroutines : gr'[g] = s
  OBVIOUS
<1>2. TypeOK'
  BY DEF IInv, TypeOK, tables
<1>3. Covered' /\ Picked'
  BY <1>1 DEF Covered, Picked
<1>. QED BY <1>2, <1>3 DEF IInv, NeverOversold, Shipped, ShippedUnderWay, tables

LEMMA RestockStep ==
    ASSUME IInv, Restock
    PROVE  IInv'
<1>1. PICK units \in [Variants -> RestockUnits] :
        /\ stock' = [v \in Variants |->
                         [available |-> stock[v].available + units[v],
                          reserved |-> LargerOf(stock[v].reserved - ReleaseUnits, 0)]]
        /\ restocked' = [v \in Variants |-> restocked[v] + units[v]]
  BY DEF Restock
<1>2. ASSUME NEW v \in Variants
      PROVE  /\ stock'[v] \in Stock /\ stock'[v].available >= stock[v].available
             /\ restocked[v] + units[v] \in Nat
  <2>1. /\ stock[v] \in Stock /\ restocked[v] \in Nat /\ units[v] \in Nat
        /\ ReleaseUnits \in Nat
    BY StorefrontAssumption DEF IInv, TypeOK
  <2>2. stock[v].available \in Int /\ stock[v].reserved \in Nat
    BY <2>1 DEF Stock
  <2>3. LargerOf(stock[v].reserved - ReleaseUnits, 0) \in Nat
    BY <2>1, <2>2 DEF LargerOf
  <2> DEFINE n == LargerOf(stock[v].reserved - ReleaseUnits, 0)
  <2>4. stock'[v] = [available |-> stock[v].available + units[v], reserved |-> n]
    BY <1>1
  <2> HIDE DEF n
  <2>. QED BY <2>1, <2>2, <2>3, <2>4 DEF Stock, n
<1>3. stock' \in [Variants -> Stock]
  <2>1. /\ stock' = [v \in Variants |-> stock'[v]]
    BY <1>1
  <2>. QED BY <1>2, <2>1
<1>4. restocked' \in [Variants -> Nat]
  BY <1>1, <1>2
<1>5. /\ main' = "pause"
      /\ UNCHANGED <<stopping, expired, gr, lock, orders, shipments, flashed>>
  BY DEF Restock
<1>6. TypeOK'
  BY <1>3, <1>4, <1>5 DEF IInv, TypeOK
<1>7. \A v \in Variants : stock[v].available \in Int /\ stock'[v].available \in Int
  BY <1>3 DEF IInv, TypeOK, Stock
<1>8. NeverOversold'
  BY <1>2, <1>7 DEF IInv, NeverOversold
<1>9. Covered'
  <2> SUFFICES ASSUME NEW g \in Goroutines
               PROVE  /\ gr[g].at \in {"begin", "locking", "writing", "committing"} =>
                            gr[g].variant \in Variants
                      /\ gr[g].at \in {"writing", "committing"} =>
                            /\ lock[gr[g].variant] = g
                            /\ gr[g].qty <= stock'[gr[g].variant].available
    BY <1>5 DEF Covered
  <2>1. gr[g].qty \in Nat
    BY DEF IInv, TypeOK, State
  <2>. QED BY <1>2, <1>7, <2>1 DEF IInv, Covered
<1>. QED BY <1>5, <1>6, <1>8, <1>9 DEF IInv, Picked, Shipped, ShippedUnderWay

\* Main, the timers and the generator's end and restart write no table but in a
\* restock.
LEMMA MainStep ==
    ASSUME IInv, Main \/ Shutdown \/ Kill
    PROVE  IInv'
<1>1. /\ Out \in State /\ Out.at = "out" /\ Top \in State /\ Top.at = "top"
  <2>1. Out \in State /\ Out.at = "out"
    BY DEF Out, State, Connected
  <2>. QED BY <2>1 DEF Top, State
<1>2. TypeOK
  BY DEF IInv
<1>3. CASE StartBurst
  <2>1. /\ main' = "burst" /\ expired' = FALSE /\ gr' = [g \in Goroutines |-> Top]
        /\ stopping' = stopping /\ lock' = lock /\ UNCHANGED tables
    BY <1>3 DEF StartBurst
  <2> HIDE DEF Top
  <2>. QED BY <1>1, <1>2, <2>1, AllMoved DEF TypeOK
<1>4. CASE FlashSale
  <2>1. PICK v \in Variants :
          gr' = [g \in Goroutines |-> [Top EXCEPT !.at = "begin", !.variant = v, !.qty = 1]]
    BY <1>4 DEF FlashSale
  <2> DEFINE s == [Top EXCEPT !.at = "begin", !.variant = v, !.qty = 1]
  <2>2. s \in State /\ s.at = "begin" /\ s.variant = v
    BY DEF Top, Out, State
  <2>3. gr' = [g \in Goroutines |-> s]
    BY <2>1
  <2>4. /\ main' = "flash" /\ expired' = stopping
        /\ stopping' = stopping /\ lock' = lock /\ UNCHANGED tables
    BY <1>4 DEF FlashSale
  <2> HIDE DEF s
  <2>. QED BY <1>2, <2>2, <2>3, <2>4, AllMoved DEF TypeOK
<1>5. CASE Fresh
  <2>1. /\ main' = "pause" /\ stopping' = FALSE /\ expired' = FALSE
        /\ gr' = [g \in Goroutines |-> Out] /\ UNCHANGED tables
        /\ lock' \in [Variants -> Goroutines \cup {Nobody}]
    BY <1>5 DEF Fresh
  <2> HIDE DEF Out
  <2>. QED BY <1>1, <2>1, AllMoved
<1>6. CASE Timeout \/ BurstOver \/ FlashSaleOver \/ OtherPattern \/ Shutdown \/ Stop
  <2>1. /\ main' \in {"pause", "burst", "chaos", "flash", "stopped"}
        /\ stopping' \in BOOLEAN /\ expired' \in BOOLEAN
        /\ gr' = gr /\ lock' = lock /\ UNCHANGED tables
    BY <1>2, <1>6 DEF TypeOK, Timeout, BurstOver, FlashSaleOver, OtherPattern, Shutdown, Stop
  <2>2. TypeOK'
    BY <1>2, <2>1 DEF TypeOK, tables
  <2>. QED BY <2>1, <2>2 DEF IInv, Covered, NeverOversold, Picked, Shipped, ShippedUnderWay, tables
<1>7. CASE Restock
  BY <1>7, RestockStep
<1>. QED BY <1>3, <1>4, <1>5, <1>6, <1>7 DEF Main, Kill, Restart

LEMMA GoroutineStep ==
    ASSUME IInv, NEW g \in Goroutines, Goroutine(g) \/ Operation(g)
    PROVE  IInv'
<1>1. CASE Abort(g) \/ Answer(g)
  BY <1>1, ReturnsIdle DEF Abort, Answer
<1>2. CASE Leave(g)
  <2>1. /\ gr' = [gr EXCEPT ![g] = Out] /\ TypeOK
        /\ UNCHANGED <<main, stopping, expired, lock>> /\ UNCHANGED tables
    BY <1>2 DEF Leave, context, IInv
  <2>2. Out \in State /\ Out.at = "out"
    BY DEF Out, State, Connected
  <2> HIDE DEF Out
  <2>. QED BY <2>1, <2>2, Moved DEF TypeOK
<1>3. CASE PickOrder(g)
  <2>1. PICK i \in DOMAIN orders, move \in OrderMoves : Pick(g, "order", i, move[2])
    BY <1>3 DEF PickOrder
  <2>2. i \in Nat
    BY DEF IInv, TypeOK
  <2>3. move[2] \in Moving /\ move[2] \in OrderStates
    BY DEF OrderMoves, Moving, OrderStates
  <2>. QED BY <2>1, <2>2, <2>3, PickStep
<1>4. CASE PickShipment(g)
  <2>1. PICK i \in DOMAIN shipments, move \in ShipmentMoves : Pick(g, "shipment", i, move[2])
    BY <1>4 DEF PickShipment
  <2>2. i \in Nat
    BY DEF IInv, TypeOK
  <2>3. move[2] \in ShipmentStates
    BY DEF ShipmentMoves, ShipmentStates
  <2>. QED BY <2>1, <2>2, <2>3, PickStep
<1>5. CASE \/ Begin(g) \/ LockStock(g) \/ Write(g) \/ Commit(g)
           \/ UpdateOrder(g) \/ UpdateShipment(g)
           \/ Checkout(g) \/ CreateShipment(g) \/ Query(g)
  BY <1>5, BeginStep, LockStockStep, WriteStep, CommitStep, UpdateOrderStep,
     UpdateShipmentStep, CheckoutStep, CreateShipmentStep, QueryStep
<1>. QED BY <1>1, <1>2, <1>3, <1>4, <1>5 DEF Goroutine, Operation

LEMMA Inductive == IInv /\ [Next]_vars => IInv'
<1> SUFFICES ASSUME IInv, [Next]_vars PROVE IInv'
  OBVIOUS
<1>1. CASE UNCHANGED vars
  <2>1. /\ UNCHANGED <<main, stopping, expired, gr, lock>>
        /\ UNCHANGED <<stock, orders, shipments, restocked, flashed>>
    BY <1>1 DEF vars, context, tables
  <2>. QED
    BY <2>1 DEF IInv, TypeOK, Covered, NeverOversold, Picked, Shipped, ShippedUnderWay
<1>2. CASE Next
  BY <1>2, GoroutineStep, MainStep DEF Next
<1>. QED BY <1>1, <1>2

LEMMA Invariant == Spec => []IInv
<1>. QED BY InitialStates, Inductive, PTL DEF Spec

\* The tables, the locks and the goroutines of the load generator (main.go)
\* keep their shape.
THEOREM Typing == Spec => []TypeOK
<1>1. IInv => TypeOK
  BY DEF IInv
<1>. QED BY <1>1, Invariant, PTL

\* doCheckout and chaosFlashSale never sell what is not there: each checks the
\* stock under the lock it keeps until it commits.
THEOREM NothingOversold == Spec => []NeverOversold
<1>1. IInv => NeverOversold
  BY DEF IInv
<1>. QED BY <1>1, Invariant, PTL

\* Whatever the seed holds: what createShipment (main.go:704-714) made is of an order under
\* way, and the racing updates of orders (main.go:683-695) leave it so.
THEOREM NewShipmentsUnderWay == Spec => []ShippedUnderWay
<1>1. IInv => ShippedUnderWay
  BY DEF IInv, Shipped
<1>. QED BY <1>1, Invariant, PTL

-----------------------------------------------------------------------------
(* The units that orders take *)

\* A set of numbers that has zero and the next of each of its members is all of them: the
\* least number it lacked would have one before it.
LEMMA SetInduction ==
    ASSUME NEW T \in SUBSET Nat, 0 \in T, \A n \in T : n + 1 \in T
    PROVE  T = Nat
<1> SUFFICES ASSUME T # Nat PROVE FALSE
    OBVIOUS
<1> DEFINE U == Nat \ T
           R == OpToRel(<, Nat)
<1>1. U # {} /\ U \subseteq Nat
    OBVIOUS
<1>2. IsWellFoundedOn(R, Nat)
    BY NatLessThanWellFounded, Zenon
<1>3. \E x \in U : \A y \in U : ~ (<<y, x>> \in R)
    BY ONLY <1>1, <1>2, WFMin, Zenon
<1>4. PICK x \in U : \A y \in U : ~ (<<y, x>> \in R)
    BY <1>3
<1> HIDE DEF R
<1>5. x \in Nat /\ x # 0 /\ x - 1 \in Nat
    BY <1>4
<1>6. x - 1 \in T \/ x - 1 \in U
    BY <1>5
<1>7. x - 1 \notin T
    BY <1>5
<1>8. <<x - 1, x>> \in R
  <2>1. x - 1 < x
      BY <1>5
  <2> QED
      BY <1>5, <2>1, Zenon DEF R, OpToRel
<1> QED
    BY <1>4, <1>6, <1>7, <1>8

\* Each order's units are added to those of the orders before it.
LEMMA UnitsDef ==
    ASSUME NEW rows \in Seq(Order), NEW v
    PROVE  \A i \in 0 .. Len(rows) :
             UnitsUpTo(rows, v)[i] =
               IF i = 0 THEN 0 ELSE UnitsUpTo(rows, v)[i - 1] + UnitsOf(rows[i], v)
<1> DEFINE L == Len(rows)
           U(i) == UnitsOf(rows[i], v)
           Sums(g, n) == \A i \in 0 .. n : g[i] = IF i = 0 THEN 0 ELSE g[i - 1] + U(i)
           T == {n \in Nat : n <= L => \E g : g = [i \in 0 .. n |-> g[i]] /\ Sums(g, n)}
<1>1. L \in Nat
  OBVIOUS
<1> HIDE DEF L, U
<1>2. 0 \in T
  <2> DEFINE z == [i \in 0 .. 0 |-> 0]
  <2>1. z = [i \in 0 .. 0 |-> z[i]] /\ Sums(z, 0)
    OBVIOUS
  <2>. QED BY <2>1
<1>3. \A n \in T : n + 1 \in T
  <2> SUFFICES ASSUME NEW n \in Nat, n + 1 <= L,
                      NEW g, g = [i \in 0 .. n |-> g[i]], Sums(g, n)
               PROVE  \E h : h = [i \in 0 .. n + 1 |-> h[i]] /\ Sums(h, n + 1)
    BY <1>1
  <2> DEFINE h == [i \in 0 .. n + 1 |-> IF i = n + 1 THEN g[n] + U(n + 1) ELSE g[i]]
  <2>1. h = [i \in 0 .. n + 1 |-> h[i]]
    OBVIOUS
  <2>2. h[n + 1] = g[n] + U(n + 1) /\ \A i \in 0 .. n : h[i] = g[i]
    OBVIOUS
  <2> HIDE DEF h
  <2>3. ASSUME NEW i \in 0 .. n + 1 PROVE h[i] = IF i = 0 THEN 0 ELSE h[i - 1] + U(i)
    <3>1. CASE i = n + 1
      BY <3>1, <2>2
    <3>2. CASE i \in 0 .. n /\ i = 0
      BY <3>2, <2>2
    <3>3. CASE i \in 0 .. n /\ i # 0
      <4>1. i - 1 \in 0 .. n
        BY <3>3
      <4>. QED BY <3>3, <4>1, <2>2
    <3>. QED BY <3>1, <3>2, <3>3
  <2>. QED BY <2>1, <2>3
<1>4. L \in T
  <2> HIDE DEF T
  <2>1. T \subseteq Nat
    BY DEF T
  <2>2. T = Nat
    BY <2>1, <1>2, <1>3, SetInduction
  <2>. QED BY <2>2, <1>1
<1>5. PICK g : g = [i \in 0 .. L |-> g[i]] /\ Sums(g, L)
  BY <1>4
<1>6. g = [i \in 0 .. L |-> IF i = 0 THEN 0 ELSE g[i - 1] + U(i)]
  <2>1. \A i \in 0 .. L : g[i] = IF i = 0 THEN 0 ELSE g[i - 1] + U(i)
    BY <1>5
  <2>. QED BY <1>5, <2>1, Zenon
<1> DEFINE u == UnitsUpTo(rows, v)
<1>7. u = [i \in 0 .. L |-> IF i = 0 THEN 0 ELSE u[i - 1] + U(i)]
  BY <1>6, Zenon DEF UnitsUpTo, L, U
<1> HIDE DEF u
<1>8. ASSUME NEW i \in 0 .. L
      PROVE  u[i] = IF i = 0 THEN 0 ELSE u[i - 1] + U(i)
  BY <1>7, Zenon
<1>. QED BY <1>8 DEF L, U, u

\* Orders that take nothing add up to nothing.
LEMMA NoUnits ==
    ASSUME NEW rows \in Seq(Order), NEW v, \A i \in 1 .. Len(rows) : UnitsOf(rows[i], v) = 0
    PROVE  UnitsUpTo(rows, v)[Len(rows)] = 0
<1> DEFINE L == Len(rows)
           u == UnitsUpTo(rows, v)
           T == {n \in Nat : n <= L => u[n] = 0}
<1>1. L \in Nat
  OBVIOUS
<1>2. \A i \in 0 .. L : u[i] = IF i = 0 THEN 0 ELSE u[i - 1] + UnitsOf(rows[i], v)
  BY UnitsDef
<1>3. \A i \in 1 .. L : UnitsOf(rows[i], v) = 0
  OBVIOUS
<1> HIDE DEF L, u
<1>4. 0 \in T
  BY <1>1, <1>2
<1>5. \A n \in T : n + 1 \in T
  <2> SUFFICES ASSUME NEW n \in Nat, n + 1 <= L, u[n] = 0 PROVE u[n + 1] = 0
    BY <1>1
  <2>1. u[n + 1] = u[n] + UnitsOf(rows[n + 1], v)
    BY <1>1, <1>2
  <2>. QED BY <1>1, <1>3, <2>1
<1>6. T = Nat
  <2>1. T \subseteq Nat
    OBVIOUS
  <2> HIDE DEF T
  <2>. QED BY <2>1, <1>4, <1>5, SetInduction
<1>. QED BY <1>1, <1>6 DEF L, u

LEMMA UnitsNat ==
    ASSUME NEW rows \in Seq(Order), NEW v
    PROVE  \A n \in 0 .. Len(rows) : UnitsUpTo(rows, v)[n] \in Nat
<1> DEFINE L == Len(rows)
           u == UnitsUpTo(rows, v)
           T == {n \in Nat : n <= L => u[n] \in Nat}
<1>1. L \in Nat
  OBVIOUS
<1>2. \A i \in 0 .. L : u[i] = IF i = 0 THEN 0 ELSE u[i - 1] + UnitsOf(rows[i], v)
  BY UnitsDef
<1>3. ASSUME NEW i \in 1 .. L PROVE UnitsOf(rows[i], v) \in Nat
  <2>1. rows[i] \in Order
    OBVIOUS
  <2>2. rows[i].qty \in Nat
    BY <2>1 DEF Order
  <2>. QED BY <2>2 DEF UnitsOf
<1> HIDE DEF L, u
<1>4. 0 \in T
  BY <1>1, <1>2
<1>5. \A n \in T : n + 1 \in T
  <2> SUFFICES ASSUME NEW n \in Nat, n + 1 <= L, u[n] \in Nat PROVE u[n + 1] \in Nat
    BY <1>1
  <2>1. u[n + 1] = u[n] + UnitsOf(rows[n + 1], v)
    BY <1>1, <1>2
  <2>2. UnitsOf(rows[n + 1], v) \in Nat
    BY <1>1, <1>3
  <2>. QED BY <2>1, <2>2
<1>6. T = Nat
  <2>1. T \subseteq Nat
    OBVIOUS
  <2> HIDE DEF T
  <2>. QED BY <2>1, <1>4, <1>5, SetInduction
<1>. QED BY <1>1, <1>6 DEF L, u

\* Tables whose first orders take the same take the same up to there.
LEMMA UnitsAgree ==
    ASSUME NEW rows \in Seq(Order), NEW more \in Seq(Order), NEW v,
           NEW m \in Nat, m <= Len(rows), m <= Len(more),
           \A i \in 1 .. m : UnitsOf(more[i], v) = UnitsOf(rows[i], v)
    PROVE  UnitsUpTo(more, v)[m] = UnitsUpTo(rows, v)[m]
<1> DEFINE a == UnitsUpTo(rows, v)
           b == UnitsUpTo(more, v)
           T == {n \in Nat : n <= m => b[n] = a[n]}
<1>1. \A i \in 0 .. m : a[i] = IF i = 0 THEN 0 ELSE a[i - 1] + UnitsOf(rows[i], v)
  <2>1. \A i \in 0 .. m : i \in 0 .. Len(rows)
    OBVIOUS
  <2>. QED BY <2>1, UnitsDef
<1>2. \A i \in 0 .. m : b[i] = IF i = 0 THEN 0 ELSE b[i - 1] + UnitsOf(more[i], v)
  <2>1. \A i \in 0 .. m : i \in 0 .. Len(more)
    OBVIOUS
  <2>. QED BY <2>1, UnitsDef
<1> HIDE DEF a, b
<1>3. 0 \in T
  <2>1. 0 \in 0 .. m
    OBVIOUS
  <2>2. a[0] = 0
    BY <1>1, <2>1
  <2>3. b[0] = 0
    BY <1>2, <2>1
  <2>. QED BY <2>2, <2>3
<1>4. \A n \in T : n + 1 \in T
  <2> SUFFICES ASSUME NEW n \in Nat, n + 1 <= m, b[n] = a[n] PROVE b[n + 1] = a[n + 1]
    OBVIOUS
  <2>1. n + 1 \in 0 .. m /\ n + 1 \in 1 .. m /\ n + 1 # 0 /\ (n + 1) - 1 = n
    OBVIOUS
  <2>2. a[n + 1] = a[n] + UnitsOf(rows[n + 1], v)
    BY <2>1, <1>1
  <2>3. b[n + 1] = b[n] + UnitsOf(more[n + 1], v)
    BY <2>1, <1>2
  <2>. QED BY <2>1, <2>2, <2>3
<1>5. T = Nat
  <2>1. T \subseteq Nat
    OBVIOUS
  <2> HIDE DEF T
  <2>. QED BY <2>1, <1>3, <1>4, SetInduction
<1>. QED BY <1>5 DEF a, b

\* A new order adds its units, whatever it is.
LEMMA UnitsAdded ==
    ASSUME NEW rows \in Seq(Order), NEW o \in Order, NEW v
    PROVE  UnitsUpTo(Append(rows, o), v)[Len(Append(rows, o))]
             = UnitsUpTo(rows, v)[Len(rows)] + UnitsOf(o, v)
<1> DEFINE more == Append(rows, o)
           n == Len(rows)
<1>1. /\ more \in Seq(Order) /\ n \in Nat /\ Len(more) = n + 1 /\ more[n + 1] = o
      /\ \A i \in 1 .. n : more[i] = rows[i]
  OBVIOUS
<1> HIDE DEF more
<1>2. UnitsUpTo(more, v)[n] = UnitsUpTo(rows, v)[n]
  BY <1>1, UnitsAgree
<1>3. UnitsUpTo(more, v)[n + 1] = UnitsUpTo(more, v)[n] + UnitsOf(more[n + 1], v)
  <2>1. n + 1 \in 0 .. Len(more) /\ n + 1 # 0 /\ (n + 1) - 1 = n
    BY <1>1
  <2>. QED BY <1>1, <2>1, UnitsDef
<1>. QED BY <1>1, <1>2, <1>3 DEF more

-----------------------------------------------------------------------------
(* The ledger *)

LInv == IInv /\ StockLedger

\* A step that leaves the stock, its histories and what each order takes as they were.
LEMMA LedgerSame ==
    ASSUME LInv, UNCHANGED <<stock, restocked, flashed>>, orders' \in Seq(Order),
           Len(orders') = Len(orders),
           \A i \in 1 .. Len(orders), v \in Variants :
               UnitsOf(orders'[i], v) = UnitsOf(orders[i], v)
    PROVE  StockLedger'
<1>1. orders \in Seq(Order) /\ Len(orders) \in Nat
  BY DEF LInv, IInv, TypeOK
<1>2. ASSUME NEW v \in Variants PROVE Ordered(v)' = Ordered(v)
  BY <1>1, UnitsAgree DEF Ordered
<1>. QED BY <1>2 DEF LInv, StockLedger

\* A row that is updated keeps its variant and its units.
LEMMA LedgerUpdateOrder ==
    ASSUME LInv, NEW g \in Goroutines, UpdateOrder(g)
    PROVE  StockLedger'
<1>1. /\ UNCHANGED <<stock, restocked, flashed>>
      /\ orders' = [orders EXCEPT ![gr[g].row] = [orders[gr[g].row] EXCEPT !.status = gr[g].to]]
  BY DEF UpdateOrder
<1>2. orders \in Seq(Order) /\ orders' \in Seq(Order)
  BY UpdateOrderStep DEF LInv, IInv, TypeOK
<1>3. Len(orders') = Len(orders)
  BY <1>1, <1>2
<1>4. ASSUME NEW i \in 1 .. Len(orders), NEW v \in Variants
      PROVE  UnitsOf(orders'[i], v) = UnitsOf(orders[i], v)
  <2>1. orders[i] \in Order
    BY <1>2
  <2>2. orders'[i] \in {orders[i], [orders[i] EXCEPT !.status = gr[g].to]}
    BY <1>1, <1>2
  <2>3. orders'[i].variant = orders[i].variant /\ orders'[i].qty = orders[i].qty
    BY <2>1, <2>2 DEF Order
  <2>. QED BY <2>3 DEF UnitsOf
<1>. QED BY <1>1, <1>2, <1>3, <1>4, LedgerSame

\* An order adds to what is ordered, and a sale to what is flashed, as much as it takes
\* from what is available.
LEMMA LedgerCommit ==
    ASSUME LInv, NEW g \in Goroutines, Commit(g)
    PROVE  StockLedger'
<1> DEFINE v == gr[g].variant
           qty == gr[g].qty
           order == [variant |-> v, qty |-> qty, status |-> "pending"]
<1>1. /\ v \in Variants /\ restocked' = restocked
      /\ gr[g] \in State /\ orders \in Seq(Order)
      /\ stock \in [Variants -> Stock] /\ flashed \in [Variants -> Nat]
      /\ restocked \in [Variants -> Nat]
  BY DEF Commit, LInv, IInv, Covered, TypeOK
<1>2. qty \in Nat
  BY <1>1 DEF State
<1>3. ASSUME NEW u \in Variants
      PROVE  /\ stock[u].available \in Int /\ stock[u].reserved \in Nat
             /\ restocked[u] \in Nat /\ flashed[u] \in Nat /\ Ordered(u) \in Nat
  <2>1. stock[u] \in Stock
    BY <1>1
  <2>2. Ordered(u) \in Nat
    BY <1>1, UnitsNat DEF Ordered
  <2>. QED BY <1>1, <2>1, <2>2 DEF Stock
<1>4. InitialStock \in Nat /\ InitialReserved \in Nat
  BY StorefrontAssumption
<1>5. ASSUME NEW u \in Variants
      PROVE  /\ stock[u].available = InitialStock + restocked[u] - Ordered(u) - flashed[u]
             /\ stock[u].reserved <= InitialReserved + Ordered(u)
  BY DEF LInv, StockLedger
<1>6. CASE main = "flash"
  <2>1. /\ stock' = [stock EXCEPT ![v] = [stock[v] EXCEPT !.available = @ - qty]]
        /\ flashed' = [flashed EXCEPT ![v] = flashed[v] + qty]
        /\ orders' = orders
    BY <1>6 DEF Commit
  <2>2. ASSUME NEW u \in Variants PROVE Ordered(u)' = Ordered(u)
    BY <2>1 DEF Ordered
  <2>3. ASSUME NEW u \in Variants
        PROVE  /\ stock'[u].available = stock[u].available - (IF u = v THEN qty ELSE 0)
               /\ stock'[u].reserved = stock[u].reserved
               /\ flashed'[u] = flashed[u] + (IF u = v THEN qty ELSE 0)
    <3>1. stock[v] \in Stock
      BY <1>1
    <3>2. CASE u = v
      BY <1>1, <2>1, <3>1, <3>2 DEF Stock
    <3>3. CASE u # v
      BY <1>1, <1>3, <2>1, <3>3
    <3>. QED BY <3>2, <3>3
  <2> HIDE DEF v, qty
  <2>4. ASSUME NEW u \in Variants
        PROVE  /\ stock'[u].available = InitialStock + restocked'[u] - Ordered(u)' - flashed'[u]
               /\ stock'[u].reserved <= InitialReserved + Ordered(u)'
    <3> DEFINE q == IF u = v THEN qty ELSE 0
    <3>1. q \in Nat
      BY <1>2
    <3>2. /\ stock'[u].available = stock[u].available - q
          /\ stock'[u].reserved = stock[u].reserved
          /\ flashed'[u] = flashed[u] + q
          /\ Ordered(u)' = Ordered(u) /\ restocked'[u] = restocked[u]
      BY <1>1, <2>2, <2>3
    <3> HIDE DEF q
    <3>3. /\ stock[u].available \in Int /\ stock[u].reserved \in Nat
          /\ restocked[u] \in Nat /\ flashed[u] \in Nat /\ Ordered(u) \in Nat
          /\ stock[u].available = InitialStock + restocked[u] - Ordered(u) - flashed[u]
          /\ stock[u].reserved <= InitialReserved + Ordered(u)
      BY <1>3, <1>5
    <3>4. stock[u].available - q = InitialStock + restocked[u] - Ordered(u) - (flashed[u] + q)
      BY ONLY <1>4, <3>1, <3>3
    <3>. QED BY <1>5, <3>2, <3>4
  <2>. QED BY <2>4 DEF StockLedger
<1>7. CASE main # "flash"
  <2>1. /\ stock' = [stock EXCEPT ![v] = [stock[v] EXCEPT !.available = @ - qty,
                                                       !.reserved = @ + qty]]
        /\ orders' = Append(orders, order)
        /\ flashed' = flashed
    BY <1>7 DEF Commit
  <2>2. order \in Order
    BY <1>1, <1>2 DEF Order, OrderStates
  <2>3. ASSUME NEW u \in Variants
        PROVE  Ordered(u)' = Ordered(u) + (IF u = v THEN qty ELSE 0)
    <3>1. UnitsOf(order, u) = IF u = v THEN qty ELSE 0
      BY DEF UnitsOf
    <3> HIDE DEF order
    <3>. QED BY <1>1, <2>1, <2>2, <3>1, UnitsAdded DEF Ordered
  <2>4. ASSUME NEW u \in Variants
        PROVE  /\ stock'[u].available = stock[u].available - (IF u = v THEN qty ELSE 0)
               /\ stock'[u].reserved = stock[u].reserved + (IF u = v THEN qty ELSE 0)
    <3>1. stock[v] \in Stock
      BY <1>1
    <3>2. CASE u = v
      BY <1>1, <1>2, <2>1, <3>1, <3>2 DEF Stock
    <3>3. CASE u # v
      BY <1>1, <1>3, <2>1, <3>3
    <3>. QED BY <3>2, <3>3
  <2> HIDE DEF v, qty
  <2>5. ASSUME NEW u \in Variants
        PROVE  /\ stock'[u].available = InitialStock + restocked'[u] - Ordered(u)' - flashed'[u]
               /\ stock'[u].reserved <= InitialReserved + Ordered(u)'
    <3> DEFINE q == IF u = v THEN qty ELSE 0
    <3>1. q \in Nat
      BY <1>2
    <3>2. /\ stock'[u].available = stock[u].available - q
          /\ stock'[u].reserved = stock[u].reserved + q
          /\ flashed'[u] = flashed[u]
          /\ Ordered(u)' = Ordered(u) + q /\ restocked'[u] = restocked[u]
      BY <1>1, <2>1, <2>3, <2>4
    <3> HIDE DEF q
    <3>3. /\ stock[u].available \in Int /\ stock[u].reserved \in Nat
          /\ restocked[u] \in Nat /\ flashed[u] \in Nat /\ Ordered(u) \in Nat
          /\ stock[u].available = InitialStock + restocked[u] - Ordered(u) - flashed[u]
          /\ stock[u].reserved <= InitialReserved + Ordered(u)
      BY <1>3, <1>5
    <3>4. stock[u].available - q = InitialStock + restocked[u] - (Ordered(u) + q) - flashed[u]
      BY ONLY <1>4, <3>1, <3>3
    <3>5. stock[u].reserved + q <= InitialReserved + (Ordered(u) + q)
      BY ONLY <1>4, <3>1, <3>3
    <3>. QED BY <3>2, <3>4, <3>5
  <2>. QED BY <2>5 DEF StockLedger
<1>. QED BY <1>6, <1>7

LEMMA LedgerRestock ==
    ASSUME LInv, Restock
    PROVE  StockLedger'
<1>1. PICK units \in [Variants -> RestockUnits] :
        /\ stock' = [v \in Variants |->
                         [available |-> stock[v].available + units[v],
                          reserved |-> LargerOf(stock[v].reserved - ReleaseUnits, 0)]]
        /\ restocked' = [v \in Variants |-> restocked[v] + units[v]]
  BY DEF Restock
<1>2. UNCHANGED <<orders, flashed>>
  BY DEF Restock
<1>3. ASSUME NEW v \in Variants
      PROVE  /\ stock'[v].available = InitialStock + restocked'[v] - Ordered(v) - flashed[v]
             /\ stock'[v].reserved <= InitialReserved + Ordered(v)
  <2>1. /\ stock[v] \in Stock /\ restocked[v] \in Nat /\ flashed[v] \in Nat
        /\ orders \in Seq(Order)
        /\ stock[v].available = InitialStock + restocked[v] - Ordered(v) - flashed[v]
        /\ stock[v].reserved <= InitialReserved + Ordered(v)
    BY DEF LInv, IInv, TypeOK, StockLedger
  <2>2. stock[v].available \in Int /\ stock[v].reserved \in Nat
    BY <2>1 DEF Stock
  <2>3. InitialStock \in Nat /\ InitialReserved \in Nat /\ ReleaseUnits \in Nat /\ units[v] \in Nat
    BY StorefrontAssumption
  <2>4. Ordered(v) \in Nat
    BY <2>1, UnitsNat DEF Ordered
  <2>5. /\ stock'[v].available = stock[v].available + units[v]
        /\ stock'[v].reserved = LargerOf(stock[v].reserved - ReleaseUnits, 0)
        /\ restocked'[v] = restocked[v] + units[v]
    BY <1>1
  <2>6. LargerOf(stock[v].reserved - ReleaseUnits, 0) <= InitialReserved + Ordered(v)
    BY <2>1, <2>2, <2>3, <2>4 DEF LargerOf
  <2>. QED BY <2>1, <2>2, <2>3, <2>4, <2>5, <2>6, SMTT(40)
<1>4. ASSUME NEW v \in Variants PROVE Ordered(v)' = Ordered(v)
  BY <1>2 DEF Ordered
<1>. QED BY <1>2, <1>3, <1>4 DEF StockLedger

\* The stock and the tables it is compared with are written nowhere else.
LEMMA LedgerWriters ==
    ASSUME [Next]_vars
    PROVE  \/ UNCHANGED <<stock, orders, restocked, flashed>>
           \/ Restock
           \/ \E g \in Goroutines : UpdateOrder(g) \/ Commit(g)
<1>1. CASE UNCHANGED vars
  BY <1>1 DEF vars, tables
<1>2. CASE \E g \in Goroutines : Goroutine(g)
  BY <1>2 DEF Goroutine, tables, Begin, LockStock, Write, Abort, UpdateShipment,
     Answer, Leave
<1>3. CASE \E g \in Goroutines : Operation(g)
  BY <1>3 DEF Operation, tables, Checkout, PickOrder, PickShipment, Pick,
     CreateShipment, Query
<1>4. CASE Main \/ Shutdown \/ Kill
  BY <1>4 DEF Main, tables, StartBurst, Timeout, BurstOver, FlashSale, FlashSaleOver,
     OtherPattern, Stop, Restart, Fresh, Shutdown, Kill
<1>. QED BY <1>1, <1>2, <1>3, <1>4 DEF Next

LEMMA LedgerInitial == Init => StockLedger
<1> SUFFICES ASSUME Init, NEW v \in Variants
             PROVE  /\ stock[v].available = InitialStock + restocked[v] - Ordered(v) - flashed[v]
                    /\ stock[v].reserved <= InitialReserved + Ordered(v)
  BY DEF StockLedger
<1>1. orders \in Seq(Order)
  BY InitialStates DEF IInv, TypeOK
<1>2. Ordered(v) = 0
  <2>1. \A i \in DOMAIN orders : orders[i].qty = 0
    BY DEF Init
  <2>2. \A i \in 1 .. Len(orders) : UnitsOf(orders[i], v) = 0
    BY <1>1, <2>1 DEF UnitsOf
  <2>. QED BY <1>1, <2>2, NoUnits DEF Ordered
<1>3. InitialStock \in Nat /\ InitialReserved \in Nat
  BY StorefrontAssumption
<1>4. stock[v].available = InitialStock /\ stock[v].reserved = InitialReserved
  BY DEF Init
<1>5. restocked[v] = 0 /\ flashed[v] = 0
  BY DEF Init
<1>. QED BY <1>2, <1>3, <1>4, <1>5

LEMMA LedgerInductive == LInv /\ [Next]_vars => LInv'
<1> SUFFICES ASSUME LInv, [Next]_vars PROVE LInv'
  OBVIOUS
<1>1. IInv'
  BY Inductive DEF LInv
<1>2. CASE UNCHANGED <<stock, orders, restocked, flashed>>
  <2>1. orders' \in Seq(Order)
    BY <1>1 DEF IInv, TypeOK
  <2>. QED BY <1>1, <1>2, <2>1, LedgerSame DEF LInv
<1>3. CASE Restock
  BY <1>1, <1>3, LedgerRestock DEF LInv
<1>4. CASE \E g \in Goroutines : UpdateOrder(g) \/ Commit(g)
  BY <1>1, <1>4, LedgerUpdateOrder, LedgerCommit DEF LInv
<1>. QED BY <1>2, <1>3, <1>4, LedgerWriters

\* Every unit of stock is accounted for (doCheckout and chaosFlashSale, main.go:586-667,
\* 946-981, and chaosInventoryRestock, main.go:1042-1054): each transaction takes from
\* the stock what it adds to the orders or to the units flashed, and a restock reserves
\* nothing.
THEOREM LedgerBalanced == Spec => []StockLedger
<1>1. Init => LInv
  BY InitialStates, LedgerInitial DEF LInv
<1>2. LInv => StockLedger
  BY DEF LInv
<1>. QED BY <1>1, <1>2, LedgerInductive, PTL DEF Spec
=============================================================================
