-------------------------- MODULE FulfilmentProofs -------------------------
(***************************************************************************)
(* Theorems about the stock service, under any order of calls, and about   *)
(* Fulfilment: for any number of orders, products, couriers, runs,         *)
(* partnerships and attempts, and for any MAX_QUANTITY.  The lemmas on the *)
(* single operations of the stock serve both.  Then what an order and its  *)
(* deliveries promise of each other, that goods on the road can be handed  *)
(* over, and that the whole implements the contract of Handover.           *)
(***************************************************************************)
EXTENDS FulfilmentHandover, SumProofs

LEMMA NoLinesType == NoLines \in Lines
BY MaxQuantityAssumption DEF NoLines, Lines, Quantities

\* Whatever is moved, the rows stay within 0..MAX_QUANTITY, and no product is
\* promised beyond what is there.
LEMMA MoveType ==
    ASSUME NEW delta, NEW held, StockTypeOK, Move(delta, held),
           \A p \in Products : delta[p] \in Int /\ held[p] \in Int
    PROVE  quantity' \in Lines /\ reserved' \in Lines
BY MaxQuantityAssumption DEF Move, StockTypeOK, Lines, Quantities

LEMMA MoveStockType ==
    ASSUME NEW delta \in [Products -> Int], StockTypeOK, MoveStock(delta)
    PROVE  StockTypeOK'
<1>1. \A p \in Products : delta[p] \in Int /\ NoLines[p] \in Int
  BY DEF NoLines
<1>2. quantity' \in Lines /\ reserved' \in Lines
  BY <1>1, MoveType DEF MoveStock
<1>3. netInflow' \in [Products -> Int]
  BY DEF MoveStock, StockTypeOK
<1> QED
  BY <1>2, <1>3 DEF StockTypeOK, MoveStock

LEMMA MoveGoodsType ==
    ASSUME StockTypeOK, MoveGoods
    PROVE  StockTypeOK'
<1> USE MaxQuantityAssumption
<1>1. CASE \E lines \in Lines : Receive(lines)
  BY <1>1, MoveStockType DEF Receive, Lines, Quantities
<1>2. CASE \E lines \in Lines : ReturnIn(lines)
  BY <1>2, MoveStockType DEF ReturnIn, Lines, Quantities
<1>3. CASE \E p \in Products, n \in Quantities : Adjust(p, n)
  <2> PICK p \in Products, n \in Quantities : Adjust(p, n)
    BY <1>3
  <2>1. OnlyFor(p, n - quantity[p]) \in [Products -> Int]
    BY DEF OnlyFor, NoLines, StockTypeOK, Lines, Quantities
  <2> QED
    BY <2>1, MoveStockType DEF Adjust
<1>4. CASE \E p \in Products, n \in Quantities : WriteOff(p, n)
  <2> PICK p \in Products, n \in Quantities : WriteOff(p, n)
    BY <1>4
  <2>1. OnlyFor(p, -n) \in [Products -> Int]
    BY DEF OnlyFor, NoLines, Quantities
  <2> QED
    BY <2>1, MoveStockType DEF WriteOff
<1> QED
  BY <1>1, <1>2, <1>3, <1>4 DEF MoveGoods, KeepStock

LEMMA ReserveType ==
    ASSUME NEW o \in Orders, NEW lines \in Lines, StockTypeOK, Reserve(o, lines)
    PROVE  StockTypeOK'
<1>1. CASE TakeReservation(o, lines)
  <2>1. quantity' \in Lines /\ reserved' \in Lines
    BY <1>1, MoveType, MaxQuantityAssumption DEF TakeReservation, NoLines, Lines, Quantities
  <2> QED
    BY <1>1, <2>1 DEF TakeReservation, StockTypeOK
<1>2. CASE KeepReservation(o, lines)
  BY <1>2 DEF KeepReservation, stockVars, StockTypeOK
<1> QED
  BY <1>1, <1>2 DEF Reserve

LEMMA MinusType ==
    ASSUME NEW o \in Orders, StockTypeOK
    PROVE  \A p \in Products : Minus(active[o])[p] \in Int /\ NoLines[p] \in Int
BY MaxQuantityAssumption DEF Minus, StockTypeOK, Lines, Quantities, NoLines

LEMMA ReleaseType ==
    ASSUME NEW o \in Orders, StockTypeOK, Release(o)
    PROVE  StockTypeOK'
<1>1. quantity' \in Lines /\ reserved' \in Lines
  BY MinusType, MoveType DEF Release
<1> QED
  BY <1>1, NoLinesType DEF Release, StockTypeOK

LEMMA ShipType ==
    ASSUME NEW o \in Orders, StockTypeOK, Ship(o)
    PROVE  StockTypeOK'
<1>1. quantity' \in Lines /\ reserved' \in Lines
  BY MinusType, MoveType DEF Ship
<1>2. shipped' \in [Orders -> [Products -> Nat]]
  <2>1. [p \in Products |-> shipped[o][p] + active[o][p]] \in [Products -> Nat]
    BY MaxQuantityAssumption DEF StockTypeOK, Lines, Quantities
  <2> QED
    BY <2>1 DEF Ship, StockTypeOK
<1> QED
  BY <1>1, <1>2, NoLinesType DEF Ship, StockTypeOK
-----------------------------------------------------------------------------
(***************************************************************************)
(* The rows stay in their types under any sequence of calls.               *)
(***************************************************************************)
THEOREM StockTypeCorrect == InventorySpec => []StockTypeOK
<1>1. InventoryInit => StockTypeOK
  BY NoLinesType DEF InventoryInit, StockTypeOK, NoLines
<1>2. StockTypeOK /\ [InventoryNext]_stockVars => StockTypeOK'
  <2> SUFFICES ASSUME StockTypeOK, [InventoryNext]_stockVars PROVE StockTypeOK'
    OBVIOUS
  <2>1. CASE MoveGoods
    BY <2>1, MoveGoodsType
  <2>2. ASSUME NEW o \in Orders, UseReservation(o) PROVE StockTypeOK'
    BY <2>2, ReserveType, ReleaseType, ShipType DEF UseReservation
  <2>3. CASE UNCHANGED stockVars
    BY <2>3 DEF stockVars, StockTypeOK
  <2> QED
    BY <2>1, <2>2, <2>3 DEF InventoryNext
<1> QED
  BY <1>1, <1>2, PTL DEF InventorySpec

(***************************************************************************)
(* A reservation appears whole and disappears whole, however often and in  *)
(* whatever order reserve, release and ship are called (inventory/         *)
(* service.py, reserve and _close).                                        *)
(***************************************************************************)
THEOREM ReservationsAreAllOrNothing == InventorySpec => ReservationIsAllOrNothing
<1> DEFINE Whole == \A o \in Orders :
                       active'[o] # active[o] => NoLines \in {active[o], active'[o]}
<1>1. StockTypeOK /\ [InventoryNext]_stockVars => [Whole]_stockVars
  <2> SUFFICES ASSUME StockTypeOK, InventoryNext PROVE Whole
    OBVIOUS
  <2>1. CASE MoveGoods
    BY <2>1 DEF MoveGoods, KeepStock, Receive, ReturnIn, Adjust, WriteOff, MoveStock
  <2>2. ASSUME NEW o \in Orders, UseReservation(o) PROVE Whole
    BY <2>2 DEF UseReservation, Reserve, TakeReservation, KeepReservation, Release, Ship,
                stockVars, StockTypeOK
  <2> QED
    BY <2>1, <2>2 DEF InventoryNext
<1> QED
  BY <1>1, StockTypeCorrect, PTL DEF InventorySpec, ReservationIsAllOrNothing
-----------------------------------------------------------------------------
(***************************************************************************)
(* The sums over the orders, which the reconcile job adds up.              *)
(***************************************************************************)
StockAddsUp == ReservedIsSumOfActive /\ GoodsAreAccountedFor

LEMMA OrderSumType ==
    ASSUME NEW old \in [Orders -> [Products -> Int]], NEW p \in Products
    PROVE  OfAllOrders(old, p) \in Int
<1> DEFINE f == [x \in Orders |-> old[x][p]]
<1>1. \A x \in Orders : f[x] \in Int
  OBVIOUS
<1>2. SumFunctionOnSet(f, Orders) \in Int
  <2> HIDE DEF f
  <2> QED BY <1>1, OrdersAssumption, SumInt
<1> QED
  BY <1>2 DEF OfAllOrders, SumFunction

\* Whatever is booked for one order changes a sum by what that order's part changes.
LEMMA OrderSumChange ==
    ASSUME NEW old \in [Orders -> [Products -> Int]], NEW new \in [Orders -> [Products -> Int]],
           NEW o \in Orders, \A x \in Orders \ {o} : new[x] = old[x], NEW p \in Products
    PROVE  /\ OfAllOrders(old, p) \in Int
           /\ OfAllOrders(new, p) = OfAllOrders(old, p) - old[o][p] + new[o][p]
<1> DEFINE f == [x \in Orders |-> old[x][p]]
           g == [x \in Orders |-> new[x][p]]
<1>1. /\ \A x \in Orders : f[x] \in Int
      /\ g[o] \in Int
      /\ \A x \in Orders \ {o} : g[x] = f[x]
  OBVIOUS
<1>2. SumFunctionOnSet(g, Orders) = SumFunctionOnSet(f, Orders) - f[o] + g[o]
  <2> HIDE DEF f, g
  <2> QED BY <1>1, OrdersAssumption, SumChange
<1> QED
  BY <1>2, OrderSumType DEF OfAllOrders, SumFunction

LEMMA StockIsIntegers ==
    ASSUME StockTypeOK
    PROVE  /\ active \in [Orders -> [Products -> Int]] /\ shipped \in [Orders -> [Products -> Int]]
           /\ quantity \in [Products -> Int] /\ reserved \in [Products -> Int]
           /\ netInflow \in [Products -> Int]
BY MaxQuantityAssumption DEF StockTypeOK, Lines, Quantities

\* What a call has to keep between the rows and the one order that it is about.
LEMMA BookedAlike ==
    ASSUME StockTypeOK, StockTypeOK', StockAddsUp, NEW o \in Orders,
           \A x \in Orders \ {o} : active'[x] = active[x] /\ shipped'[x] = shipped[x],
           \A p \in Products :
              /\ reserved'[p] - reserved[p] = active'[o][p] - active[o][p]
              /\ netInflow'[p] = netInflow[p]
              /\ quantity'[p] - quantity[p] = shipped[o][p] - shipped'[o][p]
    PROVE  StockAddsUp'
<1> SUFFICES ASSUME NEW p \in Products
             PROVE  /\ reserved'[p] = OfAllOrders(active', p)
                    /\ netInflow'[p] = quantity'[p] + OfAllOrders(shipped', p)
  BY DEF StockAddsUp, ReservedIsSumOfActive, GoodsAreAccountedFor
<1>1. StockTypeOK => /\ active \in [Orders -> [Products -> Int]] /\ shipped \in [Orders -> [Products -> Int]]
                     /\ quantity \in [Products -> Int] /\ reserved \in [Products -> Int]
  BY StockIsIntegers
<1>2. StockTypeOK' => /\ active' \in [Orders -> [Products -> Int]] /\ shipped' \in [Orders -> [Products -> Int]]
                      /\ quantity' \in [Products -> Int] /\ reserved' \in [Products -> Int]
  BY MaxQuantityAssumption DEF StockTypeOK, Lines, Quantities
<1>3. /\ OfAllOrders(active, p) \in Int
      /\ OfAllOrders(active', p) = OfAllOrders(active, p) - active[o][p] + active'[o][p]
  BY <1>1, <1>2, OrderSumChange
<1>4. /\ OfAllOrders(shipped, p) \in Int
      /\ OfAllOrders(shipped', p) = OfAllOrders(shipped, p) - shipped[o][p] + shipped'[o][p]
  BY <1>1, <1>2, OrderSumChange
<1>5. reserved[p] = OfAllOrders(active, p) /\ netInflow[p] = quantity[p] + OfAllOrders(shipped, p)
  BY DEF StockAddsUp, ReservedIsSumOfActive, GoodsAreAccountedFor
<1>6. /\ active[o][p] \in Int /\ active'[o][p] \in Int /\ shipped[o][p] \in Int /\ shipped'[o][p] \in Int
      /\ reserved[p] \in Int /\ reserved'[p] \in Int /\ quantity[p] \in Int /\ quantity'[p] \in Int
  BY <1>1, <1>2
<1> QED
  BY <1>3, <1>4, <1>5, <1>6

LEMMA MoveStockAdds ==
    ASSUME NEW delta \in [Products -> Int], StockTypeOK, MoveStock(delta), StockAddsUp
    PROVE  StockAddsUp'
<1> SUFFICES ASSUME NEW p \in Products
             PROVE  /\ reserved'[p] = OfAllOrders(active, p)
                    /\ netInflow'[p] = quantity'[p] + OfAllOrders(shipped, p)
  BY DEF StockAddsUp, ReservedIsSumOfActive, GoodsAreAccountedFor, MoveStock
<1>1. reserved[p] \in Int /\ quantity[p] \in Int /\ OfAllOrders(shipped, p) \in Int
  BY StockIsIntegers, OrderSumType
<1> QED
  BY <1>1 DEF MoveStock, Move, NoLines, StockAddsUp, ReservedIsSumOfActive, GoodsAreAccountedFor

LEMMA ReserveAdds ==
    ASSUME NEW o \in Orders, NEW lines \in Lines, StockTypeOK, Reserve(o, lines), StockAddsUp
    PROVE  StockAddsUp'
<1>1. CASE TakeReservation(o, lines)
  <2>1. StockTypeOK'
    BY <1>1, ReserveType DEF Reserve
  <2>2. /\ \A x \in Orders \ {o} : active'[x] = active[x] /\ shipped'[x] = shipped[x]
        /\ \A p \in Products :
              /\ reserved'[p] - reserved[p] = active'[o][p] - active[o][p]
              /\ netInflow'[p] = netInflow[p]
              /\ quantity'[p] - quantity[p] = shipped[o][p] - shipped'[o][p]
    BY <1>1, StockIsIntegers, MaxQuantityAssumption
       DEF TakeReservation, Move, NoLines, StockTypeOK, Lines, Quantities
  <2> QED
    BY <2>1, <2>2, BookedAlike
<1>2. CASE KeepReservation(o, lines)
  BY <1>2 DEF KeepReservation, stockVars, StockAddsUp, ReservedIsSumOfActive, GoodsAreAccountedFor
<1> QED
  BY <1>1, <1>2 DEF Reserve

LEMMA CloseAdds ==
    ASSUME NEW o \in Orders, StockTypeOK, Release(o) \/ Ship(o), StockAddsUp
    PROVE  StockAddsUp'
<1>1. StockTypeOK'
  BY ReleaseType, ShipType
<1>2. /\ \A x \in Orders \ {o} : active'[x] = active[x] /\ shipped'[x] = shipped[x]
      /\ \A p \in Products :
            /\ reserved'[p] - reserved[p] = active'[o][p] - active[o][p]
            /\ netInflow'[p] = netInflow[p]
            /\ quantity'[p] - quantity[p] = shipped[o][p] - shipped'[o][p]
  <2>1. CASE Release(o)
    BY <2>1, StockIsIntegers DEF Release, Move, Minus, NoLines
  <2>2. CASE Ship(o)
    BY <2>2, StockIsIntegers DEF Ship, Move, Minus, NoLines
  <2> QED
    BY <2>1, <2>2
<1> QED
  BY <1>1, <1>2, BookedAlike

LEMMA MoveGoodsAdds ==
    ASSUME StockTypeOK, MoveGoods, StockAddsUp
    PROVE  StockAddsUp'
<1> SUFFICES \E delta \in [Products -> Int] : MoveStock(delta)
  BY MoveStockAdds
<1> USE MaxQuantityAssumption
<1>1. CASE \E lines \in Lines : Receive(lines) \/ ReturnIn(lines)
  BY <1>1 DEF Receive, ReturnIn, Lines, Quantities
<1>2. CASE \E p \in Products, n \in Quantities : Adjust(p, n) \/ WriteOff(p, n)
  <2> PICK p \in Products, n \in Quantities : Adjust(p, n) \/ WriteOff(p, n)
    BY <1>2
  <2>1. OnlyFor(p, n - quantity[p]) \in [Products -> Int] /\ OnlyFor(p, -n) \in [Products -> Int]
    BY StockIsIntegers DEF OnlyFor, NoLines, Quantities
  <2> QED
    BY <2>1 DEF Adjust, WriteOff
<1> QED
  BY <1>1, <1>2 DEF MoveGoods, KeepStock

LEMMA EmptyStockAdds == InventoryInit => StockAddsUp
<1>1. ASSUME NEW p \in Products PROVE SumFunction([o \in Orders |-> 0]) = 0
  <2> DEFINE f == [o \in Orders |-> 0]
  <2>1. \A o \in Orders : f[o] = 0
    OBVIOUS
  <2>2. SumFunctionOnSet(f, Orders) = 0
    <3> HIDE DEF f
    <3> QED BY <2>1, OrdersAssumption, SumZero
  <2> QED
    BY <2>2 DEF SumFunction
<1>2. InventoryInit => \A p \in Products : OfAllOrders(active, p) = 0 /\ OfAllOrders(shipped, p) = 0
  <2> SUFFICES ASSUME InventoryInit, NEW p \in Products
               PROVE  OfAllOrders(active, p) = 0 /\ OfAllOrders(shipped, p) = 0
    OBVIOUS
  <2>1. /\ [o \in Orders |-> active[o][p]] = [o \in Orders |-> 0]
        /\ [o \in Orders |-> shipped[o][p]] = [o \in Orders |-> 0]
    BY DEF InventoryInit, NoLines
  <2> QED
    BY <1>1, <2>1 DEF OfAllOrders
<1> QED
  BY <1>2 DEF InventoryInit, NoLines, StockAddsUp, ReservedIsSumOfActive, GoodsAreAccountedFor

\* No product is promised beyond what is there: every booking checks it, of either column.
NoneOversold == \A p \in Products : reserved[p] <= quantity[p]

StockSound == StockAddsUp /\ NoneOversold

StockOperation ==
    \/ MoveGoods
    \/ \E o \in Orders : (\E lines \in Lines : Reserve(o, lines)) \/ Release(o) \/ Ship(o)
    \/ UNCHANGED stockVars

LEMMA MovedRowsFit ==
    ASSUME NEW delta, NEW held, Move(delta, held)
    PROVE  NoneOversold'
BY MaxQuantityAssumption DEF Move, NoneOversold, Quantities

LEMMA StockStaysSound ==
    ASSUME StockTypeOK, StockSound, StockOperation
    PROVE  StockSound'
<1>1. CASE MoveGoods
  BY <1>1, MoveGoodsAdds, MovedRowsFit
     DEF StockSound, MoveGoods, KeepStock, Receive, ReturnIn, Adjust, WriteOff, MoveStock
<1>2. ASSUME NEW o \in Orders, NEW lines \in Lines, Reserve(o, lines) PROVE StockSound'
  <2>1. StockAddsUp'
    BY <1>2, ReserveAdds DEF StockSound
  <2>2. NoneOversold'
    BY <1>2, MovedRowsFit
       DEF StockSound, NoneOversold, Reserve, TakeReservation, KeepReservation, stockVars
  <2> QED
    BY <2>1, <2>2 DEF StockSound
<1>3. ASSUME NEW o \in Orders, Release(o) \/ Ship(o) PROVE StockSound'
  BY <1>3, CloseAdds, MovedRowsFit DEF StockSound, Release, Ship
<1>4. CASE UNCHANGED stockVars
  BY <1>4 DEF stockVars, StockSound, NoneOversold, StockAddsUp, ReservedIsSumOfActive, GoodsAreAccountedFor,
              OfAllOrders
<1> QED
  BY <1>1, <1>2, <1>3, <1>4 DEF StockOperation

LEMMA EmptyStockSound == InventoryInit => StockSound
BY EmptyStockAdds DEF StockSound, NoneOversold, InventoryInit, NoLines

\* What is promised to one order is part of what the row promises, which is there.
LEMMA PromisedIsThere ==
    ASSUME StockTypeOK, StockSound, NEW o \in Orders, NEW p \in Products
    PROVE  active[o][p] <= reserved[p] /\ reserved[p] <= quantity[p]
<1> DEFINE f == [x \in Orders |-> active[x][p]]
<1>1. (\A x \in Orders : f[x] \in Nat) /\ quantity[p] \in Int /\ reserved[p] \in Int
  BY MaxQuantityAssumption DEF StockTypeOK, Lines, Quantities
<1>2. f[o] <= SumFunctionOnSet(f, Orders)
  <2> HIDE DEF f
  <2> QED BY <1>1, OrdersAssumption, SumNat
<1>3. reserved[p] = SumFunctionOnSet(f, Orders)
  BY DEF StockSound, StockAddsUp, ReservedIsSumOfActive, OfAllOrders, SumFunction
<1> QED
  BY <1>1, <1>2, <1>3 DEF StockSound, NoneOversold

(***************************************************************************)
(* What the reconcile job adds up is always there to be added up: no goods *)
(* stay promised to nobody, and what came in is on the shelf or shipped.   *)
(***************************************************************************)
THEOREM StockIsReconciled == InventorySpec => [](ReservedIsSumOfActive /\ GoodsAreAccountedFor)
<1>1. StockTypeOK /\ StockSound /\ [InventoryNext]_stockVars => StockSound'
  BY StockStaysSound DEF InventoryNext, UseReservation, StockOperation
<1>2. StockSound => ReservedIsSumOfActive /\ GoodsAreAccountedFor
  BY DEF StockSound, StockAddsUp
<1> QED
  BY <1>1, <1>2, EmptyStockSound, StockTypeCorrect, PTL DEF InventorySpec
-----------------------------------------------------------------------------
(***************************************************************************)
(* What the operations on deliveries and runs preserve, for the            *)
(* transactions that they are part of.                                     *)
(***************************************************************************)

\* A change of status alone, of any set of rows.
LEMMA MoveRowsType ==
    ASSUME NEW ds, NEW from, NEW to \in Open \cup Final,
           DeliveriesTypeOK, MoveRows(ds, from, to)
    PROVE  delivery' \in [DeliveryIds -> Rows]
BY DEF MoveRows, DeliveriesTypeOK, Rows

LEMMA BackToPoolType ==
    ASSUME NEW row \in Rows
    PROVE  BackToPool(row) \in Rows
BY DEF BackToPool, Rows, NoRow, Open, Pool, Final

LEMMA SetStopsType ==
    ASSUME NEW r \in Runs, NEW c \in Couriers \cup {None}, NEW ds,
           DeliveriesTypeOK, SetStops(r, c, ds)
    PROVE  delivery' \in [DeliveryIds -> Rows]
<1>1. [status |-> "ASSIGNED", courier |-> c, run |-> r] \in Rows
  BY DEF Rows, Open, Pool
<1> QED
  BY <1>1, BackToPoolType DEF SetStops, DeliveriesTypeOK

\* The operations that orders ask for, one row at a time.
LEMMA OrderOperationsType ==
    ASSUME NEW o \in Orders, DeliveriesTypeOK, PlanForOrder(o) \/ CancelForOrder(o)
    PROVE  DeliveriesTypeOK'
<1>1. CASE PlanForOrder(o)
  <2>1. CASE HasOpen(o)
    BY <1>1, <2>1 DEF PlanForOrder, deliveryVars, DeliveriesTypeOK
  <2>2. CASE ~HasOpen(o)
    <3> PICK n \in Attempts : delivery' = [delivery EXCEPT ![<<o, n>>].status = "PLANNED"]
      BY <1>1, <2>2 DEF PlanForOrder
    <3>1. <<o, n>> \in DeliveryIds
      BY DEF DeliveryIds
    <3>2. [delivery[<<o, n>>] EXCEPT !.status = "PLANNED"] \in Rows
      BY <3>1 DEF DeliveriesTypeOK, Rows, Open, Pool
    <3> QED
      BY <1>1, <2>2, <3>1, <3>2 DEF PlanForOrder, DeliveriesTypeOK
  <2> QED
    BY <2>1, <2>2
<1>2. CASE CancelForOrder(o)
  BY <1>2 DEF CancelForOrder, DeliveriesTypeOK, Rows, Final
<1> QED
  BY <1>1, <1>2

LEMMA RowOperationsType ==
    ASSUME NEW d \in DeliveryIds, DeliveriesTypeOK,
           \/ \E c \in Couriers : Assign(d, c)
           \/ Unassign(d)
           \/ CancelDelivery(d)
           \/ DispatchRows({d}) /\ UNCHANGED run
           \/ Arrive(d)
           \/ DeliverRow(d)
           \/ FailRow(d)
    PROVE  DeliveriesTypeOK'
<1>1. CASE \E c \in Couriers : Assign(d, c)
  BY <1>1 DEF Assign, DeliveriesTypeOK, Rows, Open, Pool
<1>2. CASE Unassign(d)
  BY <1>2 DEF Unassign, DeliveriesTypeOK, Rows, NoRow, Open, Pool
<1>3. CASE CancelDelivery(d)
  BY <1>3 DEF CancelDelivery, DeliveriesTypeOK, Rows, Final
<1>4. CASE DispatchRows({d}) /\ UNCHANGED run
  BY <1>4, MoveRowsType DEF DispatchRows, DeliveriesTypeOK, Open, OnRoad
<1>5. CASE Arrive(d)
  BY <1>5, MoveRowsType DEF Arrive, DeliveriesTypeOK, Open, OnRoad
<1>6. CASE DeliverRow(d)
  BY <1>6, MoveRowsType DEF DeliverRow, DeliveriesTypeOK, Final
<1>7. CASE FailRow(d)
  BY <1>7, MoveRowsType DEF FailRow, DeliveriesTypeOK, Final
<1> QED
  BY <1>1, <1>2, <1>3, <1>4, <1>5, <1>6, <1>7

LEMMA RunOperationsType ==
    ASSUME NEW r \in Runs, DeliveriesTypeOK,
           \/ \E c \in Couriers, ds \in SUBSET DeliveryIds : CreateRun(r, c, ds)
           \/ \E ds \in SUBSET DeliveryIds : UpdateRun(r, ds)
           \/ StartRunRows(r)
           \/ FinishRun(r)
           \/ CancelRun(r)
    PROVE  DeliveriesTypeOK'
<1>1. CASE \E c \in Couriers, ds \in SUBSET DeliveryIds : CreateRun(r, c, ds)
  <2> PICK c \in Couriers, ds \in SUBSET DeliveryIds : CreateRun(r, c, ds)
    BY <1>1
  <2>1. delivery' \in [DeliveryIds -> Rows]
    BY SetStopsType DEF CreateRun
  <2> QED
    BY <2>1 DEF CreateRun, DeliveriesTypeOK, RunRows
<1>2. CASE \E ds \in SUBSET DeliveryIds : UpdateRun(r, ds)
  <2> PICK ds \in SUBSET DeliveryIds : UpdateRun(r, ds)
    BY <1>2
  <2>1. run[r].courier \in Couriers \cup {None}
    BY DEF DeliveriesTypeOK, RunRows
  <2>2. delivery' \in [DeliveryIds -> Rows]
    BY <2>1, SetStopsType DEF UpdateRun
  <2> QED
    BY <2>2 DEF UpdateRun, DeliveriesTypeOK
<1>3. CASE StartRunRows(r)
  BY <1>3, MoveRowsType DEF StartRunRows, DispatchRows, DeliveriesTypeOK, RunRows, Open, OnRoad
<1>4. CASE FinishRun(r)
  BY <1>4 DEF FinishRun, DeliveriesTypeOK, RunRows
<1>5. CASE CancelRun(r)
  BY <1>5, BackToPoolType DEF CancelRun, DeliveriesTypeOK, RunRows
<1> QED
  BY <1>1, <1>2, <1>3, <1>4, <1>5
-----------------------------------------------------------------------------
(***************************************************************************)
(* Runs and their stops.  RunAgrees is what RunsGoTogether says of one row.*)
(***************************************************************************)
RunAgrees(d) ==
    delivery[d].run # None =>
        LET r == delivery[d].run IN
        /\ run[r].status \in {"DRAFT", "STARTED", "FINISHED"}
        /\ delivery[d].status \notin {"NONE", "PLANNED"}
        /\ delivery[d].status = "ASSIGNED" => run[r].status = "DRAFT"
        /\ run[r].status = "FINISHED" => ~IsOpen(d)
        /\ delivery[d].courier = run[r].courier

LEMMA RunsAgree == RunsGoTogether <=> \A d \in DeliveryIds : RunAgrees(d)
BY DEF RunsGoTogether, RunAgrees

LEMMA RowsKeepRuns ==
    ASSUME DeliveriesTypeOK, RunsGoTogether,
           \/ \E o \in Orders : PlanForOrder(o) \/ CancelForOrder(o)
           \/ \E d \in DeliveryIds :
                 \/ \E c \in Couriers : Assign(d, c)
                 \/ Unassign(d)
                 \/ CancelDelivery(d)
                 \/ DispatchRows({d}) /\ UNCHANGED run
                 \/ Arrive(d)
                 \/ DeliverRow(d)
                 \/ FailRow(d)
    PROVE  RunsGoTogether'
<1> USE DEF DeliveriesTypeOK, Rows, RunAgrees, IsOpen, Open, Pool, OnRoad, Final
<1> SUFFICES ASSUME NEW e \in DeliveryIds PROVE RunAgrees(e)'
  BY DEF RunsGoTogether
<1>0. RunAgrees(e)
  BY RunsAgree
<1>1. ASSUME NEW o \in Orders, PlanForOrder(o) PROVE RunAgrees(e)'
  <2>1. CASE HasOpen(o)
    BY <1>0, <1>1, <2>1 DEF PlanForOrder, deliveryVars
  <2>2. CASE ~HasOpen(o)
    <3> PICK n \in Attempts : /\ NextAttempt(o, n)
                              /\ delivery' = [delivery EXCEPT ![<<o, n>>].status = "PLANNED"]
                              /\ UNCHANGED run
      BY <1>1, <2>2 DEF PlanForOrder
    <3>1. <<o, n>> \in DeliveryIds /\ delivery[<<o, n>>].status = "NONE"
      BY DEF DeliveryIds, NextAttempt, Attempts
    <3>2. RunAgrees(<<o, n>>)
      BY <3>1, RunsAgree
    <3> QED
      BY <1>0, <3>1, <3>2
  <2> QED
    BY <2>1, <2>2
<1>2. ASSUME NEW o \in Orders, CancelForOrder(o) PROVE RunAgrees(e)'
  BY <1>0, <1>2 DEF CancelForOrder
<1>3. ASSUME NEW d \in DeliveryIds, NEW c \in Couriers, Assign(d, c) PROVE RunAgrees(e)'
  BY <1>0, <1>3 DEF Assign
<1>4. ASSUME NEW d \in DeliveryIds, Unassign(d) \/ CancelDelivery(d) PROVE RunAgrees(e)'
  BY <1>0, <1>4 DEF Unassign, CancelDelivery, NoRow
<1>5. ASSUME NEW d \in DeliveryIds, DispatchRows({d}) /\ UNCHANGED run PROVE RunAgrees(e)'
  BY <1>0, <1>5 DEF DispatchRows, MoveRows
<1>6. ASSUME NEW d \in DeliveryIds, Arrive(d) \/ DeliverRow(d) \/ FailRow(d) PROVE RunAgrees(e)'
  BY <1>0, <1>6 DEF Arrive, DeliverRow, FailRow, MoveRows
<1> QED
  BY <1>1, <1>2, <1>3, <1>4, <1>5, <1>6

LEMMA RunOperationsKeepRuns ==
    ASSUME DeliveriesTypeOK, RunsGoTogether, NEW r \in Runs,
           \/ \E c \in Couriers, ds \in SUBSET DeliveryIds : CreateRun(r, c, ds)
           \/ \E ds \in SUBSET DeliveryIds : UpdateRun(r, ds)
           \/ StartRunRows(r)
           \/ FinishRun(r)
           \/ CancelRun(r)
    PROVE  RunsGoTogether'
<1> USE NoneAssumption
    DEF DeliveriesTypeOK, Rows, RunRows, RunAgrees, IsOpen, Open, Pool, OnRoad, Final
<1> SUFFICES ASSUME NEW e \in DeliveryIds PROVE RunAgrees(e)'
  BY DEF RunsGoTogether
<1>0. RunAgrees(e)
  BY RunsAgree
<1>1. ASSUME NEW c \in Couriers, NEW ds \in SUBSET DeliveryIds, CreateRun(r, c, ds)
      PROVE  RunAgrees(e)'
  BY <1>0, <1>1 DEF CreateRun, SetStops, BackToPool, NoRow
<1>2. ASSUME NEW ds \in SUBSET DeliveryIds, UpdateRun(r, ds)
      PROVE  RunAgrees(e)'
  BY <1>0, <1>2 DEF UpdateRun, SetStops, BackToPool, NoRow
<1>3. CASE StartRunRows(r)
  BY <1>0, <1>3 DEF StartRunRows, DispatchRows, MoveRows, Waiting, Stops
<1>4. CASE FinishRun(r)
  BY <1>0, <1>4 DEF FinishRun, Stops
<1>5. CASE CancelRun(r)
  BY <1>0, <1>5 DEF CancelRun, BackToPool, NoRow
<1> QED
  BY <1>1, <1>2, <1>3, <1>4, <1>5

(***************************************************************************)
(* The types of the composition.                                           *)
(***************************************************************************)
LEMMA InitTypeOK == Init => TypeOK
<1> SUFFICES ASSUME Init PROVE TypeOK
  OBVIOUS
<1> USE DEF Init
<1>1. StockTypeOK
  BY MaxQuantityAssumption DEF InventoryInit, StockTypeOK, Lines, NoLines, Quantities
<1>2. OrderTypeOK
  BY MaxQuantityAssumption DEF OrderInit, OrderTypeOK, Lines, NoLines, Quantities, Statuses
<1>3. DeliveriesTypeOK
  BY DEF DeliveriesInit, DeliveriesTypeOK, Rows, RunRows, NoRow
<1>4. QED
  BY <1>1, <1>2, <1>3, CompanyAssumption DEF TypeOK, PartnershipStatuses

\* A transition of any set of orders.
LEMMA TransitionType ==
    ASSUME NEW os, NEW from, NEW to \in Statuses, OrderTypeOK, TransitionAll(os, from, to)
    PROVE  status' \in [Orders -> Statuses] /\ version' \in [Orders -> Nat]
BY DEF TransitionAll, OrderTypeOK

LEMMA StatusMoveType ==
    ASSUME NEW os, NEW from, NEW to \in Statuses, OrderTypeOK, OnlyStatusMoves,
           TransitionAll(os, from, to)
    PROVE  OrderTypeOK'
BY TransitionType DEF OnlyStatusMoves, OrderTypeOK

LEMMA OrderRowType ==
    ASSUME NEW o \in Orders, OrderTypeOK,
           \/ \E lines \in RequestLines : NewOrder(o, lines)
           \/ MarkViewed(o)
           \/ \E lines \in Lines, costs \in BOOLEAN : SetConfirmation(o, lines, costs)
           \/ RejectOrder(o) \/ CancelEarly(o) \/ CancelHeld(o)
           \/ Assemble(o) \/ MarkReady(o) \/ ReattemptOrder(o)
           \/ DeliverOrder(o) \/ FailOrder(o)
           \/ DisputeOrder(o) \/ CloseDispute(o) \/ CompleteDue(o)
           \/ DisputeWindowEnds(o)
    PROVE  OrderTypeOK'
<1> DEFINE Targets == {"NEW", "VIEWED", "REJECTED", "CANCELLED", "ASSEMBLING", "CONFIRMED",
                       "PARTIALLY_CONFIRMED", "READY_FOR_DELIVERY", "DELIVERED",
                       "DELIVERY_FAILED", "DISPUTED", "COMPLETED"}
<1>1. Targets \subseteq Statuses
  BY DEF Statuses, Early, ReservedStatuses, HandedOver, Dropped
<1>2. CASE \E lines \in RequestLines : NewOrder(o, lines)
  <2> PICK lines \in RequestLines : NewOrder(o, lines)
    BY <1>2
  <2>1. lines \in Lines
    BY RequestAssumption
  <2> QED
    BY <1>1, <2>1, TransitionType DEF NewOrder, Transition, OrderTypeOK
<1>3. CASE \E lines \in Lines, costs \in BOOLEAN : SetConfirmation(o, lines, costs)
  <2> PICK lines \in Lines, costs \in BOOLEAN : SetConfirmation(o, lines, costs)
    BY <1>3
  <2>1. status' \in [Orders -> Statuses] /\ version' \in [Orders -> Nat]
    BY <1>1, TransitionType DEF SetConfirmation, Transition
  <2> QED
    BY <2>1 DEF SetConfirmation, OrderTypeOK
<1>4. CASE DisputeOrder(o)
  BY <1>1, <1>4, TransitionType DEF DisputeOrder, Transition, OrderTypeOK
<1>5. CASE CloseDispute(o)
  BY <1>1, <1>5, TransitionType DEF CloseDispute, Transition, OrderTypeOK
<1>6. CASE DisputeWindowEnds(o)
  BY <1>6 DEF DisputeWindowEnds, OrderTypeOK
<1>7. CASE \/ MarkViewed(o) \/ RejectOrder(o) \/ CancelEarly(o) \/ CancelHeld(o)
           \/ Assemble(o) \/ MarkReady(o) \/ ReattemptOrder(o)
           \/ DeliverOrder(o) \/ FailOrder(o) \/ CompleteDue(o)
  BY <1>1, <1>7, StatusMoveType
     DEF MarkViewed, RejectOrder, CancelEarly, CancelHeld, Assemble, MarkReady,
         ReattemptOrder, DeliverOrder, FailOrder, CompleteDue, Transition
<1> QED
  BY <1>2, <1>3, <1>4, <1>5, <1>6, <1>7
-----------------------------------------------------------------------------
LEMMA OrderStepType ==
    ASSUME NEW o \in Orders, TypeOK, OrderStep(o)
    PROVE  TypeOK'
<1> USE DEF TypeOK
<1>1. OrderTypeOK'
  BY OrderRowType
     DEF OrderStep, Create, View, Confirm, Reject, CancelBeforeConfirmation,
         CancelAfterConfirmation, StartAssembling, BecomeReady, Reattempt,
         OpenDispute, SettleDispute, Complete, WindowEnds
<1>2. StockTypeOK'
  <2>1. CASE \E lines \in Lines, costs \in BOOLEAN : Confirm(o, lines, costs)
    BY <2>1, ReserveType DEF Confirm
  <2>2. CASE CancelAfterConfirmation(o)
    BY <2>2, ReleaseType DEF CancelAfterConfirmation
  <2>3. CASE UNCHANGED stockVars
    BY <2>3 DEF stockVars, StockTypeOK
  <2> QED
    BY <2>1, <2>2, <2>3
       DEF OrderStep, Create, View, Reject, CancelBeforeConfirmation, StartAssembling,
           BecomeReady, Reattempt, OpenDispute, SettleDispute, Complete, WindowEnds,
           OnlyOrdersMove, StockStays
<1>3. DeliveriesTypeOK'
  <2>1. CASE UNCHANGED deliveryVars
    BY <2>1 DEF deliveryVars, DeliveriesTypeOK
  <2> QED
    BY <2>1, OrderOperationsType
       DEF OrderStep, Create, View, Confirm, Reject, CancelBeforeConfirmation,
           CancelAfterConfirmation, StartAssembling, BecomeReady, Reattempt,
           OpenDispute, SettleDispute, Complete, WindowEnds, OnlyOrdersMove, DeliveriesStay
<1>4. UNCHANGED <<company, partnership, subscription, charges>>
  BY DEF OrderStep, Create, View, Confirm, Reject, CancelBeforeConfirmation,
         CancelAfterConfirmation, StartAssembling, BecomeReady, Reattempt,
         OpenDispute, SettleDispute, Complete, WindowEnds, OnlyOrdersMove, AgreementsStay,
         LockCompany
<1> QED
  BY <1>1, <1>2, <1>3, <1>4

LEMMA DeliveryStepType ==
    ASSUME NEW d \in DeliveryIds, TypeOK, DeliveryStep(d)
    PROVE  TypeOK'
<1> USE DEF TypeOK, LockCompany
<1>0. d[1] \in Orders
  BY DEF DeliveryIds
<1>1. DeliveriesTypeOK'
  BY RowOperationsType
     DEF DeliveryStep, AssignCourier, UnassignCourier, CancelAttempt, ArriveAtStore,
         Dispatch, Deliver, Fail
<1>2. CASE Dispatch(d)
  <2>1. "IN_TRANSIT" \in Statuses
    BY DEF Statuses
  <2> QED
    BY <1>1, <1>2, <2>1, StatusMoveType
       DEF Dispatch, DispatchOrders, StockStays, stockVars, StockTypeOK, AgreementsStay
<1>3. CASE Deliver(d)
  <2>1. OrderTypeOK' /\ StockTypeOK'
    BY <1>0, <1>3, OrderRowType, ShipType DEF Deliver
  <2>2. charges' \in [Orders -> Nat]
    BY <1>0, <1>3 DEF Deliver, PostCharge
  <2> QED
    BY <1>1, <1>3, <2>1, <2>2 DEF Deliver, AgreementsStay
<1>4. CASE Fail(d)
  BY <1>0, <1>1, <1>4, OrderRowType DEF Fail, StockStays, stockVars, StockTypeOK, AgreementsStay
<1>5. CASE LockCompany /\ OnlyDeliveriesMove
  BY <1>1, <1>5 DEF OnlyDeliveriesMove, StockStays, stockVars, StockTypeOK,
                    OrdersStay, orderVars, OrderTypeOK, AgreementsStay
<1> QED
  BY <1>2, <1>3, <1>4, <1>5
     DEF DeliveryStep, AssignCourier, UnassignCourier, CancelAttempt, ArriveAtStore

LEMMA RunStepType ==
    ASSUME NEW r \in Runs, TypeOK, RunStep(r)
    PROVE  TypeOK'
<1> USE DEF TypeOK, LockCompany
<1>1. DeliveriesTypeOK'
  BY RunOperationsType DEF RunStep, PlanRun, ChangeRun, CloseRun, DropRun, StartRun
<1>2. CASE StartRun(r)
  <2>1. "IN_TRANSIT" \in Statuses
    BY DEF Statuses
  <2> QED
    BY <1>1, <1>2, <2>1, StatusMoveType
       DEF StartRun, DispatchOrders, StockStays, stockVars, StockTypeOK, AgreementsStay
<1>3. CASE LockCompany /\ OnlyDeliveriesMove
  BY <1>1, <1>3 DEF OnlyDeliveriesMove, StockStays, stockVars, StockTypeOK,
                    OrdersStay, orderVars, OrderTypeOK, AgreementsStay
<1> QED
  BY <1>2, <1>3 DEF RunStep, PlanRun, ChangeRun, CloseRun, DropRun

LEMMA OtherStepType ==
    ASSUME TypeOK,
           \/ \E p \in Partnerships : AgreementStep(p)
           \/ SubscriptionMoves
           \/ CompanyMoves
           \/ WarehouseMoves
    PROVE  TypeOK'
<1> USE DEF TypeOK, deliveryVars, DeliveriesTypeOK, DeliveriesStay, AgreementsStay, LockCompany
<1>1. ASSUME NEW p \in Partnerships, AgreementStep(p) PROVE TypeOK'
  <2>1. StockTypeOK'
    BY <1>1 DEF AgreementStep, Suspend, Reactivate, Terminate, MovePartnership,
                StockStays, stockVars, StockTypeOK
  <2>2. partnership' \in [Partnerships -> PartnershipStatuses]
    BY <1>1 DEF AgreementStep, Suspend, Reactivate, Terminate, MovePartnership,
                PartnershipStatuses
  <2>3. OrderTypeOK'
    <3>1. CASE OrdersStay
      BY <3>1 DEF OrdersStay, orderVars, OrderTypeOK
    <3>2. CASE TerminateOrders(Unconfirmed(p))
      <4>1. "CANCELLED" \in Statuses
        BY DEF Statuses, Dropped
      <4> QED
        BY <3>2, <4>1, StatusMoveType DEF TerminateOrders
    <3> QED
      BY <1>1, <3>1, <3>2 DEF AgreementStep, Suspend, Reactivate, Terminate
  <2> QED
    BY <1>1, <2>1, <2>2, <2>3
       DEF AgreementStep, Suspend, Reactivate, Terminate, MovePartnership
<1>2. CASE SubscriptionMoves \/ CompanyMoves
  BY <1>2 DEF SubscriptionMoves, CompanyMoves, StockStays, stockVars, StockTypeOK,
              OrdersStay, orderVars, OrderTypeOK
<1>3. CASE WarehouseMoves
  BY <1>3, MoveGoodsType DEF WarehouseMoves, ReturnToStock, MoveGoods, OrdersStay, orderVars, OrderTypeOK
<1> QED
  BY <1>1, <1>2, <1>3

LEMMA StutterType ==
    ASSUME TypeOK, UNCHANGED vars
    PROVE  TypeOK'
BY DEF vars, TypeOK, stockVars, StockTypeOK, orderVars, OrderTypeOK, deliveryVars, DeliveriesTypeOK

(***************************************************************************)
(* Every field of every row stays in its type: no quantity leaves          *)
(* 0..MAX_QUANTITY, no order leaves the state machine of orders/service.py.*)
(***************************************************************************)
THEOREM TypeCorrect == Spec => []TypeOK
<1>1. TypeOK /\ [Next]_vars => TypeOK'
  BY OrderStepType, DeliveryStepType, RunStepType, OtherStepType, StutterType DEF Next
<1> QED
  BY <1>1, InitTypeOK, PTL DEF Spec
-----------------------------------------------------------------------------
(***************************************************************************)
(* The reservation.  One order's part of the invariant, and what a step    *)
(* has to show of an order: that it keeps the part, or moves neither the   *)
(* order's goods nor its place among Holding and HandedOver.               *)
(***************************************************************************)
GoodsFollow(o) ==
    /\ active[o]  = IF status[o] \in Holding THEN confirmed[o] ELSE NoLines
    /\ shipped[o] = IF status[o] \in HandedOver THEN confirmed[o] ELSE NoLines

GoodsStay(o) ==
    /\ active'[o] = active[o] /\ shipped'[o] = shipped[o]
    /\ confirmed'[o] = confirmed[o]
    /\ status'[o] \in Holding <=> status[o] \in Holding
    /\ status'[o] \in HandedOver <=> status[o] \in HandedOver

LEMMA InitReservation == Init => ReservationFollowsOrder
BY DEF Init, InventoryInit, OrderInit, ReservationFollowsOrder, Holding, ReservedStatuses, HandedOver

LEMMA GoodsStayEnough ==
    ASSUME NEW o, GoodsFollow(o), GoodsStay(o)
    PROVE  GoodsFollow(o)'
BY DEF GoodsFollow, GoodsStay, NoLines

LEMMA ConfirmKeepsGoods ==
    ASSUME NEW o \in Orders, NEW lines \in Lines, NEW costs \in BOOLEAN, TypeOK,
           ReservationFollowsOrder, Confirm(o, lines, costs)
    PROVE  ReservationFollowsOrder'
<1> USE DEF TypeOK, StockTypeOK, OrderTypeOK
<1>1. status[o] \in Early /\ active[o] = NoLines /\ shipped[o] = NoLines
  BY DEF Confirm, SetConfirmation, Transition, TransitionAll, ReservationFollowsOrder,
         Early, Holding, ReservedStatuses, HandedOver
<1>2. TakeReservation(o, lines)
  BY <1>1 DEF Confirm, Reserve, KeepReservation
<1>3. status'[o] \in Holding /\ status'[o] \notin HandedOver
  BY DEF Confirm, SetConfirmation, Transition, TransitionAll, Holding, ReservedStatuses, HandedOver
<1>4. GoodsFollow(o)'
  BY <1>1, <1>2, <1>3 DEF GoodsFollow, Confirm, SetConfirmation, TakeReservation, NoLines
<1>5. ASSUME NEW q \in Orders, q # o PROVE GoodsFollow(q)'
  <2>1. GoodsStay(q)
    BY <1>2, <1>5 DEF GoodsStay, Confirm, SetConfirmation, Transition, TransitionAll, TakeReservation
  <2> QED
    BY <2>1, GoodsStayEnough DEF ReservationFollowsOrder, GoodsFollow
<1> QED
  BY <1>4, <1>5 DEF ReservationFollowsOrder, GoodsFollow

LEMMA CancelKeepsGoods ==
    ASSUME NEW o \in Orders, TypeOK, ReservationFollowsOrder, CancelAfterConfirmation(o)
    PROVE  ReservationFollowsOrder'
<1> USE DEF TypeOK, StockTypeOK, OrderTypeOK
<1>1. GoodsFollow(o)'
  BY DEF CancelAfterConfirmation, CancelHeld, OnlyStatusMoves, Transition, TransitionAll, Release,
         ReservationFollowsOrder, GoodsFollow, Holding, ReservedStatuses, HandedOver, NoLines
<1>2. ASSUME NEW q \in Orders, q # o PROVE GoodsFollow(q)'
  <2>1. GoodsStay(q)
    BY <1>2 DEF GoodsStay, CancelAfterConfirmation, CancelHeld, OnlyStatusMoves, Transition,
                TransitionAll, Release
  <2> QED
    BY <2>1, GoodsStayEnough DEF ReservationFollowsOrder, GoodsFollow
<1> QED
  BY <1>1, <1>2 DEF ReservationFollowsOrder, GoodsFollow

LEMMA DeliverKeepsGoods ==
    ASSUME NEW d \in DeliveryIds, TypeOK, ReservationFollowsOrder, Deliver(d)
    PROVE  ReservationFollowsOrder'
<1> DEFINE o == d[1]
<1> USE DEF TypeOK, StockTypeOK, OrderTypeOK
<1>0. o \in Orders
  BY DEF DeliveryIds
<1>1. status[o] = "IN_TRANSIT" /\ status'[o] = "DELIVERED"
  BY <1>0 DEF Deliver, DeliverOrder, Transition, TransitionAll
<1>2. active[o] = confirmed[o] /\ shipped[o] = NoLines
  BY <1>0, <1>1 DEF ReservationFollowsOrder, Holding, HandedOver
<1>3. active'[o] = NoLines /\ confirmed'[o] = confirmed[o]
  BY <1>0 DEF Deliver, Ship, DeliverOrder, OnlyStatusMoves
<1>4. shipped'[o] = confirmed[o]
  <2>1. shipped'[o] = [p \in Products |-> shipped[o][p] + active[o][p]]
    BY <1>0 DEF Deliver, Ship
  <2>2. \A p \in Products : shipped[o][p] + active[o][p] = confirmed[o][p]
    BY <1>0, <1>2, MaxQuantityAssumption DEF NoLines, Lines, Quantities
  <2> QED
    BY <1>0, <2>1, <2>2 DEF Lines
<1>5. GoodsFollow(o)'
  BY <1>1, <1>3, <1>4 DEF GoodsFollow, Holding, ReservedStatuses, HandedOver, NoLines
<1>6. ASSUME NEW q \in Orders, q # o PROVE GoodsFollow(q)'
  <2>1. GoodsStay(q)
    BY <1>0, <1>6 DEF GoodsStay, Deliver, DeliverOrder, OnlyStatusMoves, Transition, TransitionAll, Ship
  <2> QED
    BY <2>1, GoodsStayEnough DEF ReservationFollowsOrder, GoodsFollow
<1> QED
  BY <1>5, <1>6 DEF ReservationFollowsOrder, GoodsFollow

\* Every other step leaves all reservations and their orders' side alone.
LEMMA OthersKeepGoods ==
    ASSUME TypeOK, ReservationFollowsOrder, \A q \in Orders : GoodsStay(q)
    PROVE  ReservationFollowsOrder'
BY GoodsStayEnough DEF ReservationFollowsOrder, GoodsFollow

LEMMA OrderStepKeepsGoods ==
    ASSUME NEW o \in Orders, TypeOK, ReservationFollowsOrder, OrderStep(o)
    PROVE  ReservationFollowsOrder'
<1> USE DEF TypeOK, OrderTypeOK, GoodsStay, OnlyOrdersMove, StockStays, stockVars, Transition,
            TransitionAll, OnlyStatusMoves, Early, Holding, ReservedStatuses, HandedOver, Dropped
<1>1. ASSUME NEW lines \in RequestLines, Create(o, lines) PROVE ReservationFollowsOrder'
  BY <1>1, OthersKeepGoods DEF Create, NewOrder
<1>2. CASE View(o)
  BY <1>2, OthersKeepGoods DEF View, MarkViewed
<1>3. ASSUME NEW lines \in Lines, NEW costs \in BOOLEAN, Confirm(o, lines, costs)
      PROVE ReservationFollowsOrder'
  BY <1>3, ConfirmKeepsGoods
<1>4. CASE Reject(o)
  BY <1>4, OthersKeepGoods DEF Reject, RejectOrder
<1>5. CASE CancelBeforeConfirmation(o)
  BY <1>5, OthersKeepGoods DEF CancelBeforeConfirmation, CancelEarly
<1>6. CASE CancelAfterConfirmation(o)
  BY <1>6, CancelKeepsGoods
<1>7. CASE StartAssembling(o)
  BY <1>7, OthersKeepGoods DEF StartAssembling, Assemble
<1>8. CASE BecomeReady(o)
  BY <1>8, OthersKeepGoods DEF BecomeReady, MarkReady
<1>9. CASE Reattempt(o)
  BY <1>9, OthersKeepGoods DEF Reattempt, ReattemptOrder
<1>10. CASE OpenDispute(o)
  BY <1>10, OthersKeepGoods DEF OpenDispute, DisputeOrder
<1>11. CASE SettleDispute(o)
  BY <1>11, OthersKeepGoods DEF SettleDispute, CloseDispute
<1>12. CASE Complete(o)
  BY <1>12, OthersKeepGoods DEF Complete, CompleteDue
<1>13. CASE WindowEnds(o)
  BY <1>13, OthersKeepGoods DEF WindowEnds, DisputeWindowEnds
<1> QED
  BY <1>1, <1>2, <1>3, <1>4, <1>5, <1>6, <1>7, <1>8, <1>9, <1>10, <1>11, <1>12, <1>13 DEF OrderStep

LEMMA DeliveryStepKeepsGoods ==
    ASSUME NEW d \in DeliveryIds, TypeOK, ReservationFollowsOrder, DeliveryStep(d)
    PROVE  ReservationFollowsOrder'
<1> USE DEF TypeOK, OrderTypeOK, GoodsStay, StockStays, stockVars, TransitionAll,
            OnlyStatusMoves, Holding, ReservedStatuses, HandedOver
<1>0. d[1] \in Orders
  BY DEF DeliveryIds
<1>1. CASE Dispatch(d)
  BY <1>0, <1>1, OthersKeepGoods DEF Dispatch, DispatchOrders
<1>2. CASE Deliver(d)
  BY <1>2, DeliverKeepsGoods
<1>3. CASE Fail(d)
  BY <1>0, <1>3, OthersKeepGoods DEF Fail, FailOrder, Transition
<1>4. CASE OnlyDeliveriesMove
  BY <1>4, OthersKeepGoods DEF OnlyDeliveriesMove, OrdersStay, orderVars
<1> QED
  BY <1>1, <1>2, <1>3, <1>4
     DEF DeliveryStep, AssignCourier, UnassignCourier, CancelAttempt, ArriveAtStore

LEMMA OtherStepKeepsGoods ==
    ASSUME TypeOK, ReservationFollowsOrder,
           \/ \E r \in Runs : RunStep(r)
           \/ \E p \in Partnerships : AgreementStep(p)
           \/ SubscriptionMoves
           \/ CompanyMoves
           \/ WarehouseMoves
           \/ UNCHANGED vars
    PROVE  ReservationFollowsOrder'
<1> USE DEF TypeOK, OrderTypeOK, GoodsStay, StockStays, stockVars, OrdersStay, orderVars,
            TransitionAll, OnlyStatusMoves, Early, Holding, ReservedStatuses, HandedOver, Dropped
<1>1. ASSUME NEW r \in Runs, StartRun(r) PROVE ReservationFollowsOrder'
  BY <1>1, OthersKeepGoods DEF StartRun, DispatchOrders
<1>2. CASE OnlyDeliveriesMove
  BY <1>2, OthersKeepGoods DEF OnlyDeliveriesMove
<1>3. ASSUME NEW p \in Partnerships, AgreementStep(p) PROVE ReservationFollowsOrder'
  BY <1>3, OthersKeepGoods
     DEF AgreementStep, Suspend, Reactivate, Terminate, MovePartnership, TerminateOrders, Unconfirmed
<1>4. CASE SubscriptionMoves \/ CompanyMoves
  BY <1>4, OthersKeepGoods DEF SubscriptionMoves, CompanyMoves
<1>5. CASE WarehouseMoves
  BY <1>5, OthersKeepGoods
     DEF WarehouseMoves, KeepStock, ReturnToStock, Receive, ReturnIn, Adjust, WriteOff, MoveStock
<1>6. CASE UNCHANGED vars
  BY <1>6, OthersKeepGoods DEF vars
<1> QED
  BY <1>1, <1>2, <1>3, <1>4, <1>5, <1>6 DEF RunStep, PlanRun, ChangeRun, CloseRun, DropRun

(***************************************************************************)
(* From confirmation to hand-over exactly the confirmed lines are reserved *)
(* for an order, and exactly they are shipped when it is delivered.        *)
(***************************************************************************)
THEOREM ReservationsFollowOrders == Spec => []ReservationFollowsOrder
<1>1. TypeOK /\ ReservationFollowsOrder /\ [Next]_vars => ReservationFollowsOrder'
  BY OrderStepKeepsGoods, DeliveryStepKeepsGoods, OtherStepKeepsGoods DEF Next
<1> QED
  BY <1>1, InitReservation, TypeCorrect, PTL DEF Spec

\* Every transaction of the composed system is at most one operation on the stock.
LEMMA StepsOnStock ==
    ASSUME [Next]_vars
    PROVE  StockOperation
<1>1. ASSUME NEW o \in Orders, OrderStep(o) PROVE StockOperation
  BY <1>1 DEF OrderStep, Create, View, Confirm, Reject, CancelBeforeConfirmation, CancelAfterConfirmation,
              StartAssembling, BecomeReady, Reattempt, OpenDispute, SettleDispute, Complete, WindowEnds,
              OnlyOrdersMove, StockStays, StockOperation
<1>2. ASSUME NEW d \in DeliveryIds, DeliveryStep(d) PROVE StockOperation
  <2>1. d[1] \in Orders
    BY DEF DeliveryIds
  <2> QED
    BY <1>2, <2>1 DEF DeliveryStep, AssignCourier, UnassignCourier, CancelAttempt, Dispatch, ArriveAtStore,
                      Deliver, Fail, OnlyDeliveriesMove, StockStays, StockOperation
<1>3. ASSUME NEW r \in Runs, RunStep(r) PROVE StockOperation
  BY <1>3 DEF RunStep, PlanRun, ChangeRun, StartRun, CloseRun, DropRun, OnlyDeliveriesMove, StockStays,
              StockOperation
<1>4. ASSUME NEW p \in Partnerships, AgreementStep(p) PROVE StockOperation
  BY <1>4 DEF AgreementStep, Suspend, Reactivate, Terminate, MovePartnership, StockStays, StockOperation
<1>5. CASE SubscriptionMoves \/ CompanyMoves \/ WarehouseMoves
  BY <1>5 DEF SubscriptionMoves, CompanyMoves, WarehouseMoves, ReturnToStock, MoveGoods, StockStays,
              StockOperation
<1>6. CASE UNCHANGED vars
  BY <1>6 DEF vars, StockOperation
<1> QED
  BY <1>1, <1>2, <1>3, <1>4, <1>5, <1>6 DEF Next

(***************************************************************************)
(* The same sums hold in the composed system, whoever retries, cancels,    *)
(* fails or closes what, and no row is promised beyond what is there.      *)
(***************************************************************************)
THEOREM StockStaysReconciled == Spec => [](ReservedIsSumOfActive /\ GoodsAreAccountedFor /\ NoneOversold)
<1>1. Init => StockSound
  BY EmptyStockSound DEF Init
<1>2. TypeOK /\ StockSound /\ [Next]_vars => StockSound'
  BY StepsOnStock, StockStaysSound DEF TypeOK
<1>3. StockSound => ReservedIsSumOfActive /\ GoodsAreAccountedFor /\ NoneOversold
  BY DEF StockSound, StockAddsUp
<1> QED
  BY <1>1, <1>2, <1>3, TypeCorrect, PTL DEF Spec
-----------------------------------------------------------------------------
(***************************************************************************)
(* The charge.  Only a delivery hands over, and only it posts charges; the *)
(* price is settled by the confirmation, when nothing is handed over yet.  *)
(***************************************************************************)
ChargeFollows(o) == charges[o] = IF status[o] \in HandedOver /\ payable[o] THEN 1 ELSE 0

ChargeStays(o) ==
    /\ charges'[o] = charges[o]
    /\ status'[o] \in HandedOver <=> status[o] \in HandedOver
    /\ status[o] \in HandedOver => payable'[o] = payable[o]

LEMMA ChargesStayEnough ==
    ASSUME ChargedOnceWhenHandedOver, \A o \in Orders : ChargeStays(o)
    PROVE  ChargedOnceWhenHandedOver'
BY DEF ChargedOnceWhenHandedOver, ChargeStays

LEMMA OrderStepKeepsCharges ==
    ASSUME NEW o \in Orders, TypeOK, OrderStep(o), NEW q \in Orders
    PROVE  ChargeStays(q)
<1> USE DEF TypeOK, OrderTypeOK, ChargeStays, OnlyOrdersMove, Transition, TransitionAll,
            OnlyStatusMoves, Early, ReservedStatuses, HandedOver, Dropped
<1>1. ASSUME NEW lines \in RequestLines, Create(o, lines) PROVE ChargeStays(q)
  BY <1>1 DEF Create, NewOrder
<1>2. CASE View(o)
  BY <1>2 DEF View, MarkViewed
<1>3. ASSUME NEW lines \in Lines, NEW costs \in BOOLEAN, Confirm(o, lines, costs)
      PROVE ChargeStays(q)
  BY <1>3 DEF Confirm, SetConfirmation
<1>4. CASE Reject(o)
  BY <1>4 DEF Reject, RejectOrder
<1>5. CASE CancelBeforeConfirmation(o)
  BY <1>5 DEF CancelBeforeConfirmation, CancelEarly
<1>6. CASE CancelAfterConfirmation(o)
  BY <1>6 DEF CancelAfterConfirmation, CancelHeld
<1>7. CASE StartAssembling(o)
  BY <1>7 DEF StartAssembling, Assemble
<1>8. CASE BecomeReady(o)
  BY <1>8 DEF BecomeReady, MarkReady
<1>9. CASE Reattempt(o)
  BY <1>9 DEF Reattempt, ReattemptOrder
<1>10. CASE OpenDispute(o)
  BY <1>10 DEF OpenDispute, DisputeOrder
<1>11. CASE SettleDispute(o)
  BY <1>11 DEF SettleDispute, CloseDispute
<1>12. CASE Complete(o)
  BY <1>12 DEF Complete, CompleteDue
<1>13. CASE WindowEnds(o)
  BY <1>13 DEF WindowEnds, DisputeWindowEnds
<1> QED
  BY <1>1, <1>2, <1>3, <1>4, <1>5, <1>6, <1>7, <1>8, <1>9, <1>10, <1>11, <1>12, <1>13 DEF OrderStep

LEMMA DeliverPostsTheCharge ==
    ASSUME NEW d \in DeliveryIds, TypeOK, ChargedOnceWhenHandedOver, Deliver(d)
    PROVE  ChargedOnceWhenHandedOver'
<1> DEFINE o == d[1]
<1> USE DEF TypeOK, OrderTypeOK
<1>0. o \in Orders
  BY DEF DeliveryIds
<1>1. status[o] = "IN_TRANSIT" /\ status'[o] = "DELIVERED" /\ payable' = payable
  BY <1>0 DEF Deliver, DeliverOrder, Transition, TransitionAll, OnlyStatusMoves
<1>2. charges[o] = 0
  BY <1>0, <1>1 DEF ChargedOnceWhenHandedOver, HandedOver
<1>3. ChargeFollows(o)'
  BY <1>0, <1>1, <1>2 DEF ChargeFollows, Deliver, PostCharge, HandedOver
<1>4. ASSUME NEW q \in Orders, q # o PROVE ChargeFollows(q)'
  BY <1>0, <1>1, <1>4 DEF ChargeFollows, ChargedOnceWhenHandedOver, Deliver, DeliverOrder,
                          Transition, TransitionAll, PostCharge
<1> QED
  BY <1>3, <1>4 DEF ChargedOnceWhenHandedOver, ChargeFollows

LEMMA OtherStepKeepsCharges ==
    ASSUME TypeOK, NEW q \in Orders,
           \/ \E d \in DeliveryIds : DeliveryStep(d) /\ ~Deliver(d)
           \/ \E r \in Runs : RunStep(r)
           \/ \E p \in Partnerships : AgreementStep(p)
           \/ SubscriptionMoves
           \/ CompanyMoves
           \/ WarehouseMoves
           \/ UNCHANGED vars
    PROVE  ChargeStays(q)
<1> USE DEF TypeOK, OrderTypeOK, ChargeStays, OrdersStay, orderVars, Transition, TransitionAll,
            OnlyStatusMoves, Early, HandedOver
<1>1. ASSUME NEW d \in DeliveryIds, Dispatch(d) \/ Fail(d) PROVE ChargeStays(q)
  BY <1>1 DEF Dispatch, DispatchOrders, Fail, FailOrder
<1>2. ASSUME NEW r \in Runs, StartRun(r) PROVE ChargeStays(q)
  BY <1>2 DEF StartRun, DispatchOrders
<1>3. CASE OnlyDeliveriesMove
  BY <1>3 DEF OnlyDeliveriesMove
<1>4. ASSUME NEW p \in Partnerships, AgreementStep(p) PROVE ChargeStays(q)
  BY <1>4 DEF AgreementStep, Suspend, Reactivate, Terminate, MovePartnership, TerminateOrders,
              Unconfirmed
<1>5. CASE SubscriptionMoves \/ CompanyMoves \/ WarehouseMoves \/ UNCHANGED vars
  BY <1>5 DEF SubscriptionMoves, CompanyMoves, WarehouseMoves, vars
<1> QED
  BY <1>1, <1>2, <1>3, <1>4, <1>5
     DEF DeliveryStep, AssignCourier, UnassignCourier, CancelAttempt, ArriveAtStore,
         RunStep, PlanRun, ChangeRun, CloseRun, DropRun

(***************************************************************************)
(* DEL-015 and FIN-002: an order is charged once if it was handed over and *)
(* costs something, and otherwise never.                                   *)
(***************************************************************************)
THEOREM ChargesFollowOrders == Spec => []ChargedOnceWhenHandedOver
<1>1. Init => ChargedOnceWhenHandedOver
  BY DEF Init, OrderInit, ChargedOnceWhenHandedOver, HandedOver
<1>2. TypeOK /\ ChargedOnceWhenHandedOver /\ [Next]_vars => ChargedOnceWhenHandedOver'
  BY OrderStepKeepsCharges, DeliverPostsTheCharge, OtherStepKeepsCharges, ChargesStayEnough
     DEF Next
<1> QED
  BY <1>1, <1>2, TypeCorrect, PTL DEF Spec
-----------------------------------------------------------------------------
(***************************************************************************)
(* PRT-009.  What a step has to show: no order of q becomes unconfirmed    *)
(* under a terminated partnership.                                         *)
(***************************************************************************)
LEMMA OrderStepAddsNoRequest ==
    ASSUME NEW o \in Orders, TypeOK, OrderStep(o), NEW q \in Orders,
           status'[q] \in Early
    PROVE  status[q] \in Early \/ partnership[PartnershipOf[q]] = "ACTIVE"
<1> USE DEF TypeOK, OrderTypeOK, Transition, TransitionAll, OnlyStatusMoves, Early
<1>1. ASSUME NEW lines \in RequestLines, Create(o, lines)
      PROVE status[q] \in Early \/ partnership[PartnershipOf[q]] = "ACTIVE"
  BY <1>1 DEF Create, NewOrder
<1>2. CASE View(o)
  BY <1>2 DEF View, MarkViewed
<1>3. ASSUME NEW lines \in Lines, NEW costs \in BOOLEAN, Confirm(o, lines, costs)
      PROVE status[q] \in Early
  BY <1>3 DEF Confirm, SetConfirmation
<1>4. CASE \/ Reject(o) \/ CancelBeforeConfirmation(o) \/ CancelAfterConfirmation(o)
  BY <1>4 DEF Reject, RejectOrder, CancelBeforeConfirmation, CancelEarly,
              CancelAfterConfirmation, CancelHeld
<1>5. CASE StartAssembling(o) \/ BecomeReady(o) \/ Reattempt(o)
  BY <1>5 DEF StartAssembling, Assemble, BecomeReady, MarkReady, Reattempt, ReattemptOrder
<1>6. CASE OpenDispute(o) \/ SettleDispute(o) \/ Complete(o) \/ WindowEnds(o)
  BY <1>6 DEF OpenDispute, DisputeOrder, SettleDispute, CloseDispute, Complete, CompleteDue,
              WindowEnds, DisputeWindowEnds
<1> QED
  BY <1>1, <1>2, <1>3, <1>4, <1>5, <1>6 DEF OrderStep

LEMMA OrderStepLeavesAgreements ==
    ASSUME NEW o \in Orders, OrderStep(o)
    PROVE  partnership' = partnership
BY DEF OrderStep, Create, View, Confirm, Reject, CancelBeforeConfirmation,
       CancelAfterConfirmation, StartAssembling, BecomeReady, Reattempt,
       OpenDispute, SettleDispute, Complete, WindowEnds, OnlyOrdersMove, AgreementsStay

LEMMA TerminateDropsRequests ==
    ASSUME NEW p \in Partnerships, TypeOK, TerminatedHasNoRequests, AgreementStep(p)
    PROVE  TerminatedHasNoRequests'
<1> USE PartnershipAssumption
    DEF TypeOK, OrderTypeOK, TerminatedHasNoRequests, Unconfirmed, MovePartnership
<1>1. CASE Suspend(p) \/ Reactivate(p)
  BY <1>1 DEF Suspend, Reactivate, OrdersStay, orderVars
<1>2. CASE Terminate(p)
  BY <1>2 DEF Terminate, TerminateOrders, TransitionAll, Early
<1> QED
  BY <1>1, <1>2 DEF AgreementStep

LEMMA OtherStepAddsNoRequest ==
    ASSUME TypeOK, NEW q \in Orders, status'[q] \in Early,
           \/ \E d \in DeliveryIds : DeliveryStep(d)
           \/ \E r \in Runs : RunStep(r)
           \/ SubscriptionMoves
           \/ CompanyMoves
           \/ WarehouseMoves
           \/ UNCHANGED vars
    PROVE  status[q] \in Early /\ partnership' = partnership
<1> USE DEF TypeOK, OrderTypeOK, OrdersStay, orderVars, AgreementsStay, Transition, TransitionAll,
            Early
<1>1. ASSUME NEW d \in DeliveryIds, Dispatch(d) \/ Deliver(d) \/ Fail(d)
      PROVE status[q] \in Early /\ partnership' = partnership
  BY <1>1 DEF Dispatch, DispatchOrders, Deliver, DeliverOrder, Fail, FailOrder
<1>2. ASSUME NEW r \in Runs, StartRun(r)
      PROVE status[q] \in Early /\ partnership' = partnership
  BY <1>2 DEF StartRun, DispatchOrders
<1>3. CASE OnlyDeliveriesMove
  BY <1>3 DEF OnlyDeliveriesMove
<1>4. CASE SubscriptionMoves \/ CompanyMoves \/ WarehouseMoves \/ UNCHANGED vars
  BY <1>4 DEF SubscriptionMoves, CompanyMoves, WarehouseMoves, vars
<1> QED
  BY <1>1, <1>2, <1>3, <1>4
     DEF DeliveryStep, AssignCourier, UnassignCourier, CancelAttempt, ArriveAtStore,
         RunStep, PlanRun, ChangeRun, CloseRun, DropRun

(***************************************************************************)
(* A terminated partnership has no order waiting for an answer.            *)
(***************************************************************************)
THEOREM TerminationIsClean == Spec => []TerminatedHasNoRequests
<1>1. Init => TerminatedHasNoRequests
  BY PartnershipAssumption DEF Init, TerminatedHasNoRequests
<1>2. TypeOK /\ TerminatedHasNoRequests /\ [Next]_vars => TerminatedHasNoRequests'
  <2> SUFFICES ASSUME TypeOK, TerminatedHasNoRequests, [Next]_vars
               PROVE  TerminatedHasNoRequests'
    OBVIOUS
  <2>1. ASSUME NEW o \in Orders, OrderStep(o) PROVE TerminatedHasNoRequests'
    BY <2>1, OrderStepAddsNoRequest, OrderStepLeavesAgreements
       DEF TerminatedHasNoRequests
  <2>2. ASSUME NEW p \in Partnerships, AgreementStep(p) PROVE TerminatedHasNoRequests'
    BY <2>2, TerminateDropsRequests
  <2>3. CASE \/ \E d \in DeliveryIds : DeliveryStep(d)
             \/ \E r \in Runs : RunStep(r)
             \/ SubscriptionMoves
             \/ CompanyMoves
             \/ WarehouseMoves
             \/ UNCHANGED vars
    <3>1. partnership' = partnership
      BY <2>3 DEF DeliveryStep, AssignCourier, UnassignCourier, CancelAttempt, ArriveAtStore,
            Dispatch, Deliver, Fail, RunStep, PlanRun, ChangeRun, CloseRun, DropRun, StartRun,
            OnlyDeliveriesMove, AgreementsStay, SubscriptionMoves, CompanyMoves, WarehouseMoves,
            vars
    <3> QED
      BY <2>3, <3>1, OtherStepAddsNoRequest DEF TerminatedHasNoRequests
  <2> QED
    BY <2>1, <2>2, <2>3 DEF Next
<1> QED
  BY <1>1, <1>2, TypeCorrect, PTL DEF Spec
-----------------------------------------------------------------------------
(***************************************************************************)
(* No way back.  What a step may do to the status and version of an order. *)
(***************************************************************************)
Forward(q) ==
    /\ status[q] \in HandedOver => status'[q] \in HandedOver
    /\ status[q] \in Dropped \cup {"COMPLETED"} => status'[q] = status[q]
    /\ status'[q] # status[q] => version'[q] > version[q]

\* A transition out of statuses that are not closed, into one that is no
\* step back, moves every order forward; so does a step that moves none.
LEMMA TransitionForward ==
    ASSUME OrderTypeOK, NEW os, NEW from, NEW to, TransitionAll(os, from, to),
           from \cap (Dropped \cup {"COMPLETED"}) = {},
           from \cap HandedOver = {} \/ to \in HandedOver,
           NEW q \in Orders
    PROVE  Forward(q)
BY DEF TransitionAll, OrderTypeOK, Forward

LEMMA OrdersStayForward ==
    ASSUME UNCHANGED orderVars \/ UNCHANGED <<status, version>>, NEW q \in Orders
    PROVE  Forward(q)
BY DEF orderVars, Forward

LEMMA OrderStepForward ==
    ASSUME NEW o \in Orders, TypeOK, OrderStep(o), NEW q \in Orders
    PROVE  Forward(q)
<1> USE TransitionForward
    DEF TypeOK, Transition, Early, ReservedStatuses, HandedOver, Dropped
<1>1. ASSUME NEW lines \in RequestLines, Create(o, lines) PROVE Forward(q)
  BY <1>1 DEF Create, NewOrder
<1>2. CASE View(o)
  BY <1>2 DEF View, MarkViewed
<1>3. ASSUME NEW lines \in Lines, NEW costs \in BOOLEAN, Confirm(o, lines, costs)
      PROVE Forward(q)
  BY <1>3 DEF Confirm, SetConfirmation
<1>4. CASE Reject(o)
  BY <1>4 DEF Reject, RejectOrder
<1>5. CASE CancelBeforeConfirmation(o)
  BY <1>5 DEF CancelBeforeConfirmation, CancelEarly
<1>6. CASE CancelAfterConfirmation(o)
  BY <1>6 DEF CancelAfterConfirmation, CancelHeld
<1>7. CASE StartAssembling(o)
  BY <1>7 DEF StartAssembling, Assemble
<1>8. CASE BecomeReady(o)
  BY <1>8 DEF BecomeReady, MarkReady
<1>9. CASE Reattempt(o)
  BY <1>9 DEF Reattempt, ReattemptOrder
<1>10. CASE OpenDispute(o)
  BY <1>10 DEF OpenDispute, DisputeOrder
<1>11. CASE SettleDispute(o)
  BY <1>11 DEF SettleDispute, CloseDispute
<1>12. CASE Complete(o)
  BY <1>12 DEF Complete, CompleteDue
<1>13. CASE WindowEnds(o)
  BY <1>13, OrdersStayForward DEF WindowEnds, DisputeWindowEnds
<1> QED
  BY <1>1, <1>2, <1>3, <1>4, <1>5, <1>6, <1>7, <1>8, <1>9, <1>10, <1>11, <1>12, <1>13 DEF OrderStep

LEMMA OtherStepForward ==
    ASSUME TypeOK, NEW q \in Orders,
           \/ \E d \in DeliveryIds : DeliveryStep(d)
           \/ \E r \in Runs : RunStep(r)
           \/ \E p \in Partnerships : AgreementStep(p)
           \/ SubscriptionMoves
           \/ CompanyMoves
           \/ WarehouseMoves
    PROVE  Forward(q)
<1> USE TransitionForward DEF TypeOK, Transition, Early, HandedOver, Dropped
<1>1. ASSUME NEW d \in DeliveryIds, Dispatch(d) \/ Deliver(d) \/ Fail(d) PROVE Forward(q)
  BY <1>1 DEF Dispatch, DispatchOrders, Deliver, DeliverOrder, Fail, FailOrder
<1>2. ASSUME NEW r \in Runs, StartRun(r) PROVE Forward(q)
  BY <1>2 DEF StartRun, DispatchOrders
<1>3. CASE OnlyDeliveriesMove \/ SubscriptionMoves \/ CompanyMoves \/ WarehouseMoves
  BY <1>3, OrdersStayForward
     DEF OnlyDeliveriesMove, SubscriptionMoves, CompanyMoves, WarehouseMoves, OrdersStay
<1>4. ASSUME NEW p \in Partnerships, AgreementStep(p) PROVE Forward(q)
  BY <1>4, OrdersStayForward
     DEF AgreementStep, Suspend, Reactivate, Terminate, TerminateOrders, OrdersStay
<1> QED
  BY <1>1, <1>2, <1>3, <1>4
     DEF DeliveryStep, AssignCourier, UnassignCourier, CancelAttempt, ArriveAtStore,
         RunStep, PlanRun, ChangeRun, CloseRun, DropRun

(***************************************************************************)
(* A handed-over order stays handed over, a dropped or completed one stays *)
(* as it is, and no status changes behind the back of the version.         *)
(***************************************************************************)
THEOREM OrdersMoveForward == Spec => NoWayBack
<1>1. TypeOK /\ [Next]_vars => [\A q \in Orders : Forward(q)]_vars
  BY OrderStepForward, OtherStepForward DEF Next
<1>2. (\A q \in Orders : Forward(q)) =>
      \A o \in Orders :
          /\ status[o] \in HandedOver => status'[o] \in HandedOver
          /\ status[o] \in Dropped \cup {"COMPLETED"} => status'[o] = status[o]
          /\ status'[o] # status[o] => version'[o] > version[o]
  BY DEF Forward
<1> QED
  BY <1>1, <1>2, TypeCorrect, PTL DEF Spec, NoWayBack


(***************************************************************************)
(* The inductive invariant, for one order: OneOpenDelivery together with   *)
(* DeliveryFollowsOrder.  Neither is inductive alone: a second open        *)
(* delivery would be left behind when the first one is delivered, and only *)
(* the status of the order says that it had none when one was planned.     *)
(***************************************************************************)
Matches(o) ==
    /\ \A m, n \in Attempts : IsOpen(<<o, m>>) /\ IsOpen(<<o, n>>) => m = n
    /\ status[o] = "IN_TRANSIT"  <=> SomeDelivery(o, OnRoad)
    /\ status[o] \in HandedOver  <=> SomeDelivery(o, {"DELIVERED"})
    /\ SomeDelivery(o, Pool)      => status[o] = "READY_FOR_DELIVERY"

OrdersMatch == \A o \in Orders : Matches(o)

LEMMA MatchIsBoth == OrdersMatch <=> OneOpenDelivery /\ DeliveryFollowsOrder
BY DEF OrdersMatch, Matches, OneOpenDelivery, DeliveryFollowsOrder

LEMMA InitMatches == Init => OrdersMatch
<1> SUFFICES ASSUME Init, NEW o \in Orders PROVE Matches(o)
  BY DEF OrdersMatch
<1>1. \A n \in Attempts : delivery[<<o, n>>].status = "NONE"
  BY DEF Init, DeliveriesInit, DeliveryIds, NoRow
<1>2. status[o] = "NONE"
  BY DEF Init, OrderInit
<1> QED
  BY <1>1, <1>2 DEF Matches, SomeDelivery, IsOpen, Open, Pool, OnRoad, HandedOver

\* A step keeps an order if no row of it enters the pool, none gets on or off
\* the road or is delivered, and the order stays as far as these go.
KeepsRows(o) ==
    \A n \in Attempts :
        /\ delivery'[<<o, n>>].status \in Pool => delivery[<<o, n>>].status \in Pool
        /\ delivery'[<<o, n>>].status \in OnRoad <=> delivery[<<o, n>>].status \in OnRoad
        /\ delivery'[<<o, n>>].status = "DELIVERED" <=> delivery[<<o, n>>].status = "DELIVERED"

KeepsStatus(o) ==
    /\ status'[o] = "IN_TRANSIT" <=> status[o] = "IN_TRANSIT"
    /\ status'[o] \in HandedOver <=> status[o] \in HandedOver
    /\ status[o] = "READY_FOR_DELIVERY" => status'[o] = "READY_FOR_DELIVERY"

LEMMA KeepingMatches ==
    ASSUME NEW o \in Orders, Matches(o), KeepsRows(o), KeepsStatus(o)
    PROVE  Matches(o)'
<1> USE DEF Matches, KeepsRows, KeepsStatus, SomeDelivery
<1>1. \A m, n \in Attempts : IsOpen(<<o, m>>)' /\ IsOpen(<<o, n>>)' => m = n
  BY DEF IsOpen, Open
<1>2. SomeDelivery(o, OnRoad)' <=> SomeDelivery(o, OnRoad)
  BY DEF OnRoad
<1>3. SomeDelivery(o, {"DELIVERED"})' <=> SomeDelivery(o, {"DELIVERED"})
  OBVIOUS
<1>4. SomeDelivery(o, Pool)' => SomeDelivery(o, Pool)
  BY DEF Pool
<1> QED
  BY <1>1, <1>2, <1>3, <1>4
-----------------------------------------------------------------------------
(***************************************************************************)
(* The operations on rows, each for the order it concerns.                 *)
(***************************************************************************)
LEMMA PlannedMatches ==
    ASSUME NEW o \in Orders, TypeOK, Matches(o), PlanForOrder(o),
           status[o] \in {"ASSEMBLING", "DELIVERY_FAILED"},
           status'[o] = "READY_FOR_DELIVERY"
    PROVE  Matches(o)'
<1> USE DEF TypeOK, DeliveriesTypeOK, SomeDelivery, Open, Pool, OnRoad
<1>1. ~HasOpen(o)
  BY DEF Matches, HasOpen, IsOpen
<1>2. PICK n \in Attempts :
          /\ NextAttempt(o, n)
          /\ delivery' = [delivery EXCEPT ![<<o, n>>].status = "PLANNED"]
  BY <1>1 DEF PlanForOrder
<1>3. delivery[<<o, n>>].status = "NONE" /\ <<o, n>> \in DeliveryIds
  BY <1>2 DEF NextAttempt, Attempts, DeliveryIds
<1>4. /\ delivery'[<<o, n>>].status = "PLANNED"
      /\ \A m \in Attempts \ {n} : delivery'[<<o, m>>] = delivery[<<o, m>>]
  BY <1>2, <1>3 DEF DeliveryIds, Rows
<1>5. \A m \in Attempts \ {n} : ~IsOpen(<<o, m>>)'
  BY <1>1, <1>4 DEF HasOpen, IsOpen
<1>6. ~SomeDelivery(o, {"DELIVERED"})
  BY DEF Matches, HandedOver
<1> QED
  BY <1>4, <1>5, <1>6 DEF Matches, IsOpen, HandedOver

LEMMA CancelledMatches ==
    ASSUME NEW o \in Orders, TypeOK, Matches(o), CancelForOrder(o),
           status[o] \notin HandedOver, status'[o] = "CANCELLED"
    PROVE  Matches(o)'
<1> USE DEF TypeOK, DeliveriesTypeOK, SomeDelivery, IsOpen, Open, Pool, OnRoad
<1>1. \A n \in Attempts : <<o, n>> \in DeliveryIds
  BY DEF DeliveryIds
<1>2. \A n \in Attempts : ~IsOpen(<<o, n>>)'
  BY <1>1 DEF CancelForOrder, Rows
<1>3. \A n \in Attempts : delivery[<<o, n>>].status # "DELIVERED"
  BY DEF Matches
<1>4. \A n \in Attempts : delivery'[<<o, n>>].status # "DELIVERED"
  BY <1>1, <1>3 DEF CancelForOrder, Rows
<1> QED
  BY <1>2, <1>4 DEF Matches, HandedOver

\* The one open row n of the order moves on; the others stay where they are.
LEMMA RowMovesOn ==
    ASSUME NEW o \in Orders, NEW n \in Attempts, Matches(o), IsOpen(<<o, n>>),
           \A m \in Attempts \ {n} :
               delivery'[<<o, m>>].status = delivery[<<o, m>>].status,
           \/ /\ delivery'[<<o, n>>].status \in OnRoad
              /\ status'[o] = "IN_TRANSIT"
           \/ /\ delivery'[<<o, n>>].status = "DELIVERED"
              /\ status'[o] = "DELIVERED"
           \/ /\ delivery'[<<o, n>>].status = "FAILED"
              /\ status'[o] = "DELIVERY_FAILED",
           status[o] \notin HandedOver
    PROVE  Matches(o)'
<1>1. \A m \in Attempts \ {n} : ~IsOpen(<<o, m>>) /\ delivery[<<o, m>>].status # "DELIVERED"
  BY DEF Matches, SomeDelivery
<1>2. \A m \in Attempts \ {n} : ~IsOpen(<<o, m>>)' /\ delivery'[<<o, m>>].status # "DELIVERED"
  BY <1>1 DEF IsOpen, Open, Pool, OnRoad
<1> QED
  BY <1>2 DEF Matches, IsOpen, Open, Pool, OnRoad, SomeDelivery, HandedOver
-----------------------------------------------------------------------------
LEMMA OrderStepMatches ==
    ASSUME NEW o \in Orders, TypeOK, OrdersMatch, OrderStep(o), NEW q \in Orders
    PROVE  Matches(q)'
<1> USE DEF TypeOK, OrderTypeOK, OnlyOrdersMove, DeliveriesStay, deliveryVars, Transition, TransitionAll,
            OnlyStatusMoves, Early, ReservedStatuses, HandedOver, Dropped, KeepsStatus
<1>0. Matches(o) /\ Matches(q)
  BY DEF OrdersMatch
<1>1. ASSUME delivery' = delivery, KeepsStatus(q) PROVE Matches(q)'
  BY <1>0, <1>1, KeepingMatches DEF KeepsRows
<1>2. ASSUME NEW lines \in RequestLines, Create(o, lines) PROVE Matches(q)'
  BY <1>1, <1>2 DEF Create, NewOrder
<1>3. CASE View(o)
  BY <1>1, <1>3 DEF View, MarkViewed
<1>4. ASSUME NEW lines \in Lines, NEW costs \in BOOLEAN, Confirm(o, lines, costs) PROVE Matches(q)'
  BY <1>1, <1>4 DEF Confirm, SetConfirmation
<1>5. CASE Reject(o)
  BY <1>1, <1>5 DEF Reject, RejectOrder
<1>6. CASE CancelBeforeConfirmation(o)
  BY <1>1, <1>6 DEF CancelBeforeConfirmation, CancelEarly
<1>7. CASE CancelAfterConfirmation(o)
  <2>1. CASE q = o
    BY <1>0, <1>7, <2>1, CancelledMatches DEF CancelAfterConfirmation, CancelHeld
  <2>2. CASE q # o
    <3>1. KeepsRows(q)
      BY <1>7, <2>2 DEF CancelAfterConfirmation, CancelForOrder, KeepsRows, DeliveryIds
    <3> QED
      BY <1>0, <1>7, <2>2, <3>1, KeepingMatches DEF CancelAfterConfirmation, CancelHeld
  <2> QED
    BY <2>1, <2>2
<1>8. CASE StartAssembling(o)
  BY <1>1, <1>8 DEF StartAssembling, Assemble
<1>9. ASSUME PlanForOrder(o), q # o, KeepsStatus(q) PROVE Matches(q)'
  <2>1. KeepsRows(q)
    BY <1>9 DEF PlanForOrder, KeepsRows, DeliveriesTypeOK, DeliveryIds
  <2> QED
    BY <1>0, <1>9, <2>1, KeepingMatches
<1>10. CASE BecomeReady(o)
  BY <1>0, <1>9, <1>10, PlannedMatches DEF BecomeReady, MarkReady
<1>11. CASE Reattempt(o)
  BY <1>0, <1>9, <1>11, PlannedMatches DEF Reattempt, ReattemptOrder
<1>12. CASE OpenDispute(o)
  BY <1>1, <1>12 DEF OpenDispute, DisputeOrder
<1>13. CASE SettleDispute(o)
  BY <1>1, <1>13 DEF SettleDispute, CloseDispute
<1>14. CASE Complete(o)
  BY <1>1, <1>14 DEF Complete, CompleteDue
<1>15. CASE WindowEnds(o)
  BY <1>1, <1>15 DEF WindowEnds, DisputeWindowEnds
<1> QED
  BY <1>2, <1>3, <1>4, <1>5, <1>6, <1>7, <1>8, <1>10, <1>11, <1>12, <1>13, <1>14, <1>15 DEF OrderStep

LEMMA DeliveryStepMatches ==
    ASSUME NEW d \in DeliveryIds, TypeOK, OrdersMatch, DeliveryStep(d), NEW q \in Orders
    PROVE  Matches(q)'
<1> USE DEF TypeOK, OrderTypeOK, DeliveriesTypeOK, Transition, TransitionAll, OnlyStatusMoves
<1>0. PICK o \in Orders, n \in Attempts : d = <<o, n>>
  BY DEF DeliveryIds
<1>00. Matches(q) /\ Matches(o) /\ d[1] = o
  BY <1>0 DEF OrdersMatch
<1>1. ASSUME OnlyDeliveriesMove, KeepsRows(q) PROVE Matches(q)'
  BY <1>00, <1>1, KeepingMatches DEF OnlyDeliveriesMove, OrdersStay, orderVars, KeepsStatus
<1>2. ASSUME NEW c \in Couriers, AssignCourier(d, c) PROVE Matches(q)'
  BY <1>1, <1>2 DEF AssignCourier, Assign, KeepsRows, DeliveryIds, Rows, Pool, OnRoad
<1>3. CASE UnassignCourier(d)
  BY <1>1, <1>3 DEF UnassignCourier, Unassign, NoRow, KeepsRows, DeliveryIds, Rows, Pool, OnRoad
<1>4. CASE CancelAttempt(d)
  BY <1>1, <1>4 DEF CancelAttempt, CancelDelivery, KeepsRows, DeliveryIds, Rows, Pool, OnRoad
<1>5. CASE ArriveAtStore(d)
  BY <1>1, <1>5 DEF ArriveAtStore, Arrive, MoveRows, KeepsRows, DeliveryIds, Rows, Pool, OnRoad
<1>6. ASSUME NEW from \in {"READY_FOR_DELIVERY", "IN_TRANSIT"}, NEW to,
             TransitionAll({o}, {from}, to),
             NEW starts \in SUBSET Open, NEW end, MoveRows({d}, starts, end),
             \/ end \in OnRoad /\ to = "IN_TRANSIT"
             \/ end = "DELIVERED" /\ to = "DELIVERED"
             \/ end = "FAILED" /\ to = "DELIVERY_FAILED"
      PROVE  Matches(q)'
  <2>1. CASE q = o
    <3>1. IsOpen(<<o, n>>) /\ delivery'[<<o, n>>].status = end
      BY <1>0, <1>6 DEF MoveRows, IsOpen, Rows
    <3>2. \A m \in Attempts \ {n} : delivery'[<<o, m>>].status = delivery[<<o, m>>].status
      BY <1>0, <1>6 DEF MoveRows, DeliveryIds
    <3>3. status'[o] = to /\ status[o] = from /\ status[o] \notin HandedOver
      BY <1>6 DEF HandedOver
    <3> QED
      BY <1>00, <1>6, <2>1, <3>1, <3>2, <3>3, RowMovesOn
  <2>2. CASE q # o
    <3>1. KeepsRows(q)
      BY <1>0, <1>6, <2>2 DEF MoveRows, KeepsRows, DeliveryIds
    <3>2. status'[q] = status[q]
      BY <1>6, <2>2
    <3> QED
      BY <1>00, <3>1, <3>2, KeepingMatches DEF KeepsStatus
  <2> QED
    BY <2>1, <2>2
<1>7. CASE Dispatch(d)
  <2>1. TransitionAll({o}, {"READY_FOR_DELIVERY"}, "IN_TRANSIT") /\ MoveRows({d}, {"ASSIGNED"}, "IN_TRANSIT")
    BY <1>00, <1>7 DEF Dispatch, DispatchOrders, DispatchRows
  <2> QED
    BY <1>6, <2>1 DEF Open, Pool, OnRoad
<1>8. CASE Deliver(d)
  <2>1. TransitionAll({o}, {"IN_TRANSIT"}, "DELIVERED") /\ MoveRows({d}, OnRoad, "DELIVERED")
    BY <1>00, <1>8 DEF Deliver, DeliverOrder, DeliverRow
  <2> QED
    BY <1>6, <2>1 DEF Open
<1>9. CASE Fail(d)
  <2>1. TransitionAll({o}, {"IN_TRANSIT"}, "DELIVERY_FAILED") /\ MoveRows({d}, OnRoad, "FAILED")
    BY <1>00, <1>9 DEF Fail, FailOrder, FailRow
  <2> QED
    BY <1>6, <2>1 DEF Open
<1> QED
  BY <1>2, <1>3, <1>4, <1>5, <1>7, <1>8, <1>9 DEF DeliveryStep

LEMMA RunStepMatches ==
    ASSUME NEW r \in Runs, TypeOK, OrdersMatch, RunStep(r), NEW q \in Orders
    PROVE  Matches(q)'
<1> USE DEF TypeOK, OrderTypeOK, DeliveriesTypeOK
<1>0. Matches(q)
  BY DEF OrdersMatch
<1>1. ASSUME OnlyDeliveriesMove, KeepsRows(q) PROVE Matches(q)'
  BY <1>0, <1>1, KeepingMatches DEF OnlyDeliveriesMove, OrdersStay, orderVars, KeepsStatus
<1>2. ASSUME NEW c, NEW ds \in SUBSET DeliveryIds, SetStops(r, c, ds) PROVE KeepsRows(q)
  BY <1>2 DEF SetStops, BackToPool, NoRow, KeepsRows, DeliveryIds, Rows, Pool, OnRoad
<1>3. ASSUME NEW c \in Couriers, NEW ds \in SUBSET DeliveryIds, PlanRun(r, c, ds) PROVE Matches(q)'
  BY <1>1, <1>2, <1>3 DEF PlanRun, CreateRun
<1>4. ASSUME NEW ds \in SUBSET DeliveryIds, ChangeRun(r, ds) PROVE Matches(q)'
  BY <1>1, <1>2, <1>4 DEF ChangeRun, UpdateRun
<1>5. CASE CloseRun(r)
  BY <1>1, <1>5 DEF CloseRun, FinishRun, KeepsRows
<1>6. CASE DropRun(r)
  BY <1>1, <1>6 DEF DropRun, CancelRun, BackToPool, NoRow, KeepsRows, DeliveryIds, Rows, Pool, OnRoad
<1>7. CASE StartRun(r)
  <2>1. MoveRows(Waiting(r), {"ASSIGNED"}, "IN_TRANSIT")
    BY <1>7 DEF StartRun, StartRunRows, DispatchRows
  <2>2. TransitionAll({d[1] : d \in Waiting(r)}, {"READY_FOR_DELIVERY"}, "IN_TRANSIT")
    BY <1>7 DEF StartRun, DispatchOrders
  <2>3. CASE \E n \in Attempts : <<q, n>> \in Waiting(r)
    <3>1. PICK n \in Attempts : <<q, n>> \in Waiting(r)
      BY <2>3
    <3>2. IsOpen(<<q, n>>) /\ <<q, n>> \in DeliveryIds
      BY <3>1 DEF Waiting, Stops, IsOpen, Open, Pool
    <3>3. delivery'[<<q, n>>].status = "IN_TRANSIT"
      BY <2>1, <3>1, <3>2 DEF MoveRows, Rows
    <3>4. \A m \in Attempts \ {n} : <<q, m>> \notin Waiting(r)
      BY <1>0, <3>2 DEF Matches, Waiting, IsOpen, Open, Pool
    <3>5. \A m \in Attempts \ {n} : delivery'[<<q, m>>].status = delivery[<<q, m>>].status
      BY <2>1, <3>4 DEF MoveRows, DeliveryIds
    <3>6. status[q] = "READY_FOR_DELIVERY" /\ status'[q] = "IN_TRANSIT"
      BY <2>2, <3>1 DEF TransitionAll
    <3> QED
      BY <1>0, <3>2, <3>3, <3>5, <3>6, RowMovesOn DEF OnRoad, HandedOver
  <2>4. CASE \A n \in Attempts : <<q, n>> \notin Waiting(r)
    <3>1. KeepsRows(q)
      BY <2>1, <2>4 DEF MoveRows, KeepsRows, DeliveryIds
    <3>2. q \notin {d[1] : d \in Waiting(r)}
      BY <2>4 DEF Waiting, Stops, DeliveryIds
    <3>3. status'[q] = status[q]
      BY <2>2, <3>2 DEF TransitionAll
    <3> QED
      BY <1>0, <3>1, <3>3, KeepingMatches DEF KeepsStatus
  <2> QED
    BY <2>3, <2>4
<1> QED
  BY <1>3, <1>4, <1>5, <1>6, <1>7 DEF RunStep

LEMMA OtherStepMatches ==
    ASSUME TypeOK, OrdersMatch, NEW q \in Orders,
           \/ \E p \in Partnerships : AgreementStep(p)
           \/ SubscriptionMoves
           \/ CompanyMoves
           \/ WarehouseMoves
           \/ UNCHANGED vars
    PROVE  Matches(q)'
<1> USE DEF TypeOK, OrderTypeOK
<1>1. delivery' = delivery
  BY DEF AgreementStep, Suspend, Reactivate, Terminate, MovePartnership, SubscriptionMoves, CompanyMoves,
         WarehouseMoves, DeliveriesStay, deliveryVars, vars
<1>2. KeepsStatus(q)
  BY DEF AgreementStep, Suspend, Reactivate, Terminate, TerminateOrders, TransitionAll, Unconfirmed,
         SubscriptionMoves, CompanyMoves, WarehouseMoves, OrdersStay, orderVars, vars, KeepsStatus, Early, HandedOver
<1> QED
  BY <1>1, <1>2, KeepingMatches DEF OrdersMatch, KeepsRows

THEOREM OrdersAndDeliveriesMatch == Spec => []OrdersMatch
<1>1. TypeOK /\ OrdersMatch /\ [Next]_vars => OrdersMatch'
  <2> SUFFICES ASSUME TypeOK, OrdersMatch, [Next]_vars, NEW q \in Orders PROVE Matches(q)'
    BY DEF OrdersMatch
  <2> QED
    BY OrderStepMatches, DeliveryStepMatches, RunStepMatches, OtherStepMatches DEF Next
<1> QED
  BY <1>1, InitMatches, TypeCorrect, PTL DEF Spec

(***************************************************************************)
(* No order ever has two deliveries under way (uq_deliveries_order_open),  *)
(* whatever is cancelled, failed, re-planned or put on a run in between.   *)
(***************************************************************************)
THEOREM OneDeliveryAtATime == Spec => []OneOpenDelivery
BY OrdersAndDeliveriesMatch, MatchIsBoth, PTL

(***************************************************************************)
(* The order and its deliveries never disagree on where the goods are.     *)
(***************************************************************************)
THEOREM DeliveriesFollowOrders == Spec => []DeliveryFollowsOrder
BY OrdersAndDeliveriesMatch, MatchIsBoth, PTL

(***************************************************************************)
(* A run's stops are its courier's, none of them still waits once it has   *)
(* started and none is open once it has finished.                          *)
(***************************************************************************)
THEOREM RunsStayTogether == Spec => []RunsGoTogether
<1>1. Init => RunsGoTogether
  BY DEF Init, DeliveriesInit, RunsGoTogether, NoRow
<1>2. TypeOK /\ RunsGoTogether /\ [Next]_vars => RunsGoTogether'
  <2> SUFFICES ASSUME TypeOK, RunsGoTogether, [Next]_vars PROVE RunsGoTogether'
    OBVIOUS
  <2> USE DEF TypeOK
  <2>1. CASE UNCHANGED deliveryVars
    BY <2>1 DEF deliveryVars, RunsGoTogether, IsOpen
  <2>2. ASSUME NEW o \in Orders, OrderStep(o) PROVE RunsGoTogether'
    BY <2>1, <2>2, RowsKeepRuns
       DEF OrderStep, Create, View, Confirm, Reject, CancelBeforeConfirmation,
           CancelAfterConfirmation, StartAssembling, BecomeReady, Reattempt,
           OpenDispute, SettleDispute, Complete, WindowEnds, OnlyOrdersMove, DeliveriesStay
  <2>3. ASSUME NEW d \in DeliveryIds, DeliveryStep(d) PROVE RunsGoTogether'
    BY <2>3, RowsKeepRuns
       DEF DeliveryStep, AssignCourier, UnassignCourier, CancelAttempt, ArriveAtStore,
           Dispatch, Deliver, Fail
  <2>4. ASSUME NEW r \in Runs, RunStep(r) PROVE RunsGoTogether'
    BY <2>4, RunOperationsKeepRuns DEF RunStep, PlanRun, ChangeRun, CloseRun, DropRun, StartRun
  <2>5. CASE \/ \E p \in Partnerships : AgreementStep(p)
             \/ SubscriptionMoves
             \/ CompanyMoves
             \/ WarehouseMoves
             \/ UNCHANGED vars
    BY <2>1, <2>5 DEF AgreementStep, Suspend, Reactivate, Terminate, MovePartnership,
                      SubscriptionMoves, CompanyMoves, WarehouseMoves, DeliveriesStay, vars
  <2> QED
    BY <2>2, <2>3, <2>4, <2>5 DEF Next
<1> QED
  BY <1>1, <1>2, TypeCorrect, PTL DEF Spec
-----------------------------------------------------------------------------
(***************************************************************************)
(* Goods on the road.  Deliver is a guard and, for every variable, what it *)
(* becomes: where the guard holds, nothing makes the transaction refuse.   *)
(***************************************************************************)
DeliverGuard(d) ==
    /\ company = "ACTIVE"
    /\ Require("ORDER_CLOSE")
    /\ delivery[d].status \in OnRoad
    /\ status[d[1]] = "IN_TRANSIT"
    /\ \A p \in Products :
          /\ quantity[p] - active[d[1]][p] \in Quantities
          /\ reserved[p] - active[d[1]][p] \in 0..(quantity[p] - active[d[1]][p])

DeliverBooks(d) ==
    LET o == d[1] IN
    /\ delivery' = [x \in DeliveryIds |->
                       IF x \in {d} THEN [delivery[x] EXCEPT !.status = "DELIVERED"] ELSE delivery[x]]
    /\ status' = [x \in Orders |-> IF x \in {o} THEN "DELIVERED" ELSE status[x]]
    /\ version' = [x \in Orders |-> IF x \in {o} THEN version[x] + 1 ELSE version[x]]
    /\ quantity' = [p \in Products |-> quantity[p] - active[o][p]]
    /\ reserved' = [p \in Products |-> reserved[p] - active[o][p]]
    /\ active' = [active EXCEPT ![o] = NoLines]
    /\ shipped' = [shipped EXCEPT ![o] = [p \in Products |-> @[p] + active[o][p]]]
    /\ charges' = [charges EXCEPT ![o] = IF @ = 0 /\ payable[o] THEN 1 ELSE @]
    /\ UNCHANGED <<requested, confirmed, payable, windowOver, openDispute, run, netInflow,
                   company, partnership, subscription>>

LEMMA DeliverIsGuarded ==
    ASSUME TypeOK, NEW d \in DeliveryIds
    PROVE  Deliver(d) <=> DeliverGuard(d) /\ DeliverBooks(d)
<1>1. d[1] \in Orders
  BY DEF DeliveryIds
<1>2. \A p \in Products : /\ Minus(active[d[1]])[p] = -active[d[1]][p]
                          /\ active[d[1]][p] \in Int /\ quantity[p] \in Int /\ reserved[p] \in Int
  BY <1>1, StockIsIntegers DEF Minus, TypeOK
<1>3. Move(Minus(active[d[1]]), Minus(active[d[1]])) <=>
          /\ \A p \in Products :
                /\ quantity[p] - active[d[1]][p] \in Quantities
                /\ reserved[p] - active[d[1]][p] \in 0..(quantity[p] - active[d[1]][p])
          /\ quantity' = [p \in Products |-> quantity[p] - active[d[1]][p]]
          /\ reserved' = [p \in Products |-> reserved[p] - active[d[1]][p]]
  BY <1>2 DEF Move
<1> QED
  BY <1>1, <1>3
     DEF Deliver, DeliverGuard, DeliverBooks, LockCompany, DeliverRow, MoveRows, DeliverOrder, Transition,
         TransitionAll, OnlyStatusMoves, Ship, PostCharge, AgreementsStay

(***************************************************************************)
(* No correction of the stock, no block of the subscription, no end of the *)
(* partnership and no edit of a run makes the closing transaction of goods *)
(* on the road refuse: every check it makes passes, for every row it books.*)
(***************************************************************************)
THEOREM NothingRefusesTheHandOver ==
    Spec => [](\A d \in DeliveryIds : company = "ACTIVE" /\ delivery[d].status \in OnRoad => DeliverGuard(d))
<1>1. TypeOK /\ StockSound /\ OrdersMatch =>
          \A d \in DeliveryIds : company = "ACTIVE" /\ delivery[d].status \in OnRoad => DeliverGuard(d)
  <2> SUFFICES ASSUME TypeOK, StockSound, OrdersMatch, NEW d \in DeliveryIds, company = "ACTIVE",
                      delivery[d].status \in OnRoad
               PROVE  DeliverGuard(d)
    OBVIOUS
  <2>1. PICK o \in Orders, n \in Attempts : d = <<o, n>>
    BY DEF DeliveryIds
  <2>2. status[o] = "IN_TRANSIT"
    BY <2>1 DEF OrdersMatch, Matches, SomeDelivery
  <2>3. Require("ORDER_CLOSE")
    BY SubscriptionAssumption DEF TypeOK, Require, AllowedActions
  <2>4. ASSUME NEW p \in Products
        PROVE  /\ quantity[p] - active[o][p] \in Quantities
               /\ reserved[p] - active[o][p] \in 0..(quantity[p] - active[o][p])
    BY PromisedIsThere, MaxQuantityAssumption DEF TypeOK, StockTypeOK, Lines, Quantities
  <2> QED
    BY <2>1, <2>2, <2>3, <2>4 DEF DeliverGuard
<1>2. Init => StockSound
  BY EmptyStockSound DEF Init
<1>3. TypeOK /\ StockSound /\ [Next]_vars => StockSound'
  BY StepsOnStock, StockStaysSound DEF TypeOK
<1> QED
  BY <1>1, <1>2, <1>3, TypeCorrect, OrdersAndDeliveriesMatch, PTL DEF Spec
-----------------------------------------------------------------------------
(***************************************************************************)
(* The contract: each step of Fulfilment maps to one step of Handover, or  *)
(* to none.                                                                *)
(***************************************************************************)

\* What the mapping relies on: TypeOK for the arithmetic of FreeGoods,
\* ReservationFollowsOrder for what an order that is not confirmed yet holds.
Facts == TypeOK /\ ReservationFollowsOrder

Place(o) == PlaceOf(status[o])

LEMMA InitRefines == Init => Contract!Init
<1> SUFFICES ASSUME Init PROVE Contract!Init
  OBVIOUS
<1>1. FreeGoods = [p \in Products |-> 0]
  BY DEF Init, InventoryInit, FreeGoods, Available, NoLines
<1>2. Indebted = {}
  BY DEF Init, Indebted
<1> QED
  BY <1>1, <1>2 DEF Init, InventoryInit, OrderInit, NoLines, Contract!Init, Contract!Nothing,
                    PlaceOf, Early, ReservedStatuses, HandedOver, Dropped

\* A transition of orders is a Go of their places.
LEMMA TransitionGoes ==
    ASSUME TypeOK, NEW os \in SUBSET Orders, NEW from \in SUBSET Statuses, NEW to \in Statuses,
           NEW places, TransitionAll(os, from, to),
           \A s \in from : PlaceOf(s) \in places
    PROVE  Contract!Go(os, places, PlaceOf(to))
BY DEF TransitionAll, TypeOK, OrderTypeOK, Contract!Go

LEMMA SamePlaces ==
    ASSUME \A o \in Orders : Place(o)' = Place(o)
    PROVE  [o \in Orders |-> PlaceOf(status[o])]' = [o \in Orders |-> PlaceOf(status[o])]
BY DEF Place

\* What leaves the stock and the charges alone leaves the goods alone.
LEMMA GoodsUnmoved ==
    ASSUME UNCHANGED stockVars, UNCHANGED charges
    PROVE  Contract!GoodsStay
BY DEF stockVars, Contract!GoodsStay, FreeGoods, Available, Indebted

LEMMA StutterOfContract ==
    ASSUME \A o \in Orders : Place(o)' = Place(o), UNCHANGED stockVars, UNCHANGED charges
    PROVE  UNCHANGED Contract!handoverVars
BY SamePlaces, GoodsUnmoved DEF Contract!handoverVars, Contract!GoodsStay

\* What the places of the statuses are, for the steps below.
LEMMA Places ==
    /\ PlaceOf("NONE") = "nowhere"
    /\ \A s \in Early : PlaceOf(s) = "asked"
    /\ \A s \in ReservedStatuses : PlaceOf(s) = "held"
    /\ PlaceOf("IN_TRANSIT") = "road"
    /\ \A s \in HandedOver : PlaceOf(s) = "handed"
    /\ \A s \in Dropped : PlaceOf(s) = "dropped"
BY DEF PlaceOf, Early, ReservedStatuses, HandedOver, Dropped
-----------------------------------------------------------------------------
LEMMA ConfirmPromises ==
    ASSUME Facts, NEW o \in Orders, NEW lines \in Lines, NEW costs \in BOOLEAN,
           Confirm(o, lines, costs)
    PROVE  Contract!Promise(o, lines)
<1> USE DEF Facts
<1>1. PICK to \in {"CONFIRMED", "PARTIALLY_CONFIRMED"} : TransitionAll({o}, Early, to)
  BY DEF Confirm, SetConfirmation, Transition
<1>2. Contract!Go({o}, {"asked"}, "held")
  <2>1. Early \subseteq Statuses /\ to \in Statuses /\ to \in ReservedStatuses
    BY DEF Statuses, ReservedStatuses
  <2>2. PlaceOf(to) = "held" /\ \A s \in Early : PlaceOf(s) \in {"asked"}
    BY <2>1, Places
  <2>3. Contract!Go({o}, {"asked"}, PlaceOf(to))
    BY <1>1, <2>1, <2>2, TransitionGoes
  <2> QED
    BY <2>2, <2>3
<1>3. active[o] = NoLines
  BY <1>1 DEF TransitionAll, ReservationFollowsOrder, Early, Holding, ReservedStatuses
<1>4. TakeReservation(o, lines)
  BY <1>3 DEF Confirm, SetConfirmation, Reserve, KeepReservation
<1>5. \A p \in Products : lines[p] <= FreeGoods[p]
  BY <1>4 DEF TakeReservation, FreeGoods
<1>6. FreeGoods' = [p \in Products |-> FreeGoods[p] - lines[p]]
  BY <1>4, MaxQuantityAssumption
     DEF TakeReservation, Move, FreeGoods, Available, NoLines, TypeOK, StockTypeOK, Lines, Quantities
<1> QED
  BY <1>2, <1>4, <1>5, <1>6 DEF Contract!Promise, TakeReservation, Confirm, Indebted

LEMMA CancelDrops ==
    ASSUME Facts, NEW o \in Orders, CancelAfterConfirmation(o)
    PROVE  Contract!Drop(o)
<1> USE DEF Facts
<1>1. Contract!Go({o}, {"held"}, "dropped")
  <2>1. TransitionAll({o}, ReservedStatuses, "CANCELLED")
    BY DEF CancelAfterConfirmation, CancelHeld, Transition
  <2>2. ReservedStatuses \subseteq Statuses /\ "CANCELLED" \in Statuses /\ "CANCELLED" \in Dropped
    BY DEF Statuses, Dropped
  <2>3. Contract!Go({o}, {"held"}, PlaceOf("CANCELLED"))
    BY <2>1, <2>2, Places, TransitionGoes
  <2> QED
    BY <2>2, <2>3, Places
<1>2. FreeGoods' = [p \in Products |-> FreeGoods[p] + active[o][p]]
  BY MaxQuantityAssumption
     DEF CancelAfterConfirmation, Release, Move, Minus, FreeGoods, Available, NoLines, TypeOK,
         StockTypeOK, Lines, Quantities
<1> QED
  BY <1>1, <1>2 DEF Contract!Drop, Contract!Nothing, CancelAfterConfirmation, Release, NoLines, Indebted

LEMMA DeliverHandsOver ==
    ASSUME Facts, NEW d \in DeliveryIds, Deliver(d)
    PROVE  Contract!HandOver(d[1])
<1> USE DEF Facts
<1> DEFINE o == d[1]
<1>0. o \in Orders
  BY DEF DeliveryIds
<1>1. Contract!Go({o}, {"road"}, "handed")
  <2>1. TransitionAll({o}, {"IN_TRANSIT"}, "DELIVERED")
    BY DEF Deliver, DeliverOrder, Transition
  <2>2. "IN_TRANSIT" \in Statuses /\ "DELIVERED" \in Statuses /\ "DELIVERED" \in HandedOver
    BY DEF Statuses, HandedOver
  <2>3. Contract!Go({o}, {"road"}, PlaceOf("DELIVERED"))
    BY <1>0, <2>1, <2>2, Places, TransitionGoes
  <2> QED
    BY <2>2, <2>3, Places
<1>2. FreeGoods' = FreeGoods
  BY <1>0, MaxQuantityAssumption
     DEF Deliver, Ship, Move, Minus, FreeGoods, Available, TypeOK, StockTypeOK, Lines, Quantities
<1>3. Indebted' \in {Indebted, Indebted \cup {o}}
  BY <1>0 DEF Deliver, PostCharge, Indebted, TypeOK
<1> QED
  BY <1>0, <1>1, <1>2, <1>3 DEF Contract!HandOver, Contract!Nothing, Deliver, Ship, NoLines

LEMMA WarehouseRestocks ==
    ASSUME Facts, WarehouseMoves
    PROVE  Contract!Restock
<1> USE DEF Facts
<1>1. UNCHANGED <<status, active, charges>>
  BY DEF WarehouseMoves, KeepStock, ReturnToStock, Receive, ReturnIn, Adjust, WriteOff, MoveStock,
         OrdersStay, orderVars
<1>2. PICK delta : Move(delta, NoLines)
  BY DEF WarehouseMoves, KeepStock, ReturnToStock, Receive, ReturnIn, Adjust, WriteOff, MoveStock
<1>3. StockTypeOK'
  BY MoveGoodsType DEF WarehouseMoves, ReturnToStock, MoveGoods, TypeOK
<1>4. \A p \in Products : reserved'[p] \in 0..quantity'[p]
  BY <1>2 DEF Move, NoLines
<1>5. FreeGoods' \in [Products -> Nat]
  BY <1>3, <1>4, MaxQuantityAssumption DEF FreeGoods, Available, StockTypeOK, Lines, Quantities
<1> QED
  BY <1>1, <1>5 DEF Contract!Restock, Indebted

LEMMA OrderStepRefines ==
    ASSUME Facts, NEW o \in Orders, OrderStep(o)
    PROVE  Contract!Next \/ UNCHANGED Contract!handoverVars
<1> USE DEF Facts, OnlyOrdersMove, StockStays, Contract!Next
<1> DEFINE Goal == Contract!Next \/ UNCHANGED Contract!handoverVars
<1>0. /\ Early \subseteq Statuses /\ "NONE" \in Statuses /\ "NEW" \in Statuses
      /\ "NEW" \in Early /\ Dropped \subseteq Statuses
      /\ "REJECTED" \in Dropped /\ "CANCELLED" \in Dropped
  BY DEF Statuses, Early, Dropped
<1>1. ASSUME NEW lines \in RequestLines, Create(o, lines) PROVE Goal
  <2>1. Contract!Go({o}, {"nowhere"}, PlaceOf("NEW"))
    BY <1>0, <1>1, Places, TransitionGoes DEF Create, NewOrder, Transition
  <2>2. Contract!Ask(o)
    BY <1>0, <1>1, <2>1, Places, GoodsUnmoved DEF Create, Contract!Ask
  <2> QED
    BY <2>2
<1>2. ASSUME NEW lines \in Lines, NEW costs \in BOOLEAN, Confirm(o, lines, costs) PROVE Goal
  BY <1>2, ConfirmPromises
<1>3. ASSUME NEW to \in Dropped, TransitionAll({o}, Early, to), OnlyOrdersMove PROVE Goal
  <2>1. Contract!Go({o}, {"asked"}, PlaceOf(to))
    BY <1>0, <1>3, Places, TransitionGoes
  <2>2. Contract!Forget({o})
    BY <1>3, <2>1, Places, GoodsUnmoved DEF Contract!Forget
  <2> QED
    BY <2>2
<1>4. CASE Reject(o) \/ CancelBeforeConfirmation(o)
  BY <1>0, <1>3, <1>4 DEF Reject, RejectOrder, CancelBeforeConfirmation, CancelEarly, Transition
<1>5. CASE CancelAfterConfirmation(o)
  BY <1>5, CancelDrops
<1>6. ASSUME NEW from \in SUBSET Statuses, NEW to \in Statuses, TransitionAll({o}, from, to),
             \A s \in from : PlaceOf(s) = PlaceOf(to), StockStays, UNCHANGED charges
      PROVE Goal
  <2>1. \A q \in Orders : Place(q)' = Place(q)
    BY <1>6 DEF TransitionAll, Place, TypeOK, OrderTypeOK
  <2> QED
    BY <1>6, <2>1, StutterOfContract
<1>7. CASE View(o)
  <2>1. "VIEWED" \in Early /\ TransitionAll({o}, {"NEW"}, "VIEWED")
    BY <1>7 DEF View, MarkViewed, Transition, Early
  <2> QED
    BY <1>0, <1>6, <1>7, <2>1, Places DEF View
<1>8. CASE StartAssembling(o) \/ BecomeReady(o) \/ Reattempt(o)
  <2>1. PICK from \in SUBSET ReservedStatuses, to \in ReservedStatuses : TransitionAll({o}, from, to)
    BY <1>8 DEF StartAssembling, Assemble, BecomeReady, MarkReady, Reattempt, ReattemptOrder,
                Transition, ReservedStatuses
  <2>2. ReservedStatuses \subseteq Statuses
    BY DEF Statuses
  <2>3. StockStays /\ UNCHANGED charges
    BY <1>8 DEF StartAssembling, BecomeReady, Reattempt
  <2>4. from \in SUBSET Statuses /\ to \in Statuses /\ \A s \in from : PlaceOf(s) = PlaceOf(to)
    BY <2>2, Places
  <2> QED
    BY <1>6, <2>1, <2>3, <2>4
<1>9. CASE OpenDispute(o) \/ SettleDispute(o) \/ Complete(o)
  <2>1. PICK from \in SUBSET HandedOver, to \in HandedOver : TransitionAll({o}, from, to)
    BY <1>9 DEF OpenDispute, DisputeOrder, SettleDispute, CloseDispute, Complete, CompleteDue,
                Transition, HandedOver
  <2>2. HandedOver \subseteq Statuses
    BY DEF Statuses
  <2>3. StockStays /\ UNCHANGED charges
    BY <1>9 DEF OpenDispute, SettleDispute, Complete
  <2>4. from \in SUBSET Statuses /\ to \in Statuses /\ \A s \in from : PlaceOf(s) = PlaceOf(to)
    BY <2>2, Places
  <2> QED
    BY <1>6, <2>1, <2>3, <2>4
<1>10. CASE WindowEnds(o)
  BY <1>10, StutterOfContract DEF WindowEnds, DisputeWindowEnds, Place
<1> QED
  BY <1>1, <1>2, <1>4, <1>5, <1>7, <1>8, <1>9, <1>10 DEF OrderStep

\* Orders leave together, or one of them does.
LEMMA DispatchLeaves ==
    ASSUME Facts, NEW os \in SUBSET Orders, DispatchOrders(os), StockStays, UNCHANGED charges
    PROVE  Contract!Leave(os)
<1>1. "READY_FOR_DELIVERY" \in ReservedStatuses /\ {"READY_FOR_DELIVERY"} \in SUBSET Statuses
      /\ "IN_TRANSIT" \in Statuses
  BY DEF ReservedStatuses, Statuses
<1>2. Contract!Go(os, {"held"}, PlaceOf("IN_TRANSIT"))
  BY <1>1, Places, TransitionGoes DEF Facts, DispatchOrders
<1> QED
  BY <1>2, Places, GoodsUnmoved DEF Contract!Leave, StockStays

LEMMA DeliveryStepRefines ==
    ASSUME Facts, NEW d \in DeliveryIds, DeliveryStep(d)
    PROVE  Contract!Next \/ UNCHANGED Contract!handoverVars
<1> USE DEF Contract!Next
<1>0. d[1] \in Orders
  BY DEF DeliveryIds
<1>1. CASE Dispatch(d)
  BY <1>0, <1>1, DispatchLeaves DEF Dispatch
<1>2. CASE Deliver(d)
  BY <1>0, <1>2, DeliverHandsOver
<1>3. CASE Fail(d)
  <2>1. TransitionAll({d[1]}, {"IN_TRANSIT"}, "DELIVERY_FAILED")
    BY <1>3 DEF Fail, FailOrder, Transition
  <2>2. "DELIVERY_FAILED" \in ReservedStatuses /\ "DELIVERY_FAILED" \in Statuses
        /\ {"IN_TRANSIT"} \in SUBSET Statuses
    BY DEF ReservedStatuses, Statuses
  <2>3. Contract!Go({d[1]}, {"road"}, PlaceOf("DELIVERY_FAILED"))
    BY <1>0, <2>1, <2>2, Places, TransitionGoes DEF Facts
  <2>4. Contract!TurnBack(d[1])
    BY <1>3, <2>2, <2>3, Places, GoodsUnmoved DEF Contract!TurnBack, Fail, StockStays
  <2> QED
    BY <1>0, <2>4
<1>4. CASE OnlyDeliveriesMove
  BY <1>4, StutterOfContract DEF OnlyDeliveriesMove, OrdersStay, orderVars, StockStays, Place
<1> QED
  BY <1>1, <1>2, <1>3, <1>4
     DEF DeliveryStep, AssignCourier, UnassignCourier, CancelAttempt, ArriveAtStore

LEMMA OtherStepRefines ==
    ASSUME Facts,
           \/ \E r \in Runs : RunStep(r)
           \/ \E p \in Partnerships : AgreementStep(p)
           \/ SubscriptionMoves
           \/ CompanyMoves
           \/ WarehouseMoves
           \/ UNCHANGED vars
    PROVE  Contract!Next \/ UNCHANGED Contract!handoverVars
<1> USE DEF Contract!Next
<1> DEFINE Goal == Contract!Next \/ UNCHANGED Contract!handoverVars
<1>1. ASSUME NEW r \in Runs, StartRun(r) PROVE Goal
  <2>1. {d[1] : d \in Waiting(r)} \in SUBSET Orders
    BY DEF Waiting, Stops, DeliveryIds
  <2> QED
    BY <1>1, <2>1, DispatchLeaves DEF StartRun
<1>2. ASSUME UNCHANGED orderVars, UNCHANGED stockVars, UNCHANGED charges PROVE Goal
  BY <1>2, StutterOfContract DEF orderVars, Place
<1>3. ASSUME NEW p \in Partnerships, AgreementStep(p) PROVE Goal
  <2>1. CASE Suspend(p) \/ Reactivate(p)
    BY <1>2, <2>1 DEF Suspend, Reactivate, MovePartnership, StockStays, OrdersStay
  <2>2. CASE Terminate(p)
    <3>1. Unconfirmed(p) \in SUBSET Orders /\ Early \in SUBSET Statuses
          /\ "CANCELLED" \in Statuses /\ "CANCELLED" \in Dropped
      BY DEF Unconfirmed, Statuses, Dropped
    <3>2. Contract!Go(Unconfirmed(p), {"asked"}, PlaceOf("CANCELLED"))
      BY <2>2, <3>1, Places, TransitionGoes DEF Facts, Terminate, TerminateOrders
    <3>3. Contract!Forget(Unconfirmed(p))
      BY <2>2, <3>1, <3>2, Places, GoodsUnmoved
         DEF Contract!Forget, Terminate, MovePartnership, StockStays
    <3> QED
      BY <3>1, <3>3
  <2> QED
    BY <1>3, <2>1, <2>2 DEF AgreementStep
<1>4. CASE SubscriptionMoves \/ CompanyMoves
  BY <1>2, <1>4 DEF SubscriptionMoves, CompanyMoves, StockStays, OrdersStay
<1>5. CASE WarehouseMoves
  BY <1>5, WarehouseRestocks
<1>6. CASE OnlyDeliveriesMove \/ UNCHANGED vars
  BY <1>2, <1>6 DEF OnlyDeliveriesMove, StockStays, OrdersStay, vars
<1> QED
  BY <1>1, <1>3, <1>4, <1>5, <1>6 DEF RunStep, PlanRun, ChangeRun, CloseRun, DropRun

(***************************************************************************)
(* The composed system implements the contract: a promise is made out of   *)
(* free goods only and ends in a hand-over that is charged, or in a drop   *)
(* after which every piece is free again.                                  *)
(***************************************************************************)
THEOREM FulfilmentKeepsTheContract == Spec => KeepsTheContract
<1>1. Facts /\ [Next]_vars => [Contract!Next]_Contract!handoverVars
  BY OrderStepRefines, DeliveryStepRefines, OtherStepRefines DEF Next
<1>2. Spec => []Facts
  BY TypeCorrect, ReservationsFollowOrders, PTL DEF Facts
<1> QED
  BY <1>1, <1>2, InitRefines, PTL DEF Spec, KeepsTheContract, Contract!Spec
=============================================================================
