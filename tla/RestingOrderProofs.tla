-------------------------- MODULE RestingOrderProofs --------------------------
(***************************************************************************)
(* The services that read the resting orders, for every number of users,      *)
(* markets and slots.  Whatever others send between its calls, the keeper's    *)
(* transactions touch only the orders its snapshot showed; and the levels the   *)
(* book server sums by price lose what a match fills, the same on both sides.  *)
(***************************************************************************)
EXTENDS Keeper, BookBuilder, PositionProofs

\* A flattened sequence of sequences, up to its k-th part.
Flattened(g, q, k) == g = [i \in 1 .. k |-> IF i = 1 THEN q[i] ELSE g[i - 1] \o q[i]]

LEMMA FlattenedExists == ASSUME NEW q PROVE \A k \in Nat : \E g : Flattened(g, q, k)
  <1> DEFINE Done == {k \in Nat : \E g : Flattened(g, q, k)}
  <1>1. 0 \in Done
    <2>1. Flattened([i \in 1 .. 0 |-> q[i]], q, 0)
      BY DEF Flattened
    <2> QED
      BY <2>1
  <1>2. ASSUME NEW k \in Nat, k \in Done PROVE k + 1 \in Done
    <2>1. PICK g : g = [i \in 1 .. k |-> IF i = 1 THEN q[i] ELSE g[i - 1] \o q[i]]
      BY <1>2 DEF Flattened
    <2> DEFINE h == [i \in 1 .. k + 1 |-> IF i = 1 THEN q[i] ELSE g[i - 1] \o q[i]]
    <2>2. \A i \in 1 .. k : g[i] = h[i]
      <3> SUFFICES ASSUME NEW i \in 1 .. k PROVE g[i] = h[i]
        OBVIOUS
      <3>1. i \in 1 .. k + 1
        OBVIOUS
      <3>2. g[i] = IF i = 1 THEN q[i] ELSE g[i - 1] \o q[i]
        BY <2>1
      <3> QED
        BY <3>1, <3>2
    <2>3. \A i \in 1 .. k + 1 : i # 1 => i - 1 \in 1 .. k
      OBVIOUS
    <2>4. \A i \in 1 .. k + 1 : i # 1 => g[i - 1] = h[i - 1]
      BY <2>2, <2>3
    <2>5. h = [i \in 1 .. k + 1 |-> IF i = 1 THEN q[i] ELSE h[i - 1] \o q[i]]
      BY <2>4
    <2> HIDE DEF h
    <2>6. Flattened(h, q, k + 1)
      BY <2>5 DEF Flattened
    <2> QED
      BY <2>6
  <1>3. \A k \in Nat : k \in Done
    BY <1>1, <1>2, AllNumbers
  <1> QED
    BY <1>3

\* What is flattened keeps its elements' type.
LEMMA FlattenType ==
    ASSUME NEW S, NEW q \in Seq(Seq(S))
    PROVE  FlattenSeq(q) \in Seq(S)
  <1>1. CASE Len(q) = 0
    <2>1. q = <<>>
      BY <1>1
    <2> QED
      BY <1>1, <2>1 DEF FlattenSeq
  <1>2. CASE Len(q) # 0
    <2> DEFINE n == Len(q)
               g == CHOOSE f : Flattened(f, q, n)
    <2>1. n \in Nat \ {0} /\ \A i \in 1 .. n : q[i] \in Seq(S)
      BY <1>2
    <2>2. Flattened(g, q, n)
      BY <2>1, FlattenedExists
    <2>3. FlattenSeq(q) = g[n]
      BY <1>2 DEF FlattenSeq, Flattened
    <2> HIDE DEF g, n
    <2>4. \A i \in 1 .. n : g[i] = IF i = 1 THEN q[i] ELSE g[i - 1] \o q[i]
      BY <2>2 DEF Flattened
    <2> DEFINE Good == {k \in Nat : k + 1 <= n => g[k + 1] \in Seq(S)}
    <2>5. 0 \in Good
      <3>1. 1 \in 1 .. n
        BY <2>1
      <3> QED
        BY <2>1, <2>4, <3>1
    <2>6. ASSUME NEW k \in Nat, k \in Good PROVE k + 1 \in Good
      <3> SUFFICES ASSUME (k + 1) + 1 <= n PROVE g[(k + 1) + 1] \in Seq(S)
        OBVIOUS
      <3>1. (k + 1) + 1 \in 1 .. n /\ (k + 1) + 1 # 1 /\ ((k + 1) + 1) - 1 = k + 1
        BY <2>1
      <3>2. g[k + 1] \in Seq(S)
        BY <2>1, <2>6
      <3>3. g[(k + 1) + 1] = g[k + 1] \o q[(k + 1) + 1]
        BY <2>4, <3>1
      <3>4. q[(k + 1) + 1] \in Seq(S)
        BY <2>1, <3>1
      <3> QED
        BY <3>2, <3>3, <3>4
    <2> HIDE DEF Good
    <2>7. \A k \in Nat : k \in Good
      BY <2>5, <2>6, AllNumbers
    <2>8. n - 1 \in Nat /\ (n - 1) + 1 <= n /\ (n - 1) + 1 = n
      BY <2>1
    <2>9. n - 1 \in Good
      BY <2>7, <2>8
    <2> QED
      BY <2>3, <2>8, <2>9 DEF Good
  <1> QED
    BY <1>1, <1>2

-----------------------------------------------------------------------------
(* The snapshot and the chain *)

\* the snapshot shows an open order of u under this id
ShownAs(u, id) ==
    \E r \in OrderSlots : seen.orders[u][r].status = "Open" /\ seen.orders[u][r].id = id

\* transactions that name an order of the snapshot, and the bids and asks of its books
MeantCalls ==
    {c \in [kind : {"Liquidate", "Trigger", "Fill"}, user : Users, market : Nat, id : Nat] :
        c.kind # "Liquidate" => ShownAs(c.user, c.id)}
ShownOffers == {o \in [user : Users, id : Nat, price : Nat] : ShownAs(o.user, o.id)}

\* An id the snapshot shows was handed out, so no later order has it: what is open
\* under it is the order that was read.
SnapshotFollows ==
    \A u \in Users, r \in OrderSlots :
       seen.orders[u][r].status = "Open" =>
          /\ seen.orders[u][r].id < user[u].nextOrderId
          /\ \A s \in OrderSlots :
                orders[u][s].status = "Open" /\ orders[u][s].id = seen.orders[u][r].id
                   => SameOrder(orders[u][s], seen.orders[u][r])

SnapshotOK ==
    /\ "orders" \in DOMAIN seen
    /\ seen.orders \in [Users -> [OrderSlots -> OrderType]]

\* ActsOnSeenOrder is not inductive: it needs the snapshot to follow the chain, and
\* what the keeper is about to send to come from the snapshot.
KeeperInv ==
    /\ EngineInv /\ OrdersSound
    /\ moves \in Nat
    /\ SnapshotOK /\ SnapshotFollows
    /\ plan \in Seq(MeantCalls)
    /\ left \subseteq MarketIndexes
    /\ book \in [market : Nat, bids : Seq(ShownOffers), asks : Seq(ShownOffers)]
    /\ phase # "pair" => book = NoBook

\* An order that is worked on stays the order that was seen.
LEMMA WorkedFollows ==
    ASSUME EngineInv, SnapshotOK, SnapshotFollows, OrdersWorked, UNCHANGED seen
    PROVE  SnapshotFollows'
  <1> SUFFICES ASSUME NEW u \in Users, NEW r \in OrderSlots,
                      seen.orders[u][r].status = "Open"
               PROVE  /\ seen.orders[u][r].id < user'[u].nextOrderId
                      /\ \A s \in OrderSlots :
                            orders'[u][s].status = "Open"
                            /\ orders'[u][s].id = seen.orders[u][r].id
                               => SameOrder(orders'[u][s], seen.orders[u][r])
    BY DEF SnapshotFollows, SameOrder
  <1> DEFINE z == seen.orders[u][r]
  <1>1. /\ z.id < user[u].nextOrderId
        /\ \A s \in OrderSlots :
              orders[u][s].status = "Open" /\ orders[u][s].id = z.id
                 => SameOrder(orders[u][s], z)
    BY DEF SnapshotFollows
  <1>2. z \in OrderType
    BY DEF SnapshotOK
  <1> HIDE DEF z
  <1>3. user'[u].nextOrderId = user[u].nextOrderId
        /\ \A s \in OrderSlots : OrderWorked(u, s)
    BY DEF OrdersWorked
  <1>4. ASSUME NEW s \in OrderSlots, orders'[u][s].status = "Open",
               orders'[u][s].id = z.id
        PROVE  SameOrder(orders'[u][s], z)
    <2> DEFINE o == orders[u][s]
    <2>1. o \in OrderType
      BY DEF EngineInv, RestOK
    <2>2. CASE orders'[u][s] = o
      BY <1>1, <1>4, <2>2
    <2>3. ASSUME NEW n \in Nat, o.status = "Open", orders'[u][s] \in LeftOf(o, n)
          PROVE  SameOrder(orders'[u][s], z)
      <3> HIDE DEF o
      <3>1. orders'[u][s] = Filled(o, n)
        <4>1. DefaultOrder.status = "Init"
              /\ [Filled(o, n) EXCEPT !.status = "Init"].status = "Init"
          BY <2>1 DEF DefaultOrder, Filled, OrderType
        <4> QED
          BY <1>4, <2>3, <4>1 DEF LeftOf, FillAndMaybeClear
      <3>2. Filled(o, n) = [o EXCEPT !.filled = o.filled + n] /\ o.id = z.id
        BY <1>4, <2>1, <3>1 DEF Filled, OrderType
      <3>3. SameOrder(o, z)
        BY <1>1, <2>3, <3>2 DEF o
      <3>4. Filled(o, n).filled >= z.filled
        BY <1>2, <2>1, <3>2, <3>3 DEF SameOrder, OrderType
      <3>5. [Filled(o, n) EXCEPT !.filled = z.filled] = [o EXCEPT !.filled = z.filled]
        BY <2>1, <3>2 DEF OrderType
      <3> QED
        BY <3>1, <3>3, <3>4, <3>5 DEF SameOrder
    <2> QED
      BY <1>3, <2>2, <2>3 DEF OrderWorked
  <1> QED
    BY <1>1, <1>3, <1>4 DEF z

\* A new order has an id above all that were seen.
LEMMA PlacedFollows ==
    ASSUME EngineInv, SnapshotOK, SnapshotFollows, IdsLeft, UNCHANGED seen,
           NEW u \in Users, NEW m \in MarketIndexes, NEW spec \in OrderSpecs,
           PlaceOrder(u, m, spec)
    PROVE  SnapshotFollows'
  <1>1. /\ user'[u].nextOrderId = (user[u].nextOrderId + 1) % ORDER_ID_MODULUS
        /\ \A v \in Users \ {u} : user'[v] = user[v] /\ orders'[v] = orders[v]
    BY OrderPlaced
  <1>2. PICK s \in OrderSlots :
          /\ \A t \in OrderSlots \ {s} : orders'[u][t] = orders[u][t]
          /\ orders'[u][s].id = user[u].nextOrderId
    BY OrderPlaced
  <1>3. user[u].nextOrderId \in Nat /\ user[u].nextOrderId < ORDER_ID_MODULUS - 1
    BY DEF EngineInv, TradeOK, AccountsOK, UserType, IdsLeft
  <1>4. user'[u].nextOrderId = user[u].nextOrderId + 1
    BY <1>1, <1>3, StateAssumption
  <1> SUFFICES ASSUME NEW v \in Users, NEW r \in OrderSlots,
                      seen.orders[v][r].status = "Open"
               PROVE  /\ seen.orders[v][r].id < user'[v].nextOrderId
                      /\ \A t \in OrderSlots :
                            orders'[v][t].status = "Open"
                            /\ orders'[v][t].id = seen.orders[v][r].id
                               => SameOrder(orders'[v][t], seen.orders[v][r])
    BY DEF SnapshotFollows, SameOrder
  <1> DEFINE z == seen.orders[v][r]
  <1>5. /\ z.id < user[v].nextOrderId
        /\ \A t \in OrderSlots :
              orders[v][t].status = "Open" /\ orders[v][t].id = z.id
                 => SameOrder(orders[v][t], z)
    BY DEF SnapshotFollows
  <1>6. z.id \in Nat
    BY DEF SnapshotOK, OrderType
  <1> HIDE DEF z
  <1>7. CASE v # u
    BY <1>1, <1>5, <1>7 DEF z
  <1>8. CASE v = u
    <2>1. z.id < user'[v].nextOrderId /\ orders'[v][s].id # z.id
      BY <1>2, <1>3, <1>4, <1>5, <1>6, <1>8
    <2> QED
      BY <1>2, <1>5, <1>8, <2>1 DEF z
  <1> QED
    BY <1>7, <1>8

\* What everybody else does between two calls of the keeper.
LEMMA OthersFollow ==
    ASSUME EngineInv, SnapshotOK, SnapshotFollows, IdsLeft, UNCHANGED seen, Next
    PROVE  SnapshotFollows'
  BY StepOrders, WorkedFollows, PlacedFollows

-----------------------------------------------------------------------------
(* The keeper's transactions *)

\* A transaction of the keeper's is an instruction like any other: it leaves ids
\* alone and orders as they were, or filled in part.
LEMMA SentWorksOrders ==
    ASSUME EngineInv,
           \/ \E m : UpdateFundingRate(m)
           \/ \E c \in MeantCalls : Carried(c)
           \/ \E b, a \in ShownOffers : \E m \in Nat :
                 MatchOrders(b.user, a.user, m, b.id, a.id)
    PROVE  EngineInv' /\ OrdersWorked /\ CreatedMarkets' = CreatedMarkets
  <1>1. ASSUME NEW m, UpdateFundingRate(m)
        PROVE  EngineInv' /\ OrdersWorked /\ numMarkets' = numMarkets
    <2>1. m \in MarketIndexes /\ UNCHANGED <<user, orders, numMarkets>>
      BY <1>1 DEF UpdateFundingRate, CreatedMarkets
    <2>2. EngineInv'
      BY <1>1, <2>1, UpdateFundingRateKeeps
    <2>3. OrdersWorked
      BY <2>1, SameOrdersWorked DEF OrdersWorked
    <2> QED
      BY <2>1, <2>2, <2>3
  <1>2. Trade \/ SlotStep => OrdersWorked /\ numMarkets' = numMarkets
    <2>1. Trade \/ SlotStep => OrdersWorked
      BY TradeWorksOrders, TradeKeepsIds, SlotStepKeepsOrders, SameOrdersWorked
         DEF OrdersWorked
    <2>2. Trade \/ SlotStep => numMarkets' = numMarkets
      BY TradeMarkets DEF OneMarketTouched
    <2> QED
      BY <2>1, <2>2
  <1>3. ASSUME NEW c \in MeantCalls, Carried(c)
        PROVE  EngineInv' /\ OrdersWorked /\ numMarkets' = numMarkets
    <2>0. c.user \in Users
      BY DEF MeantCalls
    <2>1. CASE LiquidatePerp(c.user, c.market, 0)
      <3>1. c.market \in MarketIndexes
        BY <2>1 DEF LiquidatePerp, CreatedMarkets
      <3>2. EngineInv' /\ SlotStep
        BY <2>0, <2>1, <3>1, LiquidatePerpKeeps DEF SlotStep
      <3> QED
        BY <1>2, <3>2
    <2>2. CASE TriggerOrder(c.user, c.market, c.id)
      <3>1. c.market \in MarketIndexes
        BY <2>2 DEF TriggerOrder, CreatedMarkets
      <3>2. EngineInv' /\ Trade
        BY <2>0, <2>2, <3>1, TriggerOrderKeeps, TriggerOrderCloses
      <3> QED
        BY <1>2, <3>2
    <2>3. CASE FillOrder(c.user, c.market, c.id)
      <3>1. c.market \in MarketIndexes
        BY <2>3 DEF FillOrder, CreatedMarkets
      <3>2. EngineInv' /\ Trade
        BY <2>0, <2>3, <3>1, FillOrderKeeps, FillOrderTrades
      <3> QED
        BY <1>2, <3>2
    <2> QED
      BY <1>3, <2>1, <2>2, <2>3 DEF Carried
  <1>4. ASSUME NEW b \in ShownOffers, NEW a \in ShownOffers, NEW m \in Nat,
               MatchOrders(b.user, a.user, m, b.id, a.id)
        PROVE  EngineInv' /\ OrdersWorked /\ numMarkets' = numMarkets
    <2>1. b.user \in Users /\ a.user \in Users
      BY DEF ShownOffers
    <2>2. m \in MarketIndexes
      BY <1>4 DEF MatchOrders, CreatedMarkets
    <2>3. EngineInv' /\ Trade
      BY <1>4, <2>1, <2>2, MatchOrdersKeeps, MatchOrdersMatches
    <2> QED
      BY <1>2, <2>3
  <1> QED
    BY <1>1, <1>3, <1>4 DEF CreatedMarkets

\* A call changes the order it names or none.
LEMMA CallChangesMeant ==
    ASSUME EngineInv, NEW c \in MeantCalls, Carried(c), NEW u \in Users,
           NEW s \in OrderSlots, orders'[u][s] # orders[u][s]
    PROVE  /\ u = c.user /\ orders[u][s].status = "Open" /\ orders[u][s].id = c.id
           /\ ShownAs(u, orders[u][s].id)
  <1>0. orders \in [Users -> [OrderSlots -> OrderType]] /\ c.user \in Users
    BY DEF EngineInv, RestOK, MeantCalls
  <1>1. ~(c.kind = "Liquidate" /\ LiquidatePerp(c.user, c.market, 0))
    BY DEF LiquidatePerp
  <1>2. c.kind # "Liquidate"
    BY <1>1 DEF Carried
  <1>3. \E os \in OrderSlots : \E x :
           FoundOrder(c.user, c.id, os) /\ orders' = [orders EXCEPT ![c.user][os] = x]
    <2>1. CASE TriggerOrder(c.user, c.market, c.id)
      BY <2>1 DEF TriggerOrder
    <2>2. CASE FillOrder(c.user, c.market, c.id)
      BY <2>2 DEF FillOrder, FillOpening, FillReduceOnly
    <2> QED
      BY <1>2, <2>1, <2>2 DEF Carried
  <1>4. u = c.user /\ orders[u][s].status = "Open" /\ orders[u][s].id = c.id
    BY <1>0, <1>3 DEF FoundOrder
  <1> QED
    BY <1>2, <1>4 DEF MeantCalls

\* A match changes the orders of the bid and the ask.
LEMMA MatchChangesMeant ==
    ASSUME EngineInv, NEW b \in ShownOffers, NEW a \in ShownOffers, NEW m,
           MatchOrders(b.user, a.user, m, b.id, a.id), NEW u \in Users,
           NEW s \in OrderSlots, orders'[u][s] # orders[u][s]
    PROVE  /\ \E o \in {b, a} : o.user = u /\ o.id = orders[u][s].id
           /\ orders[u][s].status = "Open"
           /\ ShownAs(u, orders[u][s].id)
  <1>0. /\ orders \in [Users -> [OrderSlots -> OrderType]]
        /\ b.user \in Users /\ a.user \in Users
        /\ ShownAs(b.user, b.id) /\ ShownAs(a.user, a.id)
    BY DEF EngineInv, RestOK, ShownOffers
  <1> DEFINE n(ts, ms) == Least(RemainingBase(orders[b.user][ts]),
                                RemainingBase(orders[a.user][ms]))
             x(ts, ms) == FillAndMaybeClear(orders[b.user][ts], n(ts, ms))
             y(ts, ms) == FillAndMaybeClear(orders[a.user][ms], n(ts, ms))
  <1>1. PICK ts \in OrderSlots, ms \in OrderSlots :
          /\ Matchable(b.user, b.id, m, ts) /\ Matchable(a.user, a.id, m, ms)
          /\ orders' = [orders EXCEPT ![b.user][ts] = x(ts, ms), ![a.user][ms] = y(ts, ms)]
    BY DEF MatchOrders
  <1> HIDE DEF x, y
  <1>2. <<u, s>> = <<b.user, ts>> \/ <<u, s>> = <<a.user, ms>>
    BY <1>0, <1>1
  <1> QED
    BY <1>0, <1>1, <1>2 DEF FoundOrder, Matchable

-----------------------------------------------------------------------------
(* The invariant *)

ProgramOK == EngineInv /\ OrdersSound

\* what the keeper itself keeps
PassOK ==
    /\ plan \in Seq(MeantCalls)
    /\ left \subseteq MarketIndexes
    /\ book \in [market : Nat, bids : Seq(ShownOffers), asks : Seq(ShownOffers)]
    /\ phase # "pair" => book = NoBook

LEMMA SameProgram ==
    ASSUME ProgramOK, UNCHANGED vars
    PROVE  ProgramOK'
  <1>1. EngineInv'
    BY NextEngineInv DEF ProgramOK
  <1> QED
    BY <1>1 DEF ProgramOK, vars, OrdersSound, CreatedMarkets

\* The keeper starts, or starts a pass, knowing nothing.
LEMMA NothingSeenOK ==
    /\ "orders" \in DOMAIN NothingSeen
    /\ NothingSeen.orders \in [Users -> [OrderSlots -> OrderType]]
    /\ \A u \in Users, r \in OrderSlots : NothingSeen.orders[u][r].status # "Open"
  <1>1. DefaultOrder \in OrderType /\ DefaultOrder.status # "Open"
    BY DEF DefaultOrder, OrderType, OrderTypes, Directions, Conditions
  <1>2. NothingSeen.orders = [u \in Users |-> [s \in OrderSlots |-> DefaultOrder]]
        /\ "orders" \in DOMAIN NothingSeen
    BY DEF NothingSeen
  <1> HIDE DEF DefaultOrder, NothingSeen
  <1> QED
    BY <1>1, <1>2

LEMMA KeeperStarts == Init /\ KeeperInit /\ moves = 0 => KeeperInv
  <1> SUFFICES ASSUME Init, KeeperInit, moves = 0 PROVE KeeperInv
    OBVIOUS
  <1>1. EngineInv /\ OrdersSound
    BY InitEngineInv DEF Init, OrdersSound, DefaultOrder
  <1>2. SnapshotOK /\ SnapshotFollows
    BY NothingSeenOK DEF KeeperInit, IdleKeeper, SnapshotOK, SnapshotFollows
  <1>3. plan \in Seq(MeantCalls) /\ left \subseteq MarketIndexes
    BY DEF KeeperInit, IdleKeeper
  <1>4. book \in [market : Nat, bids : Seq(ShownOffers), asks : Seq(ShownOffers)]
    <2>1. book = [market |-> 0, bids |-> <<>>, asks |-> <<>>]
      BY DEF KeeperInit, IdleKeeper, NoBook
    <2>2. <<>> \in Seq(ShownOffers)
      OBVIOUS
    <2> QED
      BY <2>1, <2>2
  <1> QED
    BY <1>1, <1>2, <1>3, <1>4 DEF KeeperInv, KeeperInit, IdleKeeper

LEMMA RestInv ==
    ASSUME KeeperInv, Rest, UNCHANGED <<vars, moves>>
    PROVE  KeeperInv'
  <1>1. EngineInv' /\ OrdersSound' /\ moves' \in Nat
    BY SameProgram DEF KeeperInv, ProgramOK
  <1>2. SnapshotOK' /\ SnapshotFollows'
    BY NothingSeenOK DEF Rest, SnapshotOK, SnapshotFollows
  <1>3. plan' \in Seq(MeantCalls)' /\ (left \subseteq MarketIndexes)'
    BY DEF Rest
  <1>4. (book \in [market : Nat, bids : Seq(ShownOffers), asks : Seq(ShownOffers)])'
    <2>1. book' = [market |-> 0, bids |-> <<>>, asks |-> <<>>]
      BY DEF Rest, NoBook
    <2>2. <<>> \in Seq(ShownOffers')
      OBVIOUS
    <2> QED
      BY <2>1, <2>2
  <1> QED
    BY <1>1, <1>2, <1>3, <1>4 DEF KeeperInv, Rest, NoBook

\* A step that keeps what was read of the orders, sends nothing and gives the rest of
\* the pass its type.
LEMMA QuietInv ==
    ASSUME KeeperInv, UNCHANGED <<vars, moves>>, "orders" \in DOMAIN seen',
           seen'.orders = seen.orders, PassOK => PassOK'
    PROVE  KeeperInv'
  <1>1. EngineInv' /\ OrdersSound' /\ moves' \in Nat
    BY SameProgram DEF KeeperInv, ProgramOK
  <1>2. SnapshotOK'
    BY DEF KeeperInv, SnapshotOK
  <1>3. UNCHANGED <<user, orders>>
    BY DEF vars
  <1>4. SnapshotFollows'
    BY <1>3 DEF KeeperInv, SnapshotFollows, SameOrder
  <1> QED
    BY <1>1, <1>2, <1>4 DEF KeeperInv, PassOK

\* Sets of what the snapshot shows do not change with the rest of it.
LEMMA SameShown ==
    ASSUME seen'.orders = seen.orders
    PROVE  MeantCalls' = MeantCalls /\ ShownOffers' = ShownOffers
  BY DEF MeantCalls, ShownOffers, ShownAs

LEMMA FetchStateInv ==
    ASSUME KeeperInv, FetchState \/ FetchMarket
    PROVE  KeeperInv'
  <1>1. UNCHANGED <<vars, plan, left, book, moves>> /\ phase # "pair"
    BY DEF FetchState, FetchMarket
  <1>2. "orders" \in DOMAIN seen' /\ seen'.orders = seen.orders
    <2>1. "orders" \in DOMAIN seen
      BY DEF KeeperInv, SnapshotOK
    <2>2. ASSUME seen' = [seen EXCEPT !.numMarkets = numMarkets]
          PROVE  "orders" \in DOMAIN seen' /\ seen'.orders = seen.orders
      BY <2>1, <2>2
    <2>3. ASSUME NEW x, NEW y, seen' = [seen EXCEPT !.market[at] = x, !.amm[at] = y]
          PROVE  "orders" \in DOMAIN seen' /\ seen'.orders = seen.orders
      BY <2>1, <2>3
    <2> QED
      BY <2>2, <2>3 DEF FetchState, FetchMarket
  <1>3. PassOK => PassOK'
    <2>1. phase = "pair" => FALSE
      BY <1>1
    <2> QED
      BY <1>1, <1>2, <2>1, SameShown DEF PassOK, NoBook
  <1> QED
    BY <1>1, <1>2, <1>3, QuietInv

-----------------------------------------------------------------------------
(* Reading the users *)

\* A listing of a finite set is a sequence of its elements.
LEMMA ListingType ==
    ASSUME NEW S, IsFiniteSet(S), NEW q \in SetToSeqs(S)
    PROVE  q \in Seq(S)
  <1>1. Cardinality(S) \in Nat
    BY FS_CardinalityType
  <1>2. q \in [1 .. Cardinality(S) -> S]
    BY DEF SetToSeqs
  <1> QED
    BY <1>1, <1>2

\* what a scan of this snapshot sends names orders of the snapshot
LEMMA CallsOfUser ==
    ASSUME EngineInv, NEW u \in Users, seen'.orders = orders
    PROVE  PositionCalls(u) \o OrderCalls(u) \in Seq(MeantCalls')
  <1> DEFINE S == MeantCalls'
  <1>0. /\ positions[u] \in [PositionSlots -> PositionType]
        /\ orders[u] \in [OrderSlots -> OrderType]
        /\ PositionSlots = 1 .. MAX_POSITIONS /\ OrderSlots = 1 .. MAX_ORDERS
        /\ MAX_POSITIONS \in Nat /\ MAX_ORDERS \in Nat
    BY StateAssumption DEF EngineInv, TradeOK, PositionsOK, RestOK, PositionSlots, OrderSlots
  <1>1. ASSUME NEW c \in [kind : {"Liquidate", "Trigger", "Fill"}, user : Users,
                          market : Nat, id : Nat],
               c.kind # "Liquidate" => \E r \in OrderSlots : orders[c.user][r].status = "Open"
                                                      /\ orders[c.user][r].id = c.id
        PROVE  c \in S
    BY <1>1 DEF MeantCalls, ShownAs
  <1> HIDE DEF S
  <1> DEFINE p(s) == IF positions[u][s].base # 0 /\ positions[u][s].market \in SeenMarkets
                        /\ LooksUnsafe(user[u], positions[u][s])
                     THEN <<Call("Liquidate", u, positions[u][s].market, 0)>> ELSE <<>>
             o(s) == IF orders[u][s].status # "Open" \/ orders[u][s].market \notin SeenMarkets
                     THEN <<>>
                     ELSE IF LooksDue(orders[u][s])
                     THEN <<Call("Trigger", u, orders[u][s].market, orders[u][s].id)>>
                     ELSE IF LooksFillable(orders[u][s])
                     THEN <<Call("Fill", u, orders[u][s].market, orders[u][s].id)>>
                     ELSE <<>>
  <1>2. ASSUME NEW s \in PositionSlots PROVE p(s) \in Seq(S)
    <2>1. positions[u][s].market \in Nat
      BY <1>0 DEF PositionType
    <2>2. Call("Liquidate", u, positions[u][s].market, 0) \in S
      BY <1>1, <2>1 DEF Call
    <2> QED
      BY <2>2
  <1>3. ASSUME NEW s \in OrderSlots PROVE o(s) \in Seq(S)
    <2>1. orders[u][s].market \in Nat /\ orders[u][s].id \in Nat
      BY <1>0 DEF OrderType
    <2>2. ASSUME orders[u][s].status = "Open", NEW k \in {"Trigger", "Fill"}
          PROVE  Call(k, u, orders[u][s].market, orders[u][s].id) \in S
      BY <1>1, <2>1, <2>2 DEF Call
    <2> QED
      BY <2>2
  <1> HIDE DEF p, o
  <1>4. [s \in PositionSlots |-> p(s)] \in Seq(Seq(S))
    BY <1>0, <1>2
  <1>5. [s \in OrderSlots |-> o(s)] \in Seq(Seq(S))
    BY <1>0, <1>3
  <1>6. PositionCalls(u) = FlattenSeq([s \in PositionSlots |-> p(s)])
        /\ OrderCalls(u) = FlattenSeq([s \in OrderSlots |-> o(s)])
    BY DEF PositionCalls, OrderCalls, p, o
  <1>7. PositionCalls(u) \in Seq(S) /\ OrderCalls(u) \in Seq(S)
    BY <1>4, <1>5, <1>6, FlattenType
  <1> QED
    BY <1>7 DEF S

LEMMA FetchUsersInv ==
    ASSUME KeeperInv, FetchUsers
    PROVE  KeeperInv'
  <1>0. EngineInv /\ OrdersSound
    BY DEF KeeperInv
  <1>1. UNCHANGED <<vars, left, book, moves>> /\ phase # "pair" /\ phase' # "pair"
    BY DEF FetchUsers
  <1>2. EngineInv' /\ OrdersSound' /\ moves' \in Nat
    BY <1>1, SameProgram DEF KeeperInv, ProgramOK
  <1>3. "orders" \in DOMAIN seen' /\ seen'.orders = orders
    BY DEF FetchUsers, KeeperInv, SnapshotOK
  <1>4. SnapshotOK'
    BY <1>0, <1>3 DEF SnapshotOK, EngineInv, RestOK
  <1>5. SnapshotFollows'
    <2> SUFFICES ASSUME NEW u \in Users, NEW r \in OrderSlots,
                        orders[u][r].status = "Open"
                 PROVE  /\ orders[u][r].id < user[u].nextOrderId
                        /\ \A s \in OrderSlots :
                              orders[u][s].status = "Open" /\ orders[u][s].id = orders[u][r].id
                                 => SameOrder(orders[u][s], orders[u][r])
      BY <1>1, <1>3 DEF SnapshotFollows, SameOrder, vars
    <2>1. orders[u][r].id < user[u].nextOrderId
          /\ \A s \in OrderSlots \ {r} :
                orders[u][s].status = "Open" => orders[u][s].id # orders[u][r].id
      BY <1>0 DEF OrdersSound
    <2>2. SameOrder(orders[u][r], orders[u][r])
      BY <1>0 DEF SameOrder, EngineInv, RestOK, OrderType
    <2> QED
      BY <2>1, <2>2
  <1>6. plan' \in Seq(MeantCalls')
    <2>1. PICK listed \in SetToSeqs({u \in Users : user[u].exists}) :
            plan' = FlattenSeq([i \in DOMAIN listed |->
                                  PositionCalls(listed[i]) \o OrderCalls(listed[i])])
      BY DEF FetchUsers
    <2>2. IsFiniteSet({u \in Users : user[u].exists})
      BY StateAssumption, FS_Subset
    <2>3. listed \in Seq({u \in Users : user[u].exists})
      BY <2>2, ListingType
    <2>4. \A i \in DOMAIN listed : listed[i] \in Users
      BY <2>3
    <2> DEFINE calls(i) == PositionCalls(listed[i]) \o OrderCalls(listed[i])
               S == MeantCalls'
    <2>5. \A i \in DOMAIN listed : calls(i) \in Seq(S)
      BY <1>0, <1>3, <2>4, CallsOfUser
    <2>6. DOMAIN listed = 1 .. Len(listed) /\ Len(listed) \in Nat
      BY <2>3
    <2>7. plan' = FlattenSeq([i \in DOMAIN listed |-> calls(i)])
      BY <2>1
    <2> HIDE DEF calls, S
    <2>8. [i \in DOMAIN listed |-> calls(i)] \in Seq(Seq(S))
      BY <2>5, <2>6
    <2>9. plan' \in Seq(S)
      BY <2>7, <2>8, FlattenType
    <2> QED
      BY <2>9 DEF S
  <1>7. book' = [market |-> 0, bids |-> <<>>, asks |-> <<>>] /\ book' = NoBook
    BY <1>1 DEF KeeperInv, NoBook
  <1>8. (book \in [market : Nat, bids : Seq(ShownOffers), asks : Seq(ShownOffers)])'
    <2>1. <<>> \in Seq(ShownOffers')
      OBVIOUS
    <2> QED
      BY <1>7, <2>1
  <1>9. NoBook' = NoBook
    BY DEF NoBook
  <1> QED
    BY <1>1, <1>2, <1>4, <1>5, <1>6, <1>7, <1>8, <1>9 DEF KeeperInv

-----------------------------------------------------------------------------
(* Matching, and what is sent *)

LEMMA OffersOfSnapshot ==
    ASSUME KeeperInv, NEW m \in MarketIndexes, NEW dir
    PROVE  Resting(m, dir) \subseteq ShownOffers /\ IsFiniteSet(Resting(m, dir))
  <1> DEFINE order(w) == seen.orders[w[1]][w[2]]
             open     == {v \in Users \X OrderSlots : Rests(order(v), m) /\ order(v).dir = dir}
             offer(w) == [user |-> w[1], id |-> order(w).id, price |-> order(w).price]
  <1>1. Resting(m, dir) = {offer(w) : w \in open}
    BY DEF Resting
  <1>2. IsFiniteSet(open)
    <2>1. IsFiniteSet(OrderSlots)
      BY StateAssumption, FS_Interval DEF OrderSlots
    <2>2. IsFiniteSet(Users \X OrderSlots)
      BY <2>1, StateAssumption, FS_Product
    <2> QED
      BY <2>2, FS_Subset
  <1>3. ASSUME NEW w \in open PROVE offer(w) \in ShownOffers
    <2>1. w[1] \in Users /\ w[2] \in OrderSlots /\ order(w).status = "Open"
      BY DEF Rests
    <2>2. order(w) \in OrderType
      BY <2>1 DEF KeeperInv, SnapshotOK
    <2>3. order(w).id \in Nat /\ order(w).price \in Nat
      BY <2>2 DEF OrderType
    <2>4. ShownAs(w[1], order(w).id)
      BY <2>1 DEF ShownAs
    <2> HIDE DEF order
    <2> QED
      BY <2>1, <2>3, <2>4 DEF ShownOffers
  <1> HIDE DEF offer, open
  <1>4. IsFiniteSet({offer(w) : w \in open})
    <2> DEFINE T == {offer(w) : w \in open}
               f == [w \in open |-> offer(w)]
    <2>1. f \in Surjection(open, T)
      BY DEF Surjection
    <2> HIDE DEF f, T
    <2>2. IsFiniteSet(T)
      BY <1>2, <2>1, FS_Surjection
    <2> QED
      BY <2>2 DEF T
  <1> QED
    BY <1>1, <1>3, <1>4

LEMMA MatchingInv ==
    ASSUME KeeperInv, ScanEnds \/ OpenBook \/ SkipOwnAsk \/ CloseBook
    PROVE  KeeperInv'
  <1>1. UNCHANGED <<vars, seen, plan, moves>>
    BY DEF ScanEnds, OpenBook, SkipOwnAsk, CloseBook
  <1>2. MeantCalls' = MeantCalls /\ ShownOffers' = ShownOffers
    BY <1>1, SameShown
  <1>3. PassOK
    BY DEF KeeperInv, PassOK
  <1>4. SUFFICES PassOK'
    BY <1>1, QuietInv DEF KeeperInv, SnapshotOK
  <1>5. CASE ScanEnds
    BY <1>1, <1>2, <1>3, <1>5 DEF ScanEnds, PassOK, SeenMarkets, NoBook
  <1>6. CASE OpenBook
    <2>1. PICK m \in left :
            \E bids \in SetToSeqs(Resting(m, "Long")), asks \in SetToSeqs(Resting(m, "Short")) :
               /\ book' = [market |-> m, bids |-> bids, asks |-> asks]
               /\ left' = left \ {m}
      BY <1>6 DEF OpenBook
    <2>2. m \in MarketIndexes /\ m \in Nat
      BY <1>3, StateAssumption DEF PassOK
    <2>3. PICK bids \in SetToSeqs(Resting(m, "Long")) :
            \E asks \in SetToSeqs(Resting(m, "Short")) :
               book' = [market |-> m, bids |-> bids, asks |-> asks]
      BY <2>1
    <2>4. PICK asks \in SetToSeqs(Resting(m, "Short")) :
            book' = [market |-> m, bids |-> bids, asks |-> asks]
      BY <2>3
    <2>5. bids \in Seq(Resting(m, "Long"))
      BY <2>2, OffersOfSnapshot, ListingType
    <2>6. asks \in Seq(Resting(m, "Short"))
      BY <2>2, OffersOfSnapshot, ListingType
    <2>7. Resting(m, "Long") \subseteq ShownOffers /\ Resting(m, "Short") \subseteq ShownOffers
      BY <2>2, OffersOfSnapshot
    <2>8. bids \in Seq(ShownOffers) /\ asks \in Seq(ShownOffers)
      BY <2>5, <2>6, <2>7
    <2>9. book' \in [market : Nat, bids : Seq(ShownOffers), asks : Seq(ShownOffers)]
      BY <2>2, <2>4, <2>8
    <2>10. left' \subseteq MarketIndexes /\ phase' = "pair"
      BY <1>3, <1>6, <2>1 DEF OpenBook, PassOK
    <2> QED
      BY <1>1, <1>2, <1>3, <2>9, <2>10 DEF PassOK
  <1>7. CASE SkipOwnAsk
    <2>1. book' = [book EXCEPT !.asks = Tail(book.asks)] /\ book.asks # <<>>
          /\ phase' = "pair" /\ UNCHANGED left
      BY <1>7 DEF SkipOwnAsk, AskPassedOver, OwnPair, BothLeft
    <2>2. book.asks \in Seq(ShownOffers)
      BY <1>3 DEF PassOK
    <2>3. Tail(book.asks) \in Seq(ShownOffers)
      BY <2>1, <2>2
    <2> QED
      BY <1>1, <1>2, <1>3, <2>1, <2>3 DEF PassOK
  <1>8. CASE CloseBook
    <2>1. book' = [market |-> 0, bids |-> <<>>, asks |-> <<>>] /\ book' = NoBook'
          /\ UNCHANGED left
      BY <1>8 DEF CloseBook, NoBook
    <2>2. <<>> \in Seq(ShownOffers)
      OBVIOUS
    <2> QED
      BY <1>1, <1>2, <1>3, <2>1, <2>2 DEF PassOK
  <1> QED
    BY <1>5, <1>6, <1>7, <1>8

\* What a transaction of the keeper's changes on the chain.
LEMMA SentInv ==
    ASSUME KeeperInv, UNCHANGED <<seen, moves>>, PassOK',
           EngineInv' /\ OrdersWorked /\ CreatedMarkets' = CreatedMarkets
    PROVE  KeeperInv'
  <1>1. OrdersSound'
    BY WorkedOrdersSound DEF KeeperInv
  <1>2. SnapshotFollows'
    BY WorkedFollows DEF KeeperInv
  <1> QED
    BY <1>1, <1>2 DEF KeeperInv, PassOK, SnapshotOK

LEMMA CrankFundingInv ==
    ASSUME KeeperInv, CrankFunding
    PROVE  KeeperInv' /\ UNCHANGED <<seen, orders>>
  <1>1. UNCHANGED <<seen, plan, left, book, moves>> /\ phase = "crank"
        /\ (UpdateFundingRate(at) \/ UNCHANGED vars)
    BY DEF CrankFunding, Refused, Lost
  <1>2. PassOK'
    <2>1. PassOK /\ phase' # "pair"
      BY DEF KeeperInv, PassOK, CrankFunding
    <2> QED
      BY <1>1, <2>1, SameShown DEF PassOK, NoBook
  <1>3. CASE UpdateFundingRate(at)
    <2>1. EngineInv' /\ OrdersWorked /\ CreatedMarkets' = CreatedMarkets
      BY <1>3, SentWorksOrders DEF KeeperInv
    <2>2. UNCHANGED orders
      BY <1>3 DEF UpdateFundingRate
    <2> QED
      BY <1>1, <1>2, <2>1, <2>2, SentInv
  <1>4. CASE UNCHANGED vars
    <2>1. UNCHANGED orders
      BY <1>4 DEF vars
    <2> QED
      BY <1>1, <1>2, <1>4, <2>1, QuietInv DEF KeeperInv, SnapshotOK
  <1> QED
    BY <1>1, <1>3, <1>4

\* The call at the head of the plan takes effect, or none does.
LEMMA SendCallInv ==
    ASSUME KeeperInv, SendCall
    PROVE  /\ KeeperInv'
           /\ (UNCHANGED orders \/ (Carried(Head(plan)) /\ Head(plan) \in MeantCalls))
  <1>1. UNCHANGED <<seen, left, book, moves, phase>> /\ phase = "scan" /\ plan # <<>>
        /\ (Carried(Head(plan)) \/ UNCHANGED vars) /\ plan' = Tail(plan)
    BY DEF SendCall, Refused, Lost
  <1>2. PassOK
    BY DEF KeeperInv, PassOK
  <1>3. Head(plan) \in MeantCalls /\ Tail(plan) \in Seq(MeantCalls)
    BY <1>1, <1>2 DEF PassOK
  <1>4. PassOK'
    BY <1>1, <1>2, <1>3, SameShown DEF PassOK, NoBook
  <1>5. CASE Carried(Head(plan))
    <2>1. EngineInv' /\ OrdersWorked /\ CreatedMarkets' = CreatedMarkets
      BY <1>3, <1>5, SentWorksOrders DEF KeeperInv
    <2> QED
      BY <1>1, <1>3, <1>4, <1>5, <2>1, SentInv
  <1>6. CASE UNCHANGED vars
    <2>1. UNCHANGED orders
      BY <1>6 DEF vars
    <2> QED
      BY <1>1, <1>4, <1>6, <2>1, QuietInv DEF KeeperInv, SnapshotOK
  <1> QED
    BY <1>1, <1>5, <1>6

\* The match of the best bid and ask left takes effect, or nothing does.
LEMMA SendMatchInv ==
    ASSUME KeeperInv, SendMatch
    PROVE  /\ KeeperInv'
           /\ \/ UNCHANGED orders
              \/ LET b == Head(book.bids)
                     a == Head(book.asks)
                 IN  /\ MatchOrders(b.user, a.user, book.market, b.id, a.id)
                     /\ b \in ShownOffers /\ a \in ShownOffers
  <1> DEFINE b == Head(book.bids)
             a == Head(book.asks)
             send == MatchOrders(b.user, a.user, book.market, b.id, a.id)
  <1>1. UNCHANGED <<seen, plan, left, moves, phase>> /\ phase = "pair" /\ (send \/ UNCHANGED vars)
        /\ book.bids # <<>> /\ book.asks # <<>>
        /\ book' = [book EXCEPT !.bids = Tail(book.bids), !.asks = Tail(book.asks)]
    BY DEF SendMatch, Refused, Lost, CrossedPair, BothLeft
  <1>2. PassOK
    BY DEF KeeperInv, PassOK
  <1>3. book.bids \in Seq(ShownOffers) /\ book.asks \in Seq(ShownOffers) /\ book.market \in Nat
    BY <1>2 DEF PassOK
  <1>4. /\ b \in ShownOffers /\ Tail(book.bids) \in Seq(ShownOffers)
        /\ a \in ShownOffers /\ Tail(book.asks) \in Seq(ShownOffers)
    BY <1>1, <1>3
  <1>5. book' \in [market : Nat, bids : Seq(ShownOffers), asks : Seq(ShownOffers)]
    BY <1>1, <1>2, <1>4 DEF PassOK
  <1>6. PassOK'
    BY <1>1, <1>2, <1>5, SameShown DEF PassOK
  <1>7. CASE send
    <2> HIDE DEF b, a
    <2>1. EngineInv' /\ OrdersWorked /\ CreatedMarkets' = CreatedMarkets
      BY <1>3, <1>4, <1>7, SentWorksOrders DEF KeeperInv
    <2>2. KeeperInv'
      BY <1>1, <1>6, <2>1, SentInv
    <2> QED
      BY <1>4, <1>7, <2>2 DEF b, a
  <1>8. CASE UNCHANGED vars
    <2>1. UNCHANGED orders
      BY <1>8 DEF vars
    <2> QED
      BY <1>1, <1>6, <1>8, <2>1, QuietInv DEF KeeperInv, SnapshotOK
  <1> QED
    BY <1>1, <1>7, <1>8

LEMMA OthersInv ==
    ASSUME KeeperInv, IdsLeft, Others
    PROVE  KeeperInv' /\ moves' # moves
  <1>1. Next /\ UNCHANGED <<phase, at, seen, plan, left, book>> /\ moves' = moves + 1
        /\ moves \in Nat
    BY DEF Others, pass, KeeperInv
  <1>2. EngineInv' /\ OrdersSound'
    BY <1>1, NextEngineInv, NextOrdersSound DEF KeeperInv
  <1>3. SnapshotFollows'
    BY <1>1, OthersFollow DEF KeeperInv
  <1>4. PassOK'
    <2>1. PassOK
      BY DEF KeeperInv, PassOK
    <2> QED
      BY <1>1, <2>1, SameShown DEF PassOK, NoBook
  <1> QED
    BY <1>1, <1>2, <1>3, <1>4 DEF KeeperInv, PassOK, SnapshotOK

LEMMA KeeperNextInv ==
    ASSUME KeeperInv, IdsLeft, [KeeperNext]_kvars
    PROVE  KeeperInv'
  <1>1. CASE ReadFails \/ Restarts \/ PassEnds
    BY <1>1, RestInv DEF ReadFails, Restarts, PassEnds
  <1>2. CASE UNCHANGED kvars
    <2>1. UNCHANGED <<vars, seen, plan, left, book, moves, phase>>
      BY <1>2 DEF kvars, pass
    <2>2. PassOK => PassOK'
      BY <2>1, SameShown DEF PassOK, NoBook
    <2> QED
      BY <2>1, <2>2, QuietInv DEF KeeperInv, SnapshotOK
  <1> QED
    BY <1>1, <1>2, FetchStateInv, FetchUsersInv, MatchingInv, CrankFundingInv, SendCallInv,
       SendMatchInv, OthersInv DEF KeeperNext, KeeperStep

\* The order a meant transaction changes is the one that was seen under its id.
LEMMA SeenUnderId ==
    ASSUME KeeperInv, NEW u \in Users, NEW s \in OrderSlots,
           orders[u][s].status = "Open", ShownAs(u, orders[u][s].id)
    PROVE  \E r \in OrderSlots : SameOrder(orders[u][s], seen.orders[u][r])
  BY DEF KeeperInv, SnapshotFollows, ShownAs

LEMMA KeeperNextSeen ==
    ASSUME KeeperInv, IdsLeft, [KeeperNext]_kvars
    PROVE  [SeenOrderStep]_kvars
  <1> SUFFICES ASSUME KeeperNext, moves' = moves, NEW u \in Users, NEW s \in OrderSlots,
                      orders'[u][s] # orders[u][s]
               PROVE  /\ Meant(u, orders[u][s].id)
                      /\ \E r \in OrderSlots : SameOrder(orders[u][s], seen.orders[u][r])
    BY DEF SeenOrderStep
  <1>0. EngineInv
    BY DEF KeeperInv
  <1>1. ~Others
    BY OthersInv
  <1>2. ~(FetchState \/ FetchMarket \/ FetchUsers \/ ScanEnds \/ OpenBook \/ SkipOwnAsk
            \/ CloseBook \/ PassEnds \/ ReadFails \/ Restarts)
    BY DEF FetchState, FetchMarket, FetchUsers, ScanEnds, OpenBook, SkipOwnAsk, CloseBook,
           PassEnds, ReadFails, Restarts, vars
  <1>3. ~CrankFunding
    BY CrankFundingInv
  <1>4. CASE SendCall
    <2> DEFINE c == Head(plan)
    <2>1. Carried(c) /\ c \in MeantCalls /\ phase = "scan"
      BY <1>4, SendCallInv DEF SendCall
    <2> HIDE DEF c
    <2>2. u = c.user /\ orders[u][s].id = c.id
          /\ orders[u][s].status = "Open" /\ ShownAs(u, orders[u][s].id)
      BY <1>0, <2>1, CallChangesMeant
    <2>3. Meant(u, orders[u][s].id)
      BY <2>1, <2>2 DEF Meant, c
    <2> QED
      BY <2>2, <2>3, SeenUnderId
  <1>5. CASE SendMatch
    <2> DEFINE b == Head(book.bids)
               a == Head(book.asks)
    <2>1. MatchOrders(b.user, a.user, book.market, b.id, a.id)
          /\ b \in ShownOffers /\ a \in ShownOffers /\ phase = "pair"
      BY <1>5, SendMatchInv DEF SendMatch
    <2> HIDE DEF a, b
    <2>2. /\ \E o \in {b, a} : o.user = u /\ o.id = orders[u][s].id
          /\ orders[u][s].status = "Open" /\ ShownAs(u, orders[u][s].id)
      BY <1>0, <2>1, MatchChangesMeant
    <2>3. Meant(u, orders[u][s].id)
      BY <2>1, <2>2 DEF Meant, a, b
    <2> QED
      BY <2>2, <2>3, SeenUnderId
  <1> QED
    BY <1>1, <1>2, <1>3, <1>4, <1>5 DEF KeeperNext, KeeperStep

\* keeper.ts: runOnce sends what its snapshot calls for while everybody else goes on.
\* Whatever was placed, filled, cancelled or triggered between the read and the call, and
\* whichever slots were used again, a transaction of the keeper's changes an order only
\* if it is the one the keeper meant and the one the snapshot showed, as long as no user's
\* order counter is about to wrap.
THEOREM KeeperAlwaysActsOnSeen == KeeperRuns /\ []IdsLeft => ActsOnSeenOrder
  <1>1. KeeperRuns /\ []IdsLeft => []KeeperInv
    BY KeeperStarts, KeeperNextInv, PTL DEF KeeperRuns
  <1> QED
    BY <1>1, KeeperNextSeen, PTL DEF KeeperRuns, ActsOnSeenOrder

-----------------------------------------------------------------------------
(* The book server's levels.  A table of orders is any the program can hold.   *)

OrderTables == [Users -> [OrderSlots -> OrderType]]

LevelsShown(os, m, dir) == {PriceAt(os, w) : w \in ShownOrders(os, m, dir)}

LEMMA ShownTypes ==
    ASSUME NEW os \in OrderTables, NEW m, NEW dir
    PROVE  /\ IsFiniteSet(Users \X OrderSlots)
           /\ ShownOrders(os, m, dir) \in SUBSET (Users \X OrderSlots)
           /\ IsFiniteSet(ShownOrders(os, m, dir))
           /\ IsFiniteSet(LevelsShown(os, m, dir))
           /\ \A w \in ShownOrders(os, m, dir) :
                 /\ SizeAt(os, w) \in Nat \ {0}
                 /\ PriceAt(os, w) \in Nat /\ PriceAt(os, w) \in LevelsShown(os, m, dir)
  <1>1. IsFiniteSet(Users \X OrderSlots)
    <2>1. IsFiniteSet(OrderSlots)
      BY StateAssumption, FS_Interval DEF OrderSlots
    <2> QED
      BY <2>1, StateAssumption, FS_Product
  <1>2. ShownOrders(os, m, dir) \in SUBSET (Users \X OrderSlots)
    BY DEF ShownOrders
  <1>3. IsFiniteSet(ShownOrders(os, m, dir))
    BY <1>1, <1>2, FS_Subset
  <1>4. IsFiniteSet(LevelsShown(os, m, dir))
    <2> DEFINE S == ShownOrders(os, m, dir)
               f == [w \in S |-> PriceAt(os, w)]
    <2>1. f \in Surjection(S, LevelsShown(os, m, dir))
      BY DEF Surjection, LevelsShown
    <2> QED
      BY <1>3, <2>1, FS_Surjection
  <1>5. ASSUME NEW w \in ShownOrders(os, m, dir)
        PROVE  /\ SizeAt(os, w) \in Nat \ {0}
               /\ PriceAt(os, w) \in Nat /\ PriceAt(os, w) \in LevelsShown(os, m, dir)
    <2>1. w[1] \in Users /\ w[2] \in OrderSlots
      BY <1>2
    <2> DEFINE o == os[w[1]][w[2]]
    <2>2. o \in OrderType
      BY <2>1 DEF OrderTables
    <2>3. RemainingBase(o) > 0
      BY DEF ShownOrders
    <2> HIDE DEF o
    <2>4. RemainingBase(o) \in Nat \ {0} /\ o.price \in Nat
      <3>1. RemainingBase(o) \in Nat
        BY <2>2, RemainingType
      <3>2. o.price \in Nat
        BY <2>2 DEF OrderType
      <3> QED
        BY <2>3, <3>1, <3>2
    <2> QED
      BY <2>4 DEF SizeAt, PriceAt, LevelsShown, o
  <1> QED
    BY <1>1, <1>2, <1>3, <1>4, <1>5

\* Every table has its levels in order.
LEMMA LevelsListed ==
    ASSUME NEW os \in OrderTables, NEW m, NEW dir
    PROVE  LET P == LevelsShown(os, m, dir)
               ps == LevelPrices(os, m, dir)
           IN  /\ Cardinality(P) \in Nat
               /\ ps \in [1 .. Cardinality(P) -> P]
               /\ \A i, j \in 1 .. Cardinality(P) : i # j => ps[i] # ps[j]
               /\ \A x \in P : \E i \in 1 .. Cardinality(P) : ps[i] = x
               /\ Ordered(ps, dir)
  <1> DEFINE P == LevelsShown(os, m, dir)
             n == Cardinality(P)
             R == {p \in Nat \X Nat : IF dir = "Long" THEN p[1] > p[2] ELSE p[1] < p[2]}
  <1>1. IsFiniteSet(P) /\ P \subseteq Nat
    BY ShownTypes DEF LevelsShown
  <1>2. n \in Nat
    BY <1>1, FS_CardinalityType
  <1>3. OrderOn(R, P)
    BY <1>1 DEF OrderOn
  <1>4. \A x, y \in P : <<x, y>> \in R => IF dir = "Long" THEN x > y ELSE x < y
    OBVIOUS
  <1>5. LevelPrices(os, m, dir) = CHOOSE q \in SetToSeqs(P) : Ordered(q, dir)
    BY DEF LevelPrices, LevelsShown
  <1>a. n = Cardinality(P)
    OBVIOUS
  <1> HIDE DEF P, R, n
  <1>6. PICK q \in [1 .. n -> P] :
           \A i, j \in 1 .. n : /\ i < j => <<q[i], q[j]>> \in R
                                /\ i # j => q[i] # q[j]
    BY <1>1, <1>3, OrderedListing DEF n
  <1>7. q \in SetToSeqs(P)
    <2>1. q \in [1 .. n -> P] /\ \A i, j \in 1 .. n : i # j => q[i] # q[j]
      BY <1>6
    <2>2. q \in {f \in [1 .. n -> P] : \A i, j \in 1 .. n : i # j => f[i] # f[j]}
      BY <2>1
    <2> QED
      BY <1>a, <2>2 DEF SetToSeqs
  <1>8. Ordered(q, dir)
    <2>1. DOMAIN q = 1 .. n /\ \A i \in 1 .. n : q[i] \in P
      OBVIOUS
    <2>2. \A i, j \in 1 .. n : i < j => IF dir = "Long" THEN q[i] > q[j] ELSE q[i] < q[j]
      <3> SUFFICES ASSUME NEW i \in 1 .. n, NEW j \in 1 .. n, i < j
                   PROVE  IF dir = "Long" THEN q[i] > q[j] ELSE q[i] < q[j]
        OBVIOUS
      <3>1. <<q[i], q[j]>> \in R
        BY <1>6
      <3>2. q[i] \in P /\ q[j] \in P
        BY <2>1
      <3> QED
        BY <1>4, <3>1, <3>2
    <2> QED
      BY <2>1, <2>2 DEF Ordered
  <1> DEFINE ps == LevelPrices(os, m, dir)
  <1>9. ps \in SetToSeqs(P) /\ Ordered(ps, dir)
    BY <1>5, <1>7, <1>8
  <1> HIDE DEF ps
  <1>10. /\ ps \in [1 .. n -> P]
         /\ \A i, j \in 1 .. n : i # j => ps[i] # ps[j]
    BY <1>9 DEF SetToSeqs, n
  <1>11. \A x \in P : \E i \in 1 .. n : ps[i] = x
    BY <1>1, <1>10, ListsAll DEF n
  <1> QED
    BY <1>2, <1>9, <1>10, <1>11 DEF P, n, ps

\* what each slot adds to a side of the book
ShownSizes(os, m, dir) ==
    [w \in Users \X OrderSlots |-> IF w \in ShownOrders(os, m, dir) THEN SizeAt(os, w) ELSE 0]

LEMMA ShownSizesType ==
    ASSUME NEW os \in OrderTables, NEW m, NEW dir
    PROVE  ShownSizes(os, m, dir) \in [Users \X OrderSlots -> Nat]
  BY ShownTypes DEF ShownSizes

\* A level is the sum over the slots it shows, and more than nothing.
LEMMA LevelSums ==
    ASSUME NEW os \in OrderTables, NEW m, NEW dir, NEW price
    PROVE  LET f == ShownSizes(os, m, dir)
               level == {w \in ShownOrders(os, m, dir) : PriceAt(os, w) = price}
           IN  /\ LevelSize(os, m, dir, price) = SumFunctionOnSet(f, level)
               /\ LevelSize(os, m, dir, price) \in Nat
               /\ price \in LevelsShown(os, m, dir) => LevelSize(os, m, dir, price) > 0
  <1> DEFINE f == ShownSizes(os, m, dir)
             level == {w \in ShownOrders(os, m, dir) : PriceAt(os, w) = price}
             g == [w \in level |-> SizeAt(os, w)]
  <1>1. IsFiniteSet(level) /\ level \subseteq ShownOrders(os, m, dir)
    BY ShownTypes, FS_Subset
  <1>2. \A w \in level : SizeAt(os, w) \in Nat \ {0}
    BY <1>1, ShownTypes
  <1>3. \A w \in level : f[w] = g[w]
    BY <1>1, ShownTypes DEF ShownSizes
  <1>4. LevelSize(os, m, dir, price) = SumFunction(g)
    BY DEF LevelSize
  <1>5. g \in [level -> Nat] /\ \A w \in level : g[w] > 0
    BY <1>2
  <1>6. price \in LevelsShown(os, m, dir) => \E w \in level : TRUE
    BY DEF LevelsShown
  <1>7. DOMAIN g = level
    OBVIOUS
  <1> HIDE DEF f, g, level
  <1>8. SumFunction(g) = SumFunctionOnSet(f, level)
    <2>1. SumFunction(g) = SumFunctionOnSet(g, level)
      BY <1>7, SumOfFunction
    <2> QED
      BY <1>1, <1>3, <2>1, SumSame
  <1>9. SumFunction(g) \in Nat /\ \A w \in level : g[w] <= SumFunction(g)
    BY <1>1, <1>5, SumOfNats
  <1>10. price \in LevelsShown(os, m, dir) => SumFunction(g) > 0
    <2> SUFFICES ASSUME NEW w \in level PROVE SumFunction(g) > 0
      BY <1>6
    <2>1. g[w] > 0 /\ g[w] \in Nat /\ g[w] <= SumFunction(g)
      BY <1>5, <1>9
    <2> QED
      BY <1>9, <2>1
  <1> QED
    BY <1>4, <1>8, <1>9, <1>10 DEF f, level

\* All levels together hold what all slots show.
LEMMA DepthShown ==
    ASSUME NEW os \in OrderTables, NEW m, NEW dir
    PROVE  Depth(Levels(os, m, dir)) = SumFunction(ShownSizes(os, m, dir))
  <1> DEFINE S == Users \X OrderSlots
             W == ShownOrders(os, m, dir)
             P == LevelsShown(os, m, dir)
             n == Cardinality(P)
             ps == LevelPrices(os, m, dir)
             f == ShownSizes(os, m, dir)
             level(p) == {w \in W : PriceAt(os, w) = p}
             g == [w \in W |-> SizeAt(os, w)]
             c == [w \in W |-> CHOOSE i \in 1 .. n : ps[i] = PriceAt(os, w)]
             part(i) == PartOf(W, c, i)
             sizes == PartSums(g, W, c, n)
  <1>1. /\ n \in Nat
        /\ ps \in [1 .. n -> P]
        /\ \A i, j \in 1 .. n : i # j => ps[i] # ps[j]
        /\ \A x \in P : \E i \in 1 .. n : ps[i] = x
    BY LevelsListed
  <1>2. /\ IsFiniteSet(S) /\ W \in SUBSET S /\ IsFiniteSet(W)
        /\ \A w \in W : SizeAt(os, w) \in Nat \ {0} /\ PriceAt(os, w) \in P
    BY ShownTypes
  <1>3. f \in [S -> Int] /\ \A w \in S \ W : f[w] = 0
    BY <1>2, ShownSizesType DEF ShownSizes
  <1>4. g \in [W -> Int] /\ \A w \in W : g[w] = f[w]
    BY <1>2 DEF ShownSizes
  <1>5. DOMAIN Levels(os, m, dir) = 1 .. n
        /\ \A i \in 1 .. n : Levels(os, m, dir)[i].size = LevelSize(os, m, dir, ps[i])
    <2>1. DOMAIN ps = 1 .. n
      BY <1>1
    <2> HIDE DEF ps, n
    <2> QED
      BY <2>1 DEF Levels, ps
  <1>6. \A i \in 1 .. n : LevelSize(os, m, dir, ps[i]) = SumFunctionOnSet(f, level(ps[i]))
    BY LevelSums
  <1> HIDE DEF P, n, ps
  <1>7. \A w \in W : c[w] \in 1 .. n /\ ps[c[w]] = PriceAt(os, w)
    BY <1>1, <1>2
  <1> HIDE DEF W
  <1>8. c \in [W -> 1 .. n]
    BY <1>7
  <1>9. \A i \in 1 .. n : part(i) = level(ps[i])
    BY <1>1, <1>7 DEF PartOf
  <1> HIDE DEF c, f, g
  <1>10. SumFunction(sizes) = SumFunction(g)
    BY <1>1, <1>2, <1>4, <1>8, SumOfParts
  <1>11. SumFunction(g) = SumFunction(f)
    <2>1. SumFunction(g) = SumFunctionOnSet(g, W)
      BY <1>4, SumOfFunction
    <2>2. SumFunctionOnSet(g, W) = SumFunctionOnSet(f, W)
      BY <1>2, <1>4, SumSame
    <2> HIDE DEF S
    <2>3. SumFunctionOnSet(f, W) = SumFunction(f)
      BY <1>2, <1>3, SumOfPart
    <2> QED
      BY <2>1, <2>2, <2>3
  <1>12. \A i \in 1 .. n : Levels(os, m, dir)[i].size = SumFunctionOnSet(g, part(i))
    <2> SUFFICES ASSUME NEW i \in 1 .. n
                 PROVE  Levels(os, m, dir)[i].size = SumFunctionOnSet(g, part(i))
      OBVIOUS
    <2>1. Levels(os, m, dir)[i].size = SumFunctionOnSet(f, part(i))
      BY <1>5, <1>6, <1>9
    <2>2. IsFiniteSet(part(i)) /\ part(i) \subseteq W
      BY <1>2, FS_Subset DEF PartOf
    <2> HIDE DEF part
    <2>3. \A w \in part(i) : f[w] = g[w]
      BY <1>4, <2>2
    <2>4. SumFunctionOnSet(f, part(i)) = SumFunctionOnSet(g, part(i))
      BY <2>2, <2>3, SumSame
    <2> QED
      BY <2>1, <2>4
  <1> HIDE DEF part
  <1>13. [i \in DOMAIN Levels(os, m, dir) |-> Levels(os, m, dir)[i].size] = sizes
    BY <1>5, <1>12 DEF PartSums, part
  <1> QED
    BY <1>10, <1>11, <1>13 DEF Depth, f

\* Levels are in order and have something to trade.
LEMMA LevelsSound ==
    ASSUME NEW os \in OrderTables, NEW m, NEW dir
    PROVE  LET levels == Levels(os, m, dir)
           IN  /\ \A i \in DOMAIN levels : levels[i].size > 0
               /\ Ordered([i \in DOMAIN levels |-> levels[i].price], dir)
  <1> DEFINE P == LevelsShown(os, m, dir)
             n == Cardinality(P)
             ps == LevelPrices(os, m, dir)
             levels == Levels(os, m, dir)
  <1>1. ps \in [1 .. n -> P] /\ Ordered(ps, dir)
    BY LevelsListed
  <1>2. DOMAIN ps = 1 .. n /\ \A i \in 1 .. n : ps[i] \in P
    BY <1>1
  <1>3. DOMAIN levels = 1 .. n
        /\ \A i \in 1 .. n : /\ levels[i].price = ps[i]
                             /\ levels[i].size = LevelSize(os, m, dir, ps[i])
    <2> HIDE DEF ps, n
    <2> QED
      BY <1>2 DEF Levels, ps
  <1>4. \A i \in 1 .. n : LevelSize(os, m, dir, ps[i]) > 0
    BY <1>2, LevelSums
  <1> HIDE DEF ps, n, levels
  <1>5. [i \in DOMAIN levels |-> levels[i].price] = ps
    BY <1>1, <1>2, <1>3
  <1> QED
    BY <1>1, <1>3, <1>4, <1>5 DEF levels

\* The first level is the best of all that is shown.
LEMMA BestLevel ==
    ASSUME NEW os \in OrderTables, NEW m, NEW dir, NEW w \in ShownOrders(os, m, dir)
    PROVE  LET best == Levels(os, m, dir)[1].price
           IN  /\ best \in Nat
               /\ IF dir = "Long" THEN best >= PriceAt(os, w) ELSE best <= PriceAt(os, w)
  <1> DEFINE P == LevelsShown(os, m, dir)
             n == Cardinality(P)
             ps == LevelPrices(os, m, dir)
  <1>1. /\ n \in Nat
        /\ ps \in [1 .. n -> P]
        /\ \A x \in P : \E i \in 1 .. n : ps[i] = x
        /\ Ordered(ps, dir)
    BY LevelsListed
  <1>2. PriceAt(os, w) \in P /\ \A x \in P : x \in Nat
    <2>1. \A v \in ShownOrders(os, m, dir) :
             PriceAt(os, v) \in Nat /\ PriceAt(os, v) \in LevelsShown(os, m, dir)
      BY ShownTypes
    <2>2. \A x \in P : \E v \in ShownOrders(os, m, dir) : x = PriceAt(os, v)
      BY DEF LevelsShown
    <2> QED
      BY <2>1, <2>2
  <1> HIDE DEF P, n
  <1>3. PICK i \in 1 .. n : ps[i] = PriceAt(os, w)
    BY <1>1, <1>2
  <1>4. 1 \in 1 .. n /\ DOMAIN ps = 1 .. n /\ (i = 1 \/ 1 < i)
    BY <1>1
  <1>5. Levels(os, m, dir)[1].price = ps[1]
    <2> HIDE DEF ps
    <2> QED
      BY <1>4 DEF Levels, ps
  <1>6. ps[1] \in Nat /\ ps[i] \in Nat
    BY <1>1, <1>2, <1>4
  <1>7. 1 < i => IF dir = "Long" THEN ps[1] > ps[i] ELSE ps[1] < ps[i]
    BY <1>1, <1>4 DEF Ordered
  <1> HIDE DEF ps
  <1>8. IF dir = "Long" THEN ps[1] >= ps[i] ELSE ps[1] <= ps[i]
    BY <1>4, <1>6, <1>7
  <1> QED
    BY <1>3, <1>5, <1>6, <1>8

\* what an order adds to a side of a market's book
Added(o, m, dir) ==
    IF /\ o.status = "Open" /\ o.type = "Limit" /\ o.market = m /\ o.dir = dir
       /\ RemainingBase(o) > 0
    THEN RemainingBase(o) ELSE 0

LEMMA ShownIsAdded ==
    ASSUME NEW os, NEW m, NEW dir, NEW w \in Users \X OrderSlots
    PROVE  ShownSizes(os, m, dir)[w] = Added(os[w[1]][w[2]], m, dir)
  BY DEF ShownSizes, ShownOrders, Added, SizeAt

\* A fill takes what it fills off its side of the book, and nothing off the other.
LEMMA FillTakes ==
    ASSUME NEW o \in OrderType, o.status = "Open", o.type = "Limit",
           NEW n \in Nat, n <= RemainingBase(o), n > 0, NEW dir \in Directions
    PROVE  Added(FillAndMaybeClear(o, n), o.market, dir)
              = Added(o, o.market, dir) - (IF dir = o.dir THEN n ELSE 0)
  <1> DEFINE l == FillAndMaybeClear(o, n)
             r == RemainingBase(o)
  <1>1. r = o.base - o.filled /\ r \in Nat \ {0} /\ o.filled \in Nat /\ o.base \in Nat
    BY RemainingType DEF RemainingBase, Greatest, OrderType
  <1>2. Added(o, o.market, dir) = IF dir = o.dir THEN r ELSE 0
    BY <1>1 DEF Added
  <1>3. CASE n = r
    <2>1. RemainingBase(Filled(o, n)) = 0
      BY <1>1, <1>3 DEF RemainingBase, Filled, Greatest, OrderType
    <2>2. l.status # "Open"
      BY <2>1 DEF FillAndMaybeClear, DefaultOrder
    <2>3. Added(l, o.market, dir) = 0
      BY <2>2 DEF Added
    <2> QED
      BY <1>1, <1>2, <1>3, <2>3
  <1>4. CASE n < r
    <2>1. RemainingBase(Filled(o, n)) = r - n /\ r - n > 0
      <3>1. Filled(o, n).base = o.base /\ Filled(o, n).filled = o.filled + n
        BY DEF Filled, OrderType
      <3>2. o.base - (o.filled + n) = r - n /\ r - n > 0
        BY <1>1, <1>4
      <3>3. RemainingBase(Filled(o, n)) = Greatest(r - n, 0)
        BY <3>1, <3>2 DEF RemainingBase
      <3> HIDE DEF r
      <3> QED
        BY <1>1, <3>2, <3>3 DEF Greatest
    <2>2. l = Filled(o, n)
      BY <1>1, <2>1 DEF FillAndMaybeClear
    <2>3. /\ l.status = o.status /\ l.type = o.type /\ l.market = o.market /\ l.dir = o.dir
          /\ RemainingBase(l) = r - n /\ r - n > 0
      BY <2>1, <2>2 DEF Filled, OrderType
    <2> HIDE DEF l, r
    <2>4. Added(l, o.market, dir) = IF dir = o.dir THEN r - n ELSE 0
      BY <2>3 DEF Added
    <2> QED
      BY <1>1, <1>2, <2>4 DEF l
  <1> QED
    BY <1>1, <1>3, <1>4

\* When one slot shows n less and no other changes, the side is n less deep.
LEMMA DepthTaken ==
    ASSUME NEW os \in OrderTables, NEW os2 \in OrderTables, NEW m, NEW dir, NEW n \in Int,
           NEW x \in Users \X OrderSlots,
           Added(os2[x[1]][x[2]], m, dir) = Added(os[x[1]][x[2]], m, dir) - n,
           \A y \in Users \X OrderSlots :
              y # x => Added(os2[y[1]][y[2]], m, dir) = Added(os[y[1]][y[2]], m, dir)
    PROVE  Depth(Levels(os, m, dir)) - Depth(Levels(os2, m, dir)) = n
  <1> DEFINE S == Users \X OrderSlots
             f == ShownSizes(os, m, dir)
             g == ShownSizes(os2, m, dir)
  <1>1. f \in [S -> Int] /\ g \in [S -> Int] /\ IsFiniteSet(S)
    <2>1. f \in [S -> Nat] /\ g \in [S -> Nat] /\ IsFiniteSet(S)
      BY ShownSizesType, ShownTypes
    <2> HIDE DEF f, g, S
    <2> QED
      BY <2>1
  <1>2. g[x] = f[x] - n /\ \A y \in S \ {x} : g[y] = f[y]
    BY ShownIsAdded
  <1>3. Depth(Levels(os, m, dir)) = SumFunction(f) /\ Depth(Levels(os2, m, dir)) = SumFunction(g)
    BY DepthShown
  <1>4. x \in S
    OBVIOUS
  <1> HIDE DEF f, g, S
  <1>5. SumFunction(g) = SumFunction(f) + (g[x] - f[x])
    BY <1>1, <1>2, <1>4, SumChanged
  <1>6. SumFunction(f) \in Int /\ f[x] \in Int
    BY <1>1, <1>4, SumIsInt
  <1> QED
    BY <1>2, <1>3, <1>5, <1>6

\* A match takes what it fills off both sides.
LEMMA MatchesTakeBoth ==
    ASSUME EngineInv, EngineInv', NEW t \in Users, NEW w \in Users, NEW m \in MarketIndexes,
           NEW ts \in OrderSlots, NEW ws \in OrderSlots, NEW n \in Nat,
           Matches(t, w, m, ts, ws, n)
    PROVE  MatchTakesBothSides(m)
  <1> DEFINE a == orders[t][ts]
             b == orders[w][ws]
             x == <<t, ts>>
             z == <<w, ws>>
             S == Users \X OrderSlots
  <1>1. orders \in OrderTables /\ orders' \in OrderTables
    BY DEF EngineInv, RestOK, OrderTables
  <1>2. /\ t # w
        /\ a.status = "Open" /\ a.type = "Limit" /\ a.market = m
        /\ b.status = "Open" /\ b.type = "Limit" /\ b.market = m
        /\ Crosses(a, b)
        /\ n = Least(RemainingBase(a), RemainingBase(b))
        /\ orders' = [orders EXCEPT ![t][ts] = FillAndMaybeClear(a, n),
                                    ![w][ws] = FillAndMaybeClear(b, n)]
    BY DEF Matches
  <1>3. n > 0
    BY DEF Matches, ExecuteMakerMatch
  <1>4. a \in OrderType /\ b \in OrderType
    BY <1>1 DEF OrderTables
  <1>5. /\ RemainingBase(a) \in Nat /\ RemainingBase(b) \in Nat
        /\ a.dir \in Directions /\ b.dir \in Directions /\ a.price \in Nat /\ b.price \in Nat
    <2>1. RemainingBase(a) \in Nat /\ RemainingBase(b) \in Nat
      BY <1>4, RemainingType
    <2> HIDE DEF a, b
    <2> QED
      BY <1>4, <2>1 DEF OrderType
  <1>6. n <= RemainingBase(a) /\ n <= RemainingBase(b)
    BY <1>2, <1>5 DEF Least
  <1>7. /\ orders'[t][ts] = FillAndMaybeClear(a, n) /\ orders'[w][ws] = FillAndMaybeClear(b, n)
        /\ \A y \in S : y # x /\ y # z => orders'[y[1]][y[2]] = orders[y[1]][y[2]]
    <2>1. orders'[t][ts] = FillAndMaybeClear(a, n)
      BY <1>1, <1>2 DEF OrderTables
    <2>2. orders'[w][ws] = FillAndMaybeClear(b, n)
      BY <1>1, <1>2 DEF OrderTables
    <2>3. \A v \in Users, s \in OrderSlots :
             (v # t \/ s # ts) /\ (v # w \/ s # ws) => orders'[v][s] = orders[v][s]
      BY <1>1, <1>2 DEF OrderTables
    <2>4. \A y \in S : /\ y = <<y[1], y[2]>> /\ y[1] \in Users /\ y[2] \in OrderSlots
                       /\ y # x => y[1] # t \/ y[2] # ts
                       /\ y # z => y[1] # w \/ y[2] # ws
      OBVIOUS
    <2> QED
      BY <2>1, <2>2, <2>3, <2>4
  <1>8. /\ x \in S /\ z \in S /\ x # z
        /\ x[1] = t /\ x[2] = ts /\ z[1] = w /\ z[2] = ws
    BY <1>2
  <1> HIDE DEF a, b, x, z, S
  <1>9. \A dir \in Directions :
           /\ Added(orders'[t][ts], m, dir)
                 = Added(a, m, dir) - (IF dir = a.dir THEN n ELSE 0)
           /\ Added(orders'[w][ws], m, dir)
                 = Added(b, m, dir) - (IF dir = b.dir THEN n ELSE 0)
    BY <1>2, <1>3, <1>4, <1>6, <1>7, FillTakes
  <1>10. \A dir \in Directions : Added(a, m, dir) \in Int /\ Added(b, m, dir) \in Int
    BY <1>5 DEF Added
  <1>11. a.dir # b.dir
    BY <1>2 DEF Crosses
  <1>12. Depth(Levels(orders, m, a.dir)) - Depth(Levels(orders', m, a.dir)) = n
    <2>1. Added(orders'[x[1]][x[2]], m, a.dir) = Added(orders[x[1]][x[2]], m, a.dir) - n
      BY <1>5, <1>8, <1>9 DEF a
    <2>2. ASSUME NEW y \in S, y # x
          PROVE  Added(orders'[y[1]][y[2]], m, a.dir) = Added(orders[y[1]][y[2]], m, a.dir)
      <3>1. CASE y = z
        <4>1. Added(orders'[w][ws], m, a.dir) = Added(b, m, a.dir)
          BY <1>5, <1>9, <1>10, <1>11
        <4> QED
          BY <1>8, <3>1, <4>1 DEF b
      <3> QED
        BY <1>7, <2>2, <3>1
    <2> QED
      BY <1>1, <1>8, <2>1, <2>2, DepthTaken DEF S
  <1>13. Depth(Levels(orders, m, b.dir)) - Depth(Levels(orders', m, b.dir)) = n
    <2>1. Added(orders'[z[1]][z[2]], m, b.dir) = Added(orders[z[1]][z[2]], m, b.dir) - n
      BY <1>5, <1>8, <1>9 DEF b
    <2>2. ASSUME NEW y \in S, y # z
          PROVE  Added(orders'[y[1]][y[2]], m, b.dir) = Added(orders[y[1]][y[2]], m, b.dir)
      <3>1. CASE y = x
        <4>1. Added(orders'[t][ts], m, b.dir) = Added(a, m, b.dir)
          BY <1>5, <1>9, <1>10, <1>11
        <4> QED
          BY <1>8, <3>1, <4>1 DEF a
      <3> QED
        BY <1>7, <2>2, <3>1
    <2> QED
      BY <1>1, <1>8, <2>1, <2>2, DepthTaken DEF S
  <1>14. /\ x \in ShownOrders(orders, m, a.dir) /\ PriceAt(orders, x) = a.price
         /\ z \in ShownOrders(orders, m, b.dir) /\ PriceAt(orders, z) = b.price
    <2>1. RemainingBase(a) > 0 /\ RemainingBase(b) > 0
      BY <1>3, <1>5, <1>6
    <2>2. orders[x[1]][x[2]] = a /\ orders[z[1]][z[2]] = b
      BY <1>8 DEF a, b
    <2> QED
      BY <1>2, <1>8, <2>1, <2>2 DEF ShownOrders, PriceAt, S
  <1>15. Levels(orders, m, "Long")[1].price >= Levels(orders, m, "Short")[1].price
    <2> DEFINE best(dir) == Levels(orders, m, dir)[1].price
    <2>1. /\ best(a.dir) \in Nat
          /\ IF a.dir = "Long" THEN best(a.dir) >= a.price ELSE best(a.dir) <= a.price
      BY <1>1, <1>14, BestLevel
    <2>2. /\ best(b.dir) \in Nat
          /\ IF b.dir = "Long" THEN best(b.dir) >= b.price ELSE best(b.dir) <= b.price
      BY <1>1, <1>14, BestLevel
    <2>3. IF a.dir = "Long" THEN a.price >= b.price ELSE a.price <= b.price
      BY <1>2 DEF Crosses
    <2> HIDE DEF best
    <2>4. best("Long") >= best("Short")
      <3>1. \/ a.dir = "Long" /\ b.dir = "Short"
            \/ a.dir = "Short" /\ b.dir = "Long"
        BY <1>5, <1>11 DEF Directions
      <3> QED
        BY <1>5, <2>1, <2>2, <2>3, <3>1
    <2> QED
      BY <2>4 DEF best
  <1>16. \A dir \in Directions :
            /\ \A i \in DOMAIN Levels(orders', m, dir) : Levels(orders', m, dir)[i].size > 0
            /\ Ordered([i \in DOMAIN Levels(orders', m, dir) |->
                           Levels(orders', m, dir)[i].price], dir)
    BY <1>1, LevelsSound
  <1>17. /\ Depth(Levels(orders, m, "Long")) - Depth(Levels(orders', m, "Long")) = n
         /\ Depth(Levels(orders, m, "Short")) - Depth(Levels(orders', m, "Short")) = n
    BY <1>5, <1>11, <1>12, <1>13 DEF Directions
  <1> QED
    BY <1>3, <1>15, <1>16, <1>17 DEF MatchTakesBothSides

OrdersChanged == {u \in Users : orders'[u] # orders[u]}

\* Every other step changes the orders of one user or of none.
LEMMA OneUserReorders ==
    ASSUME EngineInv, Next
    PROVE  \/ \E t, w \in Users, m \in MarketIndexes, ts, ws \in OrderSlots, n \in Nat :
                 Matches(t, w, m, ts, ws, n)
           \/ \E u : OrdersChanged \subseteq {u}
  <1>1. orders \in [Users -> [OrderSlots -> OrderType]]
    BY DEF EngineInv, RestOK
  <1>2. ASSUME UNCHANGED orders PROVE OrdersChanged \subseteq {0}
    BY <1>2 DEF OrdersChanged
  <1>3. ASSUME NEW u, NEW s, NEW o, orders' = [orders EXCEPT ![u][s] = o]
        PROVE  OrdersChanged \subseteq {u}
    BY <1>1, <1>3 DEF OrdersChanged
  <1>4. ASSUME NEW u, NEW m, NEW dir, NEW n, NEW limit, Opens(u, m, dir, n, limit)
        PROVE  \E v : OrdersChanged \subseteq {v}
    BY <1>2, <1>3, <1>4 DEF Opens, OrderOpens
  <1>5. ASSUME NEW u, NEW m, NEW s, NEW n, NEW limit, Closes(u, m, s, n, limit)
        PROVE  \E v : OrdersChanged \subseteq {v}
    BY <1>2, <1>3, <1>5 DEF Closes, OrderCloses
  <1>6. ASSUME SlotStep PROVE UNCHANGED orders
    BY <1>6 DEF SlotStep, LiquidatePerp, SettleFunding
  <1>7. ASSUME NEW u, NEW m, NEW o, PlaceOrder(u, m, o)
        PROVE  \E v : OrdersChanged \subseteq {v}
    BY <1>3, <1>7 DEF PlaceOrder
  <1>8. ASSUME NEW u, NEW id, CancelOrder(u, id)
        PROVE  \E v : OrdersChanged \subseteq {v}
    BY <1>3, <1>8 DEF CancelOrder
  <1>9. ASSUME NEW u, NEW a, NEW m,
               InitializeUser(u) \/ Deposit(u, a) \/ Withdraw(u, m, a) \/ ResolveBankruptcy(u)
        PROVE  UNCHANGED orders
    BY <1>9 DEF InitializeUser, Deposit, Withdraw, ResolveBankruptcy
  <1>10. ASSUME NEW m, MarketStep(m) PROVE UNCHANGED orders
    BY <1>10 DEF MarketStep, UpdateFundingRate, InitializeMarket, UpdateMarketParams,
                 InitializeOracle, UpdateOracle
  <1>11. ASSUME NEW x, SetProtocolPaused(x) \/ Tick(x) PROVE UNCHANGED orders
    BY <1>11 DEF SetProtocolPaused, Tick
  <1>12. NoTrade => \E v : OrdersChanged \subseteq {v}
    BY <1>2, <1>7, <1>8, <1>9, <1>10, <1>11 DEF NoTrade
  <1> QED
    BY <1>2, <1>4, <1>5, <1>6, <1>12, StepKinds DEF Trade

LEMMA NextMatches ==
    ASSUME EngineInv, EngineInv', [Next]_vars
    PROVE  Cardinality(OrdersChanged) = 2 => \E m \in MarketIndexes : MatchTakesBothSides(m)
  <1>1. ASSUME NEW u, OrdersChanged \subseteq {u} PROVE Cardinality(OrdersChanged) # 2
    <2>1. IsFiniteSet({u}) /\ Cardinality({u}) = 1
      BY FS_Singleton
    <2>2. Cardinality(OrdersChanged) <= Cardinality({u}) /\ IsFiniteSet(OrdersChanged)
      BY <1>1, <2>1, FS_Subset
    <2>3. Cardinality(OrdersChanged) \in Nat
      BY <2>2, FS_CardinalityType
    <2> QED
      BY <2>1, <2>2, <2>3
  <1>2. CASE UNCHANGED vars
    <2>1. OrdersChanged \subseteq {0}
      BY <1>2 DEF OrdersChanged, vars
    <2> QED
      BY <1>1, <2>1
  <1>3. CASE Next
    BY <1>1, <1>3, OneUserReorders, MatchesTakeBoth
  <1> QED
    BY <1>2, <1>3

\* For every instance: a match takes as much off the bids as off the asks, at a price
\* both sides accept, and leaves the levels in order.
THEOREM MatchesAlwaysTakeBothSides == Spec => MatchesTakeBothSides
  <1>1. Spec => []EngineInv
    BY InitEngineInv, NextEngineInv, PTL DEF Spec
  <1>2. EngineInv /\ EngineInv' /\ [Next]_vars =>
           [Cardinality({u \in Users : orders'[u] # orders[u]}) = 2 =>
               \E m \in MarketIndexes : MatchTakesBothSides(m)]_vars
    BY NextMatches DEF OrdersChanged
  <1> QED
    BY <1>1, <1>2, PTL DEF Spec, MatchesTakeBothSides

=============================================================================
