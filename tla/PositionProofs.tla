---------------------------- MODULE PositionProofs ----------------------------
(***************************************************************************)
(* For every value of the constants: users' positions, what the market and   *)
(* the pool book of them, and which steps may change them.                  *)
(*                                                                         *)
(* SlotInv adds to EngineInv that a user's open positions are in different   *)
(* markets, whatever slots were freed and reused.  With it a user's exposure  *)
(* in a market is the base of one slot, so a step that rewrites a slot        *)
(* changes one exposure and leaves the others alone (SlotRewritten).        *)
(***************************************************************************)
EXTENDS PerpEngineProofs

\* The slots of one user: no two open positions in one market.
SlotsOK(ps) ==
    /\ ps \in [PositionSlots -> PositionType]
    /\ \A s, t \in PositionSlots :
          (s # t /\ ps[s].base # 0 /\ ps[t].base # 0) => ps[s].market # ps[t].market
    /\ \A s \in PositionSlots : ps[s].base # 0 => ps[s].market \in MarketIndexes

SlotInv == EngineInv /\ \A u \in Users : SlotsOK(positions[u])

-----------------------------------------------------------------------------
(* Exposure *)

LEMMA SlotsFinite == IsFiniteSet(PositionSlots)
  BY FS_Interval, StateAssumption DEF PositionSlots

LEMMA ExposureType ==
    ASSUME NEW ps \in [PositionSlots -> PositionType], NEW m
    PROVE  BaseIn(ps, m) \in Int
  <1> DEFINE f == [s \in PositionSlots |-> IF IsOpenIn(ps[s], m) THEN ps[s].base ELSE 0]
  <1>1. f \in [PositionSlots -> Int]
    BY DEF PositionType
  <1> HIDE DEF f
  <1>2. SumFunction(f) \in Int
    BY <1>1, SlotsFinite, SumIsInt
  <1> QED
    BY <1>2 DEF BaseIn, f

\* The exposure in a market is the base of the one position in it, 0 without one.
LEMMA ExposureOfOpen ==
    ASSUME NEW ps, SlotsOK(ps), NEW s \in PositionSlots, NEW m, IsOpenIn(ps[s], m)
    PROVE  BaseIn(ps, m) = ps[s].base
  <1> DEFINE f == [t \in PositionSlots |-> IF IsOpenIn(ps[t], m) THEN ps[t].base ELSE 0]
  <1>1. f \in [PositionSlots -> Int]
    BY DEF SlotsOK, PositionType
  <1>2. f[s] = ps[s].base /\ \A t \in PositionSlots \ {s} : f[t] = 0
    BY DEF SlotsOK, IsOpenIn
  <1> HIDE DEF f
  <1>3. SumFunction(f) = f[s]
    BY <1>1, <1>2, SlotsFinite, SumSingle
  <1> QED
    BY <1>2, <1>3 DEF BaseIn, f

LEMMA ExposureOfNone ==
    ASSUME NEW ps, SlotsOK(ps), NEW m, \A t \in PositionSlots : ~IsOpenIn(ps[t], m)
    PROVE  BaseIn(ps, m) = 0
  <1> DEFINE f == [t \in PositionSlots |-> IF IsOpenIn(ps[t], m) THEN ps[t].base ELSE 0]
  <1>1. f \in [PositionSlots -> Int] /\ \A t \in PositionSlots : f[t] = 0
    OBVIOUS
  <1> HIDE DEF f
  <1>2. SumFunction(f) = 0
    BY <1>1, SlotsFinite, SumOfZeros
  <1> QED
    BY <1>2 DEF BaseIn, f

\* s is where a trade in m finds its position: the one in m, or a free slot when
\* there is none.
Holds(ps, m, s) ==
    \/ IsOpenIn(ps[s], m)
    \/ ps[s].base = 0 /\ \A t \in PositionSlots : ~IsOpenIn(ps[t], m)

\* Rewriting that slot with a position in m changes the exposure in m and no other.
LEMMA SlotRewritten ==
    ASSUME NEW ps, SlotsOK(ps), NEW m \in MarketIndexes, NEW s \in PositionSlots,
           Holds(ps, m, s), NEW p \in PositionType, p.market = m,
           NEW qs, qs = [ps EXCEPT ![s] = p]
    PROVE  /\ SlotsOK(qs)
           /\ BaseIn(ps, m) = ps[s].base
           /\ BaseIn(qs, m) = p.base
           /\ \A k : k # m => BaseIn(qs, k) = BaseIn(ps, k)
  <1>1. qs \in [PositionSlots -> PositionType] /\ qs[s] = p
        /\ \A t \in PositionSlots \ {s} : qs[t] = ps[t]
    BY DEF SlotsOK
  <1>2. \A t \in PositionSlots \ {s} : ~IsOpenIn(ps[t], m)
    BY DEF Holds, SlotsOK, IsOpenIn
  <1>3. SlotsOK(qs)
    BY <1>1, <1>2 DEF SlotsOK, IsOpenIn
  <1>4. BaseIn(ps, m) = ps[s].base
    BY ExposureOfOpen, ExposureOfNone DEF Holds
  <1>5. BaseIn(qs, m) = p.base
    <2>1. CASE p.base = 0
      <3>1. \A t \in PositionSlots : ~IsOpenIn(qs[t], m)
        BY <1>1, <1>2, <2>1 DEF IsOpenIn
      <3> QED
        BY <1>3, <2>1, <3>1, ExposureOfNone
    <2>2. CASE p.base # 0
      <3>1. IsOpenIn(qs[s], m)
        BY <1>1, <2>2 DEF IsOpenIn
      <3> QED
        BY <1>1, <1>3, <3>1, ExposureOfOpen
    <2> QED
      BY <2>1, <2>2
  <1>6. ASSUME NEW k, k # m PROVE BaseIn(qs, k) = BaseIn(ps, k)
    <2>1. ~IsOpenIn(ps[s], k) /\ ~IsOpenIn(qs[s], k)
      BY <1>1, <1>6 DEF Holds, IsOpenIn
    <2>2. \A t \in PositionSlots :
            (IF IsOpenIn(qs[t], k) THEN qs[t].base ELSE 0)
              = (IF IsOpenIn(ps[t], k) THEN ps[t].base ELSE 0)
      BY <1>1, <2>1
    <2> QED
      BY <2>2 DEF BaseIn
  <1> QED
    BY <1>3, <1>4, <1>5, <1>6

-----------------------------------------------------------------------------
(* The slot a trade rewrites *)

\* get_or_create_position leads to such a slot, and what it returns has its base.
LEMMA TargetHolds ==
    ASSUME SlotInv, NEW u \in Users, NEW m \in MarketIndexes, NEW s \in PositionSlots,
           TargetSlot(u, m, s)
    PROVE  /\ Holds(positions[u], m, s)
           /\ TargetPosition(u, m, s) \in PositionType
           /\ TargetPosition(u, m, s).market = m
           /\ TargetPosition(u, m, s).base = positions[u][s].base
           /\ ~HasPosition(u, m) => /\ TargetPosition(u, m, s).base = 0
                                    /\ TargetPosition(u, m, s).quoteEntry = 0
           /\ HasPosition(u, m) => TargetPosition(u, m, s) = positions[u][s]
  <1>1. TargetPosition(u, m, s) \in PositionType
    BY TargetPositionType DEF SlotInv, EngineInv, TradeOK
  <1>2. CASE HasPosition(u, m)
    BY <1>1, <1>2 DEF TargetSlot, TargetPosition, FoundPosition, IsOpenIn, Holds
  <1>3. CASE ~HasPosition(u, m)
    BY <1>1, <1>3 DEF TargetSlot, TargetPosition, HasPosition, Holds, DefaultPosition
  <1> QED
    BY <1>1, <1>2, <1>3

LEMMA FoundHolds ==
    ASSUME NEW u \in Users, NEW m \in MarketIndexes, NEW s \in PositionSlots,
           FoundPosition(u, m, s)
    PROVE  Holds(positions[u], m, s) /\ IsOpenIn(positions[u][s], m)
  BY DEF FoundPosition, Holds

\* n base in direction dir were added to u's position in m, which is in slot s.
Grew(u, m, dir, n, quote, s) ==
    /\ n \in Nat \ {0} /\ quote \in Nat
    /\ TargetSlot(u, m, s)
    /\ SameSide(u, m, s, dir)
    /\ positions'[u] = [positions[u] EXCEPT ![s] =
          Increased(TargetPosition(u, m, s), dir, n, quote, amm[m].cumFunding)]
    /\ user'[u].settledPnl = user[u].settledPnl

\* n base were taken out of it for quote; c is the funding checkpoint it is left with.
Shrank(u, m, n, quote, s, c) ==
    /\ FoundPosition(u, m, s)
    /\ n \in 1 .. Magnitude(positions[u][s].base)
    /\ quote \in Nat
    /\ c \in Int
    /\ positions'[u] = [positions[u] EXCEPT ![s] =
          SettledUpTo(Reduced(positions[u][s], n), c)]
    /\ user'[u].settledPnl = user[u].settledPnl + Realized(positions[u][s], n, quote)

\* The slots and the exposures after n base were added.
LEMMA GrewExposure ==
    ASSUME SlotInv, NEW u \in Users, NEW m \in MarketIndexes, NEW dir \in Directions,
           NEW n, NEW quote, NEW s \in PositionSlots, Grew(u, m, dir, n, quote, s)
    PROVE  /\ SlotsOK(positions'[u])
           /\ NetBase(u, m) = positions[u][s].base
           /\ NetBase(u, m)' = NetBase(u, m) + SignedBase(dir, n)
           /\ positions'[u][s].base = NetBase(u, m)'
           /\ NetBase(u, m) # 0 => ((NetBase(u, m) > 0) <=> (dir = "Long"))
           /\ \A k : k # m => NetBase(u, k)' = NetBase(u, k)
  <1> DEFINE t == TargetPosition(u, m, s)
             p == Increased(t, dir, n, quote, amm[m].cumFunding)
  <1>1. Holds(positions[u], m, s) /\ t \in PositionType /\ t.market = m
        /\ t.base = positions[u][s].base
    BY TargetHolds DEF Grew
  <1>2. amm[m].cumFunding \in Int /\ n \in Nat /\ quote \in Int
    BY DEF Grew, SlotInv, EngineInv, TradeOK, PoolsOK, AmmType
  <1>3. p \in PositionType
    BY <1>1, <1>2, IncreasedType
  <1>4. p.market = m /\ p.base = t.base + SignedBase(dir, n)
    BY <1>1 DEF Increased, PositionType
  <1>5. positions'[u] = [positions[u] EXCEPT ![s] = p]
    BY DEF Grew
  <1>6. SlotsOK(positions[u])
    BY DEF SlotInv
  <1> HIDE DEF p, t
  <1>7. /\ SlotsOK(positions'[u])
        /\ BaseIn(positions[u], m) = positions[u][s].base
        /\ BaseIn(positions'[u], m) = p.base
        /\ \A k : k # m => BaseIn(positions'[u], k) = BaseIn(positions[u], k)
    BY <1>1, <1>3, <1>4, <1>5, <1>6, SlotRewritten
  <1>8. positions'[u][s] = p
    BY <1>5, <1>6 DEF SlotsOK
  <1>9. positions[u][s].base # 0 => HasPosition(u, m)
    BY <1>1 DEF Holds, HasPosition
  <1> QED
    BY <1>1, <1>4, <1>7, <1>8, <1>9 DEF NetBase, Grew, SameSide

\* The slots and the exposures after n base were taken out.
LEMMA ShrankExposure ==
    ASSUME SlotInv, NEW u \in Users, NEW m \in MarketIndexes, NEW n, NEW quote,
           NEW s \in PositionSlots, NEW c, Shrank(u, m, n, quote, s, c)
    PROVE  /\ SlotsOK(positions'[u])
           /\ NetBase(u, m) = positions[u][s].base
           /\ NetBase(u, m)' = IF NetBase(u, m) > 0 THEN NetBase(u, m) - n
                               ELSE NetBase(u, m) + n
           /\ n \in 1 .. Magnitude(NetBase(u, m))
           /\ positions'[u][s].base = NetBase(u, m)'
           /\ \A k : k # m => NetBase(u, k)' = NetBase(u, k)
  <1> DEFINE b == positions[u][s]
             r == Reduced(b, n)
             p == SettledUpTo(r, c)
  <1>1. SlotsOK(positions[u]) /\ b \in PositionType /\ b.base # 0 /\ b.market = m
    BY FoundHolds DEF SlotInv, SlotsOK, Shrank, IsOpenIn
  <1>2. Holds(positions[u], m, s)
    BY FoundHolds DEF Shrank
  <1>3. n \in Nat /\ n \in 1 .. Magnitude(b.base) /\ c \in Int
    BY <1>1 DEF Shrank, Magnitude, PositionType
  <1>4. r \in PositionType
    BY <1>1, <1>3, ReducedType
  <1>5. r.market = m /\ r.base = IF b.base > 0 THEN b.base - n ELSE b.base + n
    BY <1>1 DEF Reduced, PositionType
  <1>6. positions'[u] = [positions[u] EXCEPT ![s] = p]
    BY DEF Shrank
  <1> HIDE DEF r, b
  <1>7. p \in PositionType /\ p.market = m /\ p.base = r.base
    BY <1>3, <1>4, <1>5 DEF SettledUpTo, PositionType
  <1> HIDE DEF p
  <1>8. /\ SlotsOK(positions'[u])
        /\ BaseIn(positions[u], m) = positions[u][s].base
        /\ BaseIn(positions'[u], m) = p.base
        /\ \A k : k # m => BaseIn(positions'[u], k) = BaseIn(positions[u], k)
    BY <1>1, <1>2, <1>6, <1>7, SlotRewritten
  <1>9. positions'[u][s] = p
    BY <1>1, <1>6 DEF SlotsOK
  <1> QED
    BY <1>3, <1>5, <1>7, <1>8, <1>9 DEF NetBase, b

\* Closing takes an exposure toward zero and not beyond.
LEMMA ShrankReduces ==
    ASSUME SlotInv, NEW u \in Users, NEW m \in MarketIndexes, NEW n, NEW quote,
           NEW s \in PositionSlots, NEW c, Shrank(u, m, n, quote, s, c)
    PROVE  \A k : ReducedTo(NetBase(u, k), NetBase(u, k)')
  <1>1. positions[u] \in [PositionSlots -> PositionType]
    BY DEF SlotInv, SlotsOK
  <1>2. \A k : NetBase(u, k) \in Int
    BY <1>1, ExposureType DEF NetBase
  <1>3. \A k : k # m => NetBase(u, k)' = NetBase(u, k)
    BY ShrankExposure
  <1>4. /\ NetBase(u, m)' = IF NetBase(u, m) > 0 THEN NetBase(u, m) - n
                            ELSE NetBase(u, m) + n
        /\ n \in 1 .. Magnitude(NetBase(u, m))
    BY ShrankExposure
  <1>5. ReducedTo(NetBase(u, m), NetBase(u, m)')
    BY <1>2, <1>4 DEF ReducedTo, Magnitude
  <1>6. ASSUME NEW k, k # m PROVE ReducedTo(NetBase(u, k), NetBase(u, k)')
    <2>1. NetBase(u, k)' = NetBase(u, k) /\ NetBase(u, k) \in Int
      BY <1>2, <1>3, <1>6
    <2> QED
      BY <2>1 DEF ReducedTo
  <1> QED
    BY <1>5, <1>6

-----------------------------------------------------------------------------
(* The kinds of steps.  Every trade is one of three, for a market order or for  *)
(* what is left of a resting one; liquidations and funding settlements rewrite   *)
(* one slot; no other step touches a position.                                *)

\* what n base filled may leave of an order
LeftOf(o, n) ==
    {DefaultOrder, FillAndMaybeClear(o, n), [Filled(o, n) EXCEPT !.status = "Init"]}

\* a limit order opens all that remains of it and leaves the book
OrderOpens(u, m, os, dir, n, limit) ==
    LET o == orders[u][os]
    IN  /\ o.status = "Open" /\ o.type = "Limit" /\ o.market = m /\ ~o.reduceOnly
        /\ dir = o.dir /\ n = RemainingBase(o) /\ limit = o.price
        /\ orders' = [orders EXCEPT ![u][os] = DefaultOrder]

\* a reduce-only order, limit or triggered, closes at most what remains of it
OrderCloses(u, m, os, s, n, limit) ==
    LET o == orders[u][os]
    IN  /\ o.status = "Open" /\ o.market = m /\ o.reduceOnly
        /\ n <= RemainingBase(o)
        /\ o.type = "Limit" => ((o.dir = "Long") <=> (positions[u][s].base < 0))
        /\ o.type \in {"Limit", "TriggerLimit"} => limit = o.price
        /\ \E left \in LeftOf(o, n) : orders' = [orders EXCEPT ![u][os] = left]

Opens(u, m, dir, n, limit) ==
    /\ ~paused /\ m \in CreatedMarkets /\ CanOpen(m)
    /\ ExecuteAmmOpen(u, m, dir, n, limit)
    /\ \/ n \in OpenSizes /\ UNCHANGED orders
       \/ \E os \in OrderSlots : OrderOpens(u, m, os, dir, n, limit)
    /\ UNCHANGED <<numMarkets, oracle, insurance, wallet, vault>>

Closes(u, m, s, n, limit) ==
    /\ m \in CreatedMarkets
    /\ FoundPosition(u, m, s)
    /\ ExecuteAmmClose(u, m, s, n, limit)
    /\ \/ UNCHANGED orders
       \/ \E os \in OrderSlots : OrderCloses(u, m, os, s, n, limit)
    /\ UNCHANGED <<numMarkets, oracle, insurance, wallet, vault>>

\* two opening limit orders that cross trade what the smaller has left
Matches(t, w, m, ts, ws, n) ==
    LET a == orders[t][ts]
        b == orders[w][ws]
    IN  /\ ~paused /\ t # w /\ m \in CreatedMarkets /\ CanOpen(m)
        /\ a.status = "Open" /\ a.type = "Limit" /\ a.market = m /\ ~a.reduceOnly
        /\ b.status = "Open" /\ b.type = "Limit" /\ b.market = m /\ ~b.reduceOnly
        /\ Crosses(a, b)
        /\ n = Least(RemainingBase(a), RemainingBase(b))
        /\ ExecuteMakerMatch(t, w, m, a.dir, n, b.price)
        /\ orders' = [orders EXCEPT ![t][ts] = FillAndMaybeClear(a, n),
                                    ![w][ws] = FillAndMaybeClear(b, n)]
        /\ UNCHANGED <<numMarkets, oracle, insurance, wallet, vault>>

\* an instruction that only sets up, funds, prices or administers
NoTrade ==
    \/ \E u \in Users :
          \/ InitializeUser(u)
          \/ \E a \in TokenAmounts : Deposit(u, a)
          \/ \E m \in MarketIndexes, a \in TokenAmounts : Withdraw(u, m, a)
          \/ \E m \in MarketIndexes, o \in OrderSpecs : PlaceOrder(u, m, o)
          \/ \E id \in OrderIds : CancelOrder(u, id)
          \/ ResolveBankruptcy(u)
    \/ \E m \in MarketIndexes : MarketStep(m)
    \/ \E p \in PauseChoices : SetProtocolPaused(p)
    \/ \E t \in TimeSteps : Tick(t)

Trade ==
    \/ \E u \in Users, m \in MarketIndexes, dir \in Directions, n \in Nat, limit \in Nat :
          Opens(u, m, dir, n, limit)
    \/ \E u \in Users, m \in MarketIndexes, s \in PositionSlots, n \in Nat, limit \in Nat :
          Closes(u, m, s, n, limit)
    \/ \E t, w \in Users, m \in MarketIndexes, ts, ws \in OrderSlots, n \in Nat :
          Matches(t, w, m, ts, ws, n)

SlotStep ==
    \/ \E u \in Users, m \in MarketIndexes, n \in Nat : LiquidatePerp(u, m, n)
    \/ \E u \in Users, m \in MarketIndexes : SettleFunding(u, m)

LEMMA OpenPositionOpens ==
    ASSUME NEW u \in Users, NEW m \in MarketIndexes, NEW d \in Directions,
           NEW n \in OpenSizes, NEW l \in PriceLimits, OpenPosition(u, m, d, n, l)
    PROVE  Trade
  <1>1. Opens(u, m, d, n, l)
    BY DEF OpenPosition, Opens
  <1>2. n \in Nat /\ l \in Nat
    BY InputAssumption
  <1> QED
    BY <1>1, <1>2 DEF Trade

LEMMA ClosePositionCloses ==
    ASSUME EngineInv, NEW u \in Users, NEW m \in MarketIndexes, NEW r \in CloseSizes,
           NEW l \in PriceLimits, ClosePosition(u, m, r, l)
    PROVE  Trade
  <1> DEFINE n(s) == CloseSize(r, Magnitude(positions[u][s].base))
  <1>1. PICK s \in PositionSlots : FoundPosition(u, m, s) /\ ExecuteAmmClose(u, m, s, n(s), l)
    BY DEF ClosePosition
  <1>2. positions[u][s].base \in Int
    BY DEF EngineInv, TradeOK, PositionsOK, PositionType
  <1>3. n(s) \in Nat /\ l \in Nat
    BY <1>2, InputAssumption DEF CloseSize, Magnitude
  <1>4. Closes(u, m, s, n(s), l)
    BY <1>1 DEF Closes, ClosePosition
  <1> HIDE DEF n
  <1> QED
    BY <1>3, <1>4 DEF Trade

LEMMA FillOrderTrades ==
    ASSUME EngineInv, NEW u \in Users, NEW m \in MarketIndexes, NEW id,
           FillOrder(u, m, id)
    PROVE  Trade
  <1>1. PICK os \in OrderSlots :
          /\ FoundOrder(u, id, os)
          /\ orders[u][os].type = "Limit"
          /\ orders[u][os].market = m
          /\ \/ orders[u][os].reduceOnly /\ FillReduceOnly(u, m, os)
             \/ ~orders[u][os].reduceOnly /\ CanOpen(m) /\ FillOpening(u, m, os)
    BY DEF FillOrder
  <1> DEFINE o == orders[u][os]
  <1>2. o \in OrderType /\ RemainingBase(o) \in Nat /\ o.status = "Open"
    BY <1>1, RemainingType DEF EngineInv, RestOK, FoundOrder
  <1>3. o.dir \in Directions /\ o.price \in Nat
    BY <1>2 DEF OrderType
  <1>4. CASE orders[u][os].reduceOnly /\ FillReduceOnly(u, m, os)
    <2> DEFINE size(ps) == Magnitude(positions[u][ps].base)
               n(ps)    == Least(RemainingBase(o), size(ps))
    <2>1. PICK ps \in PositionSlots :
            /\ FoundPosition(u, m, ps)
            /\ (o.dir = "Long") <=> (positions[u][ps].base < 0)
            /\ ExecuteAmmClose(u, m, ps, n(ps), o.price)
            /\ orders' = [orders EXCEPT ![u][os] =
                  IF n(ps) = size(ps) THEN DefaultOrder ELSE FillAndMaybeClear(o, n(ps))]
      BY <1>4 DEF FillReduceOnly
    <2>2. positions[u][ps].base \in Int
      BY DEF EngineInv, TradeOK, PositionsOK, PositionType
    <2>3. n(ps) \in Nat /\ n(ps) <= RemainingBase(o)
      BY <1>2, <2>2 DEF Least, Magnitude
    <2> DEFINE left == IF n(ps) = size(ps) THEN DefaultOrder ELSE FillAndMaybeClear(o, n(ps))
    <2>4. left \in LeftOf(o, n(ps)) /\ orders' = [orders EXCEPT ![u][os] = left]
      BY <2>1 DEF LeftOf
    <2> HIDE DEF left, n
    <2>5. OrderCloses(u, m, os, ps, n(ps), o.price)
      BY <1>1, <1>2, <1>4, <2>1, <2>3, <2>4 DEF OrderCloses
    <2>6. Closes(u, m, ps, n(ps), o.price)
      BY <2>1, <2>5 DEF Closes, FillOrder
    <2> QED
      BY <1>3, <2>3, <2>6 DEF Trade
  <1>5. CASE ~orders[u][os].reduceOnly /\ CanOpen(m) /\ FillOpening(u, m, os)
    <2>1. OrderOpens(u, m, os, o.dir, RemainingBase(o), o.price)
      BY <1>1, <1>2, <1>5 DEF OrderOpens, FillOpening
    <2>2. Opens(u, m, o.dir, RemainingBase(o), o.price)
      BY <1>5, <2>1 DEF Opens, FillOpening, FillOrder
    <2> QED
      BY <1>2, <1>3, <2>2 DEF Trade
  <1> QED
    BY <1>1, <1>4, <1>5

LEMMA MatchOrdersMatches ==
    ASSUME EngineInv, NEW t \in Users, NEW w \in Users, NEW m \in MarketIndexes, NEW id,
           NEW wid, MatchOrders(t, w, m, id, wid)
    PROVE  Trade
  <1> DEFINE n(ts, ws) == Least(RemainingBase(orders[t][ts]), RemainingBase(orders[w][ws]))
  <1>1. PICK ts \in OrderSlots, ws \in OrderSlots :
          /\ Matchable(t, id, m, ts)
          /\ Matchable(w, wid, m, ws)
          /\ Crosses(orders[t][ts], orders[w][ws])
          /\ ExecuteMakerMatch(t, w, m, orders[t][ts].dir, n(ts, ws), orders[w][ws].price)
          /\ orders' = [orders EXCEPT
                ![t][ts] = FillAndMaybeClear(orders[t][ts], n(ts, ws)),
                ![w][ws] = FillAndMaybeClear(orders[w][ws], n(ts, ws))]
    BY DEF MatchOrders
  <1>2. n(ts, ws) \in Nat
    BY RemainingType DEF EngineInv, RestOK, Least
  <1>3. Matches(t, w, m, ts, ws, n(ts, ws))
    BY <1>1 DEF Matches, MatchOrders, Matchable, FoundOrder
  <1> HIDE DEF n
  <1> QED
    BY <1>2, <1>3 DEF Trade

LEMMA TriggerOrderCloses ==
    ASSUME EngineInv, NEW u \in Users, NEW m \in MarketIndexes, NEW id,
           TriggerOrder(u, m, id)
    PROVE  Trade
  <1> DEFINE n(os, ps)  == Least(RemainingBase(orders[u][os]),
                                 Magnitude(positions[u][ps].base))
             limit(os)  == IF orders[u][os].type = "TriggerLimit" THEN orders[u][os].price
                           ELSE 0
             left(os, ps) == [Filled(orders[u][os], n(os, ps)) EXCEPT !.status = "Init"]
  <1>1. PICK os \in OrderSlots, ps \in PositionSlots :
          /\ FoundOrder(u, id, os)
          /\ orders[u][os].type \in {"TriggerMarket", "TriggerLimit"}
          /\ orders[u][os].reduceOnly
          /\ orders[u][os].market = m
          /\ FoundPosition(u, m, ps)
          /\ ExecuteAmmClose(u, m, ps, n(os, ps), limit(os))
          /\ orders' = [orders EXCEPT ![u][os] = left(os, ps)]
    BY DEF TriggerOrder
  <1>2. orders[u][os] \in OrderType /\ positions[u][ps].base \in Int
        /\ RemainingBase(orders[u][os]) \in Nat
    BY RemainingType DEF EngineInv, RestOK, TradeOK, PositionsOK, PositionType
  <1>3. n(os, ps) \in Nat /\ n(os, ps) <= RemainingBase(orders[u][os])
    BY <1>2 DEF Least, Magnitude
  <1>4. limit(os) \in Nat
        /\ (orders[u][os].type \in {"Limit", "TriggerLimit"} => limit(os) = orders[u][os].price)
    BY <1>1, <1>2 DEF OrderType
  <1>5. left(os, ps) \in LeftOf(orders[u][os], n(os, ps))
    BY DEF LeftOf
  <1> HIDE DEF n, limit, left
  <1>6. OrderCloses(u, m, os, ps, n(os, ps), limit(os))
    BY <1>1, <1>3, <1>4, <1>5 DEF OrderCloses, FoundOrder
  <1>7. Closes(u, m, ps, n(os, ps), limit(os))
    BY <1>1, <1>6 DEF Closes, TriggerOrder
  <1> QED
    BY <1>3, <1>4, <1>7 DEF Trade

\* Every step of the program is of one of these kinds.
LEMMA StepKinds ==
    ASSUME EngineInv, Next
    PROVE  Trade \/ SlotStep \/ NoTrade
  <1>1. ASSUME NEW u \in Users, UserStep(u) PROVE Trade \/ NoTrade
    BY <1>1, OpenPositionOpens, ClosePositionCloses DEF UserStep, NoTrade
  <1>2. ASSUME NEW u \in Users, CrankStep(u) PROVE Trade \/ SlotStep \/ NoTrade
    <2>1. ASSUME NEW m \in MarketIndexes, NEW n \in CloseSizes, LiquidatePerp(u, m, n)
          PROVE  SlotStep
      BY <2>1, InputAssumption DEF SlotStep
    <2>2. ASSUME NEW m \in MarketIndexes, SettleFunding(u, m) PROVE SlotStep
      BY <2>2 DEF SlotStep
    <2> QED
      BY <1>2, <2>1, <2>2, FillOrderTrades, MatchOrdersMatches, TriggerOrderCloses
         DEF CrankStep, NoTrade
  <1> QED
    BY <1>1, <1>2 DEF Next, NoTrade

-----------------------------------------------------------------------------
(* What each kind of step does to positions *)

OthersKept(U) ==
    \A v \in Users \ U : positions'[v] = positions[v] /\ user'[v] = user[v]

\* the trade left u above initial margin in m
LeftSafe(u, m, s) == MeetsInitialMargin(user'[u].collateral, positions'[u][s], m)

LEMMA OpenGrows ==
    ASSUME EngineInv, NEW u \in Users, NEW m \in MarketIndexes, NEW dir \in Directions,
           NEW n \in Nat, NEW limit, ExecuteAmmOpen(u, m, dir, n, limit)
    PROVE  /\ OthersKept({u})
           /\ \E s \in PositionSlots, quote \in Nat :
                /\ Grew(u, m, dir, n, quote, s)
                /\ LeftSafe(u, m, s)
                /\ PriceWithin(limit, dir = "Long", AvgPrice(quote, n))
  <1> DEFINE quote  == SwapQuote(amm[m], n, SwapDirForOpen(dir))
             left   == user[u].collateral - FeeAmount(quote, TakerFeeBps)
             pos(s) == Increased(TargetPosition(u, m, s), dir, n, quote, amm[m].cumFunding)
  <1>1. PICK s \in PositionSlots :
          /\ SwapAllowed(amm[m], n, SwapDirForOpen(dir))
          /\ PriceWithin(limit, dir = "Long", AvgPrice(quote, n))
          /\ TargetSlot(u, m, s)
          /\ SameSide(u, m, s, dir)
          /\ MeetsInitialMargin(left, pos(s), m)
          /\ positions' = [positions EXCEPT ![u][s] = pos(s)]
          /\ user' = [user EXCEPT ![u].collateral = left]
    BY DEF ExecuteAmmOpen
  <1>2. amm[m].base \in Nat /\ amm[m].quote \in Nat /\ amm[m].peg \in Nat
    BY DEF EngineInv, TradeOK, PoolsOK, AmmType
  <1>3. SwapDirForOpen(dir) \in {"Add", "Remove"}
    BY DEF SwapDirForOpen
  <1>4. quote \in Nat
    BY <1>1, <1>2, <1>3, SwapQuoteUnsigned
  <1>5. n > 0
    BY <1>1 DEF SwapAllowed
  <1> HIDE DEF quote, left, pos
  <1>6. /\ positions \in [Users -> [PositionSlots -> PositionType]]
        /\ user \in [Users -> UserType]
    BY DEF EngineInv, TradeOK, PositionsOK, AccountsOK
  <1>7. /\ positions'[u] = [positions[u] EXCEPT ![s] = pos(s)]
        /\ positions'[u][s] = pos(s)
        /\ user'[u].collateral = left
        /\ user'[u].settledPnl = user[u].settledPnl
        /\ \A v \in Users \ {u} : positions'[v] = positions[v] /\ user'[v] = user[v]
    BY <1>1, <1>6 DEF UserType
  <1>8. Grew(u, m, dir, n, quote, s)
    BY <1>1, <1>4, <1>5, <1>7 DEF Grew, pos
  <1> QED
    BY <1>1, <1>4, <1>7, <1>8 DEF OthersKept, LeftSafe

LEMMA CloseShrinks ==
    ASSUME EngineInv, NEW u \in Users, NEW m \in MarketIndexes, NEW s \in PositionSlots,
           NEW n, NEW limit, FoundPosition(u, m, s), ExecuteAmmClose(u, m, s, n, limit)
    PROVE  /\ OthersKept({u})
           /\ \E quote \in Nat :
                /\ Shrank(u, m, n, quote, s, positions[u][s].lastCum)
                /\ PriceWithin(limit, positions[u][s].base < 0, AvgPrice(quote, n))
  <1> DEFINE pos   == positions[u][s]
             quote == SwapQuote(amm[m], n, CloseSwapDir(pos))
             pnl   == Realized(pos, n, quote)
             left  == user[u].collateral + pnl - FeeAmount(quote, TakerFeeBps)
             r     == Reduced(pos, n)
  <1>1. /\ n \in 1 .. Magnitude(pos.base)
        /\ SwapAllowed(amm[m], n, CloseSwapDir(pos))
        /\ PriceWithin(limit, pos.base < 0, AvgPrice(quote, n))
        /\ positions' = [positions EXCEPT ![u][s] = r]
        /\ user' = [user EXCEPT ![u].collateral = left, ![u].settledPnl = @ + pnl]
    BY DEF ExecuteAmmClose
  <1>2. amm[m].base \in Nat /\ amm[m].quote \in Nat /\ amm[m].peg \in Nat
    BY DEF EngineInv, TradeOK, PoolsOK, AmmType
  <1>3. /\ positions \in [Users -> [PositionSlots -> PositionType]]
        /\ user \in [Users -> UserType]
    BY DEF EngineInv, TradeOK, PositionsOK, AccountsOK
  <1>4. pos \in PositionType /\ pos.base # 0 /\ n \in Nat
    BY <1>1, <1>3 DEF FoundPosition, IsOpenIn, Magnitude, PositionType
  <1>5. CloseSwapDir(pos) \in {"Add", "Remove"}
    BY DEF CloseSwapDir
  <1>6. quote \in Nat
    BY <1>1, <1>2, <1>4, <1>5, SwapQuoteUnsigned
  <1>7. r = SettledUpTo(r, pos.lastCum)
    <2>1. r.lastCum = pos.lastCum /\ r \in PositionType
      BY <1>4, ReducedType DEF Reduced, PositionType
    <2> HIDE DEF r, pos
    <2> QED
      BY <2>1 DEF SettledUpTo, PositionType
  <1>8. pos.lastCum \in Int
    BY <1>4 DEF PositionType
  <1> HIDE DEF quote, pnl, left, r
  <1>9. /\ positions'[u] = [positions[u] EXCEPT ![s] = r]
        /\ user'[u].settledPnl = user[u].settledPnl + pnl
        /\ \A v \in Users \ {u} : positions'[v] = positions[v] /\ user'[v] = user[v]
    BY <1>1, <1>3 DEF UserType
  <1>10. Shrank(u, m, n, quote, s, positions[u][s].lastCum)
    BY <1>1, <1>6, <1>7, <1>8, <1>9 DEF Shrank, pnl, r
  <1> QED
    BY <1>1, <1>6, <1>9, <1>10 DEF OthersKept

\* a close of n base without a fee is booked in m
CloseBooked(m, isLong, n, dir) ==
    /\ market' = [market EXCEPT ![m] = RemoveInterest(market[m], isLong, n)]
    /\ amm' = [amm EXCEPT ![m] = RemoveSkew(Swapped(amm[m], n, dir), isLong, n)]

LEMMA LiquidateShrinks ==
    ASSUME EngineInv, NEW u \in Users, NEW m \in MarketIndexes, NEW request \in Nat,
           LiquidatePerp(u, m, request)
    PROVE  /\ OthersKept({u})
           /\ \E s \in PositionSlots, n \in Nat, quote \in Nat :
                /\ Shrank(u, m, n, quote, s, amm[m].cumFunding)
                /\ CloseBooked(m, positions[u][s].base > 0, n,
                               CloseSwapDir(positions[u][s]))
  <1> DEFINE p(s)       == positions[u][s]
             settled(s) == Charged(user[u], PendingFunding(p(s), m))
             size(s)    == Magnitude(p(s).base)
             n(s)       == IF request = 0 \/ request > size(s) THEN size(s) ELSE request
             quote(s)   == SwapQuote(amm[m], n(s), CloseSwapDir(p(s)))
             pnl(s)     == Realized(p(s), n(s), quote(s))
             fee(s)     == Least(LiquidationFee(PositionNotional(n(s), oracle[m].price),
                                                market[m].liqFeeBps),
                                 Greatest(settled(s).collateral + pnl(s), 0))
  <1>1. PICK s \in PositionSlots :
          /\ FoundPosition(u, m, s)
          /\ SwapAllowed(amm[m], n(s), CloseSwapDir(p(s)))
          /\ user' = [user EXCEPT ![u] = AfterLiquidation(settled(s), pnl(s), fee(s))]
          /\ positions' = [positions EXCEPT ![u][s] =
                              SettledUpTo(Reduced(p(s), n(s)), amm[m].cumFunding)]
          /\ CloseBooked(m, p(s).base > 0, n(s), CloseSwapDir(p(s)))
    BY DEF LiquidatePerp, CloseBooked
  <1>2. /\ positions \in [Users -> [PositionSlots -> PositionType]]
        /\ user \in [Users -> UserType]
        /\ amm[m].base \in Nat /\ amm[m].quote \in Nat /\ amm[m].peg \in Nat
        /\ amm[m].cumFunding \in Int
    BY DEF EngineInv, TradeOK, PositionsOK, AccountsOK, PoolsOK, AmmType
  <1>3. p(s).base \in Int /\ p(s).base # 0
    BY <1>1, <1>2 DEF FoundPosition, IsOpenIn, PositionType
  <1>4. n(s) \in Nat /\ n(s) \in 1 .. Magnitude(p(s).base)
    BY <1>3 DEF Magnitude
  <1>5. CloseSwapDir(p(s)) \in {"Add", "Remove"}
    BY DEF CloseSwapDir
  <1>6. quote(s) \in Nat
    BY <1>1, <1>2, <1>4, <1>5, SwapQuoteUnsigned
  <1>7. AfterLiquidation(settled(s), pnl(s), fee(s)).settledPnl = user[u].settledPnl + pnl(s)
    <2>1. user[u] \in UserType
      BY <1>2
    <2> DEFINE z == settled(s)
    <2>2. z.settledPnl = user[u].settledPnl /\ "settledPnl" \in DOMAIN z
      BY <2>1 DEF Charged, UserType
    <2> HIDE DEF settled, pnl, fee
    <2> QED
      BY <2>2 DEF AfterLiquidation
  <1> HIDE DEF n, quote, fee
  <1>8. /\ positions'[u] = [positions[u] EXCEPT ![s] =
                               SettledUpTo(Reduced(p(s), n(s)), amm[m].cumFunding)]
        /\ user'[u].settledPnl = user[u].settledPnl + pnl(s)
        /\ \A v \in Users \ {u} : positions'[v] = positions[v] /\ user'[v] = user[v]
    BY <1>1, <1>2, <1>7
  <1>9. Shrank(u, m, n(s), quote(s), s, amm[m].cumFunding)
    BY <1>1, <1>2, <1>4, <1>6, <1>8 DEF Shrank
  <1> QED
    BY <1>1, <1>4, <1>6, <1>8, <1>9 DEF OthersKept

LEMMA MatchGrows ==
    ASSUME EngineInv, NEW t \in Users, NEW w \in Users, t # w, NEW m \in MarketIndexes,
           NEW dir \in Directions, NEW n \in Nat, NEW price \in Nat,
           ExecuteMakerMatch(t, w, m, dir, n, price)
    PROVE  /\ OthersKept({t, w})
           /\ n > 0
           /\ \E ts, ms \in PositionSlots :
                LET quote == (n * price) \div BASE_PRECISION
                IN  /\ Grew(t, m, dir, n, quote, ts) /\ LeftSafe(t, m, ts)
                    /\ Grew(w, m, Opposite(dir), n, quote, ms) /\ LeftSafe(w, m, ms)
  <1> DEFINE quote  == (n * price) \div BASE_PRECISION
             fee    == FeeAmount(quote, TakerFeeBps)
             rebate == FeeAmount(quote, MakerRebateBps)
             tp(ts) == Increased(TargetPosition(t, m, ts), dir, n, quote, amm[m].cumFunding)
             mp(ms) == Increased(TargetPosition(w, m, ms), Opposite(dir), n, quote,
                                 amm[m].cumFunding)
  <1>1. PICK ts \in PositionSlots, ms \in PositionSlots :
          /\ n > 0
          /\ MatchLegAllowed(t, m, ts, dir, -fee, tp(ts))
          /\ MatchLegAllowed(w, m, ms, Opposite(dir), rebate, mp(ms))
          /\ positions' = [positions EXCEPT ![t][ts] = tp(ts), ![w][ms] = mp(ms)]
          /\ user' = [user EXCEPT ![t].collateral = @ - fee, ![w].collateral = @ + rebate]
    BY DEF ExecuteMakerMatch
  <1>2. quote \in Nat
    <2>1. n * price \in Nat
      OBVIOUS
    <2> QED
      BY <2>1, DivOfNat, PrecisionAssumption
  <1> HIDE DEF quote
  <1>3. fee \in Int /\ rebate \in Int
    BY <1>2, FeeType, StateAssumption
  <1>4. /\ positions \in [Users -> [PositionSlots -> PositionType]]
        /\ user \in [Users -> UserType]
    BY DEF EngineInv, TradeOK, PositionsOK, AccountsOK
  <1> HIDE DEF fee, rebate, tp, mp
  <1>5. /\ positions'[t] = [positions[t] EXCEPT ![ts] = tp(ts)]
        /\ positions'[w] = [positions[w] EXCEPT ![ms] = mp(ms)]
        /\ \A v \in Users \ {t, w} : positions'[v] = positions[v] /\ user'[v] = user[v]
    BY <1>1, <1>4
  <1>6. positions'[t][ts] = tp(ts) /\ positions'[w][ms] = mp(ms)
    BY <1>4, <1>5
  <1>7. /\ user'[t].collateral = user[t].collateral + (-fee)
        /\ user'[w].collateral = user[w].collateral + rebate
        /\ user'[t].settledPnl = user[t].settledPnl
        /\ user'[w].settledPnl = user[w].settledPnl
    <2>1. user[t].collateral \in Int
      BY <1>4 DEF UserType
    <2>2. user[t].collateral - fee = user[t].collateral + (-fee)
      BY <1>3, <2>1
    <2> QED
      BY <1>1, <1>4, <2>2 DEF UserType
  <1>8. Grew(t, m, dir, n, quote, ts) /\ LeftSafe(t, m, ts)
    BY <1>1, <1>2, <1>5, <1>6, <1>7 DEF Grew, LeftSafe, MatchLegAllowed, tp
  <1>9. Grew(w, m, Opposite(dir), n, quote, ms) /\ LeftSafe(w, m, ms)
    <2>1. LeftSafe(w, m, ms)
      BY <1>1, <1>6, <1>7 DEF LeftSafe, MatchLegAllowed
    <2>2. TargetSlot(w, m, ms) /\ SameSide(w, m, ms, Opposite(dir))
      BY <1>1 DEF MatchLegAllowed
    <2>3. positions'[w] = [positions[w] EXCEPT ![ms] =
             Increased(TargetPosition(w, m, ms), Opposite(dir), n, quote, amm[m].cumFunding)]
      BY <1>5 DEF mp
    <2>4. n \in Nat \ {0} /\ user'[w].settledPnl = user[w].settledPnl
      BY <1>1, <1>7
    <2> QED
      BY <1>2, <2>1, <2>2, <2>3, <2>4 DEF Grew
  <1>10. OthersKept({t, w}) /\ n > 0
    BY <1>1, <1>5 DEF OthersKept
  <1>11. \E i, j \in PositionSlots :
            /\ Grew(t, m, dir, n, quote, i) /\ LeftSafe(t, m, i)
            /\ Grew(w, m, Opposite(dir), n, quote, j) /\ LeftSafe(w, m, j)
    BY <1>8, <1>9
  <1> QED
    BY <1>10, <1>11 DEF quote

\* Settling funding moves a checkpoint and no exposure.
LEMMA SettleKeepsExposure ==
    ASSUME SlotInv, NEW u \in Users, NEW m \in MarketIndexes, SettleFunding(u, m)
    PROVE  /\ OthersKept({u})
           /\ SlotsOK(positions'[u])
           /\ \A k : NetBase(u, k)' = NetBase(u, k)
           /\ \A s \in PositionSlots :
                /\ positions'[u][s].base = positions[u][s].base
                /\ positions'[u][s].quoteEntry = positions[u][s].quoteEntry
  <1> DEFINE due(s) == PendingFunding(positions[u][s], m)
             a(s)   == [Charged(user[u], due(s)) EXCEPT !.settledPnl = @ - due(s)]
  <1>1. PICK s \in PositionSlots :
          /\ FoundPosition(u, m, s)
          /\ user' = [user EXCEPT ![u] = a(s)]
          /\ positions' = [positions EXCEPT ![u][s] = SettledUpTo(@, amm[m].cumFunding)]
    BY DEF SettleFunding
  <1> HIDE DEF a
  <1> DEFINE b == positions[u][s]
             p == SettledUpTo(b, amm[m].cumFunding)
  <1>2. /\ positions \in [Users -> [PositionSlots -> PositionType]]
        /\ user \in [Users -> UserType]
        /\ amm[m].cumFunding \in Int
        /\ SlotsOK(positions[u])
    BY DEF SlotInv, EngineInv, TradeOK, PositionsOK, AccountsOK, PoolsOK, AmmType
  <1>3. b \in PositionType /\ b.market = m
    BY <1>1, <1>2 DEF FoundPosition, IsOpenIn
  <1>4. positions'[u] = [positions[u] EXCEPT ![s] = p]
        /\ \A v \in Users \ {u} : positions'[v] = positions[v] /\ user'[v] = user[v]
    BY <1>1, <1>2
  <1> HIDE DEF b
  <1>5. p \in PositionType /\ p.market = m /\ p.base = b.base /\ p.quoteEntry = b.quoteEntry
    BY <1>2, <1>3 DEF SettledUpTo, PositionType
  <1> HIDE DEF p
  <1>6. Holds(positions[u], m, s)
    BY <1>1, FoundHolds
  <1>7. /\ SlotsOK(positions'[u])
        /\ BaseIn(positions[u], m) = positions[u][s].base
        /\ BaseIn(positions'[u], m) = p.base
        /\ \A k : k # m => BaseIn(positions'[u], k) = BaseIn(positions[u], k)
    <2>1. SlotsOK(positions[u]) /\ positions'[u] = [positions[u] EXCEPT ![s] = p]
      BY <1>2, <1>4
    <2> QED
      BY <1>5, <1>6, <2>1, SlotRewritten
  <1>8. OthersKept({u})
    BY <1>4 DEF OthersKept
  <1>9. \A k : NetBase(u, k)' = NetBase(u, k)
    BY <1>5, <1>7 DEF NetBase, b
  <1>10. \A t \in PositionSlots :
            /\ positions'[u][t].base = positions[u][t].base
            /\ positions'[u][t].quoteEntry = positions[u][t].quoteEntry
    BY <1>2, <1>4, <1>5 DEF b
  <1> QED
    BY <1>7, <1>8, <1>9, <1>10

\* No other instruction touches a position.
LEMMA NoTradeKeepsPositions ==
    ASSUME NoTrade
    PROVE  UNCHANGED positions
  <1>1. ASSUME NEW u \in Users, NEW a, InitializeUser(u) \/ Deposit(u, a) \/ ResolveBankruptcy(u)
        PROVE  UNCHANGED positions
    BY <1>1 DEF InitializeUser, Deposit, ResolveBankruptcy
  <1>2. ASSUME NEW u \in Users, NEW m \in MarketIndexes, NEW a, Withdraw(u, m, a)
        PROVE  UNCHANGED positions
    BY <1>2 DEF Withdraw
  <1>3. ASSUME NEW u \in Users, NEW m \in MarketIndexes, NEW o, PlaceOrder(u, m, o)
        PROVE  UNCHANGED positions
    BY <1>3 DEF PlaceOrder
  <1>4. ASSUME NEW u \in Users, NEW id, CancelOrder(u, id) PROVE UNCHANGED positions
    BY <1>4 DEF CancelOrder
  <1>5. ASSUME NEW m \in MarketIndexes, MarketStep(m) PROVE UNCHANGED positions
    BY <1>5 DEF MarketStep, UpdateFundingRate, InitializeMarket, UpdateMarketParams,
                InitializeOracle, UpdateOracle
  <1>6. ASSUME NEW x, SetProtocolPaused(x) \/ Tick(x) PROVE UNCHANGED positions
    BY <1>6 DEF SetProtocolPaused, Tick
  <1> QED
    BY <1>1, <1>2, <1>3, <1>4, <1>5, <1>6 DEF NoTrade

-----------------------------------------------------------------------------
(* The invariant *)

LEMMA InitSlotInv == Init => SlotInv
  <1> SUFFICES ASSUME Init PROVE SlotInv
    OBVIOUS
  <1>1. EngineInv
    BY InitEngineInv
  <1>2. \A u \in Users, s \in PositionSlots : positions[u][s].base = 0
    BY DEF Init, DefaultPosition
  <1> QED
    BY <1>1, <1>2 DEF SlotInv, SlotsOK, EngineInv, TradeOK, PositionsOK

\* The slots of every user are sound after a step that rewrote those of U soundly.
LEMMA SlotsKept ==
    ASSUME SlotInv, NEW U, OthersKept(U), \A u \in U : SlotsOK(positions'[u])
    PROVE  \A u \in Users : SlotsOK(positions'[u])
  BY DEF SlotInv, OthersKept

LEMMA TradeKeepsSlots ==
    ASSUME SlotInv, Trade
    PROVE  \A u \in Users : SlotsOK(positions'[u])
  <1>0. EngineInv
    BY DEF SlotInv
  <1>1. ASSUME NEW u \in Users, NEW m \in MarketIndexes, NEW dir \in Directions,
               NEW n \in Nat, NEW limit \in Nat, Opens(u, m, dir, n, limit)
        PROVE  \A v \in Users : SlotsOK(positions'[v])
    <2>1. ExecuteAmmOpen(u, m, dir, n, limit)
      BY <1>1 DEF Opens
    <2>2. OthersKept({u}) /\ \E s \in PositionSlots, quote \in Nat : Grew(u, m, dir, n, quote, s)
      BY <1>0, <2>1, OpenGrows
    <2>3. SlotsOK(positions'[u])
      BY <2>2, GrewExposure
    <2> QED
      BY <2>2, <2>3, SlotsKept
  <1>2. ASSUME NEW u \in Users, NEW m \in MarketIndexes, NEW s \in PositionSlots,
               NEW n \in Nat, NEW limit \in Nat, Closes(u, m, s, n, limit)
        PROVE  \A v \in Users : SlotsOK(positions'[v])
    <2>1. FoundPosition(u, m, s) /\ ExecuteAmmClose(u, m, s, n, limit)
      BY <1>2 DEF Closes
    <2>2. OthersKept({u})
          /\ \E quote \in Nat : Shrank(u, m, n, quote, s, positions[u][s].lastCum)
      BY <1>0, <2>1, CloseShrinks
    <2>3. SlotsOK(positions'[u])
      BY <2>2, ShrankExposure
    <2> QED
      BY <2>2, <2>3, SlotsKept
  <1>3. ASSUME NEW t \in Users, NEW w \in Users, NEW m \in MarketIndexes,
               NEW ts \in OrderSlots, NEW ws \in OrderSlots, NEW n \in Nat,
               Matches(t, w, m, ts, ws, n)
        PROVE  \A v \in Users : SlotsOK(positions'[v])
    <2> DEFINE d == orders[t][ts].dir
               price == orders[w][ws].price
    <2>1. t # w /\ ExecuteMakerMatch(t, w, m, d, n, price)
      BY <1>3 DEF Matches
    <2>2. d \in Directions /\ price \in Nat
      BY DEF SlotInv, EngineInv, RestOK, OrderType
    <2> HIDE DEF d, price
    <2>3. /\ OthersKept({t, w})
          /\ \E s, r \in PositionSlots : \E quote :
                Grew(t, m, d, n, quote, s) /\ Grew(w, m, Opposite(d), n, quote, r)
      BY <1>0, <2>1, <2>2, MatchGrows
    <2>4. Opposite(d) \in Directions
      BY DEF Opposite, Directions
    <2>5. SlotsOK(positions'[t]) /\ SlotsOK(positions'[w])
      BY <2>2, <2>3, <2>4, GrewExposure
    <2> QED
      BY <2>3, <2>5, SlotsKept
  <1> QED
    BY <1>1, <1>2, <1>3 DEF Trade

LEMMA SlotStepKeepsSlots ==
    ASSUME SlotInv, SlotStep
    PROVE  \A u \in Users : SlotsOK(positions'[u])
  <1>0. EngineInv
    BY DEF SlotInv
  <1>1. ASSUME NEW u \in Users, NEW m \in MarketIndexes, NEW n \in Nat, LiquidatePerp(u, m, n)
        PROVE  \A v \in Users : SlotsOK(positions'[v])
    <2>1. OthersKept({u})
          /\ \E s \in PositionSlots, k \in Nat, quote \in Nat :
                Shrank(u, m, k, quote, s, amm[m].cumFunding)
      BY <1>0, <1>1, LiquidateShrinks
    <2>2. SlotsOK(positions'[u])
      BY <2>1, ShrankExposure
    <2> QED
      BY <2>1, <2>2, SlotsKept
  <1>2. ASSUME NEW u \in Users, NEW m \in MarketIndexes, SettleFunding(u, m)
        PROVE  \A v \in Users : SlotsOK(positions'[v])
    BY <1>2, SettleKeepsExposure, SlotsKept
  <1> QED
    BY <1>1, <1>2 DEF SlotStep

LEMMA NextSlotInv == SlotInv /\ [Next]_vars => SlotInv'
  <1> SUFFICES ASSUME SlotInv, [Next]_vars PROVE SlotInv'
    OBVIOUS
  <1>1. EngineInv'
    BY NextEngineInv DEF SlotInv
  <1>2. \A u \in Users : SlotsOK(positions'[u])
    <2>1. CASE Next
      <3>1. Trade \/ SlotStep \/ NoTrade
        BY <2>1, StepKinds DEF SlotInv
      <3>2. NoTrade => UNCHANGED positions
        BY NoTradeKeepsPositions
      <3> QED
        BY <3>1, <3>2, TradeKeepsSlots, SlotStepKeepsSlots DEF SlotInv
    <2>2. CASE UNCHANGED vars
      BY <2>2 DEF vars, SlotInv
    <2> QED
      BY <2>1, <2>2
  <1> QED
    BY <1>1, <1>2 DEF SlotInv

-----------------------------------------------------------------------------
(* Circuit breakers *)

\* An exposure that did not change was not raised.
LEMMA SameIsReduced ==
    ASSUME SlotInv, NEW u \in Users, NEW m, NetBase(u, m)' = NetBase(u, m)
    PROVE  ReducedTo(NetBase(u, m), NetBase(u, m)')
  <1>1. NetBase(u, m) \in Int
    BY ExposureType DEF NetBase, SlotInv, SlotsOK
  <1> QED
    BY <1>1 DEF ReducedTo

LEMMA SameSlotsSameExposure ==
    ASSUME NEW u, positions'[u] = positions[u]
    PROVE  \A m : NetBase(u, m)' = NetBase(u, m)
  BY DEF NetBase

\* What u holds in the markets k was reduced or kept.
NotRaised(u, k) == ReducedTo(NetBase(u, k), NetBase(u, k)')

LEMMA OthersNotRaised ==
    ASSUME SlotInv, NEW U, OthersKept(U)
    PROVE  \A v \in Users \ U : \A k : NotRaised(v, k)
  BY SameIsReduced, SameSlotsSameExposure DEF OthersKept, NotRaised

\* Only a trade that opens raises an exposure, in the market it is in.
LEMMA OpensRaisesOne ==
    ASSUME SlotInv, NEW u \in Users, NEW m \in MarketIndexes, NEW dir \in Directions,
           NEW n \in Nat, NEW limit \in Nat, Opens(u, m, dir, n, limit)
    PROVE  \A v \in Users : \A k : NotRaised(v, k) \/ (v = u /\ k = m)
  <1>1. ExecuteAmmOpen(u, m, dir, n, limit) /\ EngineInv
    BY DEF Opens, SlotInv
  <1>2. OthersKept({u}) /\ \E s \in PositionSlots, quote \in Nat : Grew(u, m, dir, n, quote, s)
    BY <1>1, OpenGrows
  <1>3. \A k : k # m => NetBase(u, k)' = NetBase(u, k)
    BY <1>2, GrewExposure
  <1>4. \A k : k # m => NotRaised(u, k)
    BY <1>3, SameIsReduced DEF NotRaised
  <1> QED
    BY <1>2, <1>4, OthersNotRaised

LEMMA MatchesRaisesTwo ==
    ASSUME SlotInv, NEW t \in Users, NEW w \in Users, NEW m \in MarketIndexes,
           NEW ts \in OrderSlots, NEW ws \in OrderSlots, NEW n \in Nat,
           Matches(t, w, m, ts, ws, n)
    PROVE  \A v \in Users : \A k : NotRaised(v, k) \/ (v \in {t, w} /\ k = m)
  <1> DEFINE d == orders[t][ts].dir
             price == orders[w][ws].price
  <1>1. t # w /\ ExecuteMakerMatch(t, w, m, d, n, price) /\ EngineInv
    BY DEF Matches, SlotInv
  <1>2. d \in Directions /\ price \in Nat
    BY DEF SlotInv, EngineInv, RestOK, OrderType
  <1> HIDE DEF d, price
  <1>3. /\ OthersKept({t, w})
        /\ \E s, r \in PositionSlots : \E quote :
              Grew(t, m, d, n, quote, s) /\ Grew(w, m, Opposite(d), n, quote, r)
    BY <1>1, <1>2, MatchGrows
  <1>4. Opposite(d) \in Directions
    BY DEF Opposite, Directions
  <1>5. \A v \in {t, w} : \A k : k # m => NetBase(v, k)' = NetBase(v, k)
    BY <1>2, <1>3, <1>4, GrewExposure
  <1>6. \A v \in {t, w} : \A k : k # m => NotRaised(v, k)
    BY <1>5, SameIsReduced DEF NotRaised
  <1> QED
    BY <1>3, <1>6, OthersNotRaised

LEMMA ClosesRaisesNone ==
    ASSUME SlotInv, NEW u \in Users, NEW m \in MarketIndexes, NEW s \in PositionSlots,
           NEW n \in Nat, NEW limit \in Nat, Closes(u, m, s, n, limit)
    PROVE  \A v \in Users : \A k : NotRaised(v, k)
  <1>1. FoundPosition(u, m, s) /\ ExecuteAmmClose(u, m, s, n, limit) /\ EngineInv
    BY DEF Closes, SlotInv
  <1>2. OthersKept({u})
        /\ \E quote \in Nat : Shrank(u, m, n, quote, s, positions[u][s].lastCum)
    BY <1>1, CloseShrinks
  <1>3. \A k : NotRaised(u, k)
    BY <1>2, ShrankReduces DEF NotRaised
  <1> QED
    BY <1>2, <1>3, OthersNotRaised

LEMMA SlotStepRaisesNone ==
    ASSUME SlotInv, SlotStep
    PROVE  \A v \in Users : \A k : NotRaised(v, k)
  <1>0. EngineInv
    BY DEF SlotInv
  <1>1. ASSUME NEW u \in Users, NEW m \in MarketIndexes, NEW n \in Nat, LiquidatePerp(u, m, n)
        PROVE  \A v \in Users : \A k : NotRaised(v, k)
    <2>1. OthersKept({u})
          /\ \E s \in PositionSlots, k \in Nat, quote \in Nat :
                Shrank(u, m, k, quote, s, amm[m].cumFunding)
      BY <1>0, <1>1, LiquidateShrinks
    <2>2. \A k : NotRaised(u, k)
      BY <2>1, ShrankReduces DEF NotRaised
    <2> QED
      BY <2>1, <2>2, OthersNotRaised
  <1>2. ASSUME NEW u \in Users, NEW m \in MarketIndexes, SettleFunding(u, m)
        PROVE  \A v \in Users : \A k : NotRaised(v, k)
    <2>1. OthersKept({u}) /\ \A k : NetBase(u, k)' = NetBase(u, k)
      BY <1>2, SettleKeepsExposure
    <2>2. \A k : NotRaised(u, k)
      BY <2>1, SameIsReduced DEF NotRaised
    <2> QED
      BY <2>1, <2>2, OthersNotRaised
  <1> QED
    BY <1>1, <1>2 DEF SlotStep

LEMMA UnchangedRaisesNone ==
    ASSUME SlotInv, UNCHANGED positions
    PROVE  \A v \in Users : \A k : NotRaised(v, k)
  BY SameIsReduced, SameSlotsSameExposure DEF NotRaised

\* While the protocol is paused no instruction moves a token.
LEMMA PausedMovesNoToken ==
    ASSUME EngineInv, Next, paused
    PROVE  UNCHANGED <<wallet, vault>>
  <1>1. ASSUME Trade PROVE UNCHANGED <<wallet, vault>>
    BY <1>1 DEF Trade, Opens, Closes, Matches
  <1>2. ASSUME SlotStep PROVE UNCHANGED <<wallet, vault>>
    <2>1. ASSUME NEW u, NEW m, NEW n, LiquidatePerp(u, m, n)
          PROVE  UNCHANGED <<wallet, vault>>
      BY <2>1 DEF LiquidatePerp
    <2>2. ASSUME NEW u, NEW m, SettleFunding(u, m) PROVE UNCHANGED <<wallet, vault>>
      BY <2>2 DEF SettleFunding
    <2> QED
      BY <1>2, <2>1, <2>2 DEF SlotStep
  <1>3. ASSUME NoTrade PROVE UNCHANGED <<wallet, vault>>
    <2>1. ASSUME NEW u \in Users, InitializeUser(u) \/ ResolveBankruptcy(u)
          PROVE  UNCHANGED <<wallet, vault>>
      BY <2>1 DEF InitializeUser, ResolveBankruptcy
    <2>2. ASSUME NEW u \in Users, NEW a, Deposit(u, a) PROVE FALSE
      BY <2>2 DEF Deposit
    <2>3. ASSUME NEW u \in Users, NEW m, NEW a, Withdraw(u, m, a) PROVE FALSE
      BY <2>3 DEF Withdraw
    <2>4. ASSUME NEW u \in Users, NEW m, NEW o, PlaceOrder(u, m, o) PROVE FALSE
      BY <2>4 DEF PlaceOrder
    <2>5. ASSUME NEW u \in Users, NEW id, CancelOrder(u, id)
          PROVE  UNCHANGED <<wallet, vault>>
      BY <2>5 DEF CancelOrder
    <2>6. ASSUME NEW m \in MarketIndexes, MarketStep(m) PROVE UNCHANGED <<wallet, vault>>
      BY <2>6 DEF MarketStep, UpdateFundingRate, InitializeMarket, UpdateMarketParams,
                  InitializeOracle, UpdateOracle
    <2>7. ASSUME NEW x, SetProtocolPaused(x) \/ Tick(x) PROVE UNCHANGED <<wallet, vault>>
      BY <2>7 DEF SetProtocolPaused, Tick
    <2> QED
      BY <1>3, <2>1, <2>2, <2>3, <2>4, <2>5, <2>6, <2>7 DEF NoTrade
  <1> QED
    BY <1>1, <1>2, <1>3, StepKinds

LEMMA NextBreakerStep == SlotInv /\ [Next]_vars => BreakerStep
  <1> SUFFICES ASSUME SlotInv, [Next]_vars PROVE BreakerStep
    OBVIOUS
  <1>1. ASSUME NEW m \in MarketIndexes, paused \/ market[m].status # "Active", NEW u \in Users
        PROVE  NotRaised(u, m)
    <2>1. ASSUME Trade PROVE NotRaised(u, m)
      <3>1. ASSUME NEW v \in Users, NEW k \in MarketIndexes, NEW dir \in Directions,
                   NEW n \in Nat, NEW limit \in Nat, Opens(v, k, dir, n, limit)
            PROVE  NotRaised(u, m)
        <4>1. k # m
          BY <1>1, <3>1 DEF Opens, CanOpen
        <4> QED
          BY <3>1, <4>1, OpensRaisesOne
      <3>2. ASSUME NEW v \in Users, NEW k \in MarketIndexes, NEW s \in PositionSlots,
                   NEW n \in Nat, NEW limit \in Nat, Closes(v, k, s, n, limit)
            PROVE  NotRaised(u, m)
        BY <3>2, ClosesRaisesNone
      <3>3. ASSUME NEW t \in Users, NEW w \in Users, NEW k \in MarketIndexes,
                   NEW ts \in OrderSlots, NEW ws \in OrderSlots, NEW n \in Nat,
                   Matches(t, w, k, ts, ws, n)
            PROVE  NotRaised(u, m)
        <4>1. k # m
          BY <1>1, <3>3 DEF Matches, CanOpen
        <4> QED
          BY <3>3, <4>1, MatchesRaisesTwo
      <3> QED
        BY <2>1, <3>1, <3>2, <3>3 DEF Trade
    <2>2. Next => Trade \/ SlotStep \/ NoTrade
      BY StepKinds DEF SlotInv
    <2>3. NoTrade \/ UNCHANGED vars => NotRaised(u, m)
      BY NoTradeKeepsPositions, UnchangedRaisesNone DEF vars
    <2> QED
      BY <2>1, <2>2, <2>3, SlotStepRaisesNone
  <1>2. paused => UNCHANGED <<wallet, vault>>
    BY PausedMovesNoToken DEF SlotInv, vars
  <1> QED
    BY <1>1, <1>2 DEF BreakerStep, NotRaised

\* In every behaviour of the program, with the protocol paused or a market not
\* active no user's exposure in it grows or changes side, by a market order, a
\* resting one placed before, a match or a trigger; paused, no token moves.
THEOREM BreakersAlwaysStopNewRisk == Spec => BreakersStopNewRisk
  <1>1. SlotInv /\ [Next]_vars => [BreakerStep]_vars
    BY NextBreakerStep
  <1> QED
    BY <1>1, InitSlotInv, NextSlotInv, PTL DEF Spec, BreakersStopNewRisk

-----------------------------------------------------------------------------
(* Reduce-only orders *)

\* A trade that opens leaves every reduce-only order as it is.
LEMMA OpensKeepsReduceOnly ==
    ASSUME EngineInv, NEW v \in Users, NEW k, NEW dir, NEW n, NEW limit,
           Opens(v, k, dir, n, limit), NEW u \in Users, NEW s \in OrderSlots,
           orders[u][s].reduceOnly
    PROVE  orders'[u][s] = orders[u][s]
  <1>1. CASE UNCHANGED orders
    BY <1>1
  <1>2. ASSUME NEW os \in OrderSlots, OrderOpens(v, k, os, dir, n, limit)
        PROVE  orders'[u][s] = orders[u][s]
    <2>1. ~orders[v][os].reduceOnly /\ orders' = [orders EXCEPT ![v][os] = DefaultOrder]
      BY <1>2 DEF OrderOpens
    <2> QED
      BY <2>1 DEF EngineInv, RestOK
  <1> QED
    BY <1>1, <1>2 DEF Opens

LEMMA MatchesKeepsReduceOnly ==
    ASSUME EngineInv, NEW t \in Users, NEW w \in Users, NEW m, NEW ts \in OrderSlots,
           NEW ws \in OrderSlots, NEW n, Matches(t, w, m, ts, ws, n),
           NEW u \in Users, NEW s \in OrderSlots, orders[u][s].reduceOnly
    PROVE  orders'[u][s] = orders[u][s]
  <1> DEFINE a == FillAndMaybeClear(orders[t][ts], n)
             b == FillAndMaybeClear(orders[w][ws], n)
  <1>1. /\ ~orders[t][ts].reduceOnly /\ ~orders[w][ws].reduceOnly
        /\ orders' = [orders EXCEPT ![t][ts] = a, ![w][ws] = b]
    BY DEF Matches
  <1> HIDE DEF a, b
  <1> QED
    BY <1>1 DEF EngineInv, RestOK

LEMMA NextReduceOnlyStep == SlotInv /\ [Next]_vars => ReduceOnlyStep
  <1> SUFFICES ASSUME SlotInv, [Next]_vars, NEW u \in Users, NEW s \in OrderSlots,
                      orders[u][s].reduceOnly, orders'[u][s] # orders[u][s]
               PROVE  \A m : NotRaised(u, m)
    BY DEF ReduceOnlyStep, NotRaised
  <1>0. EngineInv
    BY DEF SlotInv
  <1>1. ASSUME Trade PROVE \A m : NotRaised(u, m)
    BY <1>0, <1>1, OpensKeepsReduceOnly, MatchesKeepsReduceOnly, ClosesRaisesNone DEF Trade
  <1>2. Next => Trade \/ SlotStep \/ NoTrade
    BY <1>0, StepKinds
  <1>3. NoTrade \/ UNCHANGED vars => \A m : NotRaised(u, m)
    BY NoTradeKeepsPositions, UnchangedRaisesNone DEF vars
  <1> QED
    BY <1>1, <1>2, <1>3, SlotStepRaisesNone

\* In every behaviour of the program a step that changes a reduce-only order, fills
\* it or triggers it never adds to its owner's exposure and never turns it around,
\* whatever became of the position since the order was placed.
THEOREM ReduceOnlyAlwaysReduces == Spec => ReduceOnlyOnlyReduces
  <1>1. SlotInv /\ [Next]_vars => [ReduceOnlyStep]_vars
    BY NextReduceOnlyStep
  <1> QED
    BY <1>1, InitSlotInv, NextSlotInv, PTL DEF Spec, ReduceOnlyOnlyReduces

-----------------------------------------------------------------------------
(* What each kind of step does to the books of the markets *)

MarketKeptAll(K) == \A k \in K : market'[k] = market[k] /\ amm'[k] = amm[k]

MarginKept(k) == market'[k].imr = market[k].imr /\ market'[k].mmr = market[k].mmr

\* long interest in m went up by l and short interest by h
BooksRaised(m, l, h) ==
    /\ MarketKeptAll(MarketIndexes \ {m})
    /\ MarginKept(m)
    /\ market'[m].oiLong = market[m].oiLong + l
    /\ market'[m].oiShort = market[m].oiShort + h
    /\ amm'[m].long = amm[m].long + l
    /\ amm'[m].short = amm[m].short - h

\* n of one side's interest in m left; the market's count saturates at 0
BooksLowered(m, isLong, n) ==
    /\ MarketKeptAll(MarketIndexes \ {m})
    /\ MarginKept(m)
    /\ market'[m].oiLong = IF isLong THEN Greatest(market[m].oiLong - n, 0)
                           ELSE market[m].oiLong
    /\ market'[m].oiShort = IF isLong THEN market[m].oiShort
                            ELSE Greatest(market[m].oiShort - n, 0)
    /\ amm'[m].long = IF isLong THEN amm[m].long - n ELSE amm[m].long
    /\ amm'[m].short = IF isLong THEN amm[m].short ELSE amm[m].short + n

\* the interest n base in direction dir adds to each side
LongPart(dir, n)  == IF dir = "Long" THEN n ELSE 0
ShortPart(dir, n) == IF dir = "Long" THEN 0 ELSE n

LEMMA InterestAdded ==
    ASSUME NEW mk \in MarketType, NEW dir \in Directions, NEW n \in Nat
    PROVE  LET a == AddInterest(mk, dir, n)
           IN  /\ a \in MarketType
               /\ a.oiLong = mk.oiLong + LongPart(dir, n)
               /\ a.oiShort = mk.oiShort + ShortPart(dir, n)
               /\ a.imr = mk.imr /\ a.mmr = mk.mmr
  BY DEF AddInterest, MarketType, LongPart, ShortPart, Directions

LEMMA InterestRemoved ==
    ASSUME NEW mk \in MarketType, NEW isLong \in BOOLEAN, NEW n \in Nat
    PROVE  LET a == RemoveInterest(mk, isLong, n)
           IN  /\ a.oiLong = IF isLong THEN Greatest(mk.oiLong - n, 0) ELSE mk.oiLong
               /\ a.oiShort = IF isLong THEN mk.oiShort ELSE Greatest(mk.oiShort - n, 0)
               /\ a.imr = mk.imr /\ a.mmr = mk.mmr
  BY DEF RemoveInterest, MarketType

LEMMA SkewAdded ==
    ASSUME NEW p, p.long \in Int, p.short \in Int, "long" \in DOMAIN p, "short" \in DOMAIN p,
           NEW dir \in Directions, NEW n \in Nat
    PROVE  LET a == AddSkew(p, dir, n)
           IN  /\ a.long = p.long + LongPart(dir, n)
               /\ a.short = p.short - ShortPart(dir, n)
               /\ DOMAIN a = DOMAIN p
  BY DEF AddSkew, LongPart, ShortPart, Directions

LEMMA SkewRemoved ==
    ASSUME NEW p, "long" \in DOMAIN p, "short" \in DOMAIN p, NEW isLong \in BOOLEAN, NEW n
    PROVE  LET a == RemoveSkew(p, isLong, n)
           IN  /\ a.long = IF isLong THEN p.long - n ELSE p.long
               /\ a.short = IF isLong THEN p.short ELSE p.short + n
  BY DEF RemoveSkew

\* A swap and a fee do not touch a pool's skew.
LEMMA SkewOfSwap ==
    ASSUME NEW p \in AmmType, NEW n, NEW dir, NEW fee
    PROVE  LET w == Swapped(p, n, dir)
           IN  /\ w.long = p.long /\ w.short = p.short /\ DOMAIN w = DOMAIN p
               /\ [p EXCEPT !.totalFee = fee].long = p.long
               /\ [p EXCEPT !.totalFee = fee].short = p.short
               /\ "long" \in DOMAIN p /\ "short" \in DOMAIN p
  BY DEF Swapped, AmmType

LEMMA OneMarketReplaced ==
    ASSUME EngineInv, NEW m \in MarketIndexes, NEW mk, NEW pool,
           market' = [market EXCEPT ![m] = mk], amm' = [amm EXCEPT ![m] = pool]
    PROVE  MarketKeptAll(MarketIndexes \ {m}) /\ market'[m] = mk /\ amm'[m] = pool
  BY Layout DEF MarketKeptAll

LEMMA OpenBooks ==
    ASSUME EngineInv, NEW u \in Users, NEW m \in MarketIndexes, NEW dir \in Directions,
           NEW n \in Nat, NEW limit, ExecuteAmmOpen(u, m, dir, n, limit)
    PROVE  BooksRaised(m, LongPart(dir, n), ShortPart(dir, n))
  <1> DEFINE w    == Swapped(amm[m], n, SwapDirForOpen(dir))
             k    == AddSkew(w, dir, n)
             mk   == AddInterest(market[m], dir, n)
             fee  == FeeAmount(SwapQuote(amm[m], n, SwapDirForOpen(dir)), TakerFeeBps)
             pool == [k EXCEPT !.totalFee = @ + fee]
  <1>1. market' = [market EXCEPT ![m] = mk] /\ amm' = [amm EXCEPT ![m] = pool]
    BY DEF ExecuteAmmOpen
  <1>2. amm[m] \in AmmType /\ market[m] \in MarketType
    BY DEF EngineInv, TradeOK, PoolsOK, MarketsOK
  <1>3. /\ w.long = amm[m].long /\ w.short = amm[m].short
        /\ "long" \in DOMAIN w /\ "short" \in DOMAIN w
        /\ w.long \in Int /\ w.short \in Int
    BY <1>2, SkewOfSwap DEF AmmType
  <1> HIDE DEF w, fee
  <1>4. k.long = w.long + LongPart(dir, n) /\ k.short = w.short - ShortPart(dir, n)
    BY <1>3, SkewAdded
  <1> HIDE DEF k
  <1>5. pool.long = k.long /\ pool.short = k.short
    OBVIOUS
  <1>6. /\ mk.oiLong = market[m].oiLong + LongPart(dir, n)
        /\ mk.oiShort = market[m].oiShort + ShortPart(dir, n)
        /\ mk.imr = market[m].imr /\ mk.mmr = market[m].mmr
    BY <1>2, InterestAdded
  <1> HIDE DEF pool, mk
  <1>7. MarketKeptAll(MarketIndexes \ {m}) /\ market'[m] = mk /\ amm'[m] = pool
    BY <1>1, OneMarketReplaced
  <1> QED
    BY <1>3, <1>4, <1>5, <1>6, <1>7 DEF BooksRaised, MarginKept

LEMMA MatchBooks ==
    ASSUME EngineInv, NEW t, NEW w, NEW m \in MarketIndexes, NEW dir \in Directions,
           NEW n \in Nat, NEW price, ExecuteMakerMatch(t, w, m, dir, n, price)
    PROVE  BooksRaised(m, n, n)
  <1> DEFINE k1   == AddSkew(amm[m], dir, n)
             k2   == AddSkew(k1, Opposite(dir), n)
             m1   == AddInterest(market[m], dir, n)
             m2   == AddInterest(m1, Opposite(dir), n)
             fee  == FeeAmount((n * price) \div BASE_PRECISION, TakerFeeBps)
             back == FeeAmount((n * price) \div BASE_PRECISION, MakerRebateBps)
             pool == [k2 EXCEPT !.totalFee = @ + fee - back]
  <1>1. market' = [market EXCEPT ![m] = m2] /\ amm' = [amm EXCEPT ![m] = pool]
    BY DEF ExecuteMakerMatch
  <1>2. amm[m] \in AmmType /\ market[m] \in MarketType
    BY DEF EngineInv, TradeOK, PoolsOK, MarketsOK
  <1>3. Opposite(dir) \in Directions
    BY DEF Opposite, Directions
  <1>4. /\ amm[m].long \in Int /\ amm[m].short \in Int
        /\ "long" \in DOMAIN amm[m] /\ "short" \in DOMAIN amm[m]
    BY <1>2 DEF AmmType
  <1>5. /\ k1.long = amm[m].long + LongPart(dir, n)
        /\ k1.short = amm[m].short - ShortPart(dir, n)
        /\ DOMAIN k1 = DOMAIN amm[m]
    BY <1>4, SkewAdded
  <1> HIDE DEF k1, fee, back
  <1>6. k1.long \in Int /\ k1.short \in Int
    BY <1>4, <1>5 DEF LongPart, ShortPart
  <1>7. /\ k2.long = k1.long + LongPart(Opposite(dir), n)
        /\ k2.short = k1.short - ShortPart(Opposite(dir), n)
    BY <1>3, <1>4, <1>5, <1>6, SkewAdded
  <1> HIDE DEF k2
  <1>8. pool.long = k2.long /\ pool.short = k2.short
    OBVIOUS
  <1>9. /\ m1 \in MarketType
        /\ m1.oiLong = market[m].oiLong + LongPart(dir, n)
        /\ m1.oiShort = market[m].oiShort + ShortPart(dir, n)
        /\ m1.imr = market[m].imr /\ m1.mmr = market[m].mmr
    BY <1>2, InterestAdded
  <1> HIDE DEF m1
  <1>10. /\ m2.oiLong = m1.oiLong + LongPart(Opposite(dir), n)
         /\ m2.oiShort = m1.oiShort + ShortPart(Opposite(dir), n)
         /\ m2.imr = m1.imr /\ m2.mmr = m1.mmr
    BY <1>3, <1>9, InterestAdded
  <1> HIDE DEF pool, m2
  <1>11. MarketKeptAll(MarketIndexes \ {m}) /\ market'[m] = m2 /\ amm'[m] = pool
    BY <1>1, OneMarketReplaced
  <1>12. market[m].oiLong \in Int /\ market[m].oiShort \in Int
    BY <1>2 DEF MarketType
  <1>13. /\ LongPart(dir, n) + LongPart(Opposite(dir), n) = n
         /\ ShortPart(dir, n) + ShortPart(Opposite(dir), n) = n
         /\ LongPart(dir, n) \in Int /\ LongPart(Opposite(dir), n) \in Int
         /\ ShortPart(dir, n) \in Int /\ ShortPart(Opposite(dir), n) \in Int
    BY DEF LongPart, ShortPart, Opposite, Directions
  <1>14. /\ m2.oiLong = market[m].oiLong + n /\ m2.oiShort = market[m].oiShort + n
         /\ pool.long = amm[m].long + n /\ pool.short = amm[m].short - n
    BY <1>4, <1>5, <1>7, <1>8, <1>9, <1>10, <1>12, <1>13
  <1> QED
    BY <1>9, <1>10, <1>11, <1>14 DEF BooksRaised, MarginKept

\* What both ways of closing do to the books.
LEMMA ReducedBooks ==
    ASSUME EngineInv, NEW m \in MarketIndexes, NEW isLong \in BOOLEAN, NEW n \in Nat,
           NEW w, w.long = amm[m].long, w.short = amm[m].short,
           "long" \in DOMAIN w, "short" \in DOMAIN w,
           NEW pool, pool.long = RemoveSkew(w, isLong, n).long,
           pool.short = RemoveSkew(w, isLong, n).short,
           market' = [market EXCEPT ![m] = RemoveInterest(market[m], isLong, n)],
           amm' = [amm EXCEPT ![m] = pool]
    PROVE  BooksLowered(m, isLong, n)
  <1> DEFINE mk == RemoveInterest(market[m], isLong, n)
  <1>1. market[m] \in MarketType
    BY DEF EngineInv, TradeOK, MarketsOK
  <1>2. /\ mk.oiLong = IF isLong THEN Greatest(market[m].oiLong - n, 0) ELSE market[m].oiLong
        /\ mk.oiShort = IF isLong THEN market[m].oiShort
                        ELSE Greatest(market[m].oiShort - n, 0)
        /\ mk.imr = market[m].imr /\ mk.mmr = market[m].mmr
    BY <1>1, InterestRemoved
  <1> HIDE DEF mk
  <1>3. MarketKeptAll(MarketIndexes \ {m}) /\ market'[m] = mk /\ amm'[m] = pool
    BY OneMarketReplaced DEF mk
  <1>4. /\ pool.long = IF isLong THEN amm[m].long - n ELSE amm[m].long
        /\ pool.short = IF isLong THEN amm[m].short ELSE amm[m].short + n
    BY SkewRemoved
  <1> QED
    BY <1>2, <1>3, <1>4 DEF BooksLowered, MarginKept

LEMMA CloseBooks ==
    ASSUME EngineInv, NEW u \in Users, NEW m \in MarketIndexes, NEW s \in PositionSlots,
           NEW n, NEW limit, ExecuteAmmClose(u, m, s, n, limit)
    PROVE  BooksLowered(m, positions[u][s].base > 0, n)
  <1> DEFINE b    == positions[u][s].base > 0
             dir  == CloseSwapDir(positions[u][s])
             w    == Swapped(amm[m], n, dir)
             k    == RemoveSkew(w, b, n)
             fee  == FeeAmount(SwapQuote(amm[m], n, dir), TakerFeeBps)
             pool == [k EXCEPT !.totalFee = @ + fee]
  <1>1. /\ market' = [market EXCEPT ![m] = RemoveInterest(market[m], b, n)]
        /\ amm' = [amm EXCEPT ![m] = pool]
        /\ n \in 1 .. Magnitude(positions[u][s].base)
    BY DEF ExecuteAmmClose
  <1>2. amm[m] \in AmmType /\ positions[u][s].base \in Int
    BY DEF EngineInv, TradeOK, PoolsOK, PositionsOK, PositionType
  <1>3. b \in BOOLEAN /\ n \in Nat
    BY <1>1, <1>2 DEF Magnitude
  <1> HIDE DEF dir
  <1>4. /\ w.long = amm[m].long /\ w.short = amm[m].short
        /\ "long" \in DOMAIN w /\ "short" \in DOMAIN w
    BY <1>2, SkewOfSwap
  <1> HIDE DEF w, fee
  <1>5. pool.long = k.long /\ pool.short = k.short
    OBVIOUS
  <1> HIDE DEF pool, b
  <1>6. BooksLowered(m, b, n)
    BY <1>1, <1>3, <1>4, <1>5, ReducedBooks
  <1> QED
    BY <1>6 DEF b

LEMMA LiquidateBooks ==
    ASSUME EngineInv, NEW m \in MarketIndexes, NEW b \in BOOLEAN, NEW n \in Nat, NEW dir,
           CloseBooked(m, b, n, dir)
    PROVE  BooksLowered(m, b, n)
  <1> DEFINE w == Swapped(amm[m], n, dir)
             k == RemoveSkew(w, b, n)
  <1>1. amm[m] \in AmmType
    BY DEF EngineInv, TradeOK, PoolsOK
  <1>2. /\ w.long = amm[m].long /\ w.short = amm[m].short
        /\ "long" \in DOMAIN w /\ "short" \in DOMAIN w
    BY <1>1, SkewOfSwap
  <1>3. /\ market' = [market EXCEPT ![m] = RemoveInterest(market[m], b, n)]
        /\ amm' = [amm EXCEPT ![m] = k]
    BY DEF CloseBooked
  <1> HIDE DEF w
  <1>4. k.long = RemoveSkew(w, b, n).long /\ k.short = RemoveSkew(w, b, n).short
    OBVIOUS
  <1> HIDE DEF k
  <1> QED
    BY <1>2, <1>3, <1>4, ReducedBooks

-----------------------------------------------------------------------------
(* Opened positions are safe *)

\* In every created market initial margin asks for more than maintenance margin.
RatiosOK == \A m \in CreatedMarkets : market[m].imr > market[m].mmr

\* A trade, liquidation or settlement touches the books of one created market and no
\* risk parameter.
OneMarketTouched ==
    /\ numMarkets' = numMarkets /\ oracle' = oracle
    /\ \E m \in CreatedMarkets : MarketKeptAll(MarketIndexes \ {m}) /\ MarginKept(m)

LEMMA TradeMarkets ==
    ASSUME EngineInv, Trade \/ SlotStep
    PROVE  OneMarketTouched
  <1>1. ASSUME NEW u \in Users, NEW m \in MarketIndexes, NEW dir \in Directions,
               NEW n \in Nat, NEW limit \in Nat, Opens(u, m, dir, n, limit)
        PROVE  OneMarketTouched
    <2>1. BooksRaised(m, LongPart(dir, n), ShortPart(dir, n))
      BY <1>1, OpenBooks DEF Opens
    <2> QED
      BY <1>1, <2>1 DEF Opens, BooksRaised, OneMarketTouched
  <1>2. ASSUME NEW u \in Users, NEW m \in MarketIndexes, NEW s \in PositionSlots,
               NEW n \in Nat, NEW limit \in Nat, Closes(u, m, s, n, limit)
        PROVE  OneMarketTouched
    <2>1. BooksLowered(m, positions[u][s].base > 0, n)
      BY <1>2, CloseBooks DEF Closes
    <2> QED
      BY <1>2, <2>1 DEF Closes, BooksLowered, OneMarketTouched
  <1>3. ASSUME NEW t \in Users, NEW w \in Users, NEW m \in MarketIndexes,
               NEW ts \in OrderSlots, NEW ws \in OrderSlots, NEW n \in Nat,
               Matches(t, w, m, ts, ws, n)
        PROVE  OneMarketTouched
    <2>1. orders[t][ts].dir \in Directions
      BY DEF EngineInv, RestOK, OrderType
    <2>2. ExecuteMakerMatch(t, w, m, orders[t][ts].dir, n, orders[w][ws].price)
          /\ numMarkets' = numMarkets /\ oracle' = oracle /\ m \in CreatedMarkets
      BY <1>3 DEF Matches
    <2>3. BooksRaised(m, n, n)
      BY <2>1, <2>2, MatchBooks
    <2> QED
      BY <2>2, <2>3 DEF BooksRaised, OneMarketTouched
  <1>4. ASSUME NEW u \in Users, NEW m \in MarketIndexes, NEW r \in Nat, LiquidatePerp(u, m, r)
        PROVE  OneMarketTouched
    <2>1. PICK s \in PositionSlots, n \in Nat :
            CloseBooked(m, positions[u][s].base > 0, n, CloseSwapDir(positions[u][s]))
      BY <1>4, LiquidateShrinks
    <2>2. (positions[u][s].base > 0) \in BOOLEAN
      OBVIOUS
    <2>3. BooksLowered(m, positions[u][s].base > 0, n)
      BY <2>1, <2>2, LiquidateBooks
    <2>4. m \in CreatedMarkets /\ numMarkets' = numMarkets /\ oracle' = oracle
      BY <1>4 DEF LiquidatePerp
    <2> QED
      BY <2>3, <2>4 DEF BooksLowered, OneMarketTouched
  <1>5. ASSUME NEW u \in Users, NEW m \in MarketIndexes, SettleFunding(u, m)
        PROVE  OneMarketTouched
    <2>1. m \in CreatedMarkets /\ UNCHANGED <<numMarkets, oracle, market, amm>>
      BY <1>5 DEF SettleFunding
    <2> QED
      BY <2>1 DEF MarginKept, MarketKeptAll, OneMarketTouched
  <1> QED
    BY <1>1, <1>2, <1>3, <1>4, <1>5 DEF Trade, SlotStep

LEMMA TradeMargins ==
    ASSUME SlotInv, Trade \/ SlotStep
    PROVE  /\ numMarkets' = numMarkets /\ oracle' = oracle
           /\ \A k \in MarketIndexes : MarginKept(k)
  <1>1. OneMarketTouched
    BY TradeMarkets DEF SlotInv
  <1> QED
    BY <1>1 DEF OneMarketTouched, MarketKeptAll, MarginKept, CreatedMarkets

LEMMA ParamRatios ==
    ASSUME NEW mk \in MarketType, NEW p \in ParamRecord, RatiosValid(p), NEW x, NEW y
    PROVE  /\ [WithParams(mk, p) EXCEPT !.status = x, !.nextFundingTs = y].imr = p.imr
           /\ [WithParams(mk, p) EXCEPT !.status = x, !.nextFundingTs = y].mmr = p.mmr
           /\ [WithParams(mk, p) EXCEPT !.status = x].imr = p.imr
           /\ [WithParams(mk, p) EXCEPT !.status = x].mmr = p.mmr
  BY DEF WithParams, MarketType

LEMMA NextRatios ==
    ASSUME SlotInv, RatiosOK, [Next]_vars
    PROVE  RatiosOK'
  <1>0. EngineInv /\ market = [m \in MarketIndexes |-> market[m]]
    BY Layout DEF SlotInv
  <1>1. ASSUME numMarkets' = numMarkets, \A k \in MarketIndexes : MarginKept(k)
        PROVE  RatiosOK'
    BY <1>1 DEF RatiosOK, CreatedMarkets, MarginKept
  <1>2. ASSUME NEW m \in MarketIndexes, UpdateFundingRate(m) PROVE RatiosOK'
    <2>1. numMarkets' = numMarkets
          /\ \/ UNCHANGED market
             \/ \E x : market' = [market EXCEPT ![m].nextFundingTs = x]
      BY <1>2 DEF UpdateFundingRate
    <2>2. \A k \in MarketIndexes : market[k] \in MarketType
      BY <1>0 DEF EngineInv, TradeOK, MarketsOK
    <2>3. \A k \in MarketIndexes : MarginKept(k)
      BY <1>0, <2>1, <2>2 DEF MarginKept, MarketType
    <2> QED
      BY <1>1, <2>1, <2>3
  <1>3. ASSUME NEW m \in MarketIndexes, NEW p \in RiskParams, NEW reserve, NEW peg,
               InitializeMarket(m, p, reserve, peg)
        PROVE  RatiosOK'
    <2> DEFINE new == [WithParams(DefaultMarket, p) EXCEPT
                         !.status = "Active", !.nextFundingTs = clock + p.fundingPeriod]
    <2>1. market' = [market EXCEPT ![m] = new] /\ numMarkets' = numMarkets + 1
          /\ m = numMarkets /\ RatiosValid(p)
      BY <1>3 DEF InitializeMarket
    <2>2. p \in ParamRecord /\ DefaultMarket \in MarketType
      BY InputAssumption DEF DefaultMarket, MarketType, MarketStatuses
    <2>3. new.imr = p.imr /\ new.mmr = p.mmr
      BY <2>1, <2>2, ParamRatios
    <2> HIDE DEF new
    <2>4. new.imr > new.mmr
      BY <2>1, <2>3 DEF RatiosValid
    <2>5. \A k \in MarketIndexes : k < numMarkets + 1 => k < numMarkets \/ k = m
      <3>1. \A k \in MarketIndexes : k \in Nat
        BY StateAssumption
      <3> QED
        BY <2>1, <3>1
    <2> QED
      BY <1>0, <2>1, <2>4, <2>5 DEF RatiosOK, CreatedMarkets
  <1>4. ASSUME NEW m \in MarketIndexes, NEW p \in RiskParams, NEW s,
               UpdateMarketParams(m, s, p)
        PROVE  RatiosOK'
    <2> DEFINE new == [WithParams(market[m], p) EXCEPT !.status = s]
    <2>1. market' = [market EXCEPT ![m] = new] /\ numMarkets' = numMarkets /\ RatiosValid(p)
      BY <1>4 DEF UpdateMarketParams
    <2>2. p \in ParamRecord /\ market[m] \in MarketType
      BY <1>0, InputAssumption DEF EngineInv, TradeOK, MarketsOK
    <2>3. new.imr = p.imr /\ new.mmr = p.mmr
      BY <2>1, <2>2, ParamRatios
    <2> HIDE DEF new
    <2>4. new.imr > new.mmr
      BY <2>1, <2>3 DEF RatiosValid
    <2> QED
      BY <1>0, <2>1, <2>4 DEF RatiosOK, CreatedMarkets
  <1>5. ASSUME UNCHANGED <<numMarkets, market>> PROVE RatiosOK'
    BY <1>1, <1>5 DEF MarginKept
  <1>6. ASSUME NoTrade PROVE RatiosOK'
    <2>1. ASSUME NEW u, NEW m, NEW a, NEW o,
                 \/ InitializeUser(u) \/ Deposit(u, a) \/ ResolveBankruptcy(u)
                 \/ Withdraw(u, m, a) \/ CancelOrder(u, a)
          PROVE  UNCHANGED <<numMarkets, market>>
      BY <2>1 DEF InitializeUser, Deposit, ResolveBankruptcy, Withdraw, CancelOrder
    <2>2. ASSUME NEW u, NEW m, NEW o, PlaceOrder(u, m, o)
          PROVE  UNCHANGED <<numMarkets, market>>
      BY <2>2 DEF PlaceOrder
    <2>3. ASSUME NEW m, NEW p, NEW c,
                 \/ InitializeOracle(m, p, c) \/ UpdateOracle(m, p, c)
                 \/ SetProtocolPaused(p) \/ Tick(p)
          PROVE  UNCHANGED <<numMarkets, market>>
      BY <2>3 DEF InitializeOracle, UpdateOracle, SetProtocolPaused, Tick
    <2>4. ASSUME NEW m \in MarketIndexes, MarketStep(m) PROVE RatiosOK'
      BY <1>2, <1>3, <1>4, <1>5, <2>3, <2>4 DEF MarketStep
    <2> QED
      BY <1>5, <1>6, <2>1, <2>2, <2>3, <2>4 DEF NoTrade
  <1>7. Trade \/ SlotStep => RatiosOK'
    BY <1>1, TradeMargins
  <1>8. Next => Trade \/ SlotStep \/ NoTrade
    BY <1>0, StepKinds
  <1> QED
    BY <1>5, <1>6, <1>7, <1>8 DEF vars

LEMMA InitRatios == Init => RatiosOK
  <1>1. \A m \in MarketIndexes : m \in Nat
    BY StateAssumption
  <1>2. \A m \in MarketIndexes : ~(m < 0)
    BY <1>1
  <1> QED
    BY <1>2 DEF Init, RatiosOK, CreatedMarkets

\* An account above initial margin that owes no funding is above maintenance margin.
LEMMA InitialImpliesMaintenance ==
    ASSUME NEW a \in UserType, NEW p \in PositionType, NEW price \in Nat,
           NEW imr \in Nat, NEW mmr \in Nat, mmr <= imr, NEW due \in Int, due <= 0,
           MeetsMargin(a.collateral, p, price, imr)
    PROVE  MeetsMargin(Charged(a, due).collateral, p, price, mmr)
  <1> DEFINE c   == a.collateral
             d   == Charged(a, due).collateral
             pnl == UnrealizedPnl(p, price)
             lo  == MarginRequirement(PositionNotional(p.base, price), mmr)
             hi  == MarginRequirement(PositionNotional(p.base, price), imr)
  <1>1. c \in Nat /\ d = Greatest(c - due, 0)
    BY DEF UserType, Charged
  <1>2. d \in Int /\ d >= c
    BY <1>1 DEF Greatest
  <1>3. p.base \in Int /\ p.quoteEntry \in Int
    BY DEF PositionType
  <1>4. lo \in Int /\ hi \in Int /\ lo <= hi
    BY <1>3, MarginMonotone
  <1>5. pnl \in Int
    <2>1. p.base * price \in Int
      BY <1>3
    <2>2. TruncDiv(p.base * price, BASE_PRECISION) \in Int
      BY <2>1, TruncDivType, PrecisionAssumption
    <2> QED
      BY <1>3, <2>2 DEF UnrealizedPnl
  <1>6. c + pnl >= hi
    BY DEF MeetsMargin
  <1> HIDE DEF c, d, pnl, lo, hi
  <1>7. d + pnl >= lo
    BY <1>1, <1>2, <1>4, <1>5, <1>6
  <1> QED
    BY <1>7 DEF MeetsMargin, d, pnl, lo

\* what OpenStep says of one slot
SlotNotRaised(u, s) == ReducedTo(positions[u][s].base, positions'[u][s].base)

SlotSafe(u, s) ==
    \/ PendingFunding(positions[u][s], positions[u][s].market)' > 0
    \/ ~SlotLiquidatable(u, s)'

LEMMA SameSlotNotRaised ==
    ASSUME SlotInv, NEW u \in Users, NEW s \in PositionSlots,
           positions'[u][s].base = positions[u][s].base
    PROVE  SlotNotRaised(u, s)
  <1>1. positions[u][s].base \in Int
    BY DEF SlotInv, SlotsOK, PositionType
  <1> QED
    BY <1>1 DEF SlotNotRaised, ReducedTo

LEMMA OthersSlotsNotRaised ==
    ASSUME SlotInv, NEW U, OthersKept(U)
    PROVE  \A v \in Users \ U : \A s \in PositionSlots : SlotNotRaised(v, s)
  BY SameSlotNotRaised DEF OthersKept

\* A trade that grew a slot and left it above initial margin left it safe.
LEMMA GrewSafe ==
    ASSUME SlotInv, SlotInv', RatiosOK, NEW u \in Users, NEW m \in MarketIndexes,
           m \in CreatedMarkets, NEW dir \in Directions, NEW n, NEW quote,
           NEW s \in PositionSlots, Grew(u, m, dir, n, quote, s), LeftSafe(u, m, s),
           oracle' = oracle, MarginKept(m)
    PROVE  \A r \in PositionSlots : SlotNotRaised(u, r) \/ SlotSafe(u, r)
  <1> DEFINE t == TargetPosition(u, m, s)
             p == Increased(t, dir, n, quote, amm[m].cumFunding)
             q == positions'[u][s]
             due == PendingFunding(positions[u][s], positions[u][s].market)'
  <1>1. positions'[u] = [positions[u] EXCEPT ![s] = p]
    BY DEF Grew
  <1>2. positions[u] \in [PositionSlots -> PositionType]
    BY DEF SlotInv, SlotsOK
  <1>3. t \in PositionType /\ t.market = m
    BY TargetHolds DEF Grew
  <1>4. p.market = m
    BY <1>3 DEF Increased, PositionType
  <1> HIDE DEF p, t
  <1>5. q = p /\ \A r \in PositionSlots \ {s} : positions'[u][r] = positions[u][r]
    BY <1>1, <1>2
  <1>6. \A r \in PositionSlots \ {s} : SlotNotRaised(u, r)
    BY <1>5, SameSlotNotRaised
  <1>7. /\ user'[u] \in UserType
        /\ q \in PositionType /\ q.market = m
        /\ amm'[m] \in AmmType
        /\ oracle[m].price \in Nat
        /\ market[m].imr \in Nat /\ market[m].mmr \in Nat
    BY <1>4, <1>5 DEF SlotInv, SlotsOK, EngineInv, TradeOK, RestOK, AccountsOK, PoolsOK,
                      MarketsOK, MarketType, OracleType
  <1>8. due = FundingPayment(q.base, amm'[m].cumFunding, q.lastCum)
    BY <1>7 DEF PendingFunding
  <1>9. due \in Int
    <2>1. q.base * (amm'[m].cumFunding - q.lastCum) \in Int
      BY <1>7 DEF PositionType, AmmType
    <2> QED
      BY <1>8, <2>1, TruncDivType, PrecisionAssumption DEF FundingPayment
  <1>10. MeetsMargin(user'[u].collateral, q, oracle[m].price, market[m].imr)
    BY DEF LeftSafe, MeetsInitialMargin
  <1>11. market[m].mmr <= market[m].imr
    BY <1>7 DEF RatiosOK
  <1>12. ASSUME due <= 0 PROVE ~SlotLiquidatable(u, s)'
    <2>1. MeetsMargin(Charged(user'[u], due).collateral, q, oracle[m].price, market[m].mmr)
      BY <1>7, <1>9, <1>10, <1>11, <1>12, InitialImpliesMaintenance
    <2>2. SlotLiquidatable(u, s)'
            = ~MeetsMargin(Charged(user'[u], due).collateral, q, oracle'[m].price,
                           market'[m].mmr)
      BY <1>7 DEF SlotLiquidatable, IsLiquidatable
    <2>3. oracle'[m].price = oracle[m].price /\ market'[m].mmr = market[m].mmr
      BY DEF MarginKept
    <2> QED
      BY <2>1, <2>2, <2>3
  <1>13. due > 0 \/ ~SlotLiquidatable(u, s)'
    BY <1>9, <1>12
  <1> QED
    BY <1>6, <1>13 DEF SlotSafe

LEMMA ShrankSlots ==
    ASSUME SlotInv, NEW u \in Users, NEW m \in MarketIndexes, NEW n, NEW quote,
           NEW s \in PositionSlots, NEW c, Shrank(u, m, n, quote, s, c)
    PROVE  \A r \in PositionSlots : SlotNotRaised(u, r)
  <1>1. positions[u] \in [PositionSlots -> PositionType]
    BY DEF SlotInv, SlotsOK
  <1>2. \A r \in PositionSlots \ {s} : positions'[u][r] = positions[u][r]
    BY <1>1 DEF Shrank
  <1>3. \A r \in PositionSlots \ {s} : SlotNotRaised(u, r)
    BY <1>2, SameSlotNotRaised
  <1>4. SlotNotRaised(u, s)
    BY ShrankExposure, ShrankReduces DEF SlotNotRaised
  <1> QED
    BY <1>3, <1>4

LEMMA TradeOpenStep ==
    ASSUME SlotInv, SlotInv', RatiosOK, Trade, NEW v \in Users, NEW r \in PositionSlots
    PROVE  SlotNotRaised(v, r) \/ SlotSafe(v, r)
  <1>0. EngineInv /\ oracle' = oracle /\ \A k \in MarketIndexes : MarginKept(k)
    BY TradeMargins DEF SlotInv
  <1>1. ASSUME NEW u \in Users, NEW m \in MarketIndexes, NEW dir \in Directions,
               NEW n \in Nat, NEW limit \in Nat, Opens(u, m, dir, n, limit)
        PROVE  SlotNotRaised(v, r) \/ SlotSafe(v, r)
    <2>1. ExecuteAmmOpen(u, m, dir, n, limit) /\ m \in CreatedMarkets
      BY <1>1 DEF Opens
    <2>2. OthersKept({u})
          /\ \E s \in PositionSlots, quote \in Nat :
                Grew(u, m, dir, n, quote, s) /\ LeftSafe(u, m, s)
      BY <1>0, <2>1, OpenGrows
    <2>3. v = u => SlotNotRaised(v, r) \/ SlotSafe(v, r)
      BY <1>0, <2>1, <2>2, GrewSafe
    <2> QED
      BY <2>2, <2>3, OthersSlotsNotRaised
  <1>2. ASSUME NEW u \in Users, NEW m \in MarketIndexes, NEW s \in PositionSlots,
               NEW n \in Nat, NEW limit \in Nat, Closes(u, m, s, n, limit)
        PROVE  SlotNotRaised(v, r)
    <2>1. FoundPosition(u, m, s) /\ ExecuteAmmClose(u, m, s, n, limit)
      BY <1>2 DEF Closes
    <2>2. OthersKept({u})
          /\ \E quote \in Nat : Shrank(u, m, n, quote, s, positions[u][s].lastCum)
      BY <1>0, <2>1, CloseShrinks
    <2>3. v = u => SlotNotRaised(v, r)
      BY <2>2, ShrankSlots
    <2> QED
      BY <2>2, <2>3, OthersSlotsNotRaised
  <1>3. ASSUME NEW t \in Users, NEW w \in Users, NEW m \in MarketIndexes,
               NEW ts \in OrderSlots, NEW ws \in OrderSlots, NEW n \in Nat,
               Matches(t, w, m, ts, ws, n)
        PROVE  SlotNotRaised(v, r) \/ SlotSafe(v, r)
    <2> DEFINE d == orders[t][ts].dir
               price == orders[w][ws].price
    <2>1. t # w /\ ExecuteMakerMatch(t, w, m, d, n, price) /\ m \in CreatedMarkets
      BY <1>3 DEF Matches
    <2>2. d \in Directions /\ price \in Nat
      BY <1>0 DEF EngineInv, RestOK, OrderType
    <2>3. Opposite(d) \in Directions
      BY DEF Opposite, Directions
    <2> HIDE DEF d, price
    <2>4. /\ OthersKept({t, w})
          /\ \E s, k \in PositionSlots : \E quote :
                /\ Grew(t, m, d, n, quote, s) /\ LeftSafe(t, m, s)
                /\ Grew(w, m, Opposite(d), n, quote, k) /\ LeftSafe(w, m, k)
      BY <1>0, <2>1, <2>2, MatchGrows
    <2>5. v \in {t, w} => SlotNotRaised(v, r) \/ SlotSafe(v, r)
      BY <1>0, <2>1, <2>2, <2>3, <2>4, GrewSafe
    <2> QED
      BY <2>4, <2>5, OthersSlotsNotRaised
  <1> QED
    BY <1>1, <1>2, <1>3 DEF Trade

LEMMA SlotStepOpenStep ==
    ASSUME SlotInv, SlotStep, NEW v \in Users, NEW r \in PositionSlots
    PROVE  SlotNotRaised(v, r)
  <1>0. EngineInv
    BY DEF SlotInv
  <1>1. ASSUME NEW u \in Users, NEW m \in MarketIndexes, NEW n \in Nat, LiquidatePerp(u, m, n)
        PROVE  SlotNotRaised(v, r)
    <2>1. OthersKept({u})
          /\ \E s \in PositionSlots, k \in Nat, quote \in Nat :
                Shrank(u, m, k, quote, s, amm[m].cumFunding)
      BY <1>0, <1>1, LiquidateShrinks
    <2>2. v = u => SlotNotRaised(v, r)
      BY <2>1, ShrankSlots
    <2> QED
      BY <2>1, <2>2, OthersSlotsNotRaised
  <1>2. ASSUME NEW u \in Users, NEW m \in MarketIndexes, SettleFunding(u, m)
        PROVE  SlotNotRaised(v, r)
    BY <1>2, SettleKeepsExposure, SameSlotNotRaised, OthersSlotsNotRaised
  <1> QED
    BY <1>1, <1>2 DEF SlotStep

LEMMA NextOpenStep == SlotInv /\ SlotInv' /\ RatiosOK /\ [Next]_vars => OpenStep
  <1> SUFFICES ASSUME SlotInv, SlotInv', RatiosOK, [Next]_vars, NEW u \in Users,
                      NEW s \in PositionSlots
               PROVE  SlotNotRaised(u, s) \/ SlotSafe(u, s)
    BY DEF OpenStep, SlotNotRaised, SlotSafe
  <1>1. Next => Trade \/ SlotStep \/ NoTrade
    BY StepKinds DEF SlotInv
  <1>2. NoTrade \/ UNCHANGED vars => SlotNotRaised(u, s)
    BY NoTradeKeepsPositions, SameSlotNotRaised DEF vars
  <1> QED
    BY <1>1, <1>2, TradeOpenStep, SlotStepOpenStep

\* In every behaviour of the program, whatever parameters the admin sets, a trade
\* that leaves a position bigger leaves it out of reach of liquidation until the
\* price or the market changes, unless funding it has not settled is still due.
THEOREM OpenedAlwaysSafe == Spec => OpenedPositionIsSafe
  <1>1. SlotInv /\ SlotInv' /\ RatiosOK /\ [Next]_vars => [OpenStep]_vars
    BY NextOpenStep
  <1>2. SlotInv /\ RatiosOK /\ [Next]_vars => RatiosOK'
    BY NextRatios
  <1> QED
    BY <1>1, <1>2, InitSlotInv, NextSlotInv, InitRatios, PTL DEF Spec, OpenedPositionIsSafe

-----------------------------------------------------------------------------
(* Orders: what every step leaves of them *)

\* the order in slot s is as it was, or it was open and some of it was filled
OrderWorked(u, s) ==
    \/ orders'[u][s] = orders[u][s]
    \/ /\ orders[u][s].status = "Open"
       /\ \E n \in Nat : orders'[u][s] \in LeftOf(orders[u][s], n)

OrdersWorked ==
    \A u \in Users :
        /\ user'[u].nextOrderId = user[u].nextOrderId
        /\ \A s \in OrderSlots : OrderWorked(u, s)

\* What a fill leaves open is the same order with something left to fill.
LEMMA LeftOrder ==
    ASSUME NEW o \in OrderType, NEW n \in Nat, NEW l \in LeftOf(o, n)
    PROVE  /\ l \in OrderType
           /\ l.base <= o.base
           /\ l.status = "Open" =>
                /\ l.id = o.id /\ l.market = o.market /\ l.type = o.type
                /\ l.base = o.base /\ l.price = o.price /\ l.filled < l.base
  <1>1. l \in OrderType
    <2>1. DefaultOrder \in OrderType
      BY DEF DefaultOrder, OrderType, OrderTypes, Directions, Conditions
    <2> QED
      BY <2>1, FilledType DEF LeftOf
  <1>2. CASE l = DefaultOrder
    BY <1>1, <1>2 DEF DefaultOrder, OrderType
  <1>3. CASE l = [Filled(o, n) EXCEPT !.status = "Init"]
    BY <1>1, <1>3 DEF Filled, OrderType
  <1>4. CASE l = Filled(o, n) /\ RemainingBase(Filled(o, n)) # 0
    BY <1>1, <1>4 DEF Filled, OrderType, RemainingBase, Greatest
  <1> QED
    BY <1>2, <1>3, <1>4 DEF LeftOf, FillAndMaybeClear

LEMMA OneOrderWorked ==
    ASSUME EngineInv, NEW u \in Users, NEW os \in OrderSlots, NEW n \in Nat,
           orders[u][os].status = "Open", NEW left \in LeftOf(orders[u][os], n),
           orders' = [orders EXCEPT ![u][os] = left]
    PROVE  \A v \in Users : \A s \in OrderSlots : OrderWorked(v, s)
  <1>1. orders \in [Users -> [OrderSlots -> OrderType]]
    BY DEF EngineInv, RestOK
  <1>2. orders'[u][os] = left
        /\ \A v \in Users, s \in OrderSlots : (v # u \/ s # os) => orders'[v][s] = orders[v][s]
    BY <1>1
  <1> QED
    BY <1>2 DEF OrderWorked

LEMMA SameOrdersWorked ==
    ASSUME UNCHANGED orders
    PROVE  \A v \in Users : \A s \in OrderSlots : OrderWorked(v, s)
  BY DEF OrderWorked

LEMMA TradeWorksOrders ==
    ASSUME EngineInv, Trade
    PROVE  \A v \in Users : \A s \in OrderSlots : OrderWorked(v, s)
  <1>1. ASSUME NEW u \in Users, NEW m \in MarketIndexes, NEW dir \in Directions,
               NEW n \in Nat, NEW limit \in Nat, Opens(u, m, dir, n, limit)
        PROVE  \A v \in Users : \A s \in OrderSlots : OrderWorked(v, s)
    <2>1. ASSUME NEW os \in OrderSlots, OrderOpens(u, m, os, dir, n, limit)
          PROVE  \A v \in Users : \A s \in OrderSlots : OrderWorked(v, s)
      <3>1. /\ orders[u][os].status = "Open"
            /\ orders' = [orders EXCEPT ![u][os] = DefaultOrder]
            /\ DefaultOrder \in LeftOf(orders[u][os], n)
        BY <2>1 DEF OrderOpens, LeftOf
      <3> QED
        BY <3>1, OneOrderWorked
    <2> QED
      BY <1>1, <2>1, SameOrdersWorked DEF Opens
  <1>2. ASSUME NEW u \in Users, NEW m \in MarketIndexes, NEW s \in PositionSlots,
               NEW n \in Nat, NEW limit \in Nat, Closes(u, m, s, n, limit)
        PROVE  \A v \in Users : \A r \in OrderSlots : OrderWorked(v, r)
    <2>1. ASSUME NEW os \in OrderSlots, OrderCloses(u, m, os, s, n, limit)
          PROVE  \A v \in Users : \A r \in OrderSlots : OrderWorked(v, r)
      <3>1. orders[u][os].status = "Open"
            /\ \E left \in LeftOf(orders[u][os], n) :
                  orders' = [orders EXCEPT ![u][os] = left]
        BY <2>1 DEF OrderCloses
      <3> QED
        BY <3>1, OneOrderWorked
    <2> QED
      BY <1>2, <2>1, SameOrdersWorked DEF Closes
  <1>3. ASSUME NEW t \in Users, NEW w \in Users, NEW m \in MarketIndexes,
               NEW ts \in OrderSlots, NEW ws \in OrderSlots, NEW n \in Nat,
               Matches(t, w, m, ts, ws, n)
        PROVE  \A v \in Users : \A s \in OrderSlots : OrderWorked(v, s)
    <2> DEFINE a == FillAndMaybeClear(orders[t][ts], n)
               b == FillAndMaybeClear(orders[w][ws], n)
    <2>1. /\ orders' = [orders EXCEPT ![t][ts] = a, ![w][ws] = b] /\ t # w
          /\ orders[t][ts].status = "Open" /\ orders[w][ws].status = "Open"
      BY <1>3 DEF Matches
    <2>2. a \in LeftOf(orders[t][ts], n) /\ b \in LeftOf(orders[w][ws], n)
      BY DEF LeftOf
    <2> HIDE DEF a, b
    <2>3. orders \in [Users -> [OrderSlots -> OrderType]]
      BY DEF EngineInv, RestOK
    <2>4. /\ orders'[t][ts] = a /\ orders'[w][ws] = b
          /\ \A v \in Users, s \in OrderSlots :
                (<<v, s>> # <<t, ts>> /\ <<v, s>> # <<w, ws>>) => orders'[v][s] = orders[v][s]
      BY <2>1, <2>3
    <2> QED
      BY <2>1, <2>2, <2>4 DEF OrderWorked
  <1> QED
    BY <1>1, <1>2, <1>3 DEF Trade

\* No trade hands out an order id.
LEMMA TradeKeepsIds ==
    ASSUME EngineInv, Trade, NEW v \in Users
    PROVE  user'[v].nextOrderId = user[v].nextOrderId
  <1>0. user \in [Users -> UserType]
    BY DEF EngineInv, TradeOK, AccountsOK
  <1>1. ASSUME NEW u \in Users, NEW m, NEW dir, NEW n, NEW limit,
               ExecuteAmmOpen(u, m, dir, n, limit)
        PROVE  user'[v].nextOrderId = user[v].nextOrderId
    <2>1. \E x : user' = [user EXCEPT ![u].collateral = x]
      BY <1>1 DEF ExecuteAmmOpen
    <2> QED
      BY <1>0, <2>1 DEF UserType
  <1>2. ASSUME NEW u \in Users, NEW m, NEW s, NEW n, NEW limit,
               ExecuteAmmClose(u, m, s, n, limit)
        PROVE  user'[v].nextOrderId = user[v].nextOrderId
    <2>1. \E x, y : user' = [user EXCEPT ![u].collateral = x, ![u].settledPnl = @ + y]
      BY <1>2 DEF ExecuteAmmClose
    <2> QED
      BY <1>0, <2>1 DEF UserType
  <1>3. ASSUME NEW t \in Users, NEW w \in Users, t # w, NEW m, NEW dir, NEW n, NEW price,
               ExecuteMakerMatch(t, w, m, dir, n, price)
        PROVE  user'[v].nextOrderId = user[v].nextOrderId
    <2>1. \E x, y : user' = [user EXCEPT ![t].collateral = @ - x, ![w].collateral = @ + y]
      BY <1>3 DEF ExecuteMakerMatch
    <2> QED
      BY <1>0, <1>3, <2>1 DEF UserType
  <1>4. ASSUME NEW t \in Users, NEW w \in Users, NEW m \in MarketIndexes,
               NEW ts \in OrderSlots, NEW ws \in OrderSlots, NEW n \in Nat,
               Matches(t, w, m, ts, ws, n)
        PROVE  user'[v].nextOrderId = user[v].nextOrderId
    BY <1>3, <1>4 DEF Matches
  <1>5. ASSUME NEW u \in Users, NEW m, NEW dir, NEW n, NEW limit, Opens(u, m, dir, n, limit)
        PROVE  user'[v].nextOrderId = user[v].nextOrderId
    BY <1>1, <1>5 DEF Opens
  <1>6. ASSUME NEW u \in Users, NEW m, NEW s, NEW n, NEW limit, Closes(u, m, s, n, limit)
        PROVE  user'[v].nextOrderId = user[v].nextOrderId
    BY <1>2, <1>6 DEF Closes
  <1> QED
    BY <1>4, <1>5, <1>6 DEF Trade

LEMMA SlotStepKeepsOrders ==
    ASSUME EngineInv, SlotStep
    PROVE  UNCHANGED orders /\ \A v \in Users : user'[v].nextOrderId = user[v].nextOrderId
  <1>0. user \in [Users -> UserType]
    BY DEF EngineInv, TradeOK, AccountsOK
  <1>1. ASSUME NEW u \in Users, NEW x
        PROVE  /\ Charged(user[u], x).nextOrderId = user[u].nextOrderId
               /\ DOMAIN Charged(user[u], x) = DOMAIN user[u]
    BY <1>0 DEF Charged, UserType
  <1>2. ASSUME NEW u \in Users, NEW m \in MarketIndexes, NEW n \in Nat, LiquidatePerp(u, m, n)
        PROVE  UNCHANGED orders /\ \A v \in Users : user'[v].nextOrderId = user[v].nextOrderId
    <2> DEFINE due(s)   == PendingFunding(positions[u][s], m)
               size(s)  == Magnitude(positions[u][s].base)
               k(s)     == IF n = 0 \/ n > size(s) THEN size(s) ELSE n
               quote(s) == SwapQuote(amm[m], k(s), CloseSwapDir(positions[u][s]))
               pnl(s)   == Realized(positions[u][s], k(s), quote(s))
               fee(s)   == Least(LiquidationFee(PositionNotional(k(s), oracle[m].price),
                                                market[m].liqFeeBps),
                                 Greatest(Charged(user[u], due(s)).collateral + pnl(s), 0))
    <2>0. \E s \in PositionSlots :
            user' = [user EXCEPT ![u] =
                       AfterLiquidation(Charged(user[u], due(s)), pnl(s), fee(s))]
      BY <1>2 DEF LiquidatePerp
    <2> HIDE DEF due, pnl, fee
    <2>1. PICK x, p, f : user' = [user EXCEPT ![u] = AfterLiquidation(Charged(user[u], x), p, f)]
      BY <2>0
    <2> DEFINE z == Charged(user[u], x)
    <2>2. z.nextOrderId = user[u].nextOrderId
      BY <1>1
    <2> HIDE DEF z
    <2>3. AfterLiquidation(z, p, f).nextOrderId = z.nextOrderId
      BY DEF AfterLiquidation
    <2>4. user'[u].nextOrderId = user[u].nextOrderId
      BY <1>0, <2>1, <2>2, <2>3 DEF z
    <2> QED
      BY <1>0, <1>2, <2>1, <2>4 DEF LiquidatePerp
  <1>3. ASSUME NEW u \in Users, NEW m \in MarketIndexes, SettleFunding(u, m)
        PROVE  UNCHANGED orders /\ \A v \in Users : user'[v].nextOrderId = user[v].nextOrderId
    <2>1. PICK x : user' = [user EXCEPT ![u] = [Charged(user[u], x) EXCEPT !.settledPnl = @ - x]]
      BY <1>3 DEF SettleFunding
    <2> DEFINE z == Charged(user[u], x)
    <2>2. z.nextOrderId = user[u].nextOrderId
      BY <1>1
    <2> HIDE DEF z
    <2>3. user'[u].nextOrderId = user[u].nextOrderId
      BY <1>0, <2>1, <2>2 DEF z
    <2> QED
      BY <1>0, <1>3, <2>1, <2>3 DEF SettleFunding
  <1> QED
    BY <1>2, <1>3 DEF SlotStep

\* Every step but the placing of an order leaves ids alone and orders as they were,
\* or filled in part.
LEMMA StepOrders ==
    ASSUME EngineInv, Next
    PROVE  \/ OrdersWorked
           \/ \E u \in Users, m \in MarketIndexes, o \in OrderSpecs : PlaceOrder(u, m, o)
  <1>0. /\ user \in [Users -> UserType]
        /\ orders \in [Users -> [OrderSlots -> OrderType]]
    BY DEF EngineInv, TradeOK, AccountsOK, RestOK
  <1>1. Trade \/ SlotStep => OrdersWorked
    BY TradeWorksOrders, TradeKeepsIds, SlotStepKeepsOrders, SameOrdersWorked
       DEF OrdersWorked
  <1>2. ASSUME UNCHANGED orders, \A v \in Users : user'[v].nextOrderId = user[v].nextOrderId
        PROVE  OrdersWorked
    BY <1>2, SameOrdersWorked DEF OrdersWorked
  <1>3. ASSUME NEW u \in Users, InitializeUser(u) PROVE OrdersWorked
    BY <1>0, <1>2, <1>3 DEF InitializeUser, UserType
  <1>4. ASSUME NEW u \in Users, NEW a, Deposit(u, a) PROVE OrdersWorked
    BY <1>0, <1>2, <1>4 DEF Deposit, UserType
  <1>5. ASSUME NEW u \in Users, NEW m, NEW a, Withdraw(u, m, a) PROVE OrdersWorked
    BY <1>0, <1>2, <1>5 DEF Withdraw, UserType
  <1>6. ASSUME NEW u \in Users, ResolveBankruptcy(u) PROVE OrdersWorked
    <2>1. UNCHANGED orders
          /\ \E d : user' = [user EXCEPT ![u] = Resolved(user[u], d)]
      BY <1>6 DEF ResolveBankruptcy
    <2>2. \A v \in Users : user'[v].nextOrderId = user[v].nextOrderId
      BY <1>0, <2>1 DEF Resolved, UserType
    <2> QED
      BY <1>2, <2>1, <2>2
  <1>7. ASSUME NEW u \in Users, NEW id, CancelOrder(u, id) PROVE OrdersWorked
    <2>1. PICK s \in OrderSlots :
            /\ orders[u][s].status = "Open"
            /\ orders' = [orders EXCEPT ![u][s] = DefaultOrder]
      BY <1>7 DEF CancelOrder, FoundOrder
    <2>2. DefaultOrder \in LeftOf(orders[u][s], 0)
      BY DEF LeftOf
    <2>3. \A v \in Users : \A r \in OrderSlots : OrderWorked(v, r)
      BY <2>1, <2>2, OneOrderWorked
    <2> QED
      BY <1>7, <2>3 DEF CancelOrder, OrdersWorked
  <1>8. ASSUME NEW m, MarketStep(m) PROVE OrdersWorked
    <2>1. UNCHANGED <<user, orders>>
      BY <1>8 DEF MarketStep, UpdateFundingRate, InitializeMarket, UpdateMarketParams,
                  InitializeOracle, UpdateOracle
    <2> QED
      BY <1>2, <2>1
  <1>9. ASSUME NEW x, SetProtocolPaused(x) \/ Tick(x) PROVE OrdersWorked
    BY <1>2, <1>9 DEF SetProtocolPaused, Tick
  <1> QED
    BY <1>1, <1>3, <1>4, <1>5, <1>6, <1>7, <1>8, <1>9, StepKinds DEF NoTrade

\* What placing an order does.
LEMMA OrderPlaced ==
    ASSUME EngineInv, NEW u \in Users, NEW m \in MarketIndexes, NEW spec \in OrderSpecs,
           PlaceOrder(u, m, spec)
    PROVE  /\ m \in CreatedMarkets /\ numMarkets' = numMarkets
           /\ user'[u].nextOrderId = (user[u].nextOrderId + 1) % ORDER_ID_MODULUS
           /\ \A v \in Users \ {u} : user'[v] = user[v] /\ orders'[v] = orders[v]
           /\ \E s \in OrderSlots :
                /\ \A t \in OrderSlots \ {s} : orders'[u][t] = orders[u][t]
                /\ orders'[u][s].base = spec.base /\ orders'[u][s].filled = 0
                /\ orders'[u][s].base > 0
                /\ orders'[u][s].id = user[u].nextOrderId
                /\ orders'[u][s].market = m
                /\ orders'[u][s].type \in {"Limit", "TriggerLimit"} => orders'[u][s].price > 0
  <1> DEFINE new == [DefaultOrder EXCEPT !.status = "Open", !.id = user[u].nextOrderId,
                        !.market = m, !.type = spec.type, !.dir = spec.dir,
                        !.base = spec.base, !.price = spec.price, !.trigger = spec.trigger,
                        !.cond = spec.cond, !.reduceOnly = spec.reduceOnly]
  <1>1. PICK s \in OrderSlots : orders' = [orders EXCEPT ![u][s] = new]
    BY DEF PlaceOrder
  <1>2. /\ m \in CreatedMarkets /\ numMarkets' = numMarkets
        /\ spec.base > 0 /\ PricesValid(spec.type, spec.price, spec.trigger)
        /\ user' = [user EXCEPT ![u].nextOrderId =
                       (user[u].nextOrderId + 1) % ORDER_ID_MODULUS]
    BY DEF PlaceOrder
  <1>3. /\ new.base = spec.base /\ new.filled = 0 /\ new.id = user[u].nextOrderId
        /\ new.market = m /\ new.type = spec.type /\ new.price = spec.price
    BY DEF DefaultOrder
  <1> HIDE DEF new
  <1>4. /\ user \in [Users -> UserType]
        /\ orders \in [Users -> [OrderSlots -> OrderType]]
    BY DEF EngineInv, TradeOK, AccountsOK, RestOK
  <1>5. /\ orders'[u][s] = new
        /\ \A t \in OrderSlots \ {s} : orders'[u][t] = orders[u][t]
        /\ \A v \in Users \ {u} : user'[v] = user[v] /\ orders'[v] = orders[v]
    BY <1>1, <1>2, <1>4
  <1>6. user'[u].nextOrderId = (user[u].nextOrderId + 1) % ORDER_ID_MODULUS
    BY <1>2, <1>4 DEF UserType
  <1>7. spec.type \in {"Limit", "TriggerLimit"} => spec.price > 0
    BY <1>2 DEF PricesValid
  <1> QED
    BY <1>2, <1>3, <1>5, <1>6, <1>7

-----------------------------------------------------------------------------
(* Order ids *)

OrderSound(u, s) ==
    LET o == orders[u][s]
    IN  o.status = "Open" =>
          /\ o.id < user[u].nextOrderId
          /\ o.market \in CreatedMarkets
          /\ o.filled < o.base
          /\ \A t \in OrderSlots \ {s} : orders[u][t].status = "Open" => orders[u][t].id # o.id

\* No owner's ids are about to wrap.
IdsLeft == \A u \in Users : user[u].nextOrderId < ORDER_ID_MODULUS - 1

LEMMA MarketsStayCreated ==
    ASSUME EngineInv, Next
    PROVE  CreatedMarkets \subseteq CreatedMarkets'
  <1>1. ASSUME numMarkets' >= numMarkets PROVE CreatedMarkets \subseteq CreatedMarkets'
    <2>1. numMarkets \in Int /\ \A m \in MarketIndexes : m \in Int
      BY StateAssumption DEF EngineInv, RestOK
    <2>2. \A m \in MarketIndexes : m < numMarkets /\ numMarkets' \in Int => m < numMarkets'
      BY <1>1, <2>1
    <2>3. numMarkets' \in Int
      BY NextEngineInv DEF EngineInv, RestOK
    <2> QED
      BY <2>2, <2>3 DEF CreatedMarkets
  <1>2. numMarkets \in Int
    BY DEF EngineInv, RestOK
  <1>3. Trade \/ SlotStep => numMarkets' = numMarkets
    BY TradeMarkets DEF OneMarketTouched
  <1>4. ASSUME NEW u, NEW m, NEW a, NEW o,
               \/ InitializeUser(u) \/ Deposit(u, a) \/ ResolveBankruptcy(u)
               \/ Withdraw(u, m, a) \/ CancelOrder(u, a)
        PROVE  numMarkets' = numMarkets
    BY <1>4 DEF InitializeUser, Deposit, ResolveBankruptcy, Withdraw, CancelOrder
  <1>5. ASSUME NEW u, NEW m, NEW o, PlaceOrder(u, m, o) PROVE numMarkets' = numMarkets
    BY <1>5 DEF PlaceOrder
  <1>6. ASSUME NEW m, MarketStep(m)
        PROVE  numMarkets' = numMarkets \/ numMarkets' = numMarkets + 1
    BY <1>6 DEF MarketStep, UpdateFundingRate, InitializeMarket, UpdateMarketParams,
                InitializeOracle, UpdateOracle
  <1>7. ASSUME NEW x, SetProtocolPaused(x) \/ Tick(x) PROVE numMarkets' = numMarkets
    BY <1>7 DEF SetProtocolPaused, Tick
  <1>8. NoTrade => numMarkets' = numMarkets \/ numMarkets' = numMarkets + 1
    BY <1>4, <1>5, <1>6, <1>7 DEF NoTrade
  <1>9. numMarkets' >= numMarkets
    BY <1>2, <1>3, <1>8, StepKinds
  <1> QED
    BY <1>1, <1>9

LEMMA WorkedOrdersSound ==
    ASSUME EngineInv, OrdersSound, OrdersWorked, CreatedMarkets \subseteq CreatedMarkets'
    PROVE  OrdersSound'
  <1>1. SUFFICES ASSUME NEW u \in Users, NEW s \in OrderSlots PROVE OrderSound(u, s)'
    BY <1>1 DEF OrdersSound, OrderSound
  <1>2. OrderSound(u, s)
    BY DEF OrdersSound, OrderSound
  <1>3. user'[u].nextOrderId = user[u].nextOrderId
    BY DEF OrdersWorked
  <1>4. ASSUME NEW t \in OrderSlots, orders'[u][t].status = "Open"
        PROVE  /\ orders[u][t].status = "Open"
               /\ orders'[u][t].id = orders[u][t].id
               /\ orders'[u][t].market = orders[u][t].market
               /\ orders'[u][t].filled < orders'[u][t].base
    <2>1. orders[u][t] \in OrderType /\ OrderSound(u, t)
      BY DEF EngineInv, RestOK, OrdersSound, OrderSound
    <2>2. CASE orders'[u][t] = orders[u][t]
      BY <1>4, <2>1, <2>2 DEF OrderSound
    <2>3. ASSUME NEW n \in Nat, orders[u][t].status = "Open",
                 orders'[u][t] \in LeftOf(orders[u][t], n)
          PROVE  /\ orders'[u][t].id = orders[u][t].id
                 /\ orders'[u][t].market = orders[u][t].market
                 /\ orders'[u][t].filled < orders'[u][t].base
      BY <1>4, <2>1, <2>3, LeftOrder
    <2> QED
      BY <2>2, <2>3 DEF OrdersWorked, OrderWorked
  <1> QED
    BY <1>2, <1>3, <1>4 DEF OrderSound

LEMMA PlacedOrdersSound ==
    ASSUME EngineInv, OrdersSound, IdsLeft, NEW u \in Users, NEW m \in MarketIndexes,
           NEW spec \in OrderSpecs, PlaceOrder(u, m, spec)
    PROVE  OrdersSound'
  <1>1. /\ m \in CreatedMarkets /\ numMarkets' = numMarkets
        /\ user'[u].nextOrderId = (user[u].nextOrderId + 1) % ORDER_ID_MODULUS
        /\ \A v \in Users \ {u} : user'[v] = user[v] /\ orders'[v] = orders[v]
    BY OrderPlaced
  <1>2. PICK s \in OrderSlots :
          /\ \A t \in OrderSlots \ {s} : orders'[u][t] = orders[u][t]
          /\ orders'[u][s].base > 0 /\ orders'[u][s].filled = 0
          /\ orders'[u][s].id = user[u].nextOrderId
          /\ orders'[u][s].market = m
    BY OrderPlaced
  <1>3. user[u].nextOrderId \in Nat /\ user[u].nextOrderId < ORDER_ID_MODULUS - 1
    BY DEF EngineInv, TradeOK, AccountsOK, UserType, IdsLeft
  <1>4. user'[u].nextOrderId = user[u].nextOrderId + 1
    BY <1>1, <1>3, StateAssumption
  <1>5. CreatedMarkets' = CreatedMarkets
    BY <1>1 DEF CreatedMarkets
  <1>6. \A t \in OrderSlots \ {s} :
           orders[u][t].status = "Open" => orders[u][t].id < user[u].nextOrderId
    BY DEF OrdersSound
  <1>7. \A t \in OrderSlots : orders[u][t].id \in Int
    BY DEF EngineInv, RestOK, OrderType
  <1>8. OrderSound(u, s)'
    <2>1. \A t \in OrderSlots \ {s} :
             orders[u][t].status = "Open" => orders[u][t].id # user[u].nextOrderId
      BY <1>3, <1>6, <1>7
    <2>2. user[u].nextOrderId < user'[u].nextOrderId
      BY <1>3, <1>4
    <2>3. 0 < orders'[u][s].base
      BY <1>2
    <2> QED
      BY <1>1, <1>2, <1>5, <2>1, <2>2, <2>3 DEF OrderSound
  <1>9. ASSUME NEW t \in OrderSlots \ {s} PROVE OrderSound(u, t)'
    <2>1. OrderSound(u, t)
      BY DEF OrdersSound, OrderSound
    <2>2. orders[u][t].status = "Open" =>
            /\ orders[u][t].id < user'[u].nextOrderId
            /\ orders[u][t].id # user[u].nextOrderId
      BY <1>3, <1>4, <1>6, <1>7
    <2> QED
      BY <1>2, <1>5, <2>1, <2>2 DEF OrderSound
  <1>10. ASSUME NEW v \in Users \ {u}, NEW t \in OrderSlots PROVE OrderSound(v, t)'
    <2>1. OrderSound(v, t)
      BY DEF OrdersSound, OrderSound
    <2> QED
      BY <1>1, <1>5, <2>1 DEF OrderSound
  <1> QED
    BY <1>8, <1>9, <1>10 DEF OrdersSound, OrderSound

LEMMA NextOrdersSound == EngineInv /\ OrdersSound /\ IdsLeft /\ [Next]_vars => OrdersSound'
  <1> SUFFICES ASSUME EngineInv, OrdersSound, IdsLeft, [Next]_vars PROVE OrdersSound'
    OBVIOUS
  <1>1. CASE Next
    BY <1>1, StepOrders, MarketsStayCreated, WorkedOrdersSound, PlacedOrdersSound
  <1>2. CASE UNCHANGED vars
    BY <1>2 DEF vars, OrdersSound, CreatedMarkets
  <1> QED
    BY <1>1, <1>2

\* As long as no owner has placed so many orders that the ids are about to wrap, every
\* open order's id was handed out before and is no other open order's of its owner,
\* its market was created and something of it is left to fill: what the instructions
\* that name an order by its id, and the keeper, rely on.
THEOREM OrdersAlwaysSound == Spec /\ []IdsLeft => []OrdersSound
  <1>1. Init => OrdersSound
    BY DEF Init, OrdersSound, DefaultOrder
  <1> QED
    BY <1>1, InitEngineInv, NextEngineInv, NextOrdersSound, PTL DEF Spec

-----------------------------------------------------------------------------
(* Sizes.  "base_amount as i64" in controller.rs is unchecked: what follows is  *)
(* about callers whose order sizes fit an i64, which SizesFit says.            *)

SizesFit ==
    /\ \A n \in OpenSizes : n <= I64_MAX
    /\ \A o \in OrderSpecs : o.base <= I64_MAX

\* no order on the book is bigger, and an open order with a limit has one
OrdersFit ==
    \A u \in Users : \A s \in OrderSlots :
        LET o == orders[u][s]
        IN  /\ o.base <= I64_MAX
            /\ (o.status = "Open" /\ o.type \in {"Limit", "TriggerLimit"}) => o.price > 0

LEMMA RemainingFits ==
    ASSUME EngineInv, OrdersFit, NEW u \in Users, NEW s \in OrderSlots
    PROVE  RemainingBase(orders[u][s]) \in 0 .. I64_MAX
  <1> DEFINE o == orders[u][s]
  <1>1. o \in OrderType /\ o.base <= I64_MAX
    BY DEF EngineInv, RestOK, OrdersFit
  <1> HIDE DEF o
  <1>2. RemainingBase(o) \in 0 .. I64_MAX
    BY <1>1, PrecisionAssumption DEF RemainingBase, Greatest, OrderType
  <1> QED
    BY <1>2 DEF o

LEMMA NextOrdersFit ==
    ASSUME SizesFit, EngineInv, OrdersFit, [Next]_vars
    PROVE  OrdersFit'
  <1> DEFINE Fits(o) == /\ o.base <= I64_MAX
                        /\ (o.status = "Open" /\ o.type \in {"Limit", "TriggerLimit"})
                              => o.price > 0
  <1>1. \A u \in Users, s \in OrderSlots : Fits(orders[u][s])
    BY DEF OrdersFit
  <1>2. CASE OrdersWorked
    <2>1. ASSUME NEW u \in Users, NEW s \in OrderSlots, NEW n \in Nat,
                 NEW l \in LeftOf(orders[u][s], n), orders[u][s].status = "Open"
          PROVE  Fits(l)
      <3>1. orders[u][s] \in OrderType
        BY DEF EngineInv, RestOK
      <3>2. /\ l \in OrderType /\ l.base <= orders[u][s].base
            /\ l.status = "Open" => l.type = orders[u][s].type /\ l.price = orders[u][s].price
        BY <3>1, LeftOrder
      <3>3. l.base <= I64_MAX
        BY <1>1, <3>1, <3>2, PrecisionAssumption DEF OrderType
      <3> QED
        BY <1>1, <2>1, <3>2, <3>3
    <2>2. \A u \in Users, s \in OrderSlots : Fits(orders'[u][s])
      BY <1>1, <1>2, <2>1 DEF OrdersWorked, OrderWorked
    <2> QED
      BY <2>2 DEF OrdersFit
  <1>3. ASSUME NEW u \in Users, NEW m \in MarketIndexes, NEW o \in OrderSpecs,
               PlaceOrder(u, m, o)
        PROVE  OrdersFit'
    <2>1. /\ \A v \in Users \ {u} : orders'[v] = orders[v]
          /\ \E s \in OrderSlots :
                /\ \A t \in OrderSlots \ {s} : orders'[u][t] = orders[u][t]
                /\ orders'[u][s].base = o.base
                /\ orders'[u][s].type \in {"Limit", "TriggerLimit"} => orders'[u][s].price > 0
      BY <1>3, OrderPlaced
    <2>2. o.base <= I64_MAX
      BY DEF SizesFit
    <2>3. \A v \in Users, s \in OrderSlots : Fits(orders'[v][s])
      BY <1>1, <2>1, <2>2
    <2> QED
      BY <2>3 DEF OrdersFit
  <1>4. CASE UNCHANGED vars
    BY <1>4 DEF vars, OrdersFit
  <1> QED
    BY <1>2, <1>3, <1>4, StepOrders

-----------------------------------------------------------------------------
(* What a trade, a liquidation or a settlement does to positions and books *)

OneGrew(u, m, dir, n, quote, s) ==
    /\ n <= I64_MAX
    /\ OthersKept({u})
    /\ Grew(u, m, dir, n, quote, s)
    /\ BooksRaised(m, LongPart(dir, n), ShortPart(dir, n))

OneShrank(u, m, n, quote, s, c) ==
    /\ OthersKept({u})
    /\ Shrank(u, m, n, quote, s, c)
    /\ BooksLowered(m, positions[u][s].base > 0, n)

TwoGrew(t, w, m, dir, n, quote, ts, ws) ==
    /\ n <= I64_MAX
    /\ t # w
    /\ OthersKept({t, w})
    /\ Grew(t, m, dir, n, quote, ts)
    /\ Grew(w, m, Opposite(dir), n, quote, ws)
    /\ BooksRaised(m, n, n)

TradeEffect ==
    \/ \E u \in Users, m \in MarketIndexes, dir \in Directions, n, quote \in Nat,
          s \in PositionSlots : OneGrew(u, m, dir, n, quote, s)
    \/ \E u \in Users, m \in MarketIndexes, n, quote \in Nat, s \in PositionSlots, c \in Int :
          OneShrank(u, m, n, quote, s, c)
    \/ \E t, w \in Users, m \in MarketIndexes, dir \in Directions, n, quote \in Nat,
          ts, ws \in PositionSlots : TwoGrew(t, w, m, dir, n, quote, ts, ws)
    \/ \E u \in Users, m \in MarketIndexes : SettleFunding(u, m)

LEMMA TradeEffects ==
    ASSUME SizesFit, EngineInv, OrdersFit, Trade \/ SlotStep
    PROVE  TradeEffect
  <1>1. ASSUME NEW u \in Users, NEW m \in MarketIndexes, NEW dir \in Directions,
               NEW n \in Nat, NEW limit \in Nat, Opens(u, m, dir, n, limit)
        PROVE  TradeEffect
    <2>1. ExecuteAmmOpen(u, m, dir, n, limit)
      BY <1>1 DEF Opens
    <2>2. n <= I64_MAX
      <3>1. ASSUME NEW os \in OrderSlots, OrderOpens(u, m, os, dir, n, limit)
            PROVE  n <= I64_MAX
        <4>1. n = RemainingBase(orders[u][os])
          BY <3>1 DEF OrderOpens
        <4> QED
          BY <4>1, RemainingFits
      <3> QED
        BY <1>1, <3>1 DEF Opens, SizesFit
    <2>3. PICK s \in PositionSlots, quote \in Nat : Grew(u, m, dir, n, quote, s)
      BY <2>1, OpenGrows
    <2>4. OthersKept({u}) /\ BooksRaised(m, LongPart(dir, n), ShortPart(dir, n))
      BY <2>1, OpenGrows, OpenBooks
    <2>5. OneGrew(u, m, dir, n, quote, s)
      BY <2>2, <2>3, <2>4 DEF OneGrew
    <2> QED
      BY <2>5 DEF TradeEffect
  <1>2. ASSUME NEW u \in Users, NEW m \in MarketIndexes, NEW s \in PositionSlots,
               NEW n \in Nat, NEW limit \in Nat, Closes(u, m, s, n, limit)
        PROVE  TradeEffect
    <2>1. FoundPosition(u, m, s) /\ ExecuteAmmClose(u, m, s, n, limit)
      BY <1>2 DEF Closes
    <2> DEFINE c == positions[u][s].lastCum
    <2>2. c \in Int
      BY DEF EngineInv, TradeOK, PositionsOK, PositionType
    <2>3. PICK quote \in Nat : Shrank(u, m, n, quote, s, c)
      BY <2>1, CloseShrinks
    <2>4. OthersKept({u}) /\ BooksLowered(m, positions[u][s].base > 0, n)
      BY <2>1, CloseShrinks, CloseBooks
    <2> HIDE DEF c
    <2>5. OneShrank(u, m, n, quote, s, c)
      BY <2>3, <2>4 DEF OneShrank
    <2> QED
      BY <2>2, <2>5 DEF TradeEffect
  <1>3. ASSUME NEW t \in Users, NEW w \in Users, NEW m \in MarketIndexes,
               NEW ts \in OrderSlots, NEW ws \in OrderSlots, NEW n \in Nat,
               Matches(t, w, m, ts, ws, n)
        PROVE  TradeEffect
    <2> DEFINE d == orders[t][ts].dir
               price == orders[w][ws].price
               quote == (n * price) \div BASE_PRECISION
    <2>1. /\ t # w /\ ExecuteMakerMatch(t, w, m, d, n, price)
          /\ n = Least(RemainingBase(orders[t][ts]), RemainingBase(orders[w][ws]))
      BY <1>3 DEF Matches
    <2>2. d \in Directions /\ price \in Nat
      BY DEF EngineInv, RestOK, OrderType
    <2>3. n <= I64_MAX
      <3>1. RemainingBase(orders[t][ts]) \in 0 .. I64_MAX
            /\ RemainingBase(orders[w][ws]) \in 0 .. I64_MAX
        BY RemainingFits
      <3> QED
        BY <2>1, <3>1, PrecisionAssumption DEF Least
    <2> HIDE DEF d, price
    <2>4. quote \in Nat
      <3>1. n * price \in Nat
        BY <2>2
      <3> QED
        BY <3>1, DivOfNat, PrecisionAssumption
    <2>5. /\ OthersKept({t, w})
          /\ \E i, j \in PositionSlots :
                Grew(t, m, d, n, quote, i) /\ Grew(w, m, Opposite(d), n, quote, j)
      BY <2>1, <2>2, MatchGrows
    <2>6. BooksRaised(m, n, n)
      BY <2>1, <2>2, MatchBooks
    <2> HIDE DEF quote
    <2>7. \E i, j \in PositionSlots : TwoGrew(t, w, m, d, n, quote, i, j)
      BY <2>1, <2>3, <2>5, <2>6 DEF TwoGrew
    <2> QED
      BY <2>2, <2>4, <2>7 DEF TradeEffect
  <1>4. ASSUME NEW u \in Users, NEW m \in MarketIndexes, NEW r \in Nat, LiquidatePerp(u, m, r)
        PROVE  TradeEffect
    <2> DEFINE c == amm[m].cumFunding
    <2>1. c \in Int
      BY DEF EngineInv, TradeOK, PoolsOK, AmmType
    <2>2. PICK s \in PositionSlots, n \in Nat, quote \in Nat :
            /\ Shrank(u, m, n, quote, s, c)
            /\ CloseBooked(m, positions[u][s].base > 0, n, CloseSwapDir(positions[u][s]))
      BY <1>4, LiquidateShrinks
    <2>3. (positions[u][s].base > 0) \in BOOLEAN
      OBVIOUS
    <2>4. OthersKept({u}) /\ BooksLowered(m, positions[u][s].base > 0, n)
      BY <1>4, <2>2, <2>3, LiquidateShrinks, LiquidateBooks
    <2> HIDE DEF c
    <2>5. OneShrank(u, m, n, quote, s, c)
      BY <2>2, <2>4 DEF OneShrank
    <2> QED
      BY <2>1, <2>5 DEF TradeEffect
  <1> QED
    BY <1>1, <1>2, <1>3, <1>4 DEF Trade, SlotStep, TradeEffect

-----------------------------------------------------------------------------
(* Cost basis: a flat slot carries none, a long has paid, a short received *)

SignOK(p) ==
    /\ p.base = 0 => p.quoteEntry = 0
    /\ p.base > 0 => p.quoteEntry <= 0
    /\ p.base < 0 => p.quoteEntry >= 0

SignsOK(ps) == \A s \in PositionSlots : SignOK(ps[s])

LEMMA SignedBaseFits ==
    ASSUME NEW dir \in Directions, NEW n \in Nat, n <= I64_MAX
    PROVE  SignedBase(dir, n) = IF dir = "Long" THEN n ELSE -n
  BY DEF SignedBase, AsI64

LEMMA GrewSigns ==
    ASSUME SlotInv, NEW u \in Users, NEW m \in MarketIndexes, NEW dir \in Directions,
           NEW n \in Nat, n <= I64_MAX, NEW quote \in Nat, NEW s \in PositionSlots,
           Grew(u, m, dir, n, quote, s), SignsOK(positions[u])
    PROVE  SignsOK(positions'[u])
  <1> DEFINE t == TargetPosition(u, m, s)
             p == Increased(t, dir, n, quote, amm[m].cumFunding)
  <1>1. /\ positions'[u] = [positions[u] EXCEPT ![s] = p]
        /\ n # 0 /\ SameSide(u, m, s, dir)
    BY DEF Grew
  <1>2. /\ t \in PositionType /\ t.base = positions[u][s].base
        /\ ~HasPosition(u, m) => t.base = 0 /\ t.quoteEntry = 0
        /\ HasPosition(u, m) => t = positions[u][s]
    BY TargetHolds DEF Grew
  <1>3. SignOK(t)
    BY <1>2 DEF SignsOK, SignOK
  <1>4. HasPosition(u, m) => ((t.base > 0) <=> (dir = "Long"))
    BY <1>1, <1>2 DEF SameSide
  <1>5. HasPosition(u, m) => t.base # 0
    <2>1. Holds(positions[u], m, s)
      BY TargetHolds DEF Grew
    <2> QED
      BY <1>2, <2>1 DEF HasPosition, Holds, IsOpenIn
  <1>6. t.base \in Int /\ t.quoteEntry \in Int
    BY <1>2 DEF PositionType
  <1> DEFINE b == t.base + SignedBase(dir, n)
             e == IF dir = "Long" THEN t.quoteEntry - quote ELSE t.quoteEntry + quote
  <1>7. p.base = b /\ p.quoteEntry = e
    BY <1>2 DEF Increased, PositionType
  <1> HIDE DEF t, p
  <1>8. SignOK([base |-> b, quoteEntry |-> e])
    <2>1. CASE dir = "Long"
      BY <1>1, <1>2, <1>3, <1>4, <1>5, <1>6, <2>1, SignedBaseFits DEF SignOK
    <2>2. CASE dir # "Long"
      BY <1>1, <1>2, <1>3, <1>4, <1>5, <1>6, <2>2, SignedBaseFits DEF SignOK
    <2> QED
      BY <2>1, <2>2
  <1>9. SignOK(p)
    BY <1>7, <1>8 DEF SignOK
  <1>10. positions[u] \in [PositionSlots -> PositionType]
    BY DEF SlotInv, SlotsOK
  <1> QED
    BY <1>1, <1>9, <1>10 DEF SignsOK

\* The cost basis that leaves with part of a position is part of the cost basis, on
\* its side of zero, and all of it with all of the position.
LEMMA ClosedPart ==
    ASSUME NEW p \in PositionType, p.base # 0, NEW n \in 1 .. Magnitude(p.base)
    PROVE  /\ p.quoteEntry >= 0 => QuoteClosed(p, n) \in 0 .. p.quoteEntry
           /\ p.quoteEntry < 0 => QuoteClosed(p, n) \in p.quoteEntry .. 0
           /\ n = Magnitude(p.base) => QuoteClosed(p, n) = p.quoteEntry
  <1> DEFINE b == Magnitude(p.base)
             q == p.quoteEntry
             x == q * n
  <1>1. b \in Nat \ {0} /\ q \in Int /\ n \in 1 .. b
    BY DEF Magnitude, PositionType
  <1>2. QuoteClosed(p, n) = IF x >= 0 THEN x \div b ELSE -((-x) \div b)
    BY DEF QuoteClosed, TruncDiv
  <1> HIDE DEF b, q
  <1>3. CASE q >= 0
    <2>1. q \in Nat /\ n \in 0 .. b /\ x >= 0
      BY <1>1, <1>3
    <2>2. (q * n) \div b \in 0 .. q /\ (q * b) \div b = q
      BY <1>1, <2>1, PartOfProduct, DivOfProduct
    <2> QED
      BY <1>1, <1>2, <1>3, <2>1, <2>2 DEF q, b
  <1>4. CASE q < 0
    <2> DEFINE a == -q
    <2>1. a \in Nat /\ n \in 0 .. b /\ a > 0
      BY <1>1, <1>4
    <2>2. a * n > 0 /\ -x = a * n /\ x < 0
      <3>1. -x = a * n
        BY <1>1
      <3>2. a * n > 0
        BY <1>1, <2>1
      <3>3. x \in Int
        BY <1>1
      <3> QED
        BY <3>1, <3>2, <3>3
    <2>3. (a * n) \div b \in 0 .. a /\ (a * b) \div b = a
      BY <1>1, <2>1, PartOfProduct, DivOfProduct
    <2>4. QuoteClosed(p, n) = -((a * n) \div b)
      BY <1>1, <1>2, <2>2
    <2> HIDE DEF x
    <2>5. QuoteClosed(p, n) \in q .. 0 /\ (n = b => QuoteClosed(p, n) = q)
      BY <1>1, <2>1, <2>3, <2>4
    <2> QED
      BY <1>1, <1>4, <2>5 DEF q, b
  <1> QED
    BY <1>1, <1>3, <1>4

LEMMA ShrankSigns ==
    ASSUME SlotInv, NEW u \in Users, NEW m \in MarketIndexes, NEW n \in Nat,
           NEW quote \in Nat, NEW s \in PositionSlots, NEW c \in Int,
           Shrank(u, m, n, quote, s, c), SignsOK(positions[u])
    PROVE  SignsOK(positions'[u])
  <1> DEFINE b == positions[u][s]
             r == Reduced(b, n)
             p == SettledUpTo(r, c)
  <1>1. /\ positions'[u] = [positions[u] EXCEPT ![s] = p]
        /\ n \in 1 .. Magnitude(b.base)
    BY DEF Shrank
  <1>2. b \in PositionType /\ b.base # 0 /\ SignOK(b)
    BY FoundHolds DEF Shrank, SlotInv, SlotsOK, IsOpenIn, SignsOK
  <1> DEFINE left == IF b.base > 0 THEN b.base - n ELSE b.base + n
             e    == IF left = 0 THEN 0 ELSE b.quoteEntry - QuoteClosed(b, n)
  <1>3. r.base = left /\ r.quoteEntry = e /\ r \in PositionType
    BY <1>2, ReducedType DEF Reduced, PositionType
  <1> HIDE DEF r
  <1>4. p.base = left /\ p.quoteEntry = e
    BY <1>3 DEF SettledUpTo, PositionType
  <1>5. /\ b.quoteEntry >= 0 => QuoteClosed(b, n) \in 0 .. b.quoteEntry
        /\ b.quoteEntry < 0 => QuoteClosed(b, n) \in b.quoteEntry .. 0
    <2> HIDE DEF b
    <2> QED
      BY <1>1, <1>2, ClosedPart
  <1>6. b.base \in Int /\ b.quoteEntry \in Int
    BY <1>2 DEF PositionType
  <1> HIDE DEF p, b
  <1>7. SignOK([base |-> left, quoteEntry |-> e])
    BY <1>1, <1>2, <1>5, <1>6 DEF SignOK, Magnitude
  <1>8. SignOK(p)
    BY <1>4, <1>7 DEF SignOK
  <1>9. positions[u] \in [PositionSlots -> PositionType]
    BY DEF SlotInv, SlotsOK
  <1> QED
    BY <1>1, <1>8, <1>9 DEF SignsOK

SignInv == SlotInv /\ OrdersFit /\ \A u \in Users : SignsOK(positions[u])

LEMMA InitSignInv == Init => SignInv
  <1> SUFFICES ASSUME Init PROVE SignInv
    OBVIOUS
  <1>1. \A u \in Users : SignsOK(positions[u])
    BY DEF Init, DefaultPosition, SignsOK, SignOK
  <1>2. OrdersFit
    BY PrecisionAssumption DEF Init, DefaultOrder, OrdersFit
  <1> QED
    BY <1>1, <1>2, InitSlotInv DEF SignInv

LEMMA TradeKeepsSigns ==
    ASSUME SignInv, TradeEffect
    PROVE  \A u \in Users : SignsOK(positions'[u])
  <1>0. SlotInv /\ \A u \in Users : SignsOK(positions[u])
    BY DEF SignInv
  <1>1. ASSUME NEW u \in Users, NEW m \in MarketIndexes, NEW dir \in Directions,
               NEW n \in Nat, NEW quote \in Nat, NEW s \in PositionSlots,
               OneGrew(u, m, dir, n, quote, s)
        PROVE  \A v \in Users : SignsOK(positions'[v])
    <2>1. SignsOK(positions'[u])
      BY <1>0, <1>1, GrewSigns DEF OneGrew
    <2> QED
      BY <1>0, <1>1, <2>1 DEF OneGrew, OthersKept
  <1>2. ASSUME NEW u \in Users, NEW m \in MarketIndexes, NEW n \in Nat, NEW quote \in Nat,
               NEW s \in PositionSlots, NEW c \in Int, OneShrank(u, m, n, quote, s, c)
        PROVE  \A v \in Users : SignsOK(positions'[v])
    <2>1. SignsOK(positions'[u])
      BY <1>0, <1>2, ShrankSigns DEF OneShrank
    <2> QED
      BY <1>0, <1>2, <2>1 DEF OneShrank, OthersKept
  <1>3. ASSUME NEW t \in Users, NEW w \in Users, NEW m \in MarketIndexes,
               NEW dir \in Directions, NEW n \in Nat, NEW quote \in Nat,
               NEW ts \in PositionSlots, NEW ws \in PositionSlots,
               TwoGrew(t, w, m, dir, n, quote, ts, ws)
        PROVE  \A v \in Users : SignsOK(positions'[v])
    <2>1. Opposite(dir) \in Directions
      BY DEF Opposite, Directions
    <2>2. SignsOK(positions'[t])
      BY <1>0, <1>3, GrewSigns DEF TwoGrew
    <2>3. SignsOK(positions'[w])
      BY <1>0, <1>3, <2>1, GrewSigns DEF TwoGrew
    <2> QED
      BY <1>0, <1>3, <2>2, <2>3 DEF TwoGrew, OthersKept
  <1>4. ASSUME NEW u \in Users, NEW m \in MarketIndexes, SettleFunding(u, m)
        PROVE  \A v \in Users : SignsOK(positions'[v])
    <2>1. SignsOK(positions'[u])
      BY <1>0, <1>4, SettleKeepsExposure DEF SignsOK, SignOK
    <2> QED
      BY <1>0, <1>4, <2>1, SettleKeepsExposure DEF OthersKept
  <1> QED
    BY <1>1, <1>2, <1>3, <1>4 DEF TradeEffect

LEMMA NextSignInv ==
    ASSUME SizesFit, SignInv, [Next]_vars
    PROVE  SignInv'
  <1>0. SlotInv /\ EngineInv /\ OrdersFit
    BY DEF SignInv, SlotInv
  <1>1. SlotInv' /\ OrdersFit'
    BY <1>0, NextSlotInv, NextOrdersFit
  <1>2. ASSUME UNCHANGED positions PROVE \A u \in Users : SignsOK(positions'[u])
    BY <1>2 DEF SignInv
  <1>3. \A u \in Users : SignsOK(positions'[u])
    <2>1. CASE Next
      BY <1>0, <1>2, <2>1, StepKinds, TradeEffects, TradeKeepsSigns, NoTradeKeepsPositions
    <2>2. CASE UNCHANGED vars
      BY <1>2, <2>2 DEF vars
    <2> QED
      BY <2>1, <2>2
  <1> QED
    BY <1>1, <1>3 DEF SignInv

\* When order sizes fit the program's i64, a user never has two open positions in one
\* market, whatever slots were freed and reused, a flat slot carries no cost basis,
\* and a long has only ever paid for what it holds, a short only received: partial
\* closes take out a share of the basis and never more of it than there is.
THEOREM PositionsAlwaysSound == ASSUME SizesFit PROVE Spec => []PositionsSound
  <1>1. SignInv /\ [Next]_vars => SignInv'
    BY NextSignInv
  <1>2. SignInv => PositionsSound
    BY DEF SignInv, SlotInv, SlotsOK, SignsOK, SignOK, PositionsSound
  <1> QED
    BY <1>1, <1>2, InitSignInv, PTL DEF Spec

-----------------------------------------------------------------------------
(* Open interest *)

InterestKept(m) ==
    /\ market'[m].oiLong = market[m].oiLong /\ market'[m].oiShort = market[m].oiShort
    /\ amm'[m].long = amm[m].long /\ amm'[m].short = amm[m].short
    /\ amm'[m].totalFee = amm[m].totalFee

\* funding and parameter updates
MarketTuned(m) ==
    /\ m \in CreatedMarkets /\ numMarkets' = numMarkets
    /\ MarketKeptAll(MarketIndexes \ {m})
    /\ InterestKept(m)

MarketBorn(m) ==
    /\ m = numMarkets /\ numMarkets' = numMarkets + 1
    /\ MarketKeptAll(MarketIndexes \ {m})
    /\ market'[m].oiLong = 0 /\ market'[m].oiShort = 0
    /\ amm'[m].long = 0 /\ amm'[m].short = 0 /\ amm'[m].totalFee = 0

LEMMA FundingTunes ==
    ASSUME EngineInv, NEW m \in MarketIndexes, UpdateFundingRate(m)
    PROVE  MarketTuned(m)
  <1> DEFINE window == Greatest(market[m].fundingPeriod, 1)
             fresh  == TwapsRefreshed(amm[m], oracle[m].price, window, clock)
             pool   == Accrued(fresh, market[m].fundingPeriod, clock)
  <1>1. amm[m] \in AmmType /\ market[m] \in MarketType
    BY DEF EngineInv, TradeOK, PoolsOK, MarketsOK
  <1>2. /\ m \in CreatedMarkets /\ numMarkets' = numMarkets
        /\ \/ /\ amm' = [amm EXCEPT ![m] = pool]
              /\ market' = [market EXCEPT ![m].nextFundingTs =
                               clock + market[m].fundingPeriod]
           \/ amm' = [amm EXCEPT ![m] = fresh] /\ market' = market
    BY DEF UpdateFundingRate
  <1> HIDE DEF window
  <1>3. /\ fresh.long = amm[m].long /\ fresh.short = amm[m].short
        /\ fresh.totalFee = amm[m].totalFee
    BY <1>1 DEF TwapsRefreshed, AmmType
  <1> HIDE DEF fresh
  <1>4. /\ pool.long = fresh.long /\ pool.short = fresh.short
        /\ pool.totalFee = fresh.totalFee
    BY DEF Accrued
  <1> HIDE DEF pool
  <1>5. \A x : /\ [market[m] EXCEPT !.nextFundingTs = x].oiLong = market[m].oiLong
               /\ [market[m] EXCEPT !.nextFundingTs = x].oiShort = market[m].oiShort
    BY <1>1 DEF MarketType
  <1>6. CASE amm' = [amm EXCEPT ![m] = fresh] /\ market' = market
    BY <1>2, <1>3, <1>6, Layout DEF MarketTuned, MarketKeptAll, InterestKept
  <1>7. CASE /\ amm' = [amm EXCEPT ![m] = pool]
             /\ market' = [market EXCEPT ![m].nextFundingTs =
                               clock + market[m].fundingPeriod]
    BY <1>2, <1>3, <1>4, <1>5, <1>7, Layout DEF MarketTuned, MarketKeptAll, InterestKept
  <1> QED
    BY <1>2, <1>6, <1>7

LEMMA ParamsTune ==
    ASSUME EngineInv, NEW m \in MarketIndexes, NEW p, NEW s, UpdateMarketParams(m, s, p)
    PROVE  MarketTuned(m)
  <1> DEFINE new == [WithParams(market[m], p) EXCEPT !.status = s]
  <1>1. market[m] \in MarketType
    BY DEF EngineInv, TradeOK, MarketsOK
  <1>2. /\ m \in CreatedMarkets /\ numMarkets' = numMarkets
        /\ market' = [market EXCEPT ![m] = new] /\ amm' = amm
    BY DEF UpdateMarketParams
  <1>3. new.oiLong = market[m].oiLong /\ new.oiShort = market[m].oiShort
    BY <1>1 DEF WithParams, MarketType
  <1> HIDE DEF new
  <1> QED
    BY <1>2, <1>3, Layout DEF MarketTuned, MarketKeptAll, InterestKept

LEMMA NewMarketBorn ==
    ASSUME EngineInv, NEW m \in MarketIndexes, NEW p, NEW reserve, NEW peg,
           InitializeMarket(m, p, reserve, peg)
    PROVE  MarketBorn(m)
  <1> DEFINE mk   == [WithParams(DefaultMarket, p) EXCEPT
                        !.status = "Active", !.nextFundingTs = clock + p.fundingPeriod]
             pool == [InitialReserves(reserve, peg) EXCEPT
                        !.markTwap = peg, !.oracleTwap = peg,
                        !.lastTwapTs = clock, !.lastFundingTs = clock]
  <1>1. /\ m = numMarkets /\ numMarkets' = numMarkets + 1
        /\ market' = [market EXCEPT ![m] = mk] /\ amm' = [amm EXCEPT ![m] = pool]
    BY DEF InitializeMarket
  <1>2. mk.oiLong = 0 /\ mk.oiShort = 0
    BY DEF WithParams, DefaultMarket
  <1>3. pool.long = 0 /\ pool.short = 0 /\ pool.totalFee = 0
    BY DEF InitialReserves, DefaultAmm
  <1> HIDE DEF mk, pool
  <1> QED
    BY <1>1, <1>2, <1>3, Layout DEF MarketBorn, MarketKeptAll

LEMMA NoTradeMarkets ==
    ASSUME EngineInv, NoTrade
    PROVE  \/ UNCHANGED <<numMarkets, market, amm>>
           \/ \E m \in MarketIndexes : MarketTuned(m) \/ MarketBorn(m)
  <1>1. ASSUME NEW u, NEW m, NEW a,
               \/ InitializeUser(u) \/ Deposit(u, a) \/ ResolveBankruptcy(u)
               \/ Withdraw(u, m, a) \/ CancelOrder(u, a)
        PROVE  UNCHANGED <<numMarkets, market, amm>>
    BY <1>1 DEF InitializeUser, Deposit, ResolveBankruptcy, Withdraw, CancelOrder
  <1>2. ASSUME NEW u, NEW m, NEW o, PlaceOrder(u, m, o)
        PROVE  UNCHANGED <<numMarkets, market, amm>>
    BY <1>2 DEF PlaceOrder
  <1>3. ASSUME NEW m, NEW p, NEW c, InitializeOracle(m, p, c) \/ UpdateOracle(m, p, c)
        PROVE  UNCHANGED <<numMarkets, market, amm>>
    BY <1>3 DEF InitializeOracle, UpdateOracle
  <1>4. ASSUME NEW x, SetProtocolPaused(x) \/ Tick(x)
        PROVE  UNCHANGED <<numMarkets, market, amm>>
    BY <1>4 DEF SetProtocolPaused, Tick
  <1>5. ASSUME NEW m \in MarketIndexes, MarketStep(m)
        PROVE  \/ UNCHANGED <<numMarkets, market, amm>>
               \/ MarketTuned(m) \/ MarketBorn(m)
    BY <1>3, <1>5, FundingTunes, ParamsTune, NewMarketBorn DEF MarketStep
  <1> QED
    BY <1>1, <1>2, <1>4, <1>5 DEF NoTrade

\* A market not created yet has no interest and has earned no fees.
FreshMarkets ==
    \A m \in MarketIndexes \ CreatedMarkets :
        /\ market[m].oiLong = 0 /\ market[m].oiShort = 0
        /\ amm[m].long = 0 /\ amm[m].short = 0 /\ amm[m].totalFee = 0

LEMMA NextFreshMarkets ==
    ASSUME EngineInv, FreshMarkets, [Next]_vars
    PROVE  FreshMarkets'
  <1>1. CASE Trade \/ SlotStep
    <2>1. OneMarketTouched
      BY <1>1, TradeMarkets
    <2> QED
      BY <2>1 DEF OneMarketTouched, MarketKeptAll, FreshMarkets, CreatedMarkets
  <1>2. CASE UNCHANGED <<numMarkets, market, amm>>
    BY <1>2 DEF FreshMarkets, CreatedMarkets
  <1>3. ASSUME NEW m \in MarketIndexes, MarketTuned(m) PROVE FreshMarkets'
    BY <1>3 DEF MarketTuned, MarketKeptAll, FreshMarkets, CreatedMarkets
  <1>4. ASSUME NEW m \in MarketIndexes, MarketBorn(m) PROVE FreshMarkets'
    <2>1. \A k \in MarketIndexes \ CreatedMarkets' : k \in MarketIndexes \ CreatedMarkets
      <3>1. numMarkets \in Nat /\ \A k \in MarketIndexes : k \in Nat
        BY StateAssumption DEF EngineInv, RestOK
      <3>2. \A k \in MarketIndexes : k < numMarkets => k < numMarkets'
        BY <1>4, <3>1 DEF MarketBorn
      <3> QED
        BY <3>2 DEF CreatedMarkets
    <2> QED
      BY <1>4, <2>1 DEF MarketBorn, MarketKeptAll, FreshMarkets
  <1> QED
    BY <1>1, <1>2, <1>3, <1>4, StepKinds, NoTradeMarkets DEF vars

LEMMA InitFreshMarkets == Init => FreshMarkets
  BY DEF Init, FreshMarkets, DefaultMarket, DefaultAmm

\* the long, and the short, side of an exposure
LongSide(b)  == Greatest(b, 0)
ShortSide(b) == Greatest(-b, 0)

LEMMA SidesType ==
    ASSUME NEW b \in Int
    PROVE  LongSide(b) \in Nat /\ ShortSide(b) \in Nat
  BY DEF LongSide, ShortSide, Greatest

LEMMA ExposuresInt ==
    ASSUME NEW u, SlotsOK(positions[u])
    PROVE  \A m : NetBase(u, m) \in Int
  BY ExposureType DEF NetBase, SlotsOK

\* No user's side of a market is more than the market's.
LEMMA SideOfInterest ==
    ASSUME SlotInv, NEW m, NEW u \in Users
    PROVE  /\ LongInterest(m) \in Nat /\ LongSide(NetBase(u, m)) <= LongInterest(m)
           /\ ShortInterest(m) \in Nat /\ ShortSide(NetBase(u, m)) <= ShortInterest(m)
  <1> DEFINE f == [v \in Users |-> Greatest(NetBase(v, m), 0)]
             g == [v \in Users |-> Greatest(-NetBase(v, m), 0)]
  <1>1. \A v \in Users : NetBase(v, m) \in Int
    BY ExposuresInt DEF SlotInv
  <1>2. f \in [Users -> Nat] /\ g \in [Users -> Nat]
    BY <1>1, SidesType DEF LongSide, ShortSide
  <1>3. f[u] = LongSide(NetBase(u, m)) /\ g[u] = ShortSide(NetBase(u, m))
    BY DEF LongSide, ShortSide
  <1>4. LongInterest(m) = SumFunction(f) /\ ShortInterest(m) = SumFunction(g)
    BY DEF LongInterest, ShortInterest
  <1> HIDE DEF f, g
  <1>5. /\ SumFunction(f) \in Nat /\ f[u] <= SumFunction(f)
        /\ SumFunction(g) \in Nat /\ g[u] <= SumFunction(g)
    BY <1>2, SumOfNats, StateAssumption
  <1> QED
    BY <1>3, <1>4, <1>5

\* When the exposure of one user, or of two, changes, so does the interest.
LEMMA InterestChanged ==
    ASSUME SlotInv, SlotInv', NEW m, NEW u \in Users, NEW w \in Users,
           \A v \in Users \ {u, w} : NetBase(v, m)' = NetBase(v, m)
    PROVE  /\ LongInterest(m)' = LongInterest(m)
                + (LongSide(NetBase(u, m)') - LongSide(NetBase(u, m)))
                + (IF u = w THEN 0
                   ELSE LongSide(NetBase(w, m)') - LongSide(NetBase(w, m)))
           /\ ShortInterest(m)' = ShortInterest(m)
                + (ShortSide(NetBase(u, m)') - ShortSide(NetBase(u, m)))
                + (IF u = w THEN 0
                   ELSE ShortSide(NetBase(w, m)') - ShortSide(NetBase(w, m)))
  <1> DEFINE f == [v \in Users |-> LongSide(NetBase(v, m))]
             g == [v \in Users |-> ShortSide(NetBase(v, m))]
             f2 == [v \in Users |-> LongSide(NetBase(v, m)')]
             g2 == [v \in Users |-> ShortSide(NetBase(v, m)')]
  <1>1. \A v \in Users : NetBase(v, m) \in Int /\ NetBase(v, m)' \in Int
    <2>1. \A v \in Users : SlotsOK(positions[v]) /\ SlotsOK(positions'[v])
      BY DEF SlotInv
    <2>2. \A v \in Users : NetBase(v, m)' \in Int
      BY <2>1, ExposureType DEF NetBase, SlotsOK
    <2> QED
      BY <2>1, <2>2, ExposuresInt
  <1>2. /\ f \in [Users -> Int] /\ g \in [Users -> Int]
        /\ f2 \in [Users -> Int] /\ g2 \in [Users -> Int]
    BY <1>1, SidesType
  <1>3. \A v \in Users \ {u, w} : f2[v] = f[v] /\ g2[v] = g[v]
    OBVIOUS
  <1>4. /\ LongInterest(m) = SumFunction(f) /\ ShortInterest(m) = SumFunction(g)
        /\ LongInterest(m)' = SumFunction(f2) /\ ShortInterest(m)' = SumFunction(g2)
    BY DEF LongInterest, ShortInterest, LongSide, ShortSide
  <1>5. \A v \in Users : /\ f[v] = LongSide(NetBase(v, m)) /\ g[v] = ShortSide(NetBase(v, m))
                         /\ f2[v] = LongSide(NetBase(v, m)')
                         /\ g2[v] = ShortSide(NetBase(v, m)')
    OBVIOUS
  <1> HIDE DEF f, g, f2, g2
  <1>6. CASE u = w
    <2>1. \A v \in Users \ {u} : f2[v] = f[v] /\ g2[v] = g[v]
      BY <1>3, <1>6
    <2>2. SumFunction(f2) = SumFunction(f) + (f2[u] - f[u])
      BY <1>2, <2>1, SumChanged, StateAssumption
    <2>3. SumFunction(g2) = SumFunction(g) + (g2[u] - g[u])
      BY <1>2, <2>1, SumChanged, StateAssumption
    <2>4. SumFunction(f) \in Int /\ SumFunction(g) \in Int
          /\ f2[u] - f[u] \in Int /\ g2[u] - g[u] \in Int
      BY <1>2, SumIsInt, StateAssumption
    <2>5. /\ SumFunction(f2) = SumFunction(f) + (f2[u] - f[u]) + 0
          /\ SumFunction(g2) = SumFunction(g) + (g2[u] - g[u]) + 0
      BY <2>2, <2>3, <2>4
    <2> QED
      BY <1>4, <1>5, <1>6, <2>5
  <1>7. CASE u # w
    <2>1. SumFunction(f2) = SumFunction(f) + (f2[u] - f[u]) + (f2[w] - f[w])
      BY <1>2, <1>3, <1>7, SumChangedTwice, StateAssumption
    <2>2. SumFunction(g2) = SumFunction(g) + (g2[u] - g[u]) + (g2[w] - g[w])
      BY <1>2, <1>3, <1>7, SumChangedTwice, StateAssumption
    <2> QED
      BY <1>4, <1>5, <1>7, <2>1, <2>2
  <1> QED
    BY <1>6, <1>7

LEMMA InterestSame ==
    ASSUME SlotInv, SlotInv', NEW m, \A v \in Users : NetBase(v, m)' = NetBase(v, m)
    PROVE  LongInterest(m)' = LongInterest(m) /\ ShortInterest(m)' = ShortInterest(m)
  BY DEF LongInterest, ShortInterest

BooksMatch(m) ==
    /\ market[m].oiLong = LongInterest(m)
    /\ market[m].oiShort = ShortInterest(m)
    /\ amm[m].long = market[m].oiLong
    /\ amm[m].short = -market[m].oiShort

BookInv == SignInv /\ FreshMarkets /\ \A m \in MarketIndexes : BooksMatch(m)

LEMMA KeptBooksMatch ==
    ASSUME SlotInv, SlotInv', NEW m \in MarketIndexes, BooksMatch(m),
           market'[m] = market[m], amm'[m] = amm[m],
           \A v \in Users : NetBase(v, m)' = NetBase(v, m)
    PROVE  BooksMatch(m)'
  BY InterestSame DEF BooksMatch

\* What n more base on one's own side add to the two sides of an exposure.
LEMMA SidesGrow ==
    ASSUME NEW b \in Int, NEW dir \in Directions, NEW n \in Nat, n <= I64_MAX,
           b # 0 => ((b > 0) <=> (dir = "Long"))
    PROVE  LET a == b + SignedBase(dir, n)
           IN  /\ LongSide(a) - LongSide(b) = LongPart(dir, n)
               /\ ShortSide(a) - ShortSide(b) = ShortPart(dir, n)
  <1>1. CASE dir = "Long"
    BY <1>1, SignedBaseFits DEF LongSide, ShortSide, Greatest, LongPart, ShortPart
  <1>2. CASE dir # "Long"
    BY <1>2, SignedBaseFits DEF LongSide, ShortSide, Greatest, LongPart, ShortPart
  <1> QED
    BY <1>1, <1>2

LEMMA GrewSides ==
    ASSUME SlotInv, NEW u \in Users, NEW m \in MarketIndexes, NEW dir \in Directions,
           NEW n \in Nat, n <= I64_MAX, NEW quote \in Nat, NEW s \in PositionSlots,
           Grew(u, m, dir, n, quote, s)
    PROVE  /\ LongSide(NetBase(u, m)') - LongSide(NetBase(u, m)) = LongPart(dir, n)
           /\ ShortSide(NetBase(u, m)') - ShortSide(NetBase(u, m)) = ShortPart(dir, n)
           /\ \A k : k # m => NetBase(u, k)' = NetBase(u, k)
  <1> DEFINE b == NetBase(u, m)
  <1>1. /\ NetBase(u, m)' = b + SignedBase(dir, n)
        /\ b # 0 => ((b > 0) <=> (dir = "Long"))
        /\ \A k : k # m => NetBase(u, k)' = NetBase(u, k)
    BY GrewExposure
  <1>2. b \in Int
    BY ExposuresInt DEF SlotInv
  <1> HIDE DEF b
  <1>3. /\ LongSide(b + SignedBase(dir, n)) - LongSide(b) = LongPart(dir, n)
        /\ ShortSide(b + SignedBase(dir, n)) - ShortSide(b) = ShortPart(dir, n)
    BY <1>1, <1>2, SidesGrow
  <1> QED
    BY <1>1, <1>3 DEF b

LEMMA OneGrewBooks ==
    ASSUME BookInv, SlotInv', NEW u \in Users, NEW m \in MarketIndexes,
           NEW dir \in Directions, NEW n \in Nat, NEW quote \in Nat,
           NEW s \in PositionSlots, OneGrew(u, m, dir, n, quote, s)
    PROVE  \A k \in MarketIndexes : BooksMatch(k)'
  <1>0. SlotInv
    BY DEF BookInv, SignInv
  <1>1. /\ LongSide(NetBase(u, m)') - LongSide(NetBase(u, m)) = LongPart(dir, n)
        /\ ShortSide(NetBase(u, m)') - ShortSide(NetBase(u, m)) = ShortPart(dir, n)
        /\ \A k : k # m => NetBase(u, k)' = NetBase(u, k)
    BY <1>0, GrewSides DEF OneGrew
  <1>2. \A v \in Users \ {u} : \A k : NetBase(v, k)' = NetBase(v, k)
    BY SameSlotsSameExposure DEF OneGrew, OthersKept
  <1>3. /\ LongInterest(m)' = LongInterest(m)
             + (LongSide(NetBase(u, m)') - LongSide(NetBase(u, m))) + 0
        /\ ShortInterest(m)' = ShortInterest(m)
             + (ShortSide(NetBase(u, m)') - ShortSide(NetBase(u, m))) + 0
    BY <1>0, <1>2, InterestChanged
  <1>4. LongInterest(m) \in Nat /\ ShortInterest(m) \in Nat
    BY <1>0, SideOfInterest
  <1>5. LongPart(dir, n) \in Nat /\ ShortPart(dir, n) \in Nat
    BY DEF LongPart, ShortPart
  <1>6. /\ LongInterest(m)' = LongInterest(m) + LongPart(dir, n)
        /\ ShortInterest(m)' = ShortInterest(m) + ShortPart(dir, n)
    BY <1>1, <1>3, <1>4, <1>5
  <1>7. BooksRaised(m, LongPart(dir, n), ShortPart(dir, n)) /\ BooksMatch(m)
    BY DEF OneGrew, BookInv
  <1>8. BooksMatch(m)'
    BY <1>4, <1>5, <1>6, <1>7 DEF BooksMatch, BooksRaised
  <1>9. ASSUME NEW k \in MarketIndexes \ {m} PROVE BooksMatch(k)'
    <2>1. market'[k] = market[k] /\ amm'[k] = amm[k] /\ BooksMatch(k)
      BY <1>7 DEF BooksRaised, MarketKeptAll, BookInv
    <2>2. \A v \in Users : NetBase(v, k)' = NetBase(v, k)
      BY <1>1, <1>2
    <2> QED
      BY <1>0, <2>1, <2>2, KeptBooksMatch
  <1> QED
    BY <1>8, <1>9

LEMMA TwoGrewBooks ==
    ASSUME BookInv, SlotInv', NEW t \in Users, NEW w \in Users, NEW m \in MarketIndexes,
           NEW dir \in Directions, NEW n \in Nat, NEW quote \in Nat,
           NEW ts \in PositionSlots, NEW ws \in PositionSlots,
           TwoGrew(t, w, m, dir, n, quote, ts, ws)
    PROVE  \A k \in MarketIndexes : BooksMatch(k)'
  <1>0. SlotInv /\ t # w /\ Opposite(dir) \in Directions
    BY DEF BookInv, SignInv, TwoGrew, Opposite, Directions
  <1>1. /\ LongSide(NetBase(t, m)') - LongSide(NetBase(t, m)) = LongPart(dir, n)
        /\ ShortSide(NetBase(t, m)') - ShortSide(NetBase(t, m)) = ShortPart(dir, n)
        /\ \A k : k # m => NetBase(t, k)' = NetBase(t, k)
    BY <1>0, GrewSides DEF TwoGrew
  <1>2. /\ LongSide(NetBase(w, m)') - LongSide(NetBase(w, m)) = LongPart(Opposite(dir), n)
        /\ ShortSide(NetBase(w, m)') - ShortSide(NetBase(w, m)) = ShortPart(Opposite(dir), n)
        /\ \A k : k # m => NetBase(w, k)' = NetBase(w, k)
    BY <1>0, GrewSides DEF TwoGrew
  <1>3. \A v \in Users \ {t, w} : \A k : NetBase(v, k)' = NetBase(v, k)
    BY SameSlotsSameExposure DEF TwoGrew, OthersKept
  <1>4. /\ LongInterest(m)' = LongInterest(m)
             + (LongSide(NetBase(t, m)') - LongSide(NetBase(t, m)))
             + (LongSide(NetBase(w, m)') - LongSide(NetBase(w, m)))
        /\ ShortInterest(m)' = ShortInterest(m)
             + (ShortSide(NetBase(t, m)') - ShortSide(NetBase(t, m)))
             + (ShortSide(NetBase(w, m)') - ShortSide(NetBase(w, m)))
    BY <1>0, <1>3, InterestChanged
  <1>5. LongInterest(m) \in Nat /\ ShortInterest(m) \in Nat
    BY <1>0, SideOfInterest
  <1>6. /\ LongInterest(m)' = LongInterest(m) + LongPart(dir, n) + LongPart(Opposite(dir), n)
        /\ ShortInterest(m)' = ShortInterest(m) + ShortPart(dir, n)
                                 + ShortPart(Opposite(dir), n)
    BY <1>1, <1>2, <1>4
  <1>7. LongInterest(m)' = LongInterest(m) + n /\ ShortInterest(m)' = ShortInterest(m) + n
    BY <1>5, <1>6 DEF LongPart, ShortPart, Opposite, Directions
  <1>8. BooksRaised(m, n, n) /\ BooksMatch(m)
    BY DEF TwoGrew, BookInv
  <1>9. BooksMatch(m)'
    BY <1>5, <1>7, <1>8 DEF BooksMatch, BooksRaised
  <1>10. ASSUME NEW k \in MarketIndexes \ {m} PROVE BooksMatch(k)'
    <2>1. market'[k] = market[k] /\ amm'[k] = amm[k] /\ BooksMatch(k)
      BY <1>8 DEF BooksRaised, MarketKeptAll, BookInv
    <2>2. \A v \in Users : NetBase(v, k)' = NetBase(v, k)
      BY <1>1, <1>2, <1>3
    <2> QED
      BY <1>0, <2>1, <2>2, KeptBooksMatch
  <1> QED
    BY <1>9, <1>10

\* n base taken out of an exposure leave one side of it.
LEMMA SidesShrink ==
    ASSUME NEW b \in Int, NEW n \in 1 .. Magnitude(b)
    PROVE  LET a == IF b > 0 THEN b - n ELSE b + n
           IN  /\ LongSide(a) - LongSide(b) = IF b > 0 THEN -n ELSE 0
               /\ ShortSide(a) - ShortSide(b) = IF b > 0 THEN 0 ELSE -n
               /\ b > 0 => n <= LongSide(b)
               /\ ~(b > 0) => n <= ShortSide(b)
  BY DEF LongSide, ShortSide, Greatest, Magnitude

\* A market's count of its open interest is never lower than what is closed: the
\* subtraction that would saturate is exact.
LEMMA OneShrankBooks ==
    ASSUME BookInv, SlotInv', NEW u \in Users, NEW m \in MarketIndexes, NEW n \in Nat,
           NEW quote \in Nat, NEW s \in PositionSlots, NEW c \in Int,
           OneShrank(u, m, n, quote, s, c)
    PROVE  \A k \in MarketIndexes : BooksMatch(k)'
  <1>0. SlotInv /\ Shrank(u, m, n, quote, s, c)
    BY DEF BookInv, SignInv, OneShrank
  <1> DEFINE b == NetBase(u, m)
             a == IF b > 0 THEN b - n ELSE b + n
  <1>1. /\ b = positions[u][s].base
        /\ NetBase(u, m)' = a
        /\ n \in 1 .. Magnitude(b)
        /\ \A k : k # m => NetBase(u, k)' = NetBase(u, k)
    BY <1>0, ShrankExposure
  <1>2. b \in Int
    BY <1>0, ExposuresInt DEF SlotInv
  <1>3. \A v \in Users \ {u} : \A k : NetBase(v, k)' = NetBase(v, k)
    BY SameSlotsSameExposure DEF OneShrank, OthersKept
  <1>4. /\ LongInterest(m)' = LongInterest(m)
             + (LongSide(NetBase(u, m)') - LongSide(NetBase(u, m))) + 0
        /\ ShortInterest(m)' = ShortInterest(m)
             + (ShortSide(NetBase(u, m)') - ShortSide(NetBase(u, m))) + 0
    BY <1>0, <1>3, InterestChanged
  <1>5. /\ LongInterest(m) \in Nat /\ LongSide(b) <= LongInterest(m)
        /\ ShortInterest(m) \in Nat /\ ShortSide(b) <= ShortInterest(m)
    BY <1>0, SideOfInterest
  <1>6. BooksLowered(m, b > 0, n) /\ BooksMatch(m)
    BY <1>1 DEF OneShrank, BookInv
  <1>7. /\ LongInterest(m)' = LongInterest(m) + (LongSide(a) - LongSide(b)) + 0
        /\ ShortInterest(m)' = ShortInterest(m) + (ShortSide(a) - ShortSide(b)) + 0
    BY <1>1, <1>4
  <1> HIDE DEF b
  <1>8. /\ LongSide(a) - LongSide(b) = IF b > 0 THEN -n ELSE 0
        /\ ShortSide(a) - ShortSide(b) = IF b > 0 THEN 0 ELSE -n
        /\ b > 0 => n <= LongSide(b)
        /\ ~(b > 0) => n <= ShortSide(b)
        /\ LongSide(b) \in Nat /\ ShortSide(b) \in Nat
    BY <1>1, <1>2, SidesShrink, SidesType
  <1> HIDE DEF a
  <1>9. /\ LongInterest(m)' = IF b > 0 THEN LongInterest(m) - n ELSE LongInterest(m)
        /\ ShortInterest(m)' = IF b > 0 THEN ShortInterest(m) ELSE ShortInterest(m) - n
        /\ b > 0 => n <= LongInterest(m)
        /\ ~(b > 0) => n <= ShortInterest(m)
    BY <1>5, <1>7, <1>8
  <1>10. BooksMatch(m)'
    BY <1>5, <1>6, <1>9 DEF BooksMatch, BooksLowered, Greatest
  <1>11. ASSUME NEW k \in MarketIndexes \ {m} PROVE BooksMatch(k)'
    <2>1. market'[k] = market[k] /\ amm'[k] = amm[k] /\ BooksMatch(k)
      BY <1>6 DEF BooksLowered, MarketKeptAll, BookInv
    <2>2. \A v \in Users : NetBase(v, k)' = NetBase(v, k)
      BY <1>1, <1>3
    <2> QED
      BY <1>0, <2>1, <2>2, KeptBooksMatch
  <1> QED
    BY <1>10, <1>11

LEMMA TradeKeepsBooks ==
    ASSUME BookInv, SlotInv', TradeEffect
    PROVE  \A k \in MarketIndexes : BooksMatch(k)'
  <1>1. ASSUME NEW u \in Users, NEW m \in MarketIndexes, SettleFunding(u, m)
        PROVE  \A k \in MarketIndexes : BooksMatch(k)'
    <2>1. UNCHANGED <<market, amm>>
      BY <1>1 DEF SettleFunding
    <2>2. SlotInv
      BY DEF BookInv, SignInv
    <2>3. OthersKept({u}) /\ \A k : NetBase(u, k)' = NetBase(u, k)
      BY <1>1, <2>2, SettleKeepsExposure
    <2>4. \A v \in Users \ {u} : \A k : NetBase(v, k)' = NetBase(v, k)
      BY <2>3, SameSlotsSameExposure DEF OthersKept
    <2>5. \A v \in Users : \A k : NetBase(v, k)' = NetBase(v, k)
      BY <2>3, <2>4
    <2> QED
      BY <2>1, <2>2, <2>5, KeptBooksMatch DEF BookInv
  <1> QED
    BY <1>1, OneGrewBooks, OneShrankBooks, TwoGrewBooks DEF TradeEffect

LEMMA NoTradeKeepsBooks ==
    ASSUME BookInv, SlotInv', NoTrade \/ UNCHANGED vars
    PROVE  \A k \in MarketIndexes : BooksMatch(k)'
  <1>0. SlotInv /\ EngineInv /\ UNCHANGED positions
    BY NoTradeKeepsPositions DEF BookInv, SignInv, SlotInv, vars
  <1>1. \A v \in Users : \A k : NetBase(v, k)' = NetBase(v, k)
    BY <1>0 DEF NetBase
  <1>2. ASSUME NEW k \in MarketIndexes, market'[k] = market[k], amm'[k] = amm[k]
        PROVE  BooksMatch(k)'
    BY <1>0, <1>1, <1>2, KeptBooksMatch DEF BookInv
  <1>3. \A k \in MarketIndexes :
           LongInterest(k)' = LongInterest(k) /\ ShortInterest(k)' = ShortInterest(k)
    BY <1>0, <1>1, InterestSame
  <1>4. ASSUME NEW m \in MarketIndexes, MarketTuned(m)
        PROVE  \A k \in MarketIndexes : BooksMatch(k)'
    <2>1. BooksMatch(m)'
      BY <1>3, <1>4 DEF MarketTuned, InterestKept, BooksMatch, BookInv
    <2> QED
      BY <1>2, <1>4, <2>1 DEF MarketTuned, MarketKeptAll
  <1>5. ASSUME NEW m \in MarketIndexes, MarketBorn(m)
        PROVE  \A k \in MarketIndexes : BooksMatch(k)'
    <2>1. m \notin CreatedMarkets
      <3>1. numMarkets \in Nat
        BY <1>0 DEF EngineInv, RestOK
      <3> QED
        BY <1>5, <3>1 DEF MarketBorn, CreatedMarkets
    <2>2. LongInterest(m) = 0 /\ ShortInterest(m) = 0
      BY <2>1 DEF BookInv, FreshMarkets, BooksMatch
    <2>3. BooksMatch(m)'
      <3>1. /\ market'[m].oiLong = 0 /\ market'[m].oiShort = 0
            /\ amm'[m].long = 0 /\ amm'[m].short = 0
        BY <1>5 DEF MarketBorn
      <3>2. LongInterest(m)' = 0 /\ ShortInterest(m)' = 0
        BY <1>3, <2>2
      <3>3. \A x \in Int : (x <= 0 /\ x >= 0) => -x = x
        OBVIOUS
      <3>4. amm'[m].short = -market'[m].oiShort
        <4> DEFINE x == market'[m].oiShort
        <4>1. x \in Int /\ x <= 0 /\ x >= 0 /\ amm'[m].short = x
          BY <3>1
        <4> HIDE DEF x
        <4>2. amm'[m].short = -x
          BY <3>3, <4>1
        <4> QED
          BY <4>2 DEF x
      <3> QED
        BY <3>1, <3>2, <3>4 DEF BooksMatch
    <2> QED
      BY <1>2, <1>5, <2>3 DEF MarketBorn, MarketKeptAll
  <1> QED
    BY <1>0, <1>2, <1>4, <1>5, NoTradeMarkets DEF vars

LEMMA NextBookInv ==
    ASSUME SizesFit, BookInv, [Next]_vars
    PROVE  BookInv'
  <1>0. SignInv /\ SlotInv /\ EngineInv /\ OrdersFit
    BY DEF BookInv, SignInv, SlotInv
  <1>1. SignInv' /\ FreshMarkets'
    BY <1>0, NextSignInv, NextFreshMarkets DEF BookInv
  <1>2. SlotInv'
    BY <1>1 DEF SignInv
  <1>3. \A k \in MarketIndexes : BooksMatch(k)'
    <2>1. CASE Next
      BY <1>0, <1>2, <2>1, StepKinds, TradeEffects, TradeKeepsBooks, NoTradeKeepsBooks
    <2>2. CASE UNCHANGED vars
      BY <1>2, <2>2, NoTradeKeepsBooks
    <2> QED
      BY <2>1, <2>2
  <1> QED
    BY <1>1, <1>3 DEF BookInv

LEMMA InitBookInv == Init => BookInv
  <1> SUFFICES ASSUME Init PROVE BookInv
    OBVIOUS
  <1>1. SlotInv
    BY InitSlotInv
  <1>2. ASSUME NEW m \in MarketIndexes PROVE BooksMatch(m)
    <2> DEFINE f == [u \in Users |-> Greatest(NetBase(u, m), 0)]
               g == [u \in Users |-> Greatest(-NetBase(u, m), 0)]
    <2>1. \A u \in Users : NetBase(u, m) = 0
      <3>1. \A u \in Users : \A s \in PositionSlots : ~IsOpenIn(positions[u][s], m)
        BY DEF Init, DefaultPosition, IsOpenIn
      <3> QED
        BY <1>1, <3>1, ExposureOfNone DEF SlotInv, NetBase
    <2>2. /\ f \in [Users -> Int] /\ \A u \in Users : f[u] = 0
          /\ g \in [Users -> Int] /\ \A u \in Users : g[u] = 0
      BY <2>1 DEF Greatest
    <2>3. LongInterest(m) = SumFunction(f) /\ ShortInterest(m) = SumFunction(g)
      BY DEF LongInterest, ShortInterest
    <2> HIDE DEF f, g
    <2>4. LongInterest(m) = 0 /\ ShortInterest(m) = 0
      BY <2>2, <2>3, SumOfZeros, StateAssumption
    <2> QED
      BY <2>4 DEF Init, DefaultMarket, DefaultAmm, BooksMatch
  <1> QED
    BY <1>2, InitSignInv, InitFreshMarkets DEF BookInv

\* When order sizes fit the program's i64, both counts of a market's open interest
\* always equal what the users' positions in it add up to, so the saturating
\* subtractions of the close and liquidation paths never lose any, and the pool's
\* skew is that of its users.
THEOREM OpenInterestAlwaysMatches ==
    ASSUME SizesFit PROVE Spec => []OpenInterestMatchesPositions
  <1>1. BookInv /\ [Next]_vars => BookInv'
    BY NextBookInv
  <1>2. BookInv => OpenInterestMatchesPositions
    BY DEF BookInv, BooksMatch, OpenInterestMatchesPositions
  <1> QED
    BY <1>1, <1>2, InitBookInv, PTL DEF Spec

-----------------------------------------------------------------------------
(* Fills *)

LEMMA CostChanged ==
    ASSUME NEW ps, SlotsOK(ps), NEW s \in PositionSlots, NEW p \in PositionType,
           NEW qs, qs = [ps EXCEPT ![s] = p]
    PROVE  /\ CostOf(ps) \in Int /\ CostOf(qs) \in Int
           /\ CostOf(qs) - CostOf(ps) = p.quoteEntry - ps[s].quoteEntry
  <1> DEFINE f == [t \in PositionSlots |-> ps[t].quoteEntry]
             g == [t \in PositionSlots |-> qs[t].quoteEntry]
  <1>1. /\ ps \in [PositionSlots -> PositionType]
        /\ qs \in [PositionSlots -> PositionType] /\ qs[s] = p
        /\ \A t \in PositionSlots \ {s} : qs[t] = ps[t]
    BY DEF SlotsOK
  <1>2. /\ f \in [PositionSlots -> Int] /\ g \in [PositionSlots -> Int]
        /\ \A t \in PositionSlots \ {s} : g[t] = f[t]
        /\ f[s] = ps[s].quoteEntry /\ g[s] = p.quoteEntry
    BY <1>1 DEF PositionType
  <1>3. CostOf(ps) = SumFunction(f) /\ CostOf(qs) = SumFunction(g)
    BY DEF CostOf
  <1> HIDE DEF f, g
  <1>4. SumFunction(g) = SumFunction(f) + (g[s] - f[s])
    BY <1>2, SlotsFinite, SumChanged
  <1>5. SumFunction(f) \in Int /\ SumFunction(g) \in Int /\ f[s] \in Int /\ g[s] \in Int
    BY <1>2, SlotsFinite, SumIsInt
  <1> QED
    BY <1>2, <1>3, <1>4, <1>5

\* what a trade of u moved: base in m, and quote into u's cost basis and profits
Traded(u, m) == NetBase(u, m)' - NetBase(u, m)
Cash(u)      == (CostBasis(u)' - CostBasis(u)) + (user'[u].settledPnl - user[u].settledPnl)

\* n base changed hands in direction dir for quote
Bought(u, m, dir, n, quote) ==
    /\ Traded(u, m) = IF dir = "Long" THEN n ELSE -n
    /\ Cash(u) = IF dir = "Long" THEN -quote ELSE quote

LEMMA GrewBought ==
    ASSUME SignInv, NEW u \in Users, NEW m \in MarketIndexes, NEW dir \in Directions,
           NEW n \in Nat, n <= I64_MAX, NEW quote \in Nat, NEW s \in PositionSlots,
           Grew(u, m, dir, n, quote, s)
    PROVE  Bought(u, m, dir, n, quote)
  <1> DEFINE t == TargetPosition(u, m, s)
             p == Increased(t, dir, n, quote, amm[m].cumFunding)
  <1>0. SlotInv /\ SlotsOK(positions[u]) /\ SignsOK(positions[u])
    BY DEF SignInv, SlotInv
  <1>1. /\ positions'[u] = [positions[u] EXCEPT ![s] = p]
        /\ user'[u].settledPnl = user[u].settledPnl
    BY DEF Grew
  <1>2. /\ t \in PositionType /\ t.base = positions[u][s].base
        /\ ~HasPosition(u, m) => t.base = 0 /\ t.quoteEntry = 0
        /\ HasPosition(u, m) => t = positions[u][s]
    BY <1>0, TargetHolds DEF Grew
  <1>3. t.quoteEntry = positions[u][s].quoteEntry
    BY <1>0, <1>2 DEF SignsOK, SignOK
  <1>4. amm[m].cumFunding \in Int
    BY <1>0 DEF SlotInv, EngineInv, TradeOK, PoolsOK, AmmType
  <1>5. p \in PositionType
    BY <1>2, <1>4, IncreasedType
  <1>6. p.quoteEntry = IF dir = "Long" THEN t.quoteEntry - quote ELSE t.quoteEntry + quote
    BY <1>2 DEF Increased, PositionType
  <1>7. t.quoteEntry \in Int
    BY <1>2 DEF PositionType
  <1> HIDE DEF t, p
  <1>8. /\ CostOf(positions[u]) \in Int /\ CostOf(positions'[u]) \in Int
        /\ CostOf(positions'[u]) - CostOf(positions[u])
             = p.quoteEntry - positions[u][s].quoteEntry
    BY <1>0, <1>1, <1>5, CostChanged
  <1>9. user[u].settledPnl \in Int
    BY <1>0 DEF SlotInv, EngineInv, TradeOK, AccountsOK, UserType
  <1>10. Cash(u) = IF dir = "Long" THEN -quote ELSE quote
    <2>1. CostOf(positions'[u]) - CostOf(positions[u])
            = IF dir = "Long" THEN -quote ELSE quote
      BY <1>3, <1>6, <1>7, <1>8
    <2>2. Cash(u) = (CostOf(positions'[u]) - CostOf(positions[u])) + 0
      BY <1>1, <1>9 DEF Cash, CostBasis
    <2> QED
      BY <1>8, <2>1, <2>2
  <1>11. Traded(u, m) = IF dir = "Long" THEN n ELSE -n
    <2>1. NetBase(u, m)' = NetBase(u, m) + SignedBase(dir, n)
      BY <1>0, GrewExposure
    <2>2. SignedBase(dir, n) = IF dir = "Long" THEN n ELSE -n
      BY SignedBaseFits
    <2>3. NetBase(u, m) \in Int
      BY <1>0, ExposuresInt
    <2> QED
      BY <2>1, <2>2, <2>3 DEF Traded
  <1> QED
    BY <1>10, <1>11 DEF Bought

\* A close is a trade the other way around: the share of the basis that leaves is
\* exactly what the realized profit takes in.
LEMMA ShrankBought ==
    ASSUME SignInv, NEW u \in Users, NEW m \in MarketIndexes, NEW n \in Nat,
           NEW quote \in Nat, NEW s \in PositionSlots, NEW c \in Int,
           Shrank(u, m, n, quote, s, c)
    PROVE  Bought(u, m, IF positions[u][s].base > 0 THEN "Short" ELSE "Long", n, quote)
  <1> DEFINE b == positions[u][s]
             r == Reduced(b, n)
             p == SettledUpTo(r, c)
  <1>0. SlotInv /\ SlotsOK(positions[u])
    BY DEF SignInv, SlotInv
  <1>1. /\ positions'[u] = [positions[u] EXCEPT ![s] = p]
        /\ n \in 1 .. Magnitude(b.base)
        /\ user'[u].settledPnl = user[u].settledPnl + Realized(b, n, quote)
    BY DEF Shrank
  <1>2. b \in PositionType /\ b.base # 0
    BY <1>0, FoundHolds DEF Shrank, SlotsOK, IsOpenIn
  <1> DEFINE left == IF b.base > 0 THEN b.base - n ELSE b.base + n
             qc   == QuoteClosed(b, n)
             e    == IF left = 0 THEN 0 ELSE b.quoteEntry - qc
  <1>3. r.quoteEntry = e /\ r \in PositionType
    BY <1>2, ReducedType DEF Reduced, PositionType
  <1> HIDE DEF r
  <1>4. p \in PositionType /\ p.quoteEntry = e
    BY <1>3 DEF SettledUpTo, PositionType
  <1> HIDE DEF p, b
  <1>5. qc \in Int /\ (n = Magnitude(b.base) => qc = b.quoteEntry)
    BY <1>1, <1>2, ClosedPart, QuoteClosedType
  <1>6. b.base \in Int /\ b.quoteEntry \in Int
    BY <1>2 DEF PositionType
  <1>7. Realized(b, n, quote) = (IF b.base > 0 THEN quote ELSE -quote) + qc
    BY DEF Realized
  <1> HIDE DEF qc
  <1>8. e - b.quoteEntry = -qc
    BY <1>1, <1>5, <1>6 DEF Magnitude
  <1> HIDE DEF e
  <1>9. /\ CostOf(positions[u]) \in Int /\ CostOf(positions'[u]) \in Int
        /\ CostOf(positions'[u]) - CostOf(positions[u]) = p.quoteEntry - b.quoteEntry
    <2>1. /\ CostOf(positions[u]) \in Int /\ CostOf(positions'[u]) \in Int
          /\ CostOf(positions'[u]) - CostOf(positions[u])
               = p.quoteEntry - positions[u][s].quoteEntry
      BY <1>0, <1>1, <1>4, CostChanged
    <2> QED
      BY <2>1 DEF b
  <1>10. user[u].settledPnl \in Int
    BY <1>0 DEF SlotInv, EngineInv, TradeOK, AccountsOK, UserType
  <1>11. Cash(u) = IF b.base > 0 THEN quote ELSE -quote
    <2>1. user'[u].settledPnl - user[u].settledPnl = Realized(b, n, quote)
      BY <1>1, <1>5, <1>7, <1>10
    <2>2. Cash(u) = -qc + Realized(b, n, quote)
      BY <1>4, <1>8, <1>9, <2>1 DEF Cash, CostBasis
    <2> QED
      BY <1>5, <1>7, <2>2
  <1>12. Traded(u, m) = IF b.base > 0 THEN -n ELSE n
    <2>1. /\ NetBase(u, m) = b.base
          /\ NetBase(u, m)' = IF NetBase(u, m) > 0 THEN NetBase(u, m) - n
                              ELSE NetBase(u, m) + n
      BY <1>0, ShrankExposure DEF b
    <2> QED
      BY <1>6, <2>1 DEF Traded
  <1> QED
    BY <1>11, <1>12 DEF Bought, b

\* n base for quote is at price or better; a seller may lose the rounding of a unit.
FillPriced(dir, n, quote, price) ==
    IF dir = "Long" THEN AvgPrice(quote, n) <= price
    ELSE (quote + 1) * BASE_PRECISION > price * n

LEMMA GuardPrices ==
    ASSUME NEW dir, NEW n \in Nat \ {0}, NEW quote \in Nat, NEW limit \in Nat \ {0},
           PriceWithin(limit, dir = "Long", AvgPrice(quote, n))
    PROVE  FillPriced(dir, n, quote, limit)
  <1>1. CASE dir = "Long"
    BY <1>1 DEF PriceWithin, FillPriced
  <1>2. CASE dir # "Long"
    <2> DEFINE x == quote * BASE_PRECISION
               a == x \div n
    <2>1. a >= limit
      BY <1>2 DEF PriceWithin, AvgPrice
    <2>2. x \in Nat /\ (quote + 1) * BASE_PRECISION = x + BASE_PRECISION
      BY PrecisionAssumption
    <2>3. a \in Int /\ a * n <= x
      BY <2>2, DivBounds
    <2> HIDE DEF x, a
    <2>4. limit * n <= a * n
      <3>1. (a - limit) * n \in Nat
        <4>1. a - limit \in Nat
          BY <2>1, <2>3
        <4> QED
          BY <4>1
      <3> QED
        BY <2>3, <3>1
    <2>5. limit * n < x + BASE_PRECISION
      <3>1. limit * n \in Int /\ a * n \in Int
        BY <2>3
      <3> QED
        BY <2>2, <2>3, <2>4, <3>1, PrecisionAssumption
    <2> QED
      BY <1>2, <2>2, <2>5 DEF FillPriced
  <1> QED
    BY <1>1, <1>2

LEMMA MatchPrices ==
    ASSUME NEW dir, NEW n \in Nat \ {0}, NEW p \in Nat, NEW price \in Nat,
           IF dir = "Long" THEN price >= p ELSE price <= p
    PROVE  FillPriced(dir, n, (n * p) \div BASE_PRECISION, price)
  <1> DEFINE x == n * p
             q == x \div BASE_PRECISION
             y == q * BASE_PRECISION
  <1>1. x \in Nat /\ x = p * n
    OBVIOUS
  <1> HIDE DEF x
  <1>2. q \in Int /\ y <= x /\ x < y + BASE_PRECISION
    BY <1>1, DivBounds, PrecisionAssumption
  <1>3. y \in Int /\ (q + 1) * BASE_PRECISION = y + BASE_PRECISION
    <2> HIDE DEF q
    <2> QED
      BY <1>2, PrecisionAssumption
  <1> HIDE DEF q, y
  <1>4. CASE dir = "Long"
    <2>1. y \div n <= x \div n
      BY <1>1, <1>2, <1>3, DivMonotone
    <2>2. x \div n = p
      BY <1>1, DivOfProduct
    <2>3. y \div n \in Int
      BY <1>3, DivBounds
    <2>4. y \div n <= price
      BY <1>4, <2>1, <2>2, <2>3
    <2> QED
      BY <1>4, <2>4 DEF FillPriced, AvgPrice, q, x, y
  <1>5. CASE dir # "Long"
    <2>1. price * n <= p * n
      <3>1. (p - price) * n \in Nat
        <4>1. p - price \in Nat
          BY <1>5
        <4> QED
          BY <4>1
      <3> QED
        BY <3>1
    <2>2. price * n \in Int /\ p * n \in Int
      OBVIOUS
    <2> DEFINE z == price * n
    <2>3. z <= x /\ z \in Int
      BY <1>1, <2>1, <2>2
    <2> HIDE DEF z
    <2>4. y + BASE_PRECISION > z
      BY <1>1, <1>2, <1>3, <2>3, PrecisionAssumption
    <2>5. (q + 1) * BASE_PRECISION > price * n
      BY <1>3, <2>4 DEF z
    <2> QED
      BY <1>5, <2>5 DEF FillPriced, q, x
  <1> QED
    BY <1>4, <1>5

\* the part of o that was filled honours it
Honours(o, dir, n, quote) ==
    /\ n <= RemainingBase(o)
    /\ o.type = "Limit" => dir = o.dir
    /\ o.type \in {"Limit", "TriggerLimit"} => FillPriced(dir, n, quote, o.price)

LEMMA HonouredFill ==
    ASSUME EngineInv, NEW u \in Users, NEW m, NEW s \in OrderSlots, NEW dir \in Directions,
           NEW n \in Nat, NEW quote \in Nat, Bought(u, m, dir, n, quote),
           Honours(orders[u][s], dir, n, quote)
    PROVE  FillHonoursOrder(u, s, m)
  <1> DEFINE o == orders[u][s]
             traded == Traded(u, m)
             cash == Cash(u)
  <1>1. FillHonoursOrder(u, s, m) =
          ((o.status = "Open" /\ o.market = m /\ orders'[u][s] # o /\ traded # 0) =>
             /\ Magnitude(traded) <= RemainingBase(o)
             /\ o.type = "Limit" => ((traded > 0) <=> (o.dir = "Long"))
             /\ o.type \in {"Limit", "TriggerLimit"} =>
                   IF traded > 0 THEN AvgPrice(-cash, traded) <= o.price
                   ELSE (cash + 1) * BASE_PRECISION > o.price * (-traded))
    BY DEF FillHonoursOrder, Traded, Cash
  <1>2. o.price \in Nat
    BY DEF EngineInv, RestOK, OrderType
  <1>3. /\ traded = IF dir = "Long" THEN n ELSE -n
        /\ cash = IF dir = "Long" THEN -quote ELSE quote
    BY DEF Bought
  <1>4. Honours(o, dir, n, quote)
    OBVIOUS
  <1> HIDE DEF o, traded, cash
  <1>5. CASE dir = "Long"
    <2>1. traded = n /\ -cash = quote
      BY <1>3, <1>5
    <2>2. traded # 0 => traded > 0 /\ Magnitude(traded) = n
      BY <2>1 DEF Magnitude
    <2>3. o.type \in {"Limit", "TriggerLimit"} => AvgPrice(-cash, traded) <= o.price
      BY <1>4, <1>5, <2>1 DEF Honours, FillPriced
    <2> QED
      BY <1>1, <1>4, <1>5, <2>2, <2>3 DEF Honours
  <1>6. CASE dir # "Long"
    <2>1. -traded = n /\ cash = quote /\ traded \in Int /\ traded <= 0
      BY <1>3, <1>6
    <2>2. traded # 0 => Magnitude(traded) = n
      BY <2>1 DEF Magnitude
    <2>3. ~(traded > 0)
      BY <2>1
    <2> QED
      BY <1>1, <1>4, <1>6, <2>1, <2>2, <2>3 DEF Honours, FillPriced
  <1> QED
    BY <1>5, <1>6

\* only u's order in slot os changed
LEMMA OneOrderChanged ==
    ASSUME EngineInv, NEW v \in Users, NEW os \in OrderSlots, NEW left,
           orders' = [orders EXCEPT ![v][os] = left],
           NEW u \in Users, NEW s \in OrderSlots, orders'[u][s] # orders[u][s]
    PROVE  u = v /\ s = os
  BY DEF EngineInv, RestOK

LEMMA OpensHonours ==
    ASSUME SignInv, NEW v \in Users, NEW k \in MarketIndexes, NEW dir \in Directions,
           NEW n \in Nat, NEW limit \in Nat, Opens(v, k, dir, n, limit),
           NEW u \in Users, NEW s \in OrderSlots, orders[u][s].status = "Open",
           orders'[u][s] # orders[u][s], NEW m, orders[u][s].market = m
    PROVE  FillHonoursOrder(u, s, m)
  <1>0. EngineInv /\ OrdersFit
    BY DEF SignInv, SlotInv
  <1>1. ExecuteAmmOpen(v, k, dir, n, limit)
    BY DEF Opens
  <1>2. PICK os \in OrderSlots : OrderOpens(v, k, os, dir, n, limit)
    BY DEF Opens
  <1>3. /\ orders[v][os].status = "Open" /\ orders[v][os].type = "Limit"
        /\ orders[v][os].market = k
        /\ dir = orders[v][os].dir /\ n = RemainingBase(orders[v][os])
        /\ limit = orders[v][os].price
        /\ orders' = [orders EXCEPT ![v][os] = DefaultOrder]
    BY <1>2 DEF OrderOpens
  <1>4. u = v /\ s = os
    BY <1>0, <1>3, OneOrderChanged
  <1>5. n \in 0 .. I64_MAX
    BY <1>0, <1>3, RemainingFits
  <1>6. n <= I64_MAX
    BY <1>5
  <1>7. PICK r \in PositionSlots, quote \in Nat :
          /\ Grew(v, k, dir, n, quote, r)
          /\ PriceWithin(limit, dir = "Long", AvgPrice(quote, n))
    BY <1>0, <1>1, OpenGrows
  <1>8. Bought(v, k, dir, n, quote)
    BY <1>6, <1>7, GrewBought
  <1>9. limit > 0
    BY <1>0, <1>3 DEF OrdersFit
  <1>10. n # 0
    BY <1>7 DEF Grew
  <1>11. FillPriced(dir, n, quote, limit)
    BY <1>7, <1>9, <1>10, GuardPrices
  <1>12. Honours(orders[v][os], dir, n, quote)
    BY <1>3, <1>11 DEF Honours
  <1> QED
    BY <1>0, <1>3, <1>4, <1>8, <1>12, HonouredFill

LEMMA ClosesHonours ==
    ASSUME SignInv, NEW v \in Users, NEW k \in MarketIndexes, NEW r \in PositionSlots,
           NEW n \in Nat, NEW limit \in Nat, Closes(v, k, r, n, limit),
           NEW u \in Users, NEW s \in OrderSlots, orders[u][s].status = "Open",
           orders'[u][s] # orders[u][s], NEW m, orders[u][s].market = m
    PROVE  FillHonoursOrder(u, s, m)
  <1> DEFINE b == positions[v][r].base
             dir == IF b > 0 THEN "Short" ELSE "Long"
  <1>0. EngineInv /\ OrdersFit
    BY DEF SignInv, SlotInv
  <1>1. FoundPosition(v, k, r) /\ ExecuteAmmClose(v, k, r, n, limit)
    BY DEF Closes
  <1>2. PICK os \in OrderSlots : OrderCloses(v, k, os, r, n, limit)
    BY DEF Closes
  <1>3. /\ orders[v][os].status = "Open" /\ orders[v][os].market = k
        /\ n <= RemainingBase(orders[v][os])
        /\ orders[v][os].type = "Limit" => ((orders[v][os].dir = "Long") <=> (b < 0))
        /\ orders[v][os].type \in {"Limit", "TriggerLimit"} => limit = orders[v][os].price
        /\ \E left : orders' = [orders EXCEPT ![v][os] = left]
    BY <1>2 DEF OrderCloses
  <1>4. u = v /\ s = os
    BY <1>0, <1>3, OneOrderChanged
  <1> DEFINE c == positions[v][r].lastCum
  <1>5. c \in Int
    BY <1>0 DEF EngineInv, TradeOK, PositionsOK, PositionType
  <1>6. PICK quote \in Nat :
          /\ Shrank(v, k, n, quote, r, c)
          /\ PriceWithin(limit, b < 0, AvgPrice(quote, n))
    BY <1>0, <1>1, CloseShrinks
  <1> HIDE DEF c
  <1>7. Bought(v, k, dir, n, quote)
    BY <1>5, <1>6, ShrankBought
  <1>8. b \in Int /\ b # 0 /\ n # 0
    BY <1>0, <1>1, <1>6 DEF EngineInv, TradeOK, PositionsOK, PositionType, FoundPosition,
                            IsOpenIn, Shrank
  <1> HIDE DEF b
  <1>9. (b < 0) = (dir = "Long")
    BY <1>8
  <1>10. dir \in Directions
    BY DEF Directions
  <1>11. orders[v][os].dir \in Directions
    BY <1>0 DEF EngineInv, RestOK, OrderType
  <1>12. orders[v][os].type = "Limit" => dir = orders[v][os].dir
    BY <1>3, <1>9, <1>10, <1>11 DEF Directions
  <1> HIDE DEF dir
  <1>13. orders[v][os].type \in {"Limit", "TriggerLimit"} =>
            FillPriced(dir, n, quote, orders[v][os].price)
    <2> SUFFICES ASSUME orders[v][os].type \in {"Limit", "TriggerLimit"}
                 PROVE  FillPriced(dir, n, quote, limit)
      BY <1>3
    <2>1. limit > 0
      BY <1>0, <1>3 DEF OrdersFit
    <2>2. PriceWithin(limit, dir = "Long", AvgPrice(quote, n))
      BY <1>6, <1>9
    <2> QED
      BY <1>8, <2>1, <2>2, GuardPrices
  <1>14. Honours(orders[v][os], dir, n, quote)
    BY <1>3, <1>12, <1>13 DEF Honours
  <1> QED
    BY <1>0, <1>3, <1>4, <1>7, <1>10, <1>14, HonouredFill DEF dir, b

LEMMA MatchesHonours ==
    ASSUME SignInv, NEW t \in Users, NEW w \in Users, NEW k \in MarketIndexes,
           NEW ts \in OrderSlots, NEW ws \in OrderSlots, NEW n \in Nat,
           Matches(t, w, k, ts, ws, n),
           NEW u \in Users, NEW s \in OrderSlots, orders[u][s].status = "Open",
           orders'[u][s] # orders[u][s], NEW m, orders[u][s].market = m
    PROVE  FillHonoursOrder(u, s, m)
  <1> DEFINE a == orders[t][ts]
             b == orders[w][ws]
             la == FillAndMaybeClear(a, n)
             lb == FillAndMaybeClear(b, n)
             quote == (n * b.price) \div BASE_PRECISION
  <1>0. EngineInv /\ OrdersFit
    BY DEF SignInv, SlotInv
  <1>1. /\ t # w /\ a.type = "Limit" /\ a.market = k /\ b.type = "Limit" /\ b.market = k
        /\ n = Least(RemainingBase(a), RemainingBase(b))
        /\ a.dir # b.dir
        /\ IF a.dir = "Long" THEN a.price >= b.price ELSE a.price <= b.price
        /\ ExecuteMakerMatch(t, w, k, a.dir, n, b.price)
        /\ orders' = [orders EXCEPT ![t][ts] = la, ![w][ws] = lb]
    BY DEF Matches, Crosses
  <1>2. /\ a.dir \in Directions /\ a.price \in Nat /\ RemainingBase(a) \in 0 .. I64_MAX
        /\ b.dir \in Directions /\ b.price \in Nat /\ RemainingBase(b) \in 0 .. I64_MAX
    BY <1>0, RemainingFits DEF EngineInv, RestOK, OrderType
  <1>3. n <= RemainingBase(a) /\ n <= RemainingBase(b) /\ n <= I64_MAX
    BY <1>1, <1>2, PrecisionAssumption DEF Least
  <1>4. b.dir = Opposite(a.dir)
    BY <1>1, <1>2 DEF Opposite, Directions
  <1>5. <<u, s>> = <<t, ts>> \/ <<u, s>> = <<w, ws>>
    <2> HIDE DEF la, lb
    <2>1. orders \in [Users -> [OrderSlots -> OrderType]]
      BY <1>0 DEF EngineInv, RestOK
    <2> QED
      BY <1>1, <2>1
  <1>6. quote \in Nat
    <2>1. n * b.price \in Nat
      BY <1>2
    <2> QED
      BY <2>1, DivOfNat, PrecisionAssumption
  <1> HIDE DEF a, b
  <1>7. n > 0
        /\ \E i, j \in PositionSlots :
              Grew(t, k, a.dir, n, quote, i) /\ Grew(w, k, Opposite(a.dir), n, quote, j)
    BY <1>0, <1>1, <1>2, MatchGrows
  <1>8. IF b.dir = "Long" THEN b.price >= b.price ELSE b.price <= b.price
    BY <1>2
  <1>9. FillPriced(a.dir, n, quote, a.price) /\ FillPriced(b.dir, n, quote, b.price)
    BY <1>1, <1>2, <1>7, <1>8, MatchPrices
  <1> HIDE DEF quote
  <1>10. Bought(t, k, a.dir, n, quote) /\ Bought(w, k, b.dir, n, quote)
    BY <1>2, <1>3, <1>4, <1>6, <1>7, GrewBought
  <1>11. Honours(a, a.dir, n, quote) /\ Honours(b, b.dir, n, quote)
    BY <1>3, <1>9 DEF Honours
  <1>12. CASE <<u, s>> = <<t, ts>>
    BY <1>0, <1>1, <1>2, <1>6, <1>10, <1>11, <1>12, HonouredFill DEF a
  <1>13. CASE <<u, s>> = <<w, ws>>
    BY <1>0, <1>1, <1>2, <1>6, <1>10, <1>11, <1>13, HonouredFill DEF b
  <1> QED
    BY <1>5, <1>12, <1>13

FillsStep ==
    \A u \in Users : \A s \in OrderSlots, m \in MarketIndexes : FillHonoursOrder(u, s, m)

LEMMA NextFills == SignInv /\ [Next]_vars => FillsStep
  <1> SUFFICES ASSUME SignInv, [Next]_vars, NEW u \in Users, NEW s \in OrderSlots,
                      NEW m \in MarketIndexes
               PROVE  FillHonoursOrder(u, s, m)
    BY DEF FillsStep
  <1>0. SlotInv /\ EngineInv
    BY DEF SignInv, SlotInv
  <1>1. CASE ~(orders[u][s].status = "Open" /\ orders[u][s].market = m
               /\ orders'[u][s] # orders[u][s])
    BY <1>1 DEF FillHonoursOrder
  <1>2. CASE NetBase(u, m)' = NetBase(u, m)
    <2>1. NetBase(u, m) \in Int
      BY <1>0, ExposuresInt DEF SlotInv
    <2>2. NetBase(u, m)' - NetBase(u, m) = 0
      BY <1>2, <2>1
    <2> QED
      BY <2>2 DEF FillHonoursOrder
  <1>3. ASSUME NoTrade \/ UNCHANGED vars PROVE FillHonoursOrder(u, s, m)
    <2>1. NetBase(u, m)' = NetBase(u, m)
      BY <1>3, NoTradeKeepsPositions DEF vars, NetBase
    <2> QED
      BY <1>2, <2>1
  <1>4. ASSUME SlotStep PROVE FillHonoursOrder(u, s, m)
    BY <1>0, <1>1, <1>4, SlotStepKeepsOrders
  <1>5. ASSUME Trade PROVE FillHonoursOrder(u, s, m)
    BY <1>1, <1>5, OpensHonours, ClosesHonours, MatchesHonours DEF Trade
  <1> QED
    BY <1>0, <1>3, <1>4, <1>5, StepKinds

\* When order sizes fit the program's i64, whoever fills or triggers a resting order,
\* and whatever the keeper believed, the fill trades no more than was left of the
\* order, in a limit order's own direction, and at its limit or better (a seller's up
\* to the rounding of one quote unit).
THEOREM FillsAlwaysHonourOrders == ASSUME SizesFit PROVE Spec => FillsHonourOrders
  <1>1. SignInv /\ [Next]_vars => [FillsStep]_vars
    BY NextFills
  <1>2. SignInv /\ [Next]_vars => SignInv'
    BY NextSignInv
  <1> QED
    BY <1>1, <1>2, InitSignInv, PTL DEF Spec, FillsHonourOrders, FillsStep

=============================================================================
