------------------------------- MODULE OrderBook -------------------------------
(***************************************************************************)
(* Resting orders: place_perp_order and cancel_order by their owner;        *)
(* fill_perp_order, fill_perp_match and trigger_order by anyone (the        *)
(* keeper), which re-check on chain everything the keeper decided off it.   *)
(***************************************************************************)
EXTENDS Controller

\* the price fields each order type requires (a Market order does not rest)
PricesValid(type, price, trigger) ==
    \/ type = "Limit" /\ price > 0
    \/ type = "TriggerMarket" /\ trigger > 0
    \/ type = "TriggerLimit" /\ price > 0 /\ trigger > 0

\* o is an order as its owner describes it: type, dir, base, price, trigger,
\* cond and reduceOnly
PlaceOrder(u, m, o) ==
    /\ ~paused
    /\ user[u].exists
    /\ m \in CreatedMarkets
    /\ IF o.reduceOnly THEN CanReduce(m) ELSE CanOpen(m)
    /\ o.base > 0
    /\ o.base >= market[m].minOrder
    /\ PricesValid(o.type, o.price, o.trigger)
    /\ \E s \in OrderSlots :
          /\ orders[u][s].status # "Open"
          /\ \A t \in 1 .. (s - 1) : orders[u][t].status = "Open"
          /\ orders' = [orders EXCEPT ![u][s] =
                [DefaultOrder EXCEPT !.status = "Open", !.id = user[u].nextOrderId,
                   !.market = m, !.type = o.type, !.dir = o.dir, !.base = o.base,
                   !.price = o.price, !.trigger = o.trigger, !.cond = o.cond,
                   !.reduceOnly = o.reduceOnly]]
    /\ user' = [user EXCEPT ![u].nextOrderId = (@ + 1) % ORDER_ID_MODULUS]
    /\ UNCHANGED <<clock, paused, numMarkets, market, amm, oracle, positions,
                   insurance, wallet, vault, insuranceVault>>

\* allowed while paused
CancelOrder(u, id) ==
    /\ \E s \in OrderSlots :
          /\ FoundOrder(u, id, s)
          /\ orders' = [orders EXCEPT ![u][s] = DefaultOrder]
    /\ UNCHANGED <<clock, paused, numMarkets, market, amm, oracle, user, positions,
                   insurance, wallet, vault, insuranceVault>>

-----------------------------------------------------------------------------
\* an order after n more of its base were filled, and the slot's content then
Filled(o, n) == [o EXCEPT !.filled = @ + n]

\* mutant of FillAndMaybeClear: a filled order stays on the book
FillAndKeep(o, n) == Filled(o, n)

FillAndMaybeClear(o, n) ==
    IF RemainingBase(Filled(o, n)) = 0 THEN DefaultOrder ELSE Filled(o, n)

\* an order that is not reduce-only opens all that remains of it and leaves the book
FillOpening(u, m, os) ==
    LET o == orders[u][os]
    IN  /\ ExecuteAmmOpen(u, m, o.dir, RemainingBase(o), o.price)
        /\ orders' = [orders EXCEPT ![u][os] = DefaultOrder]

\* mutant of FillReduceOnly: the reduce-only flag is ignored
FillIgnoringFlag(u, m, os) == FillOpening(u, m, os)

\* a reduce-only order closes what it can of the position it opposes
FillReduceOnly(u, m, os) ==
    LET o == orders[u][os]
    IN  \E ps \in PositionSlots :
        LET size == Magnitude(positions[u][ps].base)
            n    == Least(RemainingBase(o), size)
        IN  /\ FoundPosition(u, m, ps)
            /\ (o.dir = "Long") <=> (positions[u][ps].base < 0)
            /\ ExecuteAmmClose(u, m, ps, n, o.price)
            /\ orders' = [orders EXCEPT ![u][os] =
                  IF n = size THEN DefaultOrder ELSE FillAndMaybeClear(o, n)]

FillOrder(u, m, id) ==
    /\ ~paused
    /\ m \in CreatedMarkets
    /\ OracleUsable(m)
    /\ \E os \in OrderSlots :
          /\ FoundOrder(u, id, os)
          /\ orders[u][os].type = "Limit"
          /\ orders[u][os].market = m
          /\ RemainingBase(orders[u][os]) > 0
          /\ \/ /\ orders[u][os].reduceOnly
                /\ CanReduce(m)
                /\ FillReduceOnly(u, m, os)
             \/ /\ ~orders[u][os].reduceOnly
                /\ CanOpen(m)
                /\ FillOpening(u, m, os)
    /\ UNCHANGED <<clock, paused, numMarkets, oracle, insurance, wallet, vault,
                   insuranceVault>>

-----------------------------------------------------------------------------
\* find_open_limit: only opening limit orders match each other
Matchable(u, id, m, s) ==
    /\ FoundOrder(u, id, s)
    /\ orders[u][s].type = "Limit"
    /\ ~orders[u][s].reduceOnly
    /\ orders[u][s].market = m

\* mutant of Crosses: the prices are not compared
Opposes(t, m) == t.dir # m.dir

Crosses(t, m) ==
    /\ t.dir # m.dir
    /\ IF t.dir = "Long" THEN t.price >= m.price ELSE t.price <= m.price

MatchOrders(taker, maker, m, takerId, makerId) ==
    /\ ~paused
    /\ taker # maker
    /\ m \in CreatedMarkets
    /\ CanOpen(m)
    /\ OracleUsable(m)
    /\ \E ts, ms \in OrderSlots :
       LET t == orders[taker][ts]
           o == orders[maker][ms]
           n == Least(RemainingBase(t), RemainingBase(o))
       IN  /\ Matchable(taker, takerId, m, ts)
           /\ Matchable(maker, makerId, m, ms)
           /\ Crosses(t, o)
           /\ ExecuteMakerMatch(taker, maker, m, t.dir, n, o.price)
           /\ orders' = [orders EXCEPT ![taker][ts] = FillAndMaybeClear(t, n),
                                       ![maker][ms] = FillAndMaybeClear(o, n)]
    /\ UNCHANGED <<clock, paused, numMarkets, oracle, insurance, wallet, vault,
                   insuranceVault>>

-----------------------------------------------------------------------------
TriggerFired(o, price) ==
    IF o.cond = "Above" THEN price >= o.trigger ELSE price <= o.trigger

\* fires once: whatever part of the order was closed, the order is consumed
TriggerOrder(u, m, id) ==
    /\ ~paused
    /\ m \in CreatedMarkets
    /\ CanReduce(m)
    /\ OracleUsable(m)
    /\ \E os \in OrderSlots, ps \in PositionSlots :
       LET o == orders[u][os]
           n == Least(RemainingBase(o), Magnitude(positions[u][ps].base))
       IN  /\ FoundOrder(u, id, os)
           /\ o.type \in {"TriggerMarket", "TriggerLimit"}
           /\ o.reduceOnly
           /\ o.market = m
           /\ TriggerFired(o, oracle[m].price)
           /\ FoundPosition(u, m, ps)
           /\ ExecuteAmmClose(u, m, ps, n, IF o.type = "TriggerLimit" THEN o.price ELSE 0)
           /\ orders' = [orders EXCEPT ![u][os] = [Filled(o, n) EXCEPT !.status = "Init"]]
    /\ UNCHANGED <<clock, paused, numMarkets, oracle, insurance, wallet, vault,
                   insuranceVault>>

=============================================================================
