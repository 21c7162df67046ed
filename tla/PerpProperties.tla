---------------------------- MODULE PerpProperties ----------------------------
(***************************************************************************)
(* What the impl-perps program promises, as invariants of its accounts and  *)
(* as properties of every step.                                             *)
(***************************************************************************)
EXTENDS PerpEngine, Functions

(* Quantities the properties speak of *)

\* the signed exposure in m of the slots ps, and of the user u who holds them
BaseIn(ps, m) ==
    SumFunction([s \in PositionSlots |-> IF IsOpenIn(ps[s], m) THEN ps[s].base ELSE 0])
NetBase(u, m) == BaseIn(positions[u], m)

\* the cost basis the slots ps carry, and the user u who holds them
CostOf(ps)   == SumFunction([s \in PositionSlots |-> ps[s].quoteEntry])
CostBasis(u) == CostOf(positions[u])

\* what the users' long, and short, exposures in m add up to
LongInterest(m)  == SumFunction([u \in Users |-> Greatest(NetBase(u, m), 0)])
ShortInterest(m) == SumFunction([u \in Users |-> Greatest(-NetBase(u, m), 0)])

\* what u's account is worth to the protocol before open profit and loss
Equity(u) == user[u].collateral - user[u].badDebt

\* funding u would pay if every position of its were settled now
FundingOwed(u) ==
    SumFunction([s \in PositionSlots |->
                   IF positions[u][s].base = 0 THEN 0
                   ELSE PendingFunding(positions[u][s], positions[u][s].market)])

\* claims on the protocol less the tokens and the profits that account for them
Ledger ==
    SumFunction([u \in Users |-> Equity(u) - user[u].settledPnl])
      + SumFunction([m \in MarketIndexes |-> amm[m].totalFee])
      + insurance - vault

\* b is what is left of a after some of it was closed: smaller, never flipped
ReducedTo(a, b) == IF a >= 0 THEN b \in 0 .. a ELSE b \in a .. 0

\* what liquidate_perp would check for slot s of u
SlotLiquidatable(u, s) ==
    LET p == positions[u][s]
    IN  IsLiquidatable(Charged(user[u], PendingFunding(p, p.market)), p, p.market)

-----------------------------------------------------------------------------
(* Bookkeeping invariants *)

\* The two counts of a market's open interest (Market.open_interest_* and
\* Amm.base_asset_amount_*) always equal what the users' positions add up to,
\* whichever of the five ways of trading changed them, so saturating_sub in the
\* close and liquidation paths never saturates.
OpenInterestMatchesPositions ==
    \A m \in MarketIndexes :
        /\ market[m].oiLong = LongInterest(m)
        /\ market[m].oiShort = ShortInterest(m)
        /\ amm[m].long = market[m].oiLong
        /\ amm[m].short = -market[m].oiShort

\* The virtual pool is the other side of the users' net exposure: the base it has
\* given out (or taken in) since the market was created is what longs hold more
\* than shorts.  Peer matches move neither.
AmmHedgesSkew ==
    \A m \in MarketIndexes : amm[m].base + amm[m].long + amm[m].short = amm[m].sqrtK

\* No sequence of swaps lets value leak from the curve: the product of the
\* reserves never falls below the one the market was created with.
CurveNeverLosesValue ==
    \A m \in MarketIndexes : amm[m].base * amm[m].quote >= amm[m].sqrtK * amm[m].sqrtK

\* A user has at most one open position per market, whatever slots were freed and
\* reused; a flat slot carries no cost basis, a long slot has paid and a short
\* slot has received.
PositionsSound ==
    \A u \in Users :
        /\ \A s, t \in PositionSlots :
              (s # t /\ positions[u][s].base # 0 /\ positions[u][t].base # 0)
                 => positions[u][s].market # positions[u][t].market
        /\ \A s \in PositionSlots :
              LET p == positions[u][s]
              IN  /\ p.base = 0 => p.quoteEntry = 0
                  /\ p.base > 0 => p.quoteEntry <= 0
                  /\ p.base < 0 => p.quoteEntry >= 0

\* An open order can be told from every other of its owner by its id, the id was
\* handed out before, and something of the order is left to fill.
OrdersSound ==
    \A u \in Users : \A s \in OrderSlots :
        LET o == orders[u][s]
        IN  o.status = "Open" =>
              /\ o.id < user[u].nextOrderId
              /\ o.market \in CreatedMarkets
              /\ o.filled < o.base
              /\ \A t \in OrderSlots \ {s} :
                    orders[u][t].status = "Open" => orders[u][t].id # o.id

\* An account flagged bankrupt owes something, so resolve_perp_bankruptcy can
\* always be sent for it and clears the flag with the last of the debt.
BankruptAccountOwes == \A u \in Users : user[u].bankrupt => user[u].badDebt > 0

-----------------------------------------------------------------------------
(* What a step may never do *)

\* Trades, fees, liquidations and bankruptcies only move value between accounts:
\* claims change by what enters or leaves the vault and by realized profit or
\* loss.  The one drift is funding that liquidate_perp settles, which it does not
\* add to settled_pnl.
LedgerStep ==
    \/ Ledger' = Ledger
    \/ \E u \in Users : \E s \in PositionSlots :
          LET m == positions[u][s].market
          IN  /\ \E n \in CloseSizes : LiquidatePerp(u, m, n)
              /\ FoundPosition(u, m, s)
              /\ Ledger' = Ledger - PendingFunding(positions[u][s], m)

LedgerBalances == [][LedgerStep]_vars

\* While no trade happens an account's worth changes only by tokens deposited or
\* withdrawn, by a draw on the insurance fund, and by the funding its positions
\* stop owing: funding is taken once, in full, from the right account.
EquityStep ==
    amm' = amm =>
        \A u \in Users :
            LET expected == (wallet[u] - wallet'[u]) + (FundingOwed(u)' - FundingOwed(u))
            IN  (Equity(u)' - Equity(u)) - expected \in {0, insurance - insurance'}

EquityFollowsCashAndFunding == [][EquityStep]_vars

\* With the protocol paused, or the market not Active, no position in it grows or
\* changes side; with the protocol paused no tokens move either.
BreakerStep ==
    /\ \A m \in MarketIndexes :
          (paused \/ market[m].status # "Active") =>
             \A u \in Users : ReducedTo(NetBase(u, m), NetBase(u, m)')
    /\ paused => UNCHANGED <<wallet, vault>>

BreakersStopNewRisk == [][BreakerStep]_vars

\* A fill of a resting order trades in the order's market no more than was left of
\* it, at its limit or better, and a limit order trades in its own direction.
\* A seller's limit holds up to the rounding of one quote unit.
FillHonoursOrder(u, s, m) ==
    LET o      == orders[u][s]
        traded == NetBase(u, m)' - NetBase(u, m)
        cash   == (CostBasis(u)' - CostBasis(u)) + (user'[u].settledPnl - user[u].settledPnl)
    IN  (o.status = "Open" /\ o.market = m /\ orders'[u][s] # o /\ traded # 0) =>
          /\ Magnitude(traded) <= RemainingBase(o)
          /\ o.type = "Limit" => ((traded > 0) <=> (o.dir = "Long"))
          /\ o.type \in {"Limit", "TriggerLimit"} =>
                IF traded > 0 THEN AvgPrice(-cash, traded) <= o.price
                ELSE (cash + 1) * BASE_PRECISION > o.price * (-traded)

FillsHonourOrders ==
    [][\A u \in Users : \A s \in OrderSlots, m \in MarketIndexes :
          FillHonoursOrder(u, s, m)]_vars

\* A reduce-only order never adds to a position and never flips it, even when the
\* position it was placed against was closed or reversed in the meantime.
ReduceOnlyStep ==
    \A u \in Users : \A s \in OrderSlots, m \in MarketIndexes :
        LET o == orders[u][s]
        IN  (o.status = "Open" /\ o.reduceOnly /\ o.market = m /\ orders'[u][s] # o) =>
               ReducedTo(NetBase(u, m), NetBase(u, m)')

ReduceOnlyOnlyReduces == [][ReduceOnlyStep]_vars

\* A trade that leaves a position bigger (or open where there was none) leaves it
\* above maintenance margin, unless funding that accrued before the trade and was
\* not settled by it is still to be charged.
OpenStep ==
    \A u \in Users : \A s \in PositionSlots :
        LET old == positions[u][s].base
            new == positions'[u][s].base
        IN  (new # 0 /\ ~ReducedTo(old, new)) =>
               \/ PendingFunding(positions[u][s], positions[u][s].market)' > 0
               \/ ~SlotLiquidatable(u, s)'

OpenedPositionIsSafe == [][OpenStep]_vars

\* Bad debt only ever appears on an account whose collateral is used up, unless
\* the liquidation that recorded it also realized a profit; and it only shrinks
\* by the same amount the insurance fund does.
DebtStep ==
    \A u \in Users :
        /\ user'[u].badDebt > user[u].badDebt =>
              \/ user'[u].collateral = 0
              \/ user'[u].settledPnl > user[u].settledPnl
        /\ user'[u].badDebt < user[u].badDebt =>
              insurance - insurance' = user[u].badDebt - user'[u].badDebt

DebtIsLastResort == [][DebtStep]_vars

-----------------------------------------------------------------------------
(* What the repository's comments say and the code does not do; each is the  *)
(* property of a run that finds a counterexample.                            *)

\* withdraw_collateral.rs:1-2: tokens leave "only if the account still meets
\* initial margin afterward"; margin.rs:3-5 makes that a sum over all positions.
AccountMeetsInitial(u) ==
    user[u].collateral
      + SumFunction([s \in PositionSlots |->
                       UnrealizedPnl(positions[u][s], oracle[positions[u][s].market].price)])
    >= SumFunction([s \in PositionSlots |->
          MarginRequirement(PositionNotional(positions[u][s].base,
                                             oracle[positions[u][s].market].price),
                            market[positions[u][s].market].imr)])

WithdrawKeepsInitialMargin ==
    [][\A u \in Users : wallet'[u] > wallet[u] => AccountMeetsInitial(u)']_vars

\* settle_funding.rs:44 and user.rs:113: recorded bad debt is "resolved from the
\* insurance fund" and "awaiting resolve_perp_bankruptcy".
BadDebtAwaitsResolution == \A u \in Users : user[u].badDebt > 0 => user[u].bankrupt

\* set_protocol_paused.rs:2-3: while the protocol is paused close and liquidate
\* "remain available so positions can always be wound down": with a usable oracle
\* some part of every position can be closed by its owner or liquidated.
CloseWouldSucceed(u, s, n) ==
    LET p     == positions[u][s]
        quote == SwapQuote(amm[p.market], n, CloseSwapDir(p))
    IN  /\ SwapAllowed(amm[p.market], n, CloseSwapDir(p))
        /\ user[u].collateral + Realized(p, n, quote) - FeeAmount(quote, TakerFeeBps) >= 0

PausedPositionsCanBeWoundDown ==
    paused => \A u \in Users : \A s \in PositionSlots :
        (positions[u][s].base # 0 /\ OracleUsable(positions[u][s].market)) =>
            \/ \E n \in 1 .. Magnitude(positions[u][s].base) : CloseWouldSucceed(u, s, n)
            \/ SlotLiquidatable(u, s)

=============================================================================
