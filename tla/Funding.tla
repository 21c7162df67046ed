-------------------------------- MODULE Funding --------------------------------
(***************************************************************************)
(* update_funding_rate and settle_funding.  Neither looks at the pause flag *)
(* or at the market's status.                                               *)
(***************************************************************************)
EXTENDS PerpState

\* both TWAPs move toward the current mark and index price
TwapsRefreshed(pool, index, window, now) ==
    LET elapsed == now - pool.lastTwapTs
    IN  [pool EXCEPT
            !.markTwap   = UpdateTwap(@, MarkPrice(pool), elapsed, window),
            !.oracleTwap = UpdateTwap(@, index, elapsed, window),
            !.lastTwapTs = now]

\* funding accrues for the time since the last accrual, at most one period
Accrued(pool, period, now) ==
    LET rate == CalculateFundingRate(pool.markTwap, pool.oracleTwap,
                                     Least(now - pool.lastFundingTs, period))
    IN  [pool EXCEPT
            !.cumFunding    = @ + FundingDeltaPerBase(rate, pool.oracleTwap),
            !.lastRate      = rate,
            !.lastFundingTs = now]

UpdateFundingRate(m) ==
    LET fresh == TwapsRefreshed(amm[m], oracle[m].price,
                                Greatest(market[m].fundingPeriod, 1), clock)
    IN  /\ m \in CreatedMarkets
        /\ OracleUsable(m)
        /\ IF clock > amm[m].lastFundingTs
           THEN /\ fresh.oracleTwap > 0
                /\ amm' = [amm EXCEPT ![m] = Accrued(fresh, market[m].fundingPeriod, clock)]
                /\ market' = [market EXCEPT ![m].nextFundingTs =
                                 clock + market[m].fundingPeriod]
           ELSE /\ amm' = [amm EXCEPT ![m] = fresh]
                /\ UNCHANGED market
        /\ UNCHANGED <<clock, paused, numMarkets, oracle, user, positions, orders,
                       insurance, wallet, vault, insuranceVault>>

\* what a position owes since it last settled (negative: what it is owed)
PendingFunding(p, m) == FundingPayment(p.base, amm[m].cumFunding, p.lastCum)

\* mutant of Charged: what the collateral cannot pay is forgotten
ChargedUpToZero(acct, payment) ==
    [acct EXCEPT !.collateral = Greatest(@ - payment, 0)]

\* collateral pays; what it cannot pay becomes bad debt
Charged(acct, payment) ==
    LET left == acct.collateral - payment
    IN  [acct EXCEPT !.collateral = Greatest(left, 0),
                     !.badDebt    = @ + Greatest(-left, 0)]

\* mutant of SettledUpTo: the checkpoint is not moved
NotCheckpointed(p, cum) == p

SettledUpTo(p, cum) == [p EXCEPT !.lastCum = cum]

SettleFunding(u, m) ==
    /\ m \in CreatedMarkets
    /\ \E s \in PositionSlots :
       LET payment == PendingFunding(positions[u][s], m)
           charged == Charged(user[u], payment)
       IN  /\ FoundPosition(u, m, s)
           /\ user' = [user EXCEPT ![u] = [charged EXCEPT !.settledPnl = @ - payment]]
           /\ positions' = [positions EXCEPT ![u][s] = SettledUpTo(@, amm[m].cumFunding)]
    /\ UNCHANGED <<clock, paused, numMarkets, market, amm, oracle, orders, insurance,
                   wallet, vault, insuranceVault>>

=============================================================================
