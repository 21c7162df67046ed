--------------------------------- MODULE Admin ---------------------------------
(***************************************************************************)
(* The instructions that create accounts, the admin's instructions, the     *)
(* price feed and the passing of time.                                      *)
(***************************************************************************)
EXTENDS PerpState

RatiosValid(p) == p.imr > p.mmr /\ p.mmr > 0

\* the risk parameters of a market: initialize_market and update_market_params
WithParams(mk, p) ==
    [mk EXCEPT !.imr = p.imr, !.mmr = p.mmr, !.minOrder = p.minOrder,
               !.maxOI = p.maxOI, !.liqFeeBps = p.liqFeeBps,
               !.fundingPeriod = p.fundingPeriod]

\* mutant of InitialReserves: the quote side is seeded with the price
PricedReserves(reserve, peg) ==
    [DefaultAmm EXCEPT !.base = reserve, !.quote = peg, !.sqrtK = reserve,
                       !.peg = peg]

\* initial_reserves: a balanced pool whose mark price is the peg
InitialReserves(reserve, peg) ==
    [DefaultAmm EXCEPT !.base = reserve, !.quote = reserve, !.sqrtK = reserve,
                       !.peg = peg]

\* markets are created in the order of their index
InitializeMarket(m, p, reserve, peg) ==
    /\ m = numMarkets
    /\ RatiosValid(p)
    /\ reserve > 0
    /\ peg > 0
    /\ market' = [market EXCEPT ![m] =
          [WithParams(DefaultMarket, p) EXCEPT !.status = "Active",
             !.nextFundingTs = clock + p.fundingPeriod]]
    /\ amm' = [amm EXCEPT ![m] =
          [InitialReserves(reserve, peg) EXCEPT !.markTwap = peg, !.oracleTwap = peg,
             !.lastTwapTs = clock, !.lastFundingTs = clock]]
    /\ numMarkets' = numMarkets + 1
    /\ UNCHANGED <<clock, paused, oracle, user, positions, orders, insurance, wallet,
                   vault, insuranceVault>>

\* mutant of InitializeUser: an existing account is initialized again
ReinitializeUser(u) ==
    /\ user' = [user EXCEPT ![u] = [DefaultUser EXCEPT !.exists = TRUE]]
    /\ UNCHANGED <<clock, paused, numMarkets, market, amm, oracle, positions, orders,
                   insurance, wallet, vault, insuranceVault>>

InitializeUser(u) ==
    /\ ~user[u].exists
    /\ user' = [user EXCEPT ![u].exists = TRUE]
    /\ UNCHANGED <<clock, paused, numMarkets, market, amm, oracle, positions, orders,
                   insurance, wallet, vault, insuranceVault>>

\* status may be any: the circuit breaker of one market
UpdateMarketParams(m, status, p) ==
    /\ m \in CreatedMarkets
    /\ RatiosValid(p)
    /\ p.fundingPeriod > 0
    /\ market' = [market EXCEPT ![m] = [WithParams(@, p) EXCEPT !.status = status]]
    /\ UNCHANGED <<clock, paused, numMarkets, amm, oracle, user, positions, orders,
                   insurance, wallet, vault, insuranceVault>>

SetProtocolPaused(p) ==
    /\ paused' = p
    /\ UNCHANGED <<clock, numMarkets, market, amm, oracle, user, positions, orders,
                   insurance, wallet, vault, insuranceVault>>

\* initialize_mock_oracle accepts any price, update_mock_oracle a positive one
InitializeOracle(m, price, conf) ==
    /\ ~oracle[m].exists
    /\ oracle' = [oracle EXCEPT ![m] =
          [exists |-> TRUE, price |-> price, conf |-> conf, ts |-> clock]]
    /\ UNCHANGED <<clock, paused, numMarkets, market, amm, user, positions, orders,
                   insurance, wallet, vault, insuranceVault>>

UpdateOracle(m, price, conf) ==
    /\ oracle[m].exists
    /\ price > 0
    /\ oracle' = [oracle EXCEPT ![m] =
          [exists |-> TRUE, price |-> price, conf |-> conf, ts |-> clock]]
    /\ UNCHANGED <<clock, paused, numMarkets, market, amm, user, positions, orders,
                   insurance, wallet, vault, insuranceVault>>

\* external: the cluster's clock moves on between transactions
Tick(seconds) ==
    /\ clock' = clock + seconds
    /\ UNCHANGED <<paused, numMarkets, market, amm, oracle, user, positions, orders,
                   insurance, wallet, vault, insuranceVault>>

=============================================================================
