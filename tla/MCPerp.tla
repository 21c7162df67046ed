-------------------------------- MODULE MCPerp --------------------------------
(***************************************************************************)
(* The impl-perps program on small instances.  A run starts either from     *)
(* Init or from Seeded, the state scripts/src/bootstrap.ts and a deposit by  *)
(* every user lead to, and explores the states within the bounds below.     *)
(***************************************************************************)
EXTENDS PerpProperties, BookBuilder, Idl, TLC

CONSTANTS
    MaxFees,         \* bound: trading fees collected, and so the number of trades
    MaxOrderId,      \* bound: orders placed by one user
    MaxClock,        \* bound: the latest time
    SeedCollateral,  \* what every user has deposited in Seeded
    SeedPrice        \* the oracle price of every market in Seeded

\* The scale of the runs: 4 units of base in 1.0, prices of about 10 quote per
\* 1.0 of base, pools 10.0 deep, initial margin 20%, maintenance 10%.
Params ==
    [imr |-> 2, mmr |-> 1, minOrder |-> 2, maxOI |-> 0, liqFeeBps |-> 5,
     fundingPeriod |-> 10]
CappedParams == [Params EXCEPT !.maxOI = 6]
StrictParams == [Params EXCEPT !.imr = 5, !.mmr = 3, !.fundingPeriod = 5]
SeedPool     == [reserve |-> 10 * BASE_PRECISION, peg |-> SeedPrice]

SomeParams   == {Params}
TunedParams  == {Params, StrictParams}
OneSeedPool  == {SeedPool}
ZeroPegPools == {SeedPool, [SeedPool EXCEPT !.peg = 0]}

\* orders of the runs, as OrderSpecs <- ...
Limit(d, n, p, r) ==
    [type |-> "Limit", dir |-> d, base |-> n, price |-> p, trigger |-> 0,
     cond |-> "Above", reduceOnly |-> r]
Stop(t, d, n, p, trig, c, r) ==
    [type |-> t, dir |-> d, base |-> n, price |-> p, trigger |-> trig, cond |-> c,
     reduceOnly |-> r]

NoOrders     == {}
MatchOrderSpecs == {Limit("Long", 4, 11, FALSE), Limit("Short", 2, 10, FALSE),
                    Limit("Long", 3, 9, FALSE)}
CloseOrderSpecs == {Limit("Long", 4, 12, TRUE), Limit("Short", 2, 8, TRUE),
                    Stop("TriggerMarket", "Short", 4, 0, 9, "Below", TRUE),
                    Stop("TriggerLimit", "Long", 2, 12, 9, "Above", TRUE)}
RestingOrderSpecs == MatchOrderSpecs \cup CloseOrderSpecs
AnyOrderSpecs   == {Limit("Long", 4, 13, FALSE), Limit("Short", 4, 8, TRUE),
                    Stop("TriggerMarket", "Short", 4, 0, 9, "Below", FALSE)}

\* The first n markets have been created.
BootstrappedUpTo(n) ==
    /\ clock = StartTime
    /\ paused = FALSE
    /\ numMarkets = n
    /\ market = [m \in MarketIndexes |->
          IF m >= n THEN DefaultMarket
          ELSE [WithParams(DefaultMarket, Params) EXCEPT !.status = "Active",
                   !.nextFundingTs = StartTime + Params.fundingPeriod]]
    /\ amm = [m \in MarketIndexes |->
          IF m >= n THEN DefaultAmm
          ELSE [InitialReserves(SeedPool.reserve, SeedPool.peg) EXCEPT
                   !.markTwap = SeedPool.peg, !.oracleTwap = SeedPool.peg,
                   !.lastTwapTs = StartTime, !.lastFundingTs = StartTime]]
    /\ oracle = [m \in MarketIndexes |->
          IF m >= n THEN DefaultOracle
          ELSE [exists |-> TRUE, price |-> SeedPrice, conf |-> 0, ts |-> StartTime]]
    /\ positions = [u \in Users |-> [s \in PositionSlots |-> DefaultPosition]]
    /\ insurance = 0
    /\ insuranceVault = 0

\* The users in U have deposited and placed n orders, the others have no account.
Funded(U, n) ==
    /\ user = [u \in Users |->
          IF u \notin U THEN DefaultUser
          ELSE [DefaultUser EXCEPT !.exists = TRUE, !.collateral = SeedCollateral,
                                   !.nextOrderId = n]]
    /\ wallet = [u \in Users |-> IF u \in U THEN InitialTokens - SeedCollateral
                                  ELSE InitialTokens]
    /\ vault = SeedCollateral * Cardinality(U)

NoOrdersRest == orders = [u \in Users |-> [s \in OrderSlots |-> DefaultOrder]]

Bootstrapped == BootstrappedUpTo(Cardinality(MarketIndexes))

Seeded == Bootstrapped /\ Funded(Users, 0) /\ NoOrdersRest

\* All users in the first market, or one user in all of them.
OrderStart ==
    /\ NoOrdersRest
    /\ \/ BootstrappedUpTo(1) /\ Funded(Users, 0)
       \/ Bootstrapped /\ \E u \in Users : Funded({u}, 0)

FeesCollected == SumFunction([m \in MarketIndexes |-> amm[m].totalFee])

\* Every trade against the pool or between users pays a fee of at least one unit,
\* so the fees collected bound the trades; deposits are bounded by the wallets,
\* liquidations by the positions.
Bounded ==
    /\ FeesCollected <= MaxFees
    /\ \A u \in Users : user[u].nextOrderId <= MaxOrderId
    /\ clock <= MaxClock

\* Of the states between which time passes, only those with few trades and whole
\* positions: funding accrues on them as on any other.
BoundedInTime ==
    /\ Bounded
    /\ FeesCollected = MaxFees => clock = StartTime
    /\ clock > StartTime => \A u \in Users, s \in PositionSlots :
                               positions[u][s].base \in {0} \cup OpenSizes \cup {-n : n \in OpenSizes}

\* Together, users trade by opening orders alone, two each; a user alone trades as he
\* likes and rests one closing order.  Nobody joins him.
Alone == numMarkets # 1
RestingOrders(reduceOnly) ==
    {w \in Users \X OrderSlots : LET o == orders[w[1]][w[2]]
                                IN  o.status = "Open" /\ o.reduceOnly = reduceOnly}
OrderRuns ==
    IF Alone THEN /\ RestingOrders(FALSE)' = {}
                  /\ \A u \in Users : /\ user'[u].nextOrderId <= 1
                                      /\ user'[u].exists = user[u].exists
    ELSE /\ RestingOrders(TRUE)' = {}
         /\ positions' # positions => orders' # orders

SeededSpec   == Seeded /\ [][Next]_vars
OrdersSpec   == OrderStart /\ [][Next]_vars
DeployedSpec == Spec

Symmetry == Permutations(Users)

=============================================================================
