------------------------------- MODULE PerpEngine -------------------------------
(***************************************************************************)
(* The impl-perps program: every instruction of lib.rs, in any order, by     *)
(* any of its callers, interleaved with the clock.                          *)
(*                                                                         *)
(* The constants below are the arguments callers may send.  Init is the      *)
(* state after initialize_state.                                            *)
(***************************************************************************)
EXTENDS Collateral, Trading, OrderBook, Liquidation, Admin

CONSTANTS
    StartTime,      \* the clock when the program is deployed
    TimeSteps,      \* seconds that may pass between two transactions
    InitialTokens,  \* tokens every user starts with
    TokenAmounts,   \* amounts deposited or withdrawn
    OpenSizes,      \* base amounts of market orders
    CloseSizes,     \* base amounts of closes and liquidations, 0 for all
    PriceLimits,    \* slippage limits of market orders, 0 for none
    OrderSpecs,     \* orders users may rest
    Prices,         \* oracle prices
    Confidences,    \* oracle confidence intervals
    RiskParams,     \* market parameters the admin may set
    StatusChoices,  \* market statuses the admin may set
    PauseChoices,   \* values the admin may give the protocol's pause flag
    Pools           \* [reserve, peg] of new markets

ParamRecord == [imr : Nat, mmr : Nat, minOrder : Nat, maxOI : Nat, liqFeeBps : Nat,
                fundingPeriod : Int]

OrderSpecRecord == [type : OrderTypes, dir : Directions, base : Nat, price : Nat,
                    trigger : Nat, cond : Conditions, reduceOnly : BOOLEAN]

ASSUME InputAssumption ==
    /\ StartTime \in Nat
    /\ TimeSteps \subseteq Nat
    /\ InitialTokens \in Nat
    /\ TokenAmounts \subseteq Nat
    /\ OpenSizes \subseteq Nat
    /\ CloseSizes \subseteq Nat
    /\ PriceLimits \subseteq Nat
    /\ OrderSpecs \subseteq OrderSpecRecord
    /\ Prices \subseteq Nat
    /\ Confidences \subseteq Nat
    /\ RiskParams \subseteq ParamRecord
    /\ StatusChoices \subseteq MarketStatuses
    /\ PauseChoices \subseteq BOOLEAN
    /\ Pools \subseteq [reserve : Nat, peg : Nat]

OrderIds == 0 .. (ORDER_ID_MODULUS - 1)

Init ==
    /\ clock = StartTime
    /\ paused = FALSE
    /\ numMarkets = 0
    /\ market = [m \in MarketIndexes |-> DefaultMarket]
    /\ amm = [m \in MarketIndexes |-> DefaultAmm]
    /\ oracle = [m \in MarketIndexes |-> DefaultOracle]
    /\ user = [u \in Users |-> DefaultUser]
    /\ positions = [u \in Users |-> [s \in PositionSlots |-> DefaultPosition]]
    /\ orders = [u \in Users |-> [s \in OrderSlots |-> DefaultOrder]]
    /\ insurance = 0
    /\ wallet = [u \in Users |-> InitialTokens]
    /\ vault = 0
    /\ insuranceVault = 0

-----------------------------------------------------------------------------
(* Who may send what.  UserStep is signed by u; CrankStep is permissionless *)
(* and may name any account; AdminStep is signed by the admin or the price  *)
(* authority.                                                               *)

UserStep(u) ==
    \/ InitializeUser(u)
    \/ \E a \in TokenAmounts : Deposit(u, a)
    \/ \E m \in MarketIndexes, a \in TokenAmounts : Withdraw(u, m, a)
    \/ \E m \in MarketIndexes, d \in Directions, n \in OpenSizes, l \in PriceLimits :
          OpenPosition(u, m, d, n, l)
    \/ \E m \in MarketIndexes, n \in CloseSizes, l \in PriceLimits :
          ClosePosition(u, m, n, l)
    \/ \E m \in MarketIndexes, o \in OrderSpecs : PlaceOrder(u, m, o)
    \/ \E id \in OrderIds : CancelOrder(u, id)

CrankStep(u) ==
    \/ \E m \in MarketIndexes, id \in OrderIds : FillOrder(u, m, id)
    \/ \E w \in Users, m \in MarketIndexes, id, wid \in OrderIds :
          MatchOrders(u, w, m, id, wid)
    \/ \E m \in MarketIndexes, id \in OrderIds : TriggerOrder(u, m, id)
    \/ \E m \in MarketIndexes, n \in CloseSizes : LiquidatePerp(u, m, n)
    \/ ResolveBankruptcy(u)
    \/ \E m \in MarketIndexes : SettleFunding(u, m)

MarketStep(m) ==
    \/ UpdateFundingRate(m)
    \/ \E p \in RiskParams, pool \in Pools : InitializeMarket(m, p, pool.reserve, pool.peg)
    \/ \E p \in RiskParams, s \in StatusChoices : UpdateMarketParams(m, s, p)
    \/ \E p \in Prices, c \in Confidences : InitializeOracle(m, p, c)
    \/ \E p \in Prices, c \in Confidences : UpdateOracle(m, p, c)

Next ==
    \/ \E u \in Users : UserStep(u) \/ CrankStep(u)
    \/ \E m \in MarketIndexes : MarketStep(m)
    \/ \E p \in PauseChoices : SetProtocolPaused(p)
    \/ \E t \in TimeSteps : Tick(t)

Spec == Init /\ [][Next]_vars

-----------------------------------------------------------------------------
(* Type invariant *)

MarketType ==
    [status : MarketStatuses, imr : Nat, mmr : Nat, minOrder : Nat, maxOI : Nat,
     fundingPeriod : Int, liqFeeBps : Nat, oiLong : Nat, oiShort : Nat,
     nextFundingTs : Int]

AmmType ==
    [base : Nat, quote : Nat, sqrtK : Nat, peg : Nat, long : Int, short : Int,
     cumFunding : Int, lastRate : Int, lastFundingTs : Int, markTwap : Nat,
     oracleTwap : Nat, lastTwapTs : Int, totalFee : Int]

OracleType == [exists : BOOLEAN, price : Nat, conf : Nat, ts : Int]

UserType ==
    [exists : BOOLEAN, collateral : Nat, settledPnl : Int, badDebt : Nat,
     bankrupt : BOOLEAN, nextOrderId : Nat]

PositionType == [market : Nat, base : Int, quoteEntry : Int, lastCum : Int]

OrderType ==
    [status : {"Init", "Open"}, id : Nat, market : Nat, type : OrderTypes,
     dir : Directions, base : Nat, filled : Nat, price : Nat, trigger : Nat,
     cond : Conditions, reduceOnly : BOOLEAN]

\* every account keeps its layout; unsigned fields never go below zero (the
\* program relies on safe_sub and explicit checks for that)
TypeOK ==
    /\ clock \in Nat
    /\ paused \in BOOLEAN
    /\ numMarkets \in Nat
    /\ market \in [MarketIndexes -> MarketType]
    /\ amm \in [MarketIndexes -> AmmType]
    /\ oracle \in [MarketIndexes -> OracleType]
    /\ user \in [Users -> UserType]
    /\ positions \in [Users -> [PositionSlots -> PositionType]]
    /\ orders \in [Users -> [OrderSlots -> OrderType]]
    /\ insurance \in Nat
    /\ wallet \in [Users -> Nat]
    /\ vault \in Nat
    /\ insuranceVault \in Nat

=============================================================================
