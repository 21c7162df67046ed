------------------------------- MODULE PerpState -------------------------------
(***************************************************************************)
(* The accounts of the impl-perps program (programs/impl-perps/src/state)  *)
(* and the lookups its instructions share.                                 *)
(*                                                                         *)
(* A Solana instruction is atomic: when any of its checks fails the whole   *)
(* transaction is reverted.  Each instruction is therefore one action,      *)
(* enabled only when every check of the handler passes; a rejected          *)
(* transaction is a step that changes nothing.                              *)
(*                                                                         *)
(* Left out: account addresses, bumps and signatures (an action is taken    *)
(* on behalf of the account it names, which is what the Anchor constraints  *)
(* enforce), User.being_liquidated (no instruction ever sets it), the       *)
(* counters cumulative_deposits and num_users and Order.ts/post_only (no    *)
(* instruction reads them), PerpPosition.open_orders (always 0).            *)
(***************************************************************************)
EXTENDS PerpMath, FiniteSets

CONSTANTS
    Users,               \* the owners of User accounts
    MarketIndexes,       \* 0 .. n-1: the markets that may be created
    MAX_POSITIONS,       \* position slots of a user (8)
    MAX_ORDERS,          \* order slots of a user (32)
    ORDER_ID_MODULUS,    \* 2^32: order ids wrap
    TakerFeeBps, MakerRebateBps,        \* fees of the State account
    MaxOracleStaleness,                 \* seconds
    MaxOracleConfidenceBps

PositionSlots == 1 .. MAX_POSITIONS
OrderSlots    == 1 .. MAX_ORDERS

ASSUME StateAssumption ==
    /\ IsFiniteSet(Users)
    /\ MarketIndexes \subseteq Nat /\ IsFiniteSet(MarketIndexes)
    /\ MAX_POSITIONS \in Nat \ {0}
    /\ MAX_ORDERS \in Nat \ {0}
    /\ ORDER_ID_MODULUS \in Nat \ {0}
    /\ TakerFeeBps \in Nat
    /\ MakerRebateBps \in Nat
    /\ MaxOracleStaleness \in Nat
    /\ MaxOracleConfidenceBps \in Nat

VARIABLES
    clock,       \* the cluster's unix timestamp
    paused,      \* State.paused
    numMarkets,  \* State.num_markets
    market,      \* market[m]: status, risk parameters and open interest
    amm,         \* amm[m]: Market.amm
    oracle,      \* oracle[m]: the price account the market reads
    user,        \* user[u]: the scalar fields of the User account
    positions,   \* positions[u][slot]
    orders,      \* orders[u][slot]
    insurance,   \* InsuranceFund.total_deposits
    wallet,      \* tokens in u's own token account
    vault,       \* tokens in the collateral vault
    insuranceVault  \* tokens in the insurance vault

vars == <<clock, paused, numMarkets, market, amm, oracle, user, positions,
          orders, insurance, wallet, vault, insuranceVault>>

-----------------------------------------------------------------------------
(* Account layouts *)

Directions     == {"Long", "Short"}
MarketStatuses == {"Initialized", "Active", "ReduceOnly", "Paused"}
OrderTypes     == {"Market", "Limit", "TriggerMarket", "TriggerLimit"}
Conditions     == {"Above", "Below"}

DefaultPosition == [market |-> 0, base |-> 0, quoteEntry |-> 0, lastCum |-> 0]

DefaultOrder ==
    [status |-> "Init", id |-> 0, market |-> 0, type |-> "Market", dir |-> "Long",
     base |-> 0, filled |-> 0, price |-> 0, trigger |-> 0, cond |-> "Above",
     reduceOnly |-> FALSE]

DefaultUser ==
    [exists |-> FALSE, collateral |-> 0, settledPnl |-> 0, badDebt |-> 0,
     bankrupt |-> FALSE, nextOrderId |-> 0]

DefaultMarket ==
    [status |-> "Initialized", imr |-> 0, mmr |-> 0, minOrder |-> 0, maxOI |-> 0,
     fundingPeriod |-> 0, liqFeeBps |-> 0, oiLong |-> 0, oiShort |-> 0,
     nextFundingTs |-> 0]

DefaultAmm ==
    [base |-> 0, quote |-> 0, sqrtK |-> 0, peg |-> 0, long |-> 0, short |-> 0,
     cumFunding |-> 0, lastRate |-> 0, lastFundingTs |-> 0, markTwap |-> 0,
     oracleTwap |-> 0, lastTwapTs |-> 0, totalFee |-> 0]

DefaultOracle == [exists |-> FALSE, price |-> 0, conf |-> 0, ts |-> 0]

-----------------------------------------------------------------------------
(* Lookups *)

CreatedMarkets == {m \in MarketIndexes : m < numMarkets}

IsOpenIn(p, m) == p.base # 0 /\ p.market = m

\* User::find_position: s is the first slot holding an open position in m
FoundPosition(u, m, s) ==
    /\ IsOpenIn(positions[u][s], m)
    /\ \A t \in 1 .. (s - 1) : ~IsOpenIn(positions[u][t], m)

HasPosition(u, m) == \E s \in PositionSlots : IsOpenIn(positions[u][s], m)

\* mutant of TargetSlot: does not look for the position u already has
FreeSlot(u, m, s) ==
    /\ positions[u][s].base = 0
    /\ \A t \in 1 .. (s - 1) : positions[u][t].base # 0

\* User::get_or_create_position after find_position: the position in m if there
\* is one, otherwise the first free slot, claimed for m
TargetSlot(u, m, s) ==
    IF HasPosition(u, m) THEN FoundPosition(u, m, s)
    ELSE /\ positions[u][s].base = 0
         /\ \A t \in 1 .. (s - 1) : positions[u][t].base # 0

TargetPosition(u, m, s) ==
    IF HasPosition(u, m) THEN positions[u][s]
    ELSE [DefaultPosition EXCEPT !.market = m]

\* mutant of FoundOrder: the id is not compared
FirstOpenOrder(u, id, s) ==
    /\ orders[u][s].status = "Open"
    /\ \A t \in 1 .. (s - 1) : orders[u][t].status # "Open"

\* the order an instruction names by id: the first open one with that id
FoundOrder(u, id, s) ==
    /\ orders[u][s].status = "Open"
    /\ orders[u][s].id = id
    /\ \A t \in 1 .. (s - 1) : ~(orders[u][t].status = "Open" /\ orders[u][t].id = id)

RemainingBase(o) == Greatest(o.base - o.filled, 0)

\* mutant of CanOpen: a reduce-only market still opens
OpensUnlessPaused(m) == market[m].status # "Paused"

\* Market::require_can_open and require_can_reduce
CanOpen(m)   == market[m].status = "Active"
CanReduce(m) == market[m].status \in {"Active", "ReduceOnly"}

\* oracle.rs load_oracle_price: positive, fresh and confident enough
OracleUsable(m) ==
    /\ oracle[m].exists
    /\ oracle[m].price > 0
    /\ clock - oracle[m].ts \in 0 .. MaxOracleStaleness
    /\ oracle[m].conf <= (oracle[m].price * MaxOracleConfidenceBps) \div BPS_DENOMINATOR

\* mutant of MeetsInitialMargin: open profit and loss is not counted
CollateralMeetsInitial(collateral, pos, m) ==
    collateral >= MarginRequirement(PositionNotional(pos.base, oracle[m].price),
                                    market[m].imr)

\* the check after a trade or a withdrawal: only the position in m is counted
MeetsInitialMargin(collateral, pos, m) ==
    MeetsMargin(collateral, pos, oracle[m].price, market[m].imr)

=============================================================================
