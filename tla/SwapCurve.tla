------------------------------ MODULE SwapCurve ------------------------------
(***************************************************************************)
(* The virtual AMM on its own: one trader against one pool, buying and      *)
(* selling in pieces of any size, and the money that changes hands before   *)
(* fees (calculate_swap in programs/impl-perps/src/math/amm.rs).            *)
(***************************************************************************)
EXTENDS PerpMath

CONSTANTS
    StartPools,   \* the pools a market may be created with
    TradeSizes,   \* base amounts of one swap
    MaxSwaps      \* bound: swaps of one behaviour

ASSUME CurveAssumption ==
    /\ StartPools \subseteq [base : Nat \ {0}, quote : Nat \ {0}, peg : Nat]
    /\ TradeSizes \subseteq Nat
    /\ MaxSwaps \in Nat

VARIABLES
    pool,    \* Amm: base, quote and peg
    start,   \* the pool the market was created with
    held,    \* base the trader has bought (or, below zero, sold)
    cash,    \* quote the trader has taken out (or, below zero, paid in)
    buys,    \* swaps that took base out of the pool
    sells    \* swaps that put base into the pool

curveVars == <<pool, start, held, cash, buys, sells>>

CurveInit ==
    /\ start \in StartPools
    /\ pool = start
    /\ held = 0
    /\ cash = 0
    /\ buys = 0
    /\ sells = 0

Buy(n) ==
    /\ buys + sells < MaxSwaps
    /\ SwapAllowed(pool, n, "Remove")
    /\ pool' = Swapped(pool, n, "Remove")
    /\ held' = held + n
    /\ cash' = cash - SwapQuote(pool, n, "Remove")
    /\ buys' = buys + 1
    /\ UNCHANGED <<start, sells>>

Sell(n) ==
    /\ buys + sells < MaxSwaps
    /\ SwapAllowed(pool, n, "Add")
    /\ pool' = Swapped(pool, n, "Add")
    /\ held' = held - n
    /\ cash' = cash + SwapQuote(pool, n, "Add")
    /\ sells' = sells + 1
    /\ UNCHANGED <<start, buys>>

\* a trader out of swaps stops
CurveNext == \E n \in TradeSizes : Buy(n) \/ Sell(n)

CurveSpec == CurveInit /\ [][CurveNext]_curveVars

-----------------------------------------------------------------------------
\* the trader's books mirror the pool's: the cash that changed hands is what the
\* quote reserve gained, priced at the peg, less at most the rounding of one quote
\* unit per swap: every buy is rounded for the trader, every sell against.
CashFollowsReserves ==
    LET exact == (pool.quote - start.quote) * pool.peg
        paid  == (-cash) * AMM_RESERVE_PRECISION
    IN  /\ paid >= exact - buys * (AMM_RESERVE_PRECISION - 1)
        /\ paid <= exact + sells * (AMM_RESERVE_PRECISION - 1)

\* who ends flat has gained less than one quote unit per buy
RoundTripGainIsRounding == (held = 0 /\ buys > 0) => cash < buys

\* No sequence of swaps takes value out of the pool beyond what calculate_swap rounds:
\* the cash follows the reserves up to a unit per swap, and a trader who is flat again
\* has gained less than one unit per buy.
RoundingIsTheOnlyLeak == CashFollowsReserves /\ RoundTripGainIsRounding

=============================================================================
