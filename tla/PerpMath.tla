------------------------------- MODULE PerpMath -------------------------------
(***************************************************************************)
(* The fixed-point arithmetic of programs/impl-perps/src/math: the swap    *)
(* curve, margin, fees, profit and loss, funding and liquidation.          *)
(*                                                                         *)
(* The precisions of constants.rs are parameters, so that the same         *)
(* definitions can be model-checked at a scale TLC's integers can hold and  *)
(* proved for every scale.  The program's checked arithmetic (math/safe.rs) *)
(* turns an overflow into a rejected instruction; the magnitudes modelled   *)
(* are far from those limits, so those rejections do not appear.  The one   *)
(* UNCHECKED conversion, "base_amount as i64", keeps its width (AsI64).     *)
(***************************************************************************)
EXTENDS Integers

CONSTANTS
    BASE_PRECISION,          \* 1e9: units of base in 1.0
    AMM_RESERVE_PRECISION,   \* 1e9: units of the virtual reserves in 1.0
    MARGIN_PRECISION,        \* 1e4: a margin ratio of 100%
    BPS_DENOMINATOR,         \* 1e4: a fee of 100%
    FUNDING_RATE_PRECISION,  \* 1e9: a funding rate of 100%
    MAX_FUNDING_RATE,        \* the clamp on one funding rate
    DAY_SECONDS,             \* 24 * 3600
    I64_MAX                  \* 2^63 - 1

ASSUME PrecisionAssumption ==
    /\ BASE_PRECISION \in Nat \ {0}
    /\ AMM_RESERVE_PRECISION \in Nat \ {0}
    /\ MARGIN_PRECISION \in Nat \ {0}
    /\ BPS_DENOMINATOR \in Nat \ {0}
    /\ FUNDING_RATE_PRECISION \in Nat \ {0}
    /\ MAX_FUNDING_RATE \in Nat
    /\ DAY_SECONDS \in Nat \ {0}
    /\ I64_MAX \in Nat \ {0}

-----------------------------------------------------------------------------
(* Integer helpers *)

Least(a, b)    == IF a <= b THEN a ELSE b
Greatest(a, b) == IF a >= b THEN a ELSE b
Magnitude(a)   == IF a >= 0 THEN a ELSE -a

\* Rust's signed division truncates toward zero; TLA+'s \div rounds down.
TruncDiv(a, b) == IF a >= 0 THEN a \div b ELSE -((-a) \div b)

\* mutant of DivCeil: rounds down
DivFloor(a, b) == a \div b

\* math/safe.rs div_ceil
DivCeil(a, b) == IF a = 0 THEN 0 ELSE ((a - 1) \div b) + 1

\* "x as i64" of a u64: the upper half of the range wraps to the negatives.
AsI64(x) == IF x <= I64_MAX THEN x ELSE x - 2 * (I64_MAX + 1)

-----------------------------------------------------------------------------
(* math/amm.rs: a swap of n base on the curve base * quote = k.            *)
(* "Remove" takes base out of the pool (a buy), "Add" puts it in (a sell). *)

NewBaseReserve(pool, n, dir) == IF dir = "Add" THEN pool.base + n ELSE pool.base - n

\* calculate_swap's require!s
SwapAllowed(pool, n, dir) == n > 0 /\ NewBaseReserve(pool, n, dir) > 0

\* rounded up, so that the product of the reserves never falls
NewQuoteReserve(pool, n, dir) ==
    DivCeil(pool.base * pool.quote, NewBaseReserve(pool, n, dir))

\* mutant of SwapQuote: the precision of the reserves is not taken out
SwapQuoteRaw(pool, n, dir) ==
    Magnitude(NewQuoteReserve(pool, n, dir) - pool.quote) * pool.peg

\* reserve units converted to quote, rounded down in both directions
SwapQuote(pool, n, dir) ==
    LET delta == IF dir = "Remove"
                 THEN NewQuoteReserve(pool, n, dir) - pool.quote
                 ELSE pool.quote - NewQuoteReserve(pool, n, dir)
    IN  (delta * pool.peg) \div AMM_RESERVE_PRECISION

Swapped(pool, n, dir) ==
    [pool EXCEPT !.base  = NewBaseReserve(pool, n, dir),
                 !.quote = NewQuoteReserve(pool, n, dir)]

MarkPrice(pool) == (pool.quote * pool.peg) \div pool.base

\* the average price of a fill, as the slippage guard computes it
AvgPrice(quote, base) == (quote * BASE_PRECISION) \div base

-----------------------------------------------------------------------------
(* math/margin.rs, math/pnl.rs and math/liquidation.rs *)

PositionNotional(base, price) == (Magnitude(base) * price) \div BASE_PRECISION
MarginRequirement(notional, ratio) == (notional * ratio) \div MARGIN_PRECISION
FeeAmount(notional, bps) == DivCeil(notional * bps, BPS_DENOMINATOR)
LiquidationFee(notional, bps) == (notional * bps) \div BPS_DENOMINATOR

UnrealizedPnl(pos, price) == TruncDiv(pos.base * price, BASE_PRECISION) + pos.quoteEntry

\* the margin calculation over the one position an instruction adds to it
MeetsMargin(collateral, pos, price, ratio) ==
    collateral + UnrealizedPnl(pos, price)
        >= MarginRequirement(PositionNotional(pos.base, price), ratio)

-----------------------------------------------------------------------------
(* math/funding.rs *)

Clamp(x, bound) == IF x > bound THEN bound ELSE IF x < -bound THEN -bound ELSE x

CalculateFundingRate(markTwap, oracleTwap, period) ==
    LET rate == TruncDiv((markTwap - oracleTwap) * FUNDING_RATE_PRECISION, oracleTwap)
    IN  Clamp(TruncDiv(rate * period, DAY_SECONDS), MAX_FUNDING_RATE)

FundingDeltaPerBase(rate, oraclePrice) ==
    TruncDiv(rate * oraclePrice, FUNDING_RATE_PRECISION)

\* positive: the position pays
FundingPayment(base, cumNow, cumLast) ==
    TruncDiv(base * (cumNow - cumLast), BASE_PRECISION)

UpdateTwap(old, current, elapsed, window) ==
    IF elapsed <= 0 \/ old = 0 THEN current
    ELSE LET span   == Greatest(window, 1)
             weight == Least(elapsed, span)
         IN  (old * (span - weight) + current * weight) \div span

=============================================================================
