-------------------------------- MODULE Preview --------------------------------
(***************************************************************************)
(* What the order ticket tells a trader before a market order: the SDK's     *)
(* mirror of the program's arithmetic (packages/sdk/src/math.ts) applied to   *)
(* the pool as the page last read it.  Prices and money that the page holds   *)
(* as floating-point numbers are fractions here: numerators over a common     *)
(* denominator.                                                             *)
(***************************************************************************)
EXTENDS SwapCurve

CONSTANTS
    Deposits,       \* collateral of a fresh account
    Ratio,          \* the market's maintenance margin ratio
    FeeBps,         \* the taker fee
    HintPrices      \* oracle prices at which the liquidation hint is tried

\* no ticket previews a size of zero
ASSUME PreviewAssumption ==
    /\ 0 \notin TradeSizes
    /\ Deposits \subseteq Nat /\ HintPrices \subseteq Nat
    /\ {Ratio, FeeBps} \subseteq Nat

VARIABLE readPool  \* the pool as the page last read it

previewVars == <<curveVars, readPool>>

PreviewInit == CurveInit /\ readPool = pool

ReadPool == readPool' = pool /\ UNCHANGED curveVars

PreviewNext ==
    \/ ReadPool
    \/ \E n \in TradeSizes : (Buy(n) \/ Sell(n)) /\ UNCHANGED readPool

PreviewSpec == PreviewInit /\ [][PreviewNext]_previewVars

---------------------------------------------------------------------------
(* math.ts.                                                                *)

\* mutant of previewDivCeil: BigInt division rounds down
previewDivFloor(a, b) == a \div b

previewDivCeil(a, b) == IF a = 0 THEN 0 ELSE (a - 1) \div b + 1

Throws == [newBase |-> 0, newQuote |-> 0, quote |-> 0, avg |-> 0]

previewSwap(p, n, isBuy) ==
    LET newBase  == IF isBuy THEN p.base - n ELSE p.base + n
        newQuote == previewDivCeil(p.base * p.quote, newBase)
        delta    == IF isBuy THEN newQuote - p.quote ELSE p.quote - newQuote
        quote    == (delta * p.peg) \div AMM_RESERVE_PRECISION
    IN  IF newBase <= 0 THEN Throws
        ELSE [newBase |-> newBase, newQuote |-> newQuote, quote |-> quote,
              avg |-> (quote * BASE_PRECISION) \div n]

\* liquidationPriceApprox as a fraction: what is over HintDenominator.
HintNumerator(isLong, n, entry, collateral) ==
    MARGIN_PRECISION * (IF isLong THEN n * entry - collateral * BASE_PRECISION
                        ELSE n * entry + collateral * BASE_PRECISION)
HintDenominator(isLong, n) ==
    n * (IF isLong THEN MARGIN_PRECISION - Ratio ELSE MARGIN_PRECISION + Ratio)

---------------------------------------------------------------------------
(* OrderTicket's preview of a market order.                                *)

\* The fee shown, over BPS_DENOMINATOR * BASE_PRECISION.
FeeShown(n, sw) == n * sw.avg * FeeBps

\* The pool, the quote and the fee of a market order: the program's own.
Dir(isBuy) == IF isBuy THEN "Remove" ELSE "Add"

SwapAgrees(n, isBuy) ==
    LET sw    == previewSwap(readPool, n, isBuy)
        quote == SwapQuote(pool, n, Dir(isBuy))
        fee   == FeeAmount(quote, FeeBps) * BPS_DENOMINATOR * BASE_PRECISION
    IN  IF ~SwapAllowed(pool, n, Dir(isBuy)) THEN sw = Throws
        ELSE /\ Swapped(pool, n, Dir(isBuy)).base = sw.newBase
             /\ Swapped(pool, n, Dir(isBuy)).quote = sw.newQuote
             /\ quote = sw.quote
             /\ fee - FeeShown(n, sw) \in 0 .. n * FeeBps + BPS_DENOMINATOR * BASE_PRECISION

\* The position such an order opens.
Opened(n, isLong, quote) ==
    [base |-> IF isLong THEN n ELSE -n, quoteEntry |-> IF isLong THEN -quote ELSE quote]

\* How far price is on the safe side of the hint, in the terms of the margin formula.
SafeBy(isLong, n, entry, collateral, price) ==
    LET d == price * HintDenominator(isLong, n) - HintNumerator(isLong, n, entry, collateral)
    IN  IF isLong THEN d ELSE -d

HintAgrees(n, isLong, collateral, price) ==
    LET sw   == previewSwap(readPool, n, isLong)
        safe == SafeBy(isLong, n, sw.avg, collateral, price)
        unit == BASE_PRECISION * (2 * MARGIN_PRECISION + Ratio) + n * MARGIN_PRECISION
        ok   == MeetsMargin(collateral, Opened(n, isLong, sw.quote), price, Ratio)
    IN  sw # Throws => (safe >= unit => ok) /\ (safe <= -unit => ~ok)

---------------------------------------------------------------------------
(* Properties.                                                             *)

\* "Mirror of on-chain calculate_swap": on a pool no one has traded with since it was
\* read, the ticket previews exactly the fill, refuses what the program refuses, and
\* its fee is at most a unit short; and on any pool the liquidation price it shows
\* divides the prices the program calls healthy from those it does not, up to the
\* rounding of two quote units, of their margin and of one unit of the entry price.
PreviewMatchesProgram ==
    \A n \in TradeSizes, isBuy \in BOOLEAN :
        /\ readPool = pool => SwapAgrees(n, isBuy)
        /\ \A c \in Deposits, p \in HintPrices : HintAgrees(n, isBuy, c, p)

===============================================================================
