------------------------------ MODULE PriceProofs ------------------------------
(***************************************************************************)
(* Prices off the program's hot path, for every pool, size and precision:     *)
(* what the rounding of calculate_swap is worth to a trader who ends flat,    *)
(* whether the order ticket previews what the program does, and whether a     *)
(* price accepted from Pyth is as narrow as it was published.                *)
(***************************************************************************)
EXTENDS Preview, PythFeed, PerpMathLemmas

PoolType == [base : Nat \ {0}, quote : Nat, peg : Nat]

\* the strengthening: the pool's base mirrors the trader's, its reserves multiply
\* to no less than at the start, and the books agree up to the rounding
CurveTypeOK ==
    /\ start \in [base : Nat \ {0}, quote : Nat \ {0}, peg : Nat]
    /\ pool \in PoolType
    /\ pool.peg = start.peg
    /\ held \in Int
    /\ cash \in Int
    /\ buys \in Nat
    /\ sells \in Nat

BaseConserved == pool.base + held = start.base
ProductKept   == pool.base * pool.quote >= start.base * start.quote

CurveInv == CurveTypeOK /\ BaseConserved /\ ProductKept /\ CashFollowsReserves

\* A swap leaves a pool of the same peg whose base moved by exactly n and whose
\* reserves multiply to no less than before.
LEMMA SwappedPool ==
    ASSUME NEW p \in PoolType, NEW n \in Nat, NEW dir \in {"Add", "Remove"},
           SwapAllowed(p, n, dir)
    PROVE  /\ Swapped(p, n, dir) \in PoolType
           /\ Swapped(p, n, dir).peg = p.peg
           /\ Swapped(p, n, dir).base = NewBaseReserve(p, n, dir)
           /\ Swapped(p, n, dir).quote = NewQuoteReserve(p, n, dir)
           /\ Swapped(p, n, dir).base * Swapped(p, n, dir).quote >= p.base * p.quote
  <1> DEFINE b == NewBaseReserve(p, n, dir)
             q == NewQuoteReserve(p, n, dir)
  <1>1. p.base \in Nat /\ p.quote \in Nat
    BY DEF PoolType
  <1>2. b \in Nat \ {0}
    BY <1>1, NewReserves
  <1>3. q \in Nat /\ b * q >= p.base * p.quote
    BY <1>1, NewReserves
  <1>4. Swapped(p, n, dir) = [p EXCEPT !.base = b, !.quote = q]
    BY DEF Swapped
  <1>5. b = NewBaseReserve(p, n, dir) /\ q = NewQuoteReserve(p, n, dir)
    BY DEF b, q
  <1> HIDE DEF b, q
  <1>6. /\ Swapped(p, n, dir).base = b
        /\ Swapped(p, n, dir).quote = q
        /\ Swapped(p, n, dir).peg = p.peg
    BY <1>4 DEF PoolType
  <1>7. Swapped(p, n, dir) \in PoolType
    BY <1>2, <1>3, <1>4 DEF PoolType
  <1> QED
    BY <1>3, <1>5, <1>6, <1>7

\* The quote of a swap is the exact value of the reserves moved, rounded down.
LEMMA SwapQuoteBounds ==
    ASSUME NEW p \in PoolType, NEW n \in Nat, NEW dir \in {"Add", "Remove"},
           SwapAllowed(p, n, dir),
           NEW exact \in Int,
           exact = (IF dir = "Remove" THEN NewQuoteReserve(p, n, dir) - p.quote
                    ELSE p.quote - NewQuoteReserve(p, n, dir)) * p.peg
    PROVE  /\ SwapQuote(p, n, dir) \in Int
           /\ SwapQuote(p, n, dir) * AMM_RESERVE_PRECISION <= exact
           /\ SwapQuote(p, n, dir) * AMM_RESERVE_PRECISION
                >= exact - (AMM_RESERVE_PRECISION - 1)
  <1>1. SwapQuote(p, n, dir) = exact \div AMM_RESERVE_PRECISION
    BY DEF SwapQuote
  <1>2. AMM_RESERVE_PRECISION \in Nat \ {0}
    BY PrecisionAssumption
  <1>3. /\ exact \div AMM_RESERVE_PRECISION \in Int
        /\ (exact \div AMM_RESERVE_PRECISION) * AMM_RESERVE_PRECISION <= exact
        /\ exact < (exact \div AMM_RESERVE_PRECISION) * AMM_RESERVE_PRECISION
                     + AMM_RESERVE_PRECISION
    BY <1>2, DivBounds
  <1> DEFINE x == exact \div AMM_RESERVE_PRECISION
             y == x * AMM_RESERVE_PRECISION
  <1>4. y \in Int
    BY <1>2, <1>3
  <1>5. y >= exact - (AMM_RESERVE_PRECISION - 1)
    <2>1. y \in Int /\ exact < y + AMM_RESERVE_PRECISION
      BY <1>3, <1>4
    <2> HIDE DEF x, y
    <2> QED
      BY <2>1, <1>2
  <1> QED
    BY <1>1, <1>3, <1>5

\* The initial pool satisfies the strengthening.
LEMMA CurveInitInv == CurveInit => CurveInv
  <1> SUFFICES ASSUME CurveInit PROVE CurveInv
    OBVIOUS
  <1>1. start \in [base : Nat \ {0}, quote : Nat \ {0}, peg : Nat]
    BY CurveAssumption DEF CurveInit
  <1>2. CurveTypeOK
    BY <1>1 DEF CurveInit, CurveTypeOK, PoolType
  <1>3. BaseConserved /\ ProductKept
    BY <1>1 DEF CurveInit, BaseConserved, ProductKept
  <1>4. CashFollowsReserves
    BY <1>1, PrecisionAssumption DEF CurveInit, CashFollowsReserves
  <1> QED
    BY <1>2, <1>3, <1>4 DEF CurveInv

\* A buy keeps it: the cost is rounded down, once.
LEMMA BuyKeepsInv ==
    ASSUME CurveInv, NEW n \in Nat, Buy(n)
    PROVE  CurveInv'
  <1> USE DEF CurveInv
  <1>1. /\ pool \in PoolType
        /\ SwapAllowed(pool, n, "Remove")
        /\ pool' = Swapped(pool, n, "Remove")
    BY DEF CurveTypeOK, Buy
  <1>2. /\ pool' \in PoolType
        /\ pool'.peg = pool.peg
        /\ pool'.base = pool.base - n
        /\ pool'.quote = NewQuoteReserve(pool, n, "Remove")
        /\ pool'.base * pool'.quote >= pool.base * pool.quote
    BY <1>1, SwappedPool DEF NewBaseReserve
  <1> DEFINE cost == SwapQuote(pool, n, "Remove")
             moved == (pool'.quote - pool.quote) * pool.peg
  <1>3. moved \in Int
    BY <1>1, <1>2 DEF PoolType
  <1>4. /\ cost \in Int
        /\ cost * AMM_RESERVE_PRECISION <= moved
        /\ cost * AMM_RESERVE_PRECISION >= moved - (AMM_RESERVE_PRECISION - 1)
    <2>1. moved = (IF "Remove" = "Remove" THEN NewQuoteReserve(pool, n, "Remove") - pool.quote
                   ELSE pool.quote - NewQuoteReserve(pool, n, "Remove")) * pool.peg
      BY <1>2
    <2> QED
      BY <1>1, <1>3, <2>1, SwapQuoteBounds
  <1>5. CurveTypeOK'
    BY <1>2, <1>4 DEF CurveTypeOK, Buy
  <1>6. BaseConserved'
    BY <1>1, <1>2 DEF BaseConserved, Buy, CurveTypeOK, PoolType
  <1>7. ProductKept'
    <2>1. pool.base * pool.quote \in Int /\ pool'.base * pool'.quote \in Int
      BY <1>1, <1>2 DEF PoolType
    <2>2. start' = start /\ start.base * start.quote \in Int
      BY DEF Buy, CurveTypeOK
    <2> QED
      BY <1>2, <2>1, <2>2 DEF ProductKept
  <1>8. CashFollowsReserves'
    <2> DEFINE exact == (pool.quote - start.quote) * pool.peg
               paid  == (-cash) * AMM_RESERVE_PRECISION
               costP == cost * AMM_RESERVE_PRECISION
    <2>1. /\ paid \in Int
          /\ exact \in Int
          /\ costP \in Int
          /\ AMM_RESERVE_PRECISION \in Nat \ {0}
          /\ buys \in Nat
          /\ sells \in Nat
      BY <1>1, <1>4, PrecisionAssumption DEF CurveTypeOK, PoolType
    <2>2. exact' = exact + moved
      BY <1>1, <1>2 DEF Buy, CurveTypeOK, PoolType
    <2>3. paid' = paid + costP
      BY <1>4, <2>1 DEF Buy, CurveTypeOK
    <2>4. buys' * (AMM_RESERVE_PRECISION - 1)
            = buys * (AMM_RESERVE_PRECISION - 1) + (AMM_RESERVE_PRECISION - 1)
      BY <2>1 DEF Buy
    <2>5. buys * (AMM_RESERVE_PRECISION - 1) \in Int /\ sells * (AMM_RESERVE_PRECISION - 1) \in Int
      BY <2>1
    <2>6. /\ paid >= exact - buys * (AMM_RESERVE_PRECISION - 1)
          /\ paid <= exact + sells * (AMM_RESERVE_PRECISION - 1)
      BY DEF CashFollowsReserves
    <2>7. sells' = sells
      BY DEF Buy
    <2>8. costP <= moved /\ costP >= moved - (AMM_RESERVE_PRECISION - 1)
      BY <1>4
    <2>9. /\ paid' >= exact' - buys' * (AMM_RESERVE_PRECISION - 1)
          /\ paid' <= exact' + sells' * (AMM_RESERVE_PRECISION - 1)
      <3> HIDE DEF exact, paid, costP, moved
      <3> DEFINE r == AMM_RESERVE_PRECISION - 1
                 br == buys * (AMM_RESERVE_PRECISION - 1)
                 sr == sells * (AMM_RESERVE_PRECISION - 1)
      <3>1. /\ r \in Int
            /\ br \in Int
            /\ sr \in Int
            /\ buys' * (AMM_RESERVE_PRECISION - 1) = br + r
            /\ sells' * (AMM_RESERVE_PRECISION - 1) = sr
            /\ paid >= exact - br
            /\ paid <= exact + sr
            /\ costP <= moved
            /\ costP >= moved - r
        BY <2>1, <2>4, <2>5, <2>6, <2>7, <2>8
      <3> HIDE DEF r, br, sr
      <3> QED
        BY <1>3, <2>1, <2>2, <2>3, <3>1
    <2> QED
      BY <2>9 DEF CashFollowsReserves
  <1> QED
    BY <1>5, <1>6, <1>7, <1>8

\* A sale keeps it: the proceeds are rounded down, once.
LEMMA SellKeepsInv ==
    ASSUME CurveInv, NEW n \in Nat, Sell(n)
    PROVE  CurveInv'
  <1> USE DEF CurveInv
  <1>1. /\ pool \in PoolType
        /\ SwapAllowed(pool, n, "Add")
        /\ pool' = Swapped(pool, n, "Add")
    BY DEF CurveTypeOK, Sell
  <1>2. /\ pool' \in PoolType
        /\ pool'.peg = pool.peg
        /\ pool'.base = pool.base + n
        /\ pool'.quote = NewQuoteReserve(pool, n, "Add")
        /\ pool'.base * pool'.quote >= pool.base * pool.quote
    BY <1>1, SwappedPool DEF NewBaseReserve
  <1> DEFINE gain == SwapQuote(pool, n, "Add")
             moved == (pool.quote - pool'.quote) * pool.peg
  <1>3. moved \in Int
    BY <1>1, <1>2 DEF PoolType
  <1>4. /\ gain \in Int
        /\ gain * AMM_RESERVE_PRECISION <= moved
        /\ gain * AMM_RESERVE_PRECISION >= moved - (AMM_RESERVE_PRECISION - 1)
    <2>1. moved = (IF "Add" = "Remove" THEN NewQuoteReserve(pool, n, "Add") - pool.quote
                   ELSE pool.quote - NewQuoteReserve(pool, n, "Add")) * pool.peg
      BY <1>2
    <2> QED
      BY <1>1, <1>3, <2>1, SwapQuoteBounds
  <1>5. CurveTypeOK'
    BY <1>2, <1>4 DEF CurveTypeOK, Sell
  <1>6. BaseConserved'
    BY <1>1, <1>2 DEF BaseConserved, Sell, CurveTypeOK, PoolType
  <1>7. ProductKept'
    <2>1. pool.base * pool.quote \in Int /\ pool'.base * pool'.quote \in Int
      BY <1>1, <1>2 DEF PoolType
    <2>2. start' = start /\ start.base * start.quote \in Int
      BY DEF Sell, CurveTypeOK
    <2> QED
      BY <1>2, <2>1, <2>2 DEF ProductKept
  <1>8. CashFollowsReserves'
    <2> DEFINE exact == (pool.quote - start.quote) * pool.peg
               paid  == (-cash) * AMM_RESERVE_PRECISION
               gainP == gain * AMM_RESERVE_PRECISION
    <2>1. /\ paid \in Int
          /\ exact \in Int
          /\ gainP \in Int
          /\ AMM_RESERVE_PRECISION \in Nat \ {0}
          /\ buys \in Nat
          /\ sells \in Nat
      BY <1>1, <1>4, PrecisionAssumption DEF CurveTypeOK, PoolType
    <2>2. exact' = exact - moved
      BY <1>1, <1>2 DEF Sell, CurveTypeOK, PoolType
    <2>3. paid' = paid - gainP
      BY <1>4, <2>1 DEF Sell, CurveTypeOK
    <2>4. sells' * (AMM_RESERVE_PRECISION - 1)
            = sells * (AMM_RESERVE_PRECISION - 1) + (AMM_RESERVE_PRECISION - 1)
      BY <2>1 DEF Sell
    <2>5. buys * (AMM_RESERVE_PRECISION - 1) \in Int /\ sells * (AMM_RESERVE_PRECISION - 1) \in Int
      BY <2>1
    <2>6. /\ paid >= exact - buys * (AMM_RESERVE_PRECISION - 1)
          /\ paid <= exact + sells * (AMM_RESERVE_PRECISION - 1)
      BY DEF CashFollowsReserves
    <2>7. buys' = buys
      BY DEF Sell
    <2>8. gainP <= moved /\ gainP >= moved - (AMM_RESERVE_PRECISION - 1)
      BY <1>4
    <2>9. /\ paid' >= exact' - buys' * (AMM_RESERVE_PRECISION - 1)
          /\ paid' <= exact' + sells' * (AMM_RESERVE_PRECISION - 1)
      <3> HIDE DEF exact, paid, gainP, moved
      <3> DEFINE r == AMM_RESERVE_PRECISION - 1
                 br == buys * (AMM_RESERVE_PRECISION - 1)
                 sr == sells * (AMM_RESERVE_PRECISION - 1)
      <3>1. /\ r \in Int
            /\ br \in Int
            /\ sr \in Int
            /\ buys' * (AMM_RESERVE_PRECISION - 1) = br
            /\ sells' * (AMM_RESERVE_PRECISION - 1) = sr + r
            /\ paid >= exact - br
            /\ paid <= exact + sr
            /\ gainP <= moved
            /\ gainP >= moved - r
        BY <2>1, <2>4, <2>5, <2>6, <2>7, <2>8
      <3> HIDE DEF r, br, sr
      <3> QED
        BY <1>3, <2>1, <2>2, <2>3, <3>1
    <2> QED
      BY <2>9 DEF CashFollowsReserves
  <1> QED
    BY <1>5, <1>6, <1>7, <1>8

\* The strengthening is inductive.
LEMMA CurveNextInv == CurveInv /\ [CurveNext]_curveVars => CurveInv'
  <1> SUFFICES ASSUME CurveInv, [CurveNext]_curveVars PROVE CurveInv'
    OBVIOUS
  <1>1. ASSUME NEW n \in TradeSizes, Buy(n) PROVE CurveInv'
    BY <1>1, BuyKeepsInv, CurveAssumption
  <1>2. ASSUME NEW n \in TradeSizes, Sell(n) PROVE CurveInv'
    BY <1>2, SellKeepsInv, CurveAssumption
  <1>3. CASE UNCHANGED curveVars
    BY <1>3 DEF curveVars, CurveInv, CurveTypeOK, BaseConserved, ProductKept,
                CashFollowsReserves
  <1> QED
    BY <1>1, <1>2, <1>3 DEF CurveNext

\* What the rounding of a trader's swaps can be worth follows from the
\* strengthening: when he is flat the pool's base is back where it was, so its quote
\* reserve is at least what it was, and he has paid for all but the rounding.
LEMMA FlatGainBounded == CurveInv => RoundTripGainIsRounding
  <1> SUFFICES ASSUME CurveInv, held = 0, buys > 0 PROVE cash < buys
    BY DEF RoundTripGainIsRounding
  <1>1. /\ pool.base = start.base
        /\ start.base \in Nat \ {0}
        /\ start.quote \in Nat
        /\ pool.quote \in Nat
        /\ pool.peg \in Nat
        /\ cash \in Int
        /\ buys \in Nat \ {0}
    BY DEF CurveInv, CurveTypeOK, BaseConserved, PoolType
  <1>2. start.base * start.quote <= start.base * pool.quote
    BY <1>1 DEF CurveInv, ProductKept
  <1>3. pool.quote >= start.quote
    BY <1>1, <1>2, Cancel
  <1>4. (pool.quote - start.quote) * pool.peg \in Nat
    BY <1>1, <1>3
  <1>5. AMM_RESERVE_PRECISION \in Nat \ {0}
    BY PrecisionAssumption
  <1>6. (-cash) * AMM_RESERVE_PRECISION
            >= (pool.quote - start.quote) * pool.peg - buys * (AMM_RESERVE_PRECISION - 1)
    BY DEF CurveInv, CashFollowsReserves
  <1>7. (-cash) * AMM_RESERVE_PRECISION >= -(buys * (AMM_RESERVE_PRECISION - 1))
    <2> DEFINE x == (pool.quote - start.quote) * pool.peg
               y == (-cash) * AMM_RESERVE_PRECISION
               z == buys * (AMM_RESERVE_PRECISION - 1)
    <2>1. x \in Nat /\ y \in Int /\ z \in Int /\ y >= x - z
      BY <1>1, <1>4, <1>5, <1>6
    <2> HIDE DEF x, y, z
    <2>2. y >= -z
      BY <2>1
    <2> QED
      BY <2>2 DEF y, z
  <1>8. AMM_RESERVE_PRECISION * cash < AMM_RESERVE_PRECISION * buys
    <2>1. (-cash) * AMM_RESERVE_PRECISION = -(AMM_RESERVE_PRECISION * cash)
      BY <1>1, <1>5
    <2>2. buys * (AMM_RESERVE_PRECISION - 1) = AMM_RESERVE_PRECISION * buys - buys
      BY <1>1, <1>5
    <2>3. AMM_RESERVE_PRECISION * cash \in Int /\ AMM_RESERVE_PRECISION * buys \in Int
      BY <1>1, <1>5
    <2> QED
      BY <1>1, <1>7, <2>1, <2>2, <2>3
  <1>9. ~(buys <= cash)
    <2> SUFFICES ASSUME buys <= cash PROVE FALSE
      OBVIOUS
    <2>1. cash - buys \in Nat
      BY <1>1
    <2>2. AMM_RESERVE_PRECISION * (cash - buys) \in Nat
      BY <1>5, <2>1
    <2>3. AMM_RESERVE_PRECISION * (cash - buys)
            = AMM_RESERVE_PRECISION * cash - AMM_RESERVE_PRECISION * buys
      BY <1>1, <1>5
    <2>4. AMM_RESERVE_PRECISION * cash \in Int /\ AMM_RESERVE_PRECISION * buys \in Int
      BY <1>1, <1>5
    <2> QED
      BY <1>8, <2>2, <2>3, <2>4
  <1> QED
    BY <1>1, <1>9

\* Whatever the pool, the precision and the sequence of swaps, the cash a trader has
\* taken out differs from the exact value of the reserves he moved by less than one
\* quote unit per swap (buys round for him, sales against him), and so no sequence that
\* ends flat gains one unit per buy or more: the only leak of calculate_swap is rounding.
THEOREM RoundingAlwaysTheOnlyLeak == CurveSpec => []RoundingIsTheOnlyLeak
  <1>1. CurveInv => RoundingIsTheOnlyLeak
    BY FlatGainBounded DEF CurveInv, RoundingIsTheOnlyLeak
  <1> QED
    BY <1>1, CurveInitInv, CurveNextInv, PTL DEF CurveSpec

-----------------------------------------------------------------------------
(* The ticket's preview. *)

\* div_ceil exceeds the exact quotient by less than one.
LEMMA DivCeilAbove ==
    ASSUME NEW a \in Nat, NEW b \in Nat \ {0}
    PROVE  b * DivCeil(a, b) <= a + b
  <1>1. CASE a = 0
    BY <1>1 DEF DivCeil
  <1>2. CASE a # 0
    <2> DEFINE d == (a - 1) \div b
    <2>1. a - 1 \in Nat
      BY <1>2
    <2>2. d \in Nat /\ d * b <= a - 1
      BY <2>1, DivBounds, DivOfNat
    <2>3. DivCeil(a, b) = d + 1
      BY <1>2 DEF DivCeil
    <2> HIDE DEF d
    <2>4. b * (d + 1) = d * b + b
      BY <2>2
    <2>5. d * b \in Int
      BY <2>2
    <2> QED
      BY <2>1, <2>2, <2>3, <2>4, <2>5
  <1> QED
    BY <1>1, <1>2

\* The page's fee is taken of the size at the rounded average price, the program's of
\* the quote, and rounded up: the page shows too little, by less than one quote unit
\* and the fee on one unit of the price.
LEMMA FeeShownClose ==
    ASSUME NEW quote \in Nat, NEW n \in Nat \ {0}, NEW bps \in Nat
    PROVE  FeeAmount(quote, bps) * BPS_DENOMINATOR * BASE_PRECISION
             - n * ((quote * BASE_PRECISION) \div n) * bps
           \in 0 .. n * bps + BPS_DENOMINATOR * BASE_PRECISION
  <1> DEFINE B == BASE_PRECISION
             D == BPS_DENOMINATOR
             w == quote * B
             a == w \div n
             x == quote * bps
             f == DivCeil(x, D)
  <1>1. B \in Nat \ {0} /\ D \in Nat \ {0} /\ w \in Nat /\ x \in Nat
    BY PrecisionAssumption
  <1>2. FeeAmount(quote, bps) = f
    BY DEF FeeAmount
  <1>3. x * B = w * bps
    BY <1>1
  <1> HIDE DEF B, D, w, x
  <1>4. a \in Int /\ a * n <= w /\ w < a * n + n
    BY <1>1, DivBounds
  <1>5. f \in Nat /\ D * f >= x /\ D * f <= x + D
    BY <1>1, DivCeilBounds, DivCeilAbove
  <1> HIDE DEF a, f
  <1>6. (a * n) * bps <= w * bps /\ w * bps <= (a * n) * bps + n * bps
    <2> DEFINE z == a * n
    <2>1. z \in Int /\ z <= w /\ w <= z + n
      BY <1>1, <1>4
    <2> HIDE DEF z
    <2>2. (w - z) * bps \in Nat /\ (z + n - w) * bps \in Nat
      BY <1>1, <2>1
    <2>3. (w - z) * bps = w * bps - z * bps /\ (z + n - w) * bps = z * bps + n * bps - w * bps
      BY <1>1, <2>1
    <2>4. z * bps \in Int /\ w * bps \in Int /\ n * bps \in Int
      BY <1>1, <2>1
    <2>5. z * bps <= w * bps /\ w * bps <= z * bps + n * bps
      BY <2>2, <2>3, <2>4
    <2> QED
      BY <2>5 DEF z
  <1>7. x * B <= (D * f) * B /\ (D * f) * B <= x * B + D * B
    <2> DEFINE z == D * f
    <2>1. z \in Int /\ x <= z /\ z <= x + D
      BY <1>1, <1>5
    <2> HIDE DEF z
    <2>2. (z - x) * B \in Nat /\ (x + D - z) * B \in Nat
      BY <1>1, <2>1
    <2>3. (z - x) * B = z * B - x * B /\ (x + D - z) * B = x * B + D * B - z * B
      BY <1>1, <2>1
    <2>4. z * B \in Int /\ x * B \in Int /\ D * B \in Int
      BY <1>1, <2>1
    <2>5. x * B <= z * B /\ z * B <= x * B + D * B
      BY <2>2, <2>3, <2>4
    <2> QED
      BY <2>5 DEF z
  <1>8. f * D * B = (D * f) * B /\ n * a * bps = (a * n) * bps
    BY <1>1, <1>4, <1>5
  <1>9. /\ f * D * B \in Int /\ n * a * bps \in Int /\ n * bps \in Int /\ D * B \in Int
        /\ w * bps \in Int
    BY <1>1, <1>4, <1>5
  <1>10. f * D * B - n * a * bps \in 0 .. n * bps + D * B
    BY <1>3, <1>6, <1>7, <1>8, <1>9
  <1> QED
    BY <1>2, <1>10 DEF B, D, w, a

\* M * k is X up to a remainder below M: so k has the sign of X.
LEMMA SignOfMargin ==
    ASSUME NEW B \in Nat \ {0}, NEW M \in Nat \ {0}, NEW X \in Int, NEW t \in 0 .. M - 1,
           NEW k \in Int, M * k = X + t
    PROVE  /\ B * X >= 0 => k >= 0
           /\ B * X <= -(B * M) => k < 0
  <1>1. ASSUME B * X >= 0 PROVE k >= 0
    <2>1. B * 0 <= B * X
      BY <1>1
    <2>2. 0 <= X
      BY <2>1, Cancel
    <2>3. ASSUME k < 0 PROVE FALSE
      <3>1. M * (-k) >= M
        BY <2>3
      <3>2. M * (-k) = -(M * k)
        OBVIOUS
      <3> QED
        BY <2>2, <3>1, <3>2
    <2> QED
      BY <2>3
  <1>2. ASSUME B * X <= -(B * M) PROVE k < 0
    <2>1. B * X <= B * (-M)
      BY <1>2
    <2>2. X <= -M
      BY <2>1, Cancel
    <2>3. ASSUME k >= 0 PROVE FALSE
      <3>1. M * k >= 0
        BY <2>3
      <3> QED
        BY <2>2, <3>1
    <2> QED
      BY <2>3
  <1> QED
    BY <1>1, <1>2

\* What rounding a quotient down leaves.
LEMMA Remainder ==
    ASSUME NEW a \in Nat, NEW d \in Nat \ {0}, NEW x, x = a \div d
    PROVE  x \in Nat /\ a - x * d \in Nat /\ a - x * d < d
  <1>1. a \div d \in Nat
    BY DivOfNat
  <1>2. (a \div d) * d <= a /\ a < (a \div d) * d + d
    BY DivBounds
  <1>3. x \in Nat /\ x * d <= a /\ a < x * d + d
    BY <1>1, <1>2
  <1>4. x * d \in Int
    BY <1>3
  <1> QED
    BY <1>3, <1>4

\* What three roundings leave, r of a value, s of an entry price and t of a margin
\* requirement, and the margin k they decide: M * k is X but for t.
Rounded(n, B, M, R, r, s, t, X, k) ==
    /\ n \in Nat \ {0} /\ B \in Nat \ {0} /\ M \in Nat \ {0} /\ R \in Nat
    /\ r \in 0 .. B - 1 /\ s \in 0 .. n - 1 /\ t \in 0 .. M - 1
    /\ X \in Int /\ k \in Int /\ M * k = X + t

\* The sign of k is safe's once safe is beyond unit.
Decides(safe, unit, k) ==
    (safe >= unit => k >= 0) /\ (safe <= -unit => k < 0)

\* A margin test is decided once the price is off the hint by the roundings.
LEMMA HintDecides ==
    ASSUME NEW n, NEW B, NEW M, NEW R, NEW r, NEW s, NEW t, NEW X, NEW k,
           Rounded(n, B, M, R, r, s, t, X, k)
    PROVE  /\ Decides(B * X + (r * M - r * R) + M * s, B * (2 * M + R) + n * M, k)
           /\ Decides(B * X - (r * M + r * R) - M * s, B * (2 * M + R) + n * M, k)
  <1> DEFINE unit == B * (2 * M + R) + n * M
  <1>0. /\ n \in Nat \ {0} /\ B \in Nat \ {0} /\ M \in Nat \ {0} /\ R \in Nat
        /\ r \in Nat /\ r < B /\ s \in Nat /\ s < n /\ t \in 0 .. M - 1
        /\ X \in Int /\ k \in Int /\ M * k = X + t
    BY DEF Rounded
  <1>1. /\ r * M \in Nat /\ r * R \in Nat /\ M * s \in Nat
        /\ B * M \in Nat /\ B * R \in Nat /\ n * M \in Nat /\ B * X \in Int
    BY <1>0
  <1>2. r * M <= B * M /\ r * R <= B * R
    <2>1. (B - r) * M \in Nat /\ (B - r) * R \in Nat
      BY <1>0
    <2>2. (B - r) * M = B * M - r * M /\ (B - r) * R = B * R - r * R
      BY <1>0
    <2> QED
      BY <1>1, <2>1, <2>2
  <1>3. M * s <= n * M
    <2>1. (n - s) * M \in Nat
      BY <1>0
    <2>2. (n - s) * M = n * M - M * s
      BY <1>0
    <2> QED
      BY <1>1, <2>1, <2>2
  <1>4. unit = 2 * (B * M) + B * R + n * M
    BY <1>0
  <1>5. ASSUME NEW safe,
               \/ safe = B * X + (r * M - r * R) + M * s
               \/ safe = B * X - (r * M + r * R) - M * s
        PROVE  Decides(safe, unit, k)
    <2> DEFINE bx == B * X
               rm == r * M
               rr == r * R
               ms == M * s
               bm == B * M
               br == B * R
               nm == n * M
    <2>1. /\ safe = bx + (rm - rr) + ms \/ safe = bx - (rm + rr) - ms
          /\ unit = 2 * bm + br + nm /\ rm <= bm /\ rr <= br /\ ms <= nm
          /\ bx \in Int /\ rm \in Nat /\ rr \in Nat /\ ms \in Nat
          /\ bm \in Nat /\ br \in Nat /\ nm \in Nat
      BY <1>1, <1>2, <1>3, <1>4, <1>5
    <2>2. (bx >= 0 => k >= 0) /\ (bx <= -bm => k < 0)
      BY <1>0, SignOfMargin
    <2> HIDE DEF unit, bx, rm, rr, ms, bm, br, nm
    <2>3. (safe >= unit => bx >= 0) /\ (safe <= -unit => bx <= -bm)
      BY <2>1
    <2> QED
      BY <2>2, <2>3 DEF Decides
  <1> QED
    BY <1>5

\* A long that paid q for n holds c of collateral and is worth v at the price: the
\* hint's sum decides whether its equity covers the requirement m.
LongDivides(n, q, c, price, R, B, M) ==
    LET v == (n * price) \div B
        m == (v * R) \div M
        e == (q * B) \div n
        safe == price * (n * (M - R)) - M * (n * e - c * B)
        unit == B * (2 * M + R) + n * M
    IN  (safe >= unit => c + (v - q) >= m) /\ (safe <= -unit => ~(c + (v - q) >= m))

LEMMA LongHint ==
    ASSUME NEW n \in Nat \ {0}, NEW q \in Nat, NEW c \in Nat, NEW price \in Nat,
           NEW R \in Nat, NEW B \in Nat \ {0}, NEW M \in Nat \ {0}
    PROVE  LongDivides(n, q, c, price, R, B, M)
  <1> SUFFICES ASSUME NEW v, v = (n * price) \div B, NEW m, m = (v * R) \div M,
                      NEW e, e = (q * B) \div n,
                      NEW safe, safe = price * (n * (M - R)) - M * (n * e - c * B),
                      NEW unit, unit = B * (2 * M + R) + n * M
               PROVE  /\ safe >= unit => c + (v - q) >= m
                      /\ safe <= -unit => ~(c + (v - q) >= m)
    BY DEF LongDivides
  <1> DEFINE a == n * price
             b == q * B
             g == v * R
             r == a - v * B
             s == b - e * n
             t == g - m * M
             X == (v * M - v * R) - (M * q - M * c)
             k == c + (v - q) - m
  <1>1. a \in Nat /\ b \in Nat
    OBVIOUS
  <1>2. v \in Nat /\ r \in Nat /\ r < B
    <2> HIDE DEF a
    <2>1. v = a \div B
      BY DEF a
    <2> QED
      BY <1>1, <2>1, Remainder
  <1>3. e \in Nat /\ s \in Nat /\ s < n
    <2> HIDE DEF b
    <2>1. e = b \div n
      BY DEF b
    <2> QED
      BY <1>1, <2>1, Remainder
  <1>4. m \in Nat /\ t \in Nat /\ t < M
    <2>0. g \in Nat
      BY <1>2
    <2> HIDE DEF g
    <2>1. m = g \div M
      BY DEF g
    <2> QED
      BY <2>0, <2>1, Remainder
  <1>5. X \in Int /\ k \in Int
    BY <1>2, <1>4
  <1>6. M * k = X + t
    <2>1. M * k = M * c + M * v - M * q - M * m
      BY <1>2, <1>4
    <2>2. /\ M * c \in Int /\ M * q \in Int /\ v * R \in Int
          /\ M * v \in Int /\ v * M = M * v /\ M * m \in Int /\ m * M = M * m
      BY <1>2, <1>4
    <2> QED
      BY <2>1, <2>2
  <1>7. safe = B * X + (r * M - r * R) + M * s
    <2>1. price * (n * (M - R)) = a * M - a * R
      OBVIOUS
    <2>2. a * M = r * M + B * (v * M) /\ a * R = r * R + B * (v * R)
      <3> DEFINE bv == v * B
      <3>1. a = r + bv /\ a \in Int /\ bv \in Int /\ r \in Int
        BY <1>1, <1>2
      <3>3. bv * M = B * (v * M) /\ bv * R = B * (v * R)
        BY <1>2
      <3> HIDE DEF a, r, bv
      <3>2. a * M = r * M + bv * M /\ a * R = r * R + bv * R
        BY <3>1
      <3> QED
        BY <3>2, <3>3
    <2>3. M * (n * e - c * B) = B * (M * q) - M * s - B * (M * c)
      <3> DEFINE en == e * n
                 cb == c * B
      <3>1. en = b - s /\ b \in Int /\ s \in Int /\ en \in Int /\ n * e = en /\ cb \in Int
        BY <1>1, <1>3
      <3>2. M * b = B * (M * q) /\ M * cb = B * (M * c)
        OBVIOUS
      <3> HIDE DEF b, s, en
      <3>3. M * (n * e - c * B) = M * (en - cb)
        BY <3>1
      <3> HIDE DEF cb
      <3>4. M * (en - cb) = M * b - M * s - M * cb
        BY <3>1
      <3> QED
        BY <3>2, <3>3, <3>4
    <2> DEFINE vm == v * M
               vr == v * R
               mq == M * q
               mc == M * c
    <2>4. vm \in Int /\ vr \in Int /\ mq \in Int /\ mc \in Int
      BY <1>2
    <2>5. B * X = B * vm - B * vr - B * mq + B * mc
      <3>1. X = (vm - vr) - (mq - mc)
        OBVIOUS
      <3> HIDE DEF X, vm, vr, mq, mc
      <3> QED
        BY <2>4, <3>1
    <2>6. /\ B * vm \in Int /\ B * vr \in Int /\ B * mq \in Int /\ B * mc \in Int
          /\ r * M \in Int /\ r * R \in Int /\ M * s \in Int
      BY <2>4, <1>2, <1>3
    <2>7. safe = (a * M - a * R) - (B * mq - M * s - B * mc)
      BY <2>1, <2>3
    <2>8. a * M = r * M + B * vm /\ a * R = r * R + B * vr
      BY <2>2
    <2> HIDE DEF a, r, s, X, vm, vr, mq, mc
    <2> QED
      BY <2>5, <2>6, <2>7, <2>8
  <1> HIDE DEF a, b, g, r, s, t, X, k
  <1>8. (safe >= unit => k >= 0) /\ (safe <= -unit => k < 0)
    <2>1. Rounded(n, B, M, R, r, s, t, X, k)
      BY <1>2, <1>3, <1>4, <1>5, <1>6 DEF Rounded
    <2>2. Decides(B * X + (r * M - r * R) + M * s, B * (2 * M + R) + n * M, k)
      BY <2>1, HintDecides
    <2>3. Decides(safe, unit, k)
      BY <1>7, <2>2
    <2> QED
      BY <2>3 DEF Decides
  <1>9. k = c + (v - q) - m
    BY DEF k
  <1> QED
    BY <1>2, <1>4, <1>8, <1>9

\* A short that received q for n owes v at the price.
ShortDivides(n, q, c, price, R, B, M) ==
    LET v == (n * price) \div B
        m == (v * R) \div M
        e == (q * B) \div n
        safe == M * (n * e + c * B) - price * (n * (M + R))
        unit == B * (2 * M + R) + n * M
    IN  (safe >= unit => c + (q - v) >= m) /\ (safe <= -unit => ~(c + (q - v) >= m))

LEMMA ShortHint ==
    ASSUME NEW n \in Nat \ {0}, NEW q \in Nat, NEW c \in Nat, NEW price \in Nat,
           NEW R \in Nat, NEW B \in Nat \ {0}, NEW M \in Nat \ {0}
    PROVE  ShortDivides(n, q, c, price, R, B, M)
  <1> SUFFICES ASSUME NEW v, v = (n * price) \div B, NEW m, m = (v * R) \div M,
                      NEW e, e = (q * B) \div n,
                      NEW safe, safe = M * (n * e + c * B) - price * (n * (M + R)),
                      NEW unit, unit = B * (2 * M + R) + n * M
               PROVE  /\ safe >= unit => c + (q - v) >= m
                      /\ safe <= -unit => ~(c + (q - v) >= m)
    BY DEF ShortDivides
  <1> DEFINE a == n * price
             b == q * B
             g == v * R
             r == a - v * B
             s == b - e * n
             t == g - m * M
             X == (M * q + M * c) - (v * M + v * R)
             k == c + (q - v) - m
  <1>1. a \in Nat /\ b \in Nat
    OBVIOUS
  <1>2. v \in Nat /\ r \in Nat /\ r < B
    <2> HIDE DEF a
    <2>1. v = a \div B
      BY DEF a
    <2> QED
      BY <1>1, <2>1, Remainder
  <1>3. e \in Nat /\ s \in Nat /\ s < n
    <2> HIDE DEF b
    <2>1. e = b \div n
      BY DEF b
    <2> QED
      BY <1>1, <2>1, Remainder
  <1>4. m \in Nat /\ t \in Nat /\ t < M
    <2>0. g \in Nat
      BY <1>2
    <2> HIDE DEF g
    <2>1. m = g \div M
      BY DEF g
    <2> QED
      BY <2>0, <2>1, Remainder
  <1>5. X \in Int /\ k \in Int
    BY <1>2, <1>4
  <1>6. M * k = X + t
    <2>1. M * k = M * c + M * q - M * v - M * m
      BY <1>2, <1>4
    <2>2. /\ M * c \in Int /\ M * q \in Int /\ v * R \in Int
          /\ M * v \in Int /\ v * M = M * v /\ M * m \in Int /\ m * M = M * m
      BY <1>2, <1>4
    <2> QED
      BY <2>1, <2>2
  <1>7. safe = B * X - (r * M + r * R) - M * s
    <2>1. price * (n * (M + R)) = a * M + a * R
      OBVIOUS
    <2>2. a * M = r * M + B * (v * M) /\ a * R = r * R + B * (v * R)
      <3> DEFINE bv == v * B
      <3>1. a = r + bv /\ a \in Int /\ bv \in Int /\ r \in Int
        BY <1>1, <1>2
      <3>3. bv * M = B * (v * M) /\ bv * R = B * (v * R)
        BY <1>2
      <3> HIDE DEF a, r, bv
      <3>2. a * M = r * M + bv * M /\ a * R = r * R + bv * R
        BY <3>1
      <3> QED
        BY <3>2, <3>3
    <2>3. M * (n * e + c * B) = B * (M * q) - M * s + B * (M * c)
      <3> DEFINE en == e * n
                 cb == c * B
      <3>1. en = b - s /\ b \in Int /\ s \in Int /\ en \in Int /\ n * e = en /\ cb \in Int
        BY <1>1, <1>3
      <3>2. M * b = B * (M * q) /\ M * cb = B * (M * c)
        OBVIOUS
      <3> HIDE DEF b, s, en
      <3>3. M * (n * e + c * B) = M * (en + cb)
        BY <3>1
      <3> HIDE DEF cb
      <3>4. M * (en + cb) = M * b - M * s + M * cb
        BY <3>1
      <3> QED
        BY <3>2, <3>3, <3>4
    <2> DEFINE vm == v * M
               vr == v * R
               mq == M * q
               mc == M * c
    <2>4. vm \in Int /\ vr \in Int /\ mq \in Int /\ mc \in Int
      BY <1>2
    <2>5. B * X = B * mq + B * mc - B * vm - B * vr
      <3>1. X = (mq + mc) - (vm + vr)
        OBVIOUS
      <3> HIDE DEF X, vm, vr, mq, mc
      <3> QED
        BY <2>4, <3>1
    <2>6. /\ B * vm \in Int /\ B * vr \in Int /\ B * mq \in Int /\ B * mc \in Int
          /\ r * M \in Int /\ r * R \in Int /\ M * s \in Int
      BY <2>4, <1>2, <1>3
    <2>7. safe = (B * mq - M * s + B * mc) - (a * M + a * R)
      BY <2>1, <2>3
    <2>8. a * M = r * M + B * vm /\ a * R = r * R + B * vr
      BY <2>2
    <2> HIDE DEF a, r, s, X, vm, vr, mq, mc
    <2> QED
      BY <2>5, <2>6, <2>7, <2>8
  <1> HIDE DEF a, b, g, r, s, t, X, k
  <1>8. (safe >= unit => k >= 0) /\ (safe <= -unit => k < 0)
    <2>1. Rounded(n, B, M, R, r, s, t, X, k)
      BY <1>2, <1>3, <1>4, <1>5, <1>6 DEF Rounded
    <2>2. Decides(B * X - (r * M + r * R) - M * s, B * (2 * M + R) + n * M, k)
      BY <2>1, HintDecides
    <2>3. Decides(safe, unit, k)
      BY <1>7, <2>2
    <2> QED
      BY <2>3 DEF Decides
  <1>9. k = c + (q - v) - m
    BY DEF k
  <1> QED
    BY <1>2, <1>4, <1>8, <1>9

\* previewSwap is calculate_swap on the pool it is given: it throws where the program
\* refuses, and otherwise returns the program's reserves, quote and average price.
LEMMA PreviewedSwap ==
    ASSUME NEW p \in PoolType, NEW n \in Nat \ {0}, NEW isBuy \in BOOLEAN
    PROVE  /\ ~SwapAllowed(p, n, Dir(isBuy)) => previewSwap(p, n, isBuy) = Throws
           /\ SwapAllowed(p, n, Dir(isBuy)) =>
                 LET q == SwapQuote(p, n, Dir(isBuy))
                     s == previewSwap(p, n, isBuy)
                 IN  /\ s # Throws
                     /\ s.newBase = NewBaseReserve(p, n, Dir(isBuy))
                     /\ s.newQuote = NewQuoteReserve(p, n, Dir(isBuy))
                     /\ s.quote = q
                     /\ s.avg = (q * BASE_PRECISION) \div n
  <1> DEFINE dir == Dir(isBuy)
             nb == NewBaseReserve(p, n, dir)
             nq == NewQuoteReserve(p, n, dir)
             q == SwapQuote(p, n, dir)
             r == [newBase |-> nb, newQuote |-> nq, quote |-> q,
                   avg |-> (q * BASE_PRECISION) \div n]
  <1>1. nb = (IF isBuy THEN p.base - n ELSE p.base + n) /\ nb \in Int
    BY DEF NewBaseReserve, Dir, PoolType
  <1>2. nq = previewDivCeil(p.base * p.quote, IF isBuy THEN p.base - n ELSE p.base + n)
    BY <1>1 DEF NewQuoteReserve, previewDivCeil, DivCeil
  <1>3. q = ((IF isBuy THEN nq - p.quote ELSE p.quote - nq) * p.peg)
              \div AMM_RESERVE_PRECISION
    BY DEF SwapQuote, Dir
  <1>4. SwapAllowed(p, n, dir) <=> nb > 0
    BY DEF SwapAllowed
  <1>5. previewSwap(p, n, isBuy) = IF nb <= 0 THEN Throws ELSE r
    <2> HIDE DEF nb, nq, q
    <2> QED
      BY <1>1, <1>2, <1>3 DEF previewSwap
  <1> HIDE DEF nb, nq, q
  <1>6. r.newBase = nb /\ r.newQuote = nq /\ r.quote = q
        /\ r.avg = (q * BASE_PRECISION) \div n
    OBVIOUS
  <1>7. Throws.newBase = 0
    BY DEF Throws
  <1> HIDE DEF r
  <1>8. ~SwapAllowed(p, n, dir) => previewSwap(p, n, isBuy) = Throws
    BY <1>1, <1>4, <1>5
  <1>9. SwapAllowed(p, n, dir) => previewSwap(p, n, isBuy) = r /\ nb # 0
    BY <1>1, <1>4, <1>5
  <1>10. SwapAllowed(p, n, dir) => r # Throws
    BY <1>6, <1>7, <1>9
  <1> QED
    BY <1>6, <1>8, <1>9, <1>10 DEF nb, nq, q

\* On a pool as it was read, the hint divides the prices that liquidate the position
\* from those that do not, up to the roundings.
LEMMA HintAgreesOnRead ==
    ASSUME readPool \in PoolType, NEW n \in Nat \ {0}, NEW isLong \in BOOLEAN,
           NEW c \in Nat, NEW price \in Nat, Ratio \in Nat
    PROVE  HintAgrees(n, isLong, c, price)
  <1> DEFINE sw == previewSwap(readPool, n, isLong)
             q == SwapQuote(readPool, n, Dir(isLong))
             e == (q * BASE_PRECISION) \div n
             v == (n * price) \div BASE_PRECISION
             m == (v * Ratio) \div MARGIN_PRECISION
             safe == SafeBy(isLong, n, e, c, price)
             unit == BASE_PRECISION * (2 * MARGIN_PRECISION + Ratio) + n * MARGIN_PRECISION
             ok == MeetsMargin(c, Opened(n, isLong, q), price, Ratio)
  <1> SUFFICES ASSUME sw # Throws
               PROVE  (safe >= unit => ok) /\ (safe <= -unit => ~ok)
    <2>1. CASE SwapAllowed(readPool, n, Dir(isLong))
      <3>1. sw.quote = q /\ sw.avg = e
        BY <2>1, PreviewedSwap
      <3> QED
        BY <3>1 DEF HintAgrees
    <2>2. CASE ~SwapAllowed(readPool, n, Dir(isLong))
      <3>1. sw = Throws
        BY <2>2, PreviewedSwap
      <3> QED
        BY <3>1 DEF HintAgrees
    <2> QED
      BY <2>1, <2>2
  <1>1. SwapAllowed(readPool, n, Dir(isLong))
    BY PreviewedSwap
  <1>2. q \in Nat
    <2>1. Dir(isLong) \in {"Add", "Remove"}
      BY DEF Dir
    <2>2. readPool.base \in Nat /\ readPool.quote \in Nat /\ readPool.peg \in Nat
      BY DEF PoolType
    <2> QED
      BY <1>1, <2>1, <2>2, SwapQuoteUnsigned
  <1> HIDE DEF q
  <1>3. v \in Nat
    <2>1. n * price \in Nat
      OBVIOUS
    <2> QED
      BY <2>1, DivOfNat, PrecisionAssumption
  <1>4. n * price \in Nat /\ (-n) * price = -(n * price)
    OBVIOUS
  <1>5. CASE isLong
    <2>1. ok <=> c + (v - q) >= m
      <3>1. Opened(n, isLong, q) = [base |-> n, quoteEntry |-> -q]
        BY <1>5 DEF Opened
      <3>2. TruncDiv(n * price, BASE_PRECISION) = v
        BY <1>4 DEF TruncDiv
      <3>3. PositionNotional(n, price) = v
        BY DEF PositionNotional, Magnitude
      <3>4. ok <=> c + (v + -q) >= m
        <4> HIDE DEF v
        <4> QED
          BY <3>1, <3>2, <3>3 DEF MeetsMargin, UnrealizedPnl, MarginRequirement
      <3>5. v + -q = v - q
        BY <1>2, <1>3
      <3> QED
        BY <3>4, <3>5
    <2>2. safe = price * (n * (MARGIN_PRECISION - Ratio))
                   - MARGIN_PRECISION * (n * e - c * BASE_PRECISION)
      BY <1>5 DEF SafeBy, HintNumerator, HintDenominator
    <2> HIDE DEF ok, safe
    <2>3. (safe >= unit => c + (v - q) >= m) /\ (safe <= -unit => ~(c + (v - q) >= m))
      <3>1. BASE_PRECISION \in Nat \ {0} /\ MARGIN_PRECISION \in Nat \ {0}
        BY PrecisionAssumption
      <3>2. LongDivides(n, q, c, price, Ratio, BASE_PRECISION, MARGIN_PRECISION)
        BY <1>2, <3>1, LongHint
      <3> QED
        BY <2>2, <3>2 DEF LongDivides
    <2> QED
      BY <2>1, <2>3
  <1>6. CASE ~isLong
    <2>1. ok <=> c + (q - v) >= m
      <3>1. Opened(n, isLong, q) = [base |-> -n, quoteEntry |-> q]
        BY <1>6 DEF Opened
      <3>2. TruncDiv((-n) * price, BASE_PRECISION) = -v
        <4>1. CASE n * price = 0
          <5>1. 0 \div BASE_PRECISION = 0
            BY PrecisionAssumption
          <5> QED
            BY <1>4, <4>1, <5>1 DEF TruncDiv
        <4>2. CASE n * price # 0
          <5>1. ~((-n) * price >= 0) /\ -((-n) * price) = n * price
            BY <1>4, <4>2
          <5> QED
            BY <5>1 DEF TruncDiv
        <4> QED
          BY <4>1, <4>2
      <3>3. PositionNotional(-n, price) = v
        <4>1. ~(-n >= 0) /\ -(-n) = n
          OBVIOUS
        <4> QED
          BY <4>1 DEF PositionNotional, Magnitude
      <3>4. ok <=> c + (-v + q) >= m
        <4> HIDE DEF v
        <4> QED
          BY <3>1, <3>2, <3>3 DEF MeetsMargin, UnrealizedPnl, MarginRequirement
      <3>5. -v + q = q - v
        BY <1>2, <1>3
      <3> QED
        BY <3>4, <3>5
    <2>2. safe = MARGIN_PRECISION * (n * e + c * BASE_PRECISION)
                   - price * (n * (MARGIN_PRECISION + Ratio))
      <3> DEFINE x == price * (n * (MARGIN_PRECISION + Ratio))
                 y == MARGIN_PRECISION * (n * e + c * BASE_PRECISION)
      <3>1. safe = -(x - y)
        BY <1>6 DEF SafeBy, HintNumerator, HintDenominator
      <3>2. x \in Int /\ y \in Int
        <4>1. e \in Nat
          <5>1. q * BASE_PRECISION \in Nat
            BY <1>2, PrecisionAssumption
          <5> QED
            BY <5>1, DivOfNat
        <4> HIDE DEF e
        <4> QED
          BY <4>1, PrecisionAssumption
      <3> HIDE DEF x, y
      <3>3. safe = y - x
        BY <3>1, <3>2
      <3> QED
        BY <3>3 DEF x, y
    <2> HIDE DEF ok, safe
    <2>3. (safe >= unit => c + (q - v) >= m) /\ (safe <= -unit => ~(c + (q - v) >= m))
      <3>1. BASE_PRECISION \in Nat \ {0} /\ MARGIN_PRECISION \in Nat \ {0}
        BY PrecisionAssumption
      <3>2. ShortDivides(n, q, c, price, Ratio, BASE_PRECISION, MARGIN_PRECISION)
        BY <1>2, <3>1, ShortHint
      <3> QED
        BY <2>2, <3>2 DEF ShortDivides
    <2> QED
      BY <2>1, <2>3
  <1> QED
    BY <1>5, <1>6

\* On the pool as it is, the ticket previews the program's own fill, and its fee to a unit.
LEMMA SwapAgreesOnPool ==
    ASSUME pool \in PoolType, readPool = pool, NEW n \in Nat \ {0}, NEW isBuy \in BOOLEAN,
           FeeBps \in Nat
    PROVE  SwapAgrees(n, isBuy)
  <1> DEFINE dir == Dir(isBuy)
             sw == previewSwap(readPool, n, isBuy)
             q == SwapQuote(pool, n, dir)
  <1>1. CASE ~SwapAllowed(pool, n, dir)
    BY <1>1, PreviewedSwap DEF SwapAgrees
  <1>2. CASE SwapAllowed(pool, n, dir)
    <2>1. dir \in {"Add", "Remove"}
      BY DEF Dir
    <2>2. q \in Nat
      <3>1. pool.base \in Nat /\ pool.quote \in Nat /\ pool.peg \in Nat
        BY DEF PoolType
      <3> QED
        BY <1>2, <2>1, <3>1, SwapQuoteUnsigned
    <2>3. /\ sw.newBase = NewBaseReserve(pool, n, dir)
          /\ sw.newQuote = NewQuoteReserve(pool, n, dir)
          /\ sw.quote = q
          /\ sw.avg = (q * BASE_PRECISION) \div n
      BY <1>2, PreviewedSwap
    <2>4. /\ Swapped(pool, n, dir).base = NewBaseReserve(pool, n, dir)
          /\ Swapped(pool, n, dir).quote = NewQuoteReserve(pool, n, dir)
      BY <1>2, <2>1, SwappedPool
    <2> HIDE DEF dir, sw, q
    <2>5. FeeAmount(q, FeeBps) * BPS_DENOMINATOR * BASE_PRECISION - FeeShown(n, sw)
            \in 0 .. n * FeeBps + BPS_DENOMINATOR * BASE_PRECISION
      BY <2>2, <2>3, FeeShownClose DEF FeeShown
    <2> QED
      BY <1>2, <2>3, <2>4, <2>5 DEF SwapAgrees, dir, sw, q
  <1> QED
    BY <1>1, <1>2

\* the strengthening: the page read a pool
PreviewInv == CurveInv /\ readPool \in PoolType

LEMMA PreviewInitInv == PreviewInit => PreviewInv
  BY CurveInitInv DEF PreviewInit, PreviewInv, CurveInv, CurveTypeOK

LEMMA PreviewNextInv == PreviewInv /\ [PreviewNext]_previewVars => PreviewInv'
  <1> SUFFICES ASSUME PreviewInv, [PreviewNext]_previewVars PROVE PreviewInv'
    OBVIOUS
  <1>1. [CurveNext]_curveVars
    BY DEF PreviewNext, previewVars, ReadPool, CurveNext
  <1>2. CurveInv'
    BY <1>1, CurveNextInv DEF PreviewInv
  <1>3. pool \in PoolType /\ readPool \in PoolType
    BY DEF PreviewInv, CurveInv, CurveTypeOK
  <1>4. readPool' \in {pool, readPool}
    BY DEF PreviewNext, previewVars, ReadPool
  <1> QED
    BY <1>2, <1>3, <1>4 DEF PreviewInv

\* "Mirror of on-chain calculate_swap" (math.ts): whatever the markets, the sizes and
\* the trades made since the page read the pool, the ticket previews the program's own
\* fill of a pool unchanged, and its liquidation price is the program's up to the
\* rounding of two quote units, of their margin and of one unit of the entry price.
THEOREM PreviewAlwaysMatches == PreviewSpec => []PreviewMatchesProgram
  <1>1. PreviewInv => PreviewMatchesProgram
    <2> SUFFICES ASSUME PreviewInv, NEW n \in TradeSizes, NEW isBuy \in BOOLEAN
                 PROVE  /\ readPool = pool => SwapAgrees(n, isBuy)
                        /\ \A c \in Deposits, p \in HintPrices : HintAgrees(n, isBuy, c, p)
      BY DEF PreviewMatchesProgram
    <2>1. n \in Nat \ {0} /\ Ratio \in Nat /\ FeeBps \in Nat
      BY CurveAssumption, PreviewAssumption
    <2>2. pool \in PoolType /\ readPool \in PoolType
      BY DEF PreviewInv, CurveInv, CurveTypeOK
    <2>3. readPool = pool => SwapAgrees(n, isBuy)
      BY <2>1, <2>2, SwapAgreesOnPool
    <2>4. ASSUME NEW c \in Deposits, NEW p \in HintPrices PROVE HintAgrees(n, isBuy, c, p)
      <3>1. c \in Nat /\ p \in Nat
        BY PreviewAssumption
      <3> QED
        BY <2>1, <2>2, <3>1, HintAgreesOnRead
    <2> QED
      BY <2>3, <2>4
  <1> QED
    BY <1>1, PreviewInitInv, PreviewNextInv, PTL DEF PreviewSpec

-----------------------------------------------------------------------------
(* The price of a Pyth account. *)

\* g holds the powers of ten up to n
Powers(g, n) == g = [k \in 0 .. n |-> IF k = 0 THEN 1 ELSE 10 * g[k - 1]]

LEMMA PowersExist == \A n \in Nat : \E g : Powers(g, n)
  <1> DEFINE Done == {n \in Nat : \E g : Powers(g, n)}
  <1>1. 0 \in Done
    <2> DEFINE g == [k \in 0 .. 0 |-> 1]
    <2>1. g = [k \in 0 .. 0 |-> IF k = 0 THEN 1 ELSE 10 * g[k - 1]]
      OBVIOUS
    <2> HIDE DEF g
    <2>2. Powers(g, 0)
      BY <2>1 DEF Powers
    <2> QED
      BY <2>2
  <1>2. ASSUME NEW n \in Nat, n \in Done PROVE n + 1 \in Done
    <2>1. PICK g : g = [k \in 0 .. n |-> IF k = 0 THEN 1 ELSE 10 * g[k - 1]]
      BY <1>2 DEF Powers
    <2> DEFINE h == [k \in 0 .. n + 1 |-> IF k = 0 THEN 1 ELSE 10 * g[k - 1]]
    <2>2. \A k \in 0 .. n : g[k] = h[k]
      <3> SUFFICES ASSUME NEW k \in 0 .. n PROVE g[k] = h[k]
        OBVIOUS
      <3>1. k \in 0 .. n + 1
        OBVIOUS
      <3>2. g[k] = IF k = 0 THEN 1 ELSE 10 * g[k - 1]
        BY <2>1
      <3> QED
        BY <3>1, <3>2
    <2>3. \A k \in 0 .. n + 1 : k # 0 => k - 1 \in 0 .. n
      OBVIOUS
    <2>4. \A k \in 0 .. n + 1 : k # 0 => g[k - 1] = h[k - 1]
      BY <2>2, <2>3
    <2>5. h = [k \in 0 .. n + 1 |-> IF k = 0 THEN 1 ELSE 10 * h[k - 1]]
      BY <2>4
    <2> HIDE DEF h
    <2>6. Powers(h, n + 1)
      BY <2>5 DEF Powers
    <2> QED
      BY <2>6
  <1>3. \A n \in Nat : n \in Done
    BY <1>1, <1>2, AllNumbers
  <1> QED
    BY <1>3

\* Two tables of powers agree where both are defined.
LEMMA PowersAgree ==
    ASSUME NEW g, NEW h, NEW n \in Nat, NEW m \in Nat, Powers(g, n), Powers(h, m)
    PROVE  \A k \in Nat : k <= n /\ k <= m => g[k] = h[k]
  <1> DEFINE Same == {k \in Nat : k <= n /\ k <= m => g[k] = h[k]}
  <1>1. /\ \A k \in 0 .. n : g[k] = IF k = 0 THEN 1 ELSE 10 * g[k - 1]
        /\ \A k \in 0 .. m : h[k] = IF k = 0 THEN 1 ELSE 10 * h[k - 1]
    BY DEF Powers
  <1>2. 0 \in Same
    BY <1>1
  <1>3. ASSUME NEW k \in Nat, k \in Same PROVE k + 1 \in Same
    <2> SUFFICES ASSUME k + 1 <= n, k + 1 <= m PROVE g[k + 1] = h[k + 1]
      OBVIOUS
    <2>1. k + 1 \in 0 .. n /\ k + 1 \in 0 .. m /\ k + 1 # 0 /\ (k + 1) - 1 = k
      OBVIOUS
    <2>2. g[k + 1] = 10 * g[k] /\ h[k + 1] = 10 * h[k]
      BY <1>1, <2>1
    <2>3. g[k] = h[k]
      BY <1>3
    <2> QED
      BY <2>2, <2>3
  <1>4. \A k \in Nat : k \in Same
    BY <1>2, <1>3, AllNumbers
  <1> QED
    BY <1>4

\* A power of ten is a positive number.
LEMMA PowersArePositive == \A k \in Nat : PowerOfTen[k] \in Nat \ {0}
  <1> DEFINE table(n) == CHOOSE g : Powers(g, n)
             p == [k \in Nat |-> table(k)[k]]
  <1>1. \A n \in Nat : Powers(table(n), n)
    BY PowersExist
  <1> HIDE DEF table
  <1>2. p[0] = 1
    <2>1. table(0)[0] = 1
      BY <1>1 DEF Powers
    <2> QED
      BY <2>1
  <1>3. ASSUME NEW k \in Nat PROVE p[k + 1] = 10 * p[k]
    <2>1. table(k + 1)[k + 1] = 10 * table(k + 1)[k]
      <3>1. k + 1 \in 0 .. k + 1 /\ k + 1 # 0 /\ (k + 1) - 1 = k /\ k + 1 \in Nat
        OBVIOUS
      <3>2. table(k + 1) = [j \in 0 .. k + 1 |->
                               IF j = 0 THEN 1 ELSE 10 * table(k + 1)[j - 1]]
        BY <1>1, <3>1 DEF Powers
      <3> QED
        BY <3>1, <3>2
    <2>2. table(k + 1)[k] = table(k)[k]
      <3>1. Powers(table(k + 1), k + 1) /\ Powers(table(k), k) /\ k + 1 \in Nat
            /\ k <= k + 1 /\ k <= k
        BY <1>1
      <3> QED
        BY <3>1, PowersAgree
    <2> QED
      BY <2>1, <2>2
  <1> HIDE DEF p
  <1>4. ASSUME NEW k \in Nat \ {0} PROVE p[k] = 10 * p[k - 1]
    <2>1. k - 1 \in Nat /\ (k - 1) + 1 = k
      OBVIOUS
    <2> QED
      BY <1>3, <2>1
  <1>5. p = [k \in Nat |-> IF k = 0 THEN 1 ELSE 10 * p[k - 1]]
    <2>1. p = [k \in Nat |-> p[k]]
      BY DEF p
    <2>2. \A k \in Nat : p[k] = IF k = 0 THEN 1 ELSE 10 * p[k - 1]
      BY <1>2, <1>4
    <2> QED
      BY <2>1, <2>2
  <1>6. PowerOfTen = [k \in Nat |-> IF k = 0 THEN 1 ELSE 10 * PowerOfTen[k - 1]]
    BY <1>5 DEF PowerOfTen
  <1> DEFINE Good == {k \in Nat : PowerOfTen[k] \in Nat \ {0}}
  <1>7. 0 \in Good
    BY <1>6
  <1>8. ASSUME NEW k \in Nat, k \in Good PROVE k + 1 \in Good
    <2>1. k + 1 \in Nat /\ k + 1 # 0 /\ (k + 1) - 1 = k
      OBVIOUS
    <2>2. PowerOfTen[k + 1] = 10 * PowerOfTen[k]
      BY <1>6, <2>1
    <2>3. PowerOfTen[k] \in Nat \ {0}
      BY <1>8
    <2> HIDE DEF Good
    <2>4. PowerOfTen[k + 1] \in Nat \ {0}
      BY <2>2, <2>3
    <2> QED
      BY <2>1, <2>4 DEF Good
  <1> HIDE DEF Good
  <1>9. \A k \in Nat : k \in Good
    BY <1>7, <1>8, AllNumbers
  <1> QED
    BY <1>9 DEF Good

PythTypeOK ==
    /\ now \in Int
    /\ update.price \in Int /\ update.conf \in Nat
    /\ update.exponent \in Int /\ update.at \in Int

LEMMA PythTypes ==
    /\ PythInit => PythTypeOK
    /\ PythTypeOK /\ [PythNext]_feedVars => PythTypeOK'
  <1>1. ASSUME NEW t \in Int, NEW u \in Updates(t)
        PROVE  u.price \in Int /\ u.conf \in Nat /\ u.exponent \in Int /\ u.at \in Int
    BY FeedAssumption DEF Updates
  <1>2. PythInit => PythTypeOK
    BY <1>1 DEF PythInit, PythTypeOK
  <1>3. ASSUME PythTypeOK, [PythNext]_feedVars PROVE PythTypeOK'
    <2>1. CASE Post
      <3>1. PICK t \in now - 1 .. now + 1 : update' \in Updates(t)
        BY <2>1 DEF Post
      <3>2. t \in Int /\ now' = now
        BY <1>3, <2>1 DEF Post, PythTypeOK
      <3> QED
        BY <1>1, <1>3, <3>1, <3>2 DEF PythTypeOK
    <2>2. CASE Second
      BY <1>3, <2>2 DEF Second, PythTypeOK
    <2>3. CASE UNCHANGED feedVars
      BY <1>3, <2>3 DEF feedVars, PythTypeOK
    <2> QED
      BY <1>3, <2>1, <2>2, <2>3 DEF PythNext
  <1> QED
    BY <1>2, <1>3

\* Interval and price in the program's unit, scaled up by a whole factor.
LEMMA NarrowScaledUp ==
    ASSUME NEW c \in Nat, NEW p \in Nat, NEW u \in Nat \ {0}, NEW b \in Nat,
           NEW d \in Nat \ {0}, c * u <= ((p * u) * b) \div d
    PROVE  c * d <= p * b
  <1> DEFINE x == (p * u) * b
             y == x \div d
  <1>1. x \in Nat /\ c * u \in Nat
    OBVIOUS
  <1>2. x = u * (p * b)
    OBVIOUS
  <1>3. c * u <= y
    OBVIOUS
  <1> HIDE DEF x
  <1>4. y \in Nat /\ y * d <= x
    BY <1>1, DivBounds, DivOfNat
  <1> HIDE DEF y
  <1>5. (c * u) * d <= y * d
    <2>1. (y - c * u) * d \in Nat
      <3>1. y - c * u \in Nat
        BY <1>1, <1>3, <1>4
      <3> QED
        BY <3>1
    <2>2. (y - c * u) * d = y * d - (c * u) * d
      BY <1>1, <1>4
    <2>3. y * d \in Int /\ (c * u) * d \in Int
      BY <1>1, <1>4
    <2> QED
      BY <2>1, <2>2, <2>3
  <1>6. (c * u) * d = u * (c * d)
    OBVIOUS
  <1>7. u * (c * d) \in Int /\ u * (p * b) \in Int /\ y * d \in Int
    BY <1>4
  <1>8. u * (c * d) <= u * (p * b)
    BY <1>2, <1>4, <1>5, <1>6, <1>7
  <1>9. c * d \in Int /\ p * b \in Int
    OBVIOUS
  <1> QED
    BY <1>8, <1>9, Cancel

\* Both truncated to the program's unit of u steps: the interval may be wider by what
\* was cut off.
LEMMA NarrowScaledDown ==
    ASSUME NEW c \in Nat, NEW p \in Nat, NEW u \in Nat \ {0}, NEW b \in Nat,
           NEW d \in Nat \ {0}, c \div u <= ((p \div u) * b) \div d
    PROVE  c * d <= p * b + (u - 1) * d
  <1> DEFINE e == c \div u
             q == p \div u
             x == q * b
             y == x \div d
  <1>1. e \in Nat /\ c < e * u + u /\ q \in Nat /\ q * u <= p
    BY DivBounds, DivOfNat
  <1>2. e <= y
    OBVIOUS
  <1> HIDE DEF e, q
  <1>3. x \in Nat
    BY <1>1
  <1> HIDE DEF x
  <1>4. y \in Nat /\ y * d <= x
    BY <1>3, DivBounds, DivOfNat
  <1> HIDE DEF y
  <1>5. e * d <= q * b
    <2>1. (y - e) * d \in Nat
      <3>1. y - e \in Nat
        BY <1>1, <1>2, <1>4
      <3> QED
        BY <3>1
    <2>2. (y - e) * d = y * d - e * d
      BY <1>1, <1>4
    <2>3. y * d \in Int /\ e * d \in Int /\ x = q * b
      BY <1>1, <1>4 DEF x
    <2> QED
      BY <1>3, <1>4, <2>1, <2>2, <2>3
  <1>6. (e * u) * d <= (q * u) * b
    <2>1. (q * b - e * d) * u \in Nat
      <3>1. q * b - e * d \in Nat
        <4>1. q * b \in Int /\ e * d \in Int
          BY <1>1
        <4> QED
          BY <1>5, <4>1
      <3> QED
        BY <3>1
    <2>2. (q * b - e * d) * u = (q * u) * b - (e * u) * d
      BY <1>1
    <2>3. (q * u) * b \in Int /\ (e * u) * d \in Int
      BY <1>1
    <2> QED
      BY <2>1, <2>2, <2>3
  <1>7. (q * u) * b <= p * b
    <2> DEFINE z == q * u
    <2>1. z \in Int /\ z <= p
      BY <1>1
    <2> HIDE DEF z
    <2>2. (p - z) * b \in Nat
      BY <2>1
    <2>3. (p - z) * b = p * b - z * b /\ p * b \in Int /\ z * b \in Int
      BY <2>1
    <2>4. z * b <= p * b
      BY <2>2, <2>3
    <2> QED
      BY <2>4 DEF z
  <1>8. c * d <= (e * u) * d + (u - 1) * d
    <2> DEFINE z == e * u
    <2>1. z \in Int /\ c <= z + (u - 1)
      BY <1>1
    <2> HIDE DEF z
    <2>2. (z + (u - 1) - c) * d \in Nat
      BY <2>1
    <2>3. (z + (u - 1) - c) * d = z * d + (u - 1) * d - c * d
      BY <2>1
    <2>4. z * d \in Int /\ (u - 1) * d \in Int /\ c * d \in Int
      BY <2>1
    <2>5. c * d <= z * d + (u - 1) * d
      BY <2>2, <2>3, <2>4
    <2> QED
      BY <2>5 DEF z
  <1>9. /\ c * d \in Int /\ p * b \in Int /\ (u - 1) * d \in Int
        /\ (e * u) * d \in Int /\ (q * u) * b \in Int
    BY <1>1
  <1> QED
    BY <1>6, <1>7, <1>8, <1>9

\* Whatever the exponent, the mantissas and the age anybody posts, an update the program
\* accepts is the market's, fresh, and as narrow as asked for but for what the two
\* truncations of oracle.rs cut off.
THEOREM AcceptedPriceAlwaysNarrow == PythSpec => []AcceptedPriceIsNarrow
  <1>1. PythTypeOK => AcceptedPriceIsNarrow
    <2> DEFINE t == TargetExponent(update)
               unit == IF t >= 0 THEN 1 ELSE PowerOfTen[-t]
               c == update.conf
               p == update.price
               b == MaxFeedConfBps
               d == BPS_DENOMINATOR
    <2> SUFFICES ASSUME PythTypeOK, PythUsable(update)
                 PROVE  /\ update.feed = MarketFeed /\ now - update.at <= MaxFeedAge
                        /\ c * d <= p * b + (unit - 1) * d
      BY DEF AcceptedPriceIsNarrow
    <2>1. update.feed = MarketFeed /\ now - update.at <= MaxFeedAge
      <3>1. now \in Int /\ update.at \in Int /\ MaxFeedAge \in Int
        BY FeedAssumption DEF PythTypeOK
      <3>2. update.feed = MarketFeed /\ update.at + MaxFeedAge >= now
        BY DEF PythUsable
      <3> QED
        BY <3>1, <3>2
    <2>2. c \in Nat /\ p \in Nat /\ t \in Int /\ b \in Nat /\ d \in Nat \ {0}
      <3>1. update.price > 0
        BY DEF PythUsable
      <3>2. update.price \in Int /\ update.conf \in Nat /\ update.exponent \in Int
        BY DEF PythTypeOK
      <3>3. MaxFeedConfBps \in Nat /\ PRICE_EXPONENT \in Nat
        BY FeedAssumption
      <3>4. t \in Int
        BY <3>2, <3>3 DEF TargetExponent
      <3> QED
        BY <3>1, <3>2, <3>3, <3>4, PrecisionAssumption
    <2>3. NormalizedConf(update) <= (Normalized(p, update) * b) \div d
      BY DEF PythUsable
    <2>4. CASE t >= 0
      <3> DEFINE u == PowerOfTen[t]
      <3>1. Normalized(c, update) = c * u /\ Normalized(p, update) = p * u
        BY <2>4 DEF Normalized
      <3>2. u \in Nat \ {0}
        BY <2>2, <2>4, PowersArePositive
      <3>3. c * u <= ((p * u) * b) \div d
        BY <2>3, <3>1 DEF NormalizedConf
      <3> HIDE DEF u, c, p, b, d, t
      <3>4. c * d <= p * b
        BY <2>2, <3>2, <3>3, NarrowScaledUp
      <3>5. unit = 1
        BY <2>4
      <3>6. p * b + (unit - 1) * d = p * b
        BY <2>2, <3>5
      <3> QED
        BY <2>1, <3>4, <3>6
    <2>5. CASE ~(t >= 0)
      <3> DEFINE u == PowerOfTen[-t]
      <3>1. Normalized(c, update) = c \div u /\ Normalized(p, update) = p \div u
        BY <2>5 DEF Normalized
      <3>2. u \in Nat \ {0}
        <4>1. -t \in Nat
          BY <2>2, <2>5
        <4> QED
          BY <4>1, PowersArePositive
      <3>3. c \div u <= ((p \div u) * b) \div d
        BY <2>3, <3>1 DEF NormalizedConf
      <3> HIDE DEF u, c, p, b, d, t
      <3>4. c * d <= p * b + (u - 1) * d
        BY <2>2, <3>2, <3>3, NarrowScaledDown
      <3>5. unit = u
        BY <2>5 DEF u
      <3> QED
        BY <2>1, <3>4, <3>5
    <2> QED
      BY <2>4, <2>5
  <1> QED
    BY <1>1, PythTypes, PTL DEF PythSpec

=============================================================================
