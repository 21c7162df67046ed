------------------------------ MODULE Controller ------------------------------
(***************************************************************************)
(* programs/impl-perps/src/controller.rs: the three ways a trade executes. *)
(* Each is the part of an instruction that changes market, amm, user and    *)
(* positions; the instruction adds its own guards and what happens to the   *)
(* order that was filled.                                                   *)
(***************************************************************************)
EXTENDS PerpState

SwapDirForOpen(dir) == IF dir = "Long" THEN "Remove" ELSE "Add"
Opposite(dir)       == IF dir = "Long" THEN "Short" ELSE "Long"
SignedBase(dir, n)  == IF dir = "Long" THEN AsI64(n) ELSE -AsI64(n)

\* mutant of PriceWithin: the comparison the wrong way around
PriceBeyond(limit, buying, avg) ==
    limit = 0 \/ (IF buying THEN avg >= limit ELSE avg <= limit)

\* buying must not cost more than the limit, selling must not bring in less
PriceWithin(limit, buying, avg) ==
    limit = 0 \/ (IF buying THEN avg <= limit ELSE avg >= limit)

WithinOpenInterestCap(mk) == mk.maxOI = 0 \/ mk.oiLong + mk.oiShort <= mk.maxOI

\* the position after n base in direction dir were added for quote
Increased(p, dir, n, quote, cum) ==
    [p EXCEPT !.base       = @ + SignedBase(dir, n),
              !.quoteEntry = IF dir = "Long" THEN @ - quote ELSE @ + quote,
              !.lastCum    = IF p.base = 0 THEN cum ELSE @]

\* an existing position may only be increased on its own side
SameSide(u, m, s, dir) ==
    HasPosition(u, m) => ((positions[u][s].base > 0) <=> (dir = "Long"))

\* mutant of AddInterest: every trade counts as long
AddLongInterest(mk, dir, n) == [mk EXCEPT !.oiLong = @ + n]

AddInterest(mk, dir, n) ==
    IF dir = "Long" THEN [mk EXCEPT !.oiLong = @ + n]
                    ELSE [mk EXCEPT !.oiShort = @ + n]

\* mutant of RemoveInterest: lowers the other side
RemoveOtherInterest(mk, isLong, n) ==
    IF isLong THEN [mk EXCEPT !.oiShort = Greatest(@ - n, 0)]
              ELSE [mk EXCEPT !.oiLong = Greatest(@ - n, 0)]

\* open interest is lowered with saturating_sub
RemoveInterest(mk, isLong, n) ==
    IF isLong THEN [mk EXCEPT !.oiLong = Greatest(@ - n, 0)]
              ELSE [mk EXCEPT !.oiShort = Greatest(@ - n, 0)]

AddSkew(pool, dir, n) ==
    IF dir = "Long" THEN [pool EXCEPT !.long = @ + n]
                    ELSE [pool EXCEPT !.short = @ - n]

\* mutant of RemoveSkew: a closed short is counted as one more
RemoveUnsigned(pool, isLong, n) ==
    IF isLong THEN [pool EXCEPT !.long = @ - n]
              ELSE [pool EXCEPT !.short = @ - n]

RemoveSkew(pool, isLong, n) ==
    IF isLong THEN [pool EXCEPT !.long = @ - n]
              ELSE [pool EXCEPT !.short = @ + n]

-----------------------------------------------------------------------------
\* execute_amm_open: open or increase n base in direction dir against the AMM
ExecuteAmmOpen(u, m, dir, n, limit) ==
    \E s \in PositionSlots :
    LET swapDir == SwapDirForOpen(dir)
        quote   == SwapQuote(amm[m], n, swapDir)
        fee     == FeeAmount(quote, TakerFeeBps)
        pos     == Increased(TargetPosition(u, m, s), dir, n, quote, amm[m].cumFunding)
        after   == AddInterest(market[m], dir, n)
        left    == user[u].collateral - fee
    IN  /\ SwapAllowed(amm[m], n, swapDir)
        /\ PriceWithin(limit, dir = "Long", AvgPrice(quote, n))
        /\ left >= 0
        /\ TargetSlot(u, m, s)
        /\ SameSide(u, m, s, dir)
        /\ WithinOpenInterestCap(after)
        /\ MeetsInitialMargin(left, pos, m)
        /\ positions' = [positions EXCEPT ![u][s] = pos]
        /\ user' = [user EXCEPT ![u].collateral = left]
        /\ market' = [market EXCEPT ![m] = after]
        /\ amm' = [amm EXCEPT ![m] =
                     [AddSkew(Swapped(amm[m], n, swapDir), dir, n)
                        EXCEPT !.totalFee = @ + fee]]

\* the part of the cost basis that leaves with n of the position's base
QuoteClosed(p, n) == TruncDiv(p.quoteEntry * n, Magnitude(p.base))

\* closing a long sells base, closing a short buys it back
CloseSwapDir(p)  == IF p.base > 0 THEN "Add" ELSE "Remove"

\* realized profit and loss of closing n base of p for quote
Realized(p, n, quote) ==
    (IF p.base > 0 THEN quote ELSE -quote) + QuoteClosed(p, n)

\* the position after n base were closed; the dust of a full close is cleared
Reduced(p, n) ==
    LET base == IF p.base > 0 THEN p.base - n ELSE p.base + n
    IN  [p EXCEPT !.base = base,
                  !.quoteEntry = IF base = 0 THEN 0 ELSE @ - QuoteClosed(p, n)]

\* execute_amm_close: reduce the position in slot s by n base against the AMM
ExecuteAmmClose(u, m, s, n, limit) ==
    LET pos   == positions[u][s]
        quote == SwapQuote(amm[m], n, CloseSwapDir(pos))
        fee   == FeeAmount(quote, TakerFeeBps)
        pnl   == Realized(pos, n, quote)
        left  == user[u].collateral + pnl - fee
    IN  /\ n \in 1 .. Magnitude(pos.base)
        /\ SwapAllowed(amm[m], n, CloseSwapDir(pos))
        /\ PriceWithin(limit, pos.base < 0, AvgPrice(quote, n))
        /\ left >= 0
        /\ positions' = [positions EXCEPT ![u][s] = Reduced(pos, n)]
        /\ user' = [user EXCEPT ![u].collateral = left,
                                ![u].settledPnl = @ + pnl]
        /\ market' = [market EXCEPT ![m] = RemoveInterest(market[m], pos.base > 0, n)]
        /\ amm' = [amm EXCEPT ![m] =
                     [RemoveSkew(Swapped(amm[m], n, CloseSwapDir(pos)), pos.base > 0, n)
                        EXCEPT !.totalFee = @ + fee]]

-----------------------------------------------------------------------------
\* apply_match_leg: the checks of one side of a peer fill, in slot s of u;
\* delta is what the fill adds to (or takes from) u's collateral
MatchLegAllowed(u, m, s, dir, delta, pos) ==
    /\ user[u].collateral + delta >= 0
    /\ TargetSlot(u, m, s)
    /\ SameSide(u, m, s, dir)
    /\ MeetsInitialMargin(user[u].collateral + delta, pos, m)

\* execute_maker_match: taker and maker open n base of opposite sides with each
\* other at the maker's price; the pool's reserves do not move
ExecuteMakerMatch(taker, maker, m, dir, n, price) ==
    \E ts, ms \in PositionSlots :
    LET quote  == (n * price) \div BASE_PRECISION
        fee    == FeeAmount(quote, TakerFeeBps)
        rebate == FeeAmount(quote, MakerRebateBps)
        tpos   == Increased(TargetPosition(taker, m, ts), dir, n, quote, amm[m].cumFunding)
        mpos   == Increased(TargetPosition(maker, m, ms), Opposite(dir), n, quote,
                            amm[m].cumFunding)
        after  == AddInterest(AddInterest(market[m], dir, n), Opposite(dir), n)
    IN  /\ n > 0
        /\ MatchLegAllowed(taker, m, ts, dir, -fee, tpos)
        /\ MatchLegAllowed(maker, m, ms, Opposite(dir), rebate, mpos)
        /\ WithinOpenInterestCap(after)
        /\ positions' = [positions EXCEPT ![taker][ts] = tpos, ![maker][ms] = mpos]
        /\ user' = [user EXCEPT ![taker].collateral = @ - fee,
                                ![maker].collateral = @ + rebate]
        /\ market' = [market EXCEPT ![m] = after]
        /\ amm' = [amm EXCEPT ![m] =
                     [AddSkew(AddSkew(amm[m], dir, n), Opposite(dir), n)
                        EXCEPT !.totalFee = @ + fee - rebate]]

=============================================================================
