--------------------------- MODULE PerpEngineProofs ---------------------------
(***************************************************************************)
(* For every value of the constants, every reachable state of the impl-perps *)
(* program has the layout TypeOK gives, its pools hedge the users' skew and  *)
(* never lose value, and bankrupt accounts owe something.                    *)
(*                                                                         *)
(* AmmHedgesSkew and CurveNeverLosesValue are not inductive without the      *)
(* types (a swap needs unsigned reserves) and without base in every created  *)
(* pool (the mark price divides by it); EngineInv adds both.  There is one   *)
(* lemma per way of trading of the Controller and one per instruction.       *)
(*                                                                         *)
(* Each instruction changes only the accounts its interface description      *)
(* locks for writing; there EngineInv is needed for the layout: an update of  *)
(* one user's account leaves the accounts of the other users as they are.    *)
(***************************************************************************)
EXTENDS PerpProperties, Idl, PerpMathLemmas

-----------------------------------------------------------------------------
(* What the three ways of trading of Controller do to pools, positions,      *)
(* markets and accounts.                                                    *)

\* A pool whose reserves and skew agree and whose product has not fallen.
PoolOK(p) ==
    /\ p \in AmmType
    /\ p.base + p.long + p.short = p.sqrtK
    /\ p.base * p.quote >= p.sqrtK * p.sqrtK

\* An account that owes something if it is bankrupt.
AccountOK(a) == a \in UserType /\ (a.bankrupt => a.badDebt > 0)

MarketsOK   == market \in [MarketIndexes -> MarketType]
PositionsOK == positions \in [Users -> [PositionSlots -> PositionType]]
PoolsOK     == /\ amm \in [MarketIndexes -> AmmType]
               /\ \A m \in MarketIndexes : PoolOK(amm[m])
               /\ \A m \in CreatedMarkets : amm[m].base > 0
AccountsOK  == /\ user \in [Users -> UserType]
               /\ \A u \in Users : AccountOK(user[u])

\* the part of the state a trade changes
TradeOK == MarketsOK /\ PositionsOK /\ PoolsOK /\ AccountsOK

-----------------------------------------------------------------------------
(* Pools *)

\* Replacing one pool by a sound one with base in it keeps all of them sound.
LEMMA PoolReplaced ==
    ASSUME PoolsOK, NEW m \in MarketIndexes, NEW q, PoolOK(q), q.base > 0,
           amm' = [amm EXCEPT ![m] = q], numMarkets' = numMarkets
    PROVE  PoolsOK'
  <1>1. q \in AmmType
    BY DEF PoolOK
  <1>2. amm' \in [MarketIndexes -> AmmType]
    BY <1>1 DEF PoolsOK
  <1>3. \A k \in MarketIndexes : amm'[k] = IF k = m THEN q ELSE amm[k]
    BY DEF PoolsOK
  <1>4. \A k \in MarketIndexes : PoolOK(amm'[k])
    BY <1>3 DEF PoolsOK
  <1>5. \A k \in CreatedMarkets' : amm'[k].base > 0
    BY <1>3 DEF PoolsOK, CreatedMarkets
  <1> QED
    BY <1>2, <1>4, <1>5 DEF PoolsOK, PoolOK

\* Collecting a fee does not touch what PoolOK says.
LEMMA FeeKeepsPool ==
    ASSUME NEW p, PoolOK(p), NEW fee \in Int
    PROVE  /\ PoolOK([p EXCEPT !.totalFee = @ + fee])
           /\ [p EXCEPT !.totalFee = @ + fee].base = p.base
  BY DEF PoolOK, AmmType

\* Moving one side of the skew leaves the rest of the pool alone.
LEMMA SkewMoved ==
    ASSUME NEW w \in AmmType, NEW x \in Int
    PROVE  /\ [w EXCEPT !.long = x] \in AmmType
           /\ [w EXCEPT !.long = x].long = x
           /\ [w EXCEPT !.long = x].short = w.short
           /\ [w EXCEPT !.long = x].base = w.base
           /\ [w EXCEPT !.long = x].quote = w.quote
           /\ [w EXCEPT !.long = x].sqrtK = w.sqrtK
           /\ [w EXCEPT !.short = x] \in AmmType
           /\ [w EXCEPT !.short = x].short = x
           /\ [w EXCEPT !.short = x].long = w.long
           /\ [w EXCEPT !.short = x].base = w.base
           /\ [w EXCEPT !.short = x].quote = w.quote
           /\ [w EXCEPT !.short = x].sqrtK = w.sqrtK
  BY DEF AmmType

\* A swap moves the reserves only, and their product does not fall below the
\* square of the initial reserve.
LEMMA SwapKeepsProduct ==
    ASSUME NEW p, PoolOK(p), NEW n \in Nat, NEW dir \in {"Add", "Remove"},
           SwapAllowed(p, n, dir)
    PROVE  /\ Swapped(p, n, dir) \in AmmType
           /\ Swapped(p, n, dir).base = NewBaseReserve(p, n, dir)
           /\ Swapped(p, n, dir).base > 0
           /\ Swapped(p, n, dir).long = p.long
           /\ Swapped(p, n, dir).short = p.short
           /\ Swapped(p, n, dir).sqrtK = p.sqrtK
           /\ Swapped(p, n, dir).base * Swapped(p, n, dir).quote >= p.sqrtK * p.sqrtK
  <1> DEFINE b == NewBaseReserve(p, n, dir)
             q == NewQuoteReserve(p, n, dir)
  <1>1. p.base \in Nat /\ p.quote \in Nat /\ p.sqrtK \in Nat
    BY DEF PoolOK, AmmType
  <1>2. b \in Nat \ {0} /\ q \in Nat /\ b * q >= p.base * p.quote
    BY <1>1, NewReserves
  <1>3. Swapped(p, n, dir) = [p EXCEPT !.base = b, !.quote = q]
    BY DEF Swapped
  <1>4. b = NewBaseReserve(p, n, dir)
    OBVIOUS
  <1> HIDE DEF b, q
  <1>5. b * q >= p.sqrtK * p.sqrtK
    <2>1. b * q \in Nat /\ p.base * p.quote \in Nat /\ p.sqrtK * p.sqrtK \in Nat
      BY <1>1, <1>2
    <2> QED
      BY <1>2, <2>1 DEF PoolOK
  <1> DEFINE w == [p EXCEPT !.base = b, !.quote = q]
  <1>6. p \in AmmType
    BY DEF PoolOK
  <1>7. w.base = b /\ w.quote = q
    BY <1>6 DEF AmmType
  <1>8. w.long = p.long /\ w.short = p.short /\ w.sqrtK = p.sqrtK
    BY <1>6 DEF AmmType
  <1>9. w \in AmmType
    BY <1>2, <1>6 DEF AmmType
  <1> HIDE DEF w
  <1>10. w.base * w.quote >= p.sqrtK * p.sqrtK
    BY <1>5, <1>7
  <1>11. w.base > 0
    BY <1>2, <1>7
  <1> QED
    BY <1>3, <1>4, <1>7, <1>8, <1>9, <1>10, <1>11 DEF w

\* An open: the base that leaves (enters) the pool is added to the longs (shorts).
LEMMA OpenKeepsPool ==
    ASSUME NEW p, PoolOK(p), NEW n \in Nat, NEW dir \in Directions,
           SwapAllowed(p, n, SwapDirForOpen(dir))
    PROVE  /\ PoolOK(AddSkew(Swapped(p, n, SwapDirForOpen(dir)), dir, n))
           /\ AddSkew(Swapped(p, n, SwapDirForOpen(dir)), dir, n).base > 0
  <1> DEFINE w == Swapped(p, n, SwapDirForOpen(dir))
  <1>1. SwapDirForOpen(dir) \in {"Add", "Remove"}
    BY DEF SwapDirForOpen
  <1>2. /\ w \in AmmType
        /\ w.base = IF dir = "Long" THEN p.base - n ELSE p.base + n
        /\ w.base > 0
        /\ w.long = p.long /\ w.short = p.short /\ w.sqrtK = p.sqrtK
        /\ w.base * w.quote >= p.sqrtK * p.sqrtK
    BY <1>1, SwapKeepsProduct DEF NewBaseReserve, SwapDirForOpen, Directions
  <1> HIDE DEF w
  <1>3. /\ p.base \in Int /\ p.long \in Int /\ p.short \in Int
        /\ p.base + p.long + p.short = p.sqrtK
    BY DEF PoolOK, AmmType
  <1>4. CASE dir = "Long"
    <2> DEFINE r == [w EXCEPT !.long = w.long + n]
    <2>1. AddSkew(w, dir, n) = r
      BY <1>4 DEF AddSkew
    <2>2. w.long + n \in Int
      BY <1>2, <1>3
    <2>3. /\ r \in AmmType
          /\ r.base = w.base /\ r.quote = w.quote /\ r.sqrtK = w.sqrtK
          /\ r.long = w.long + n /\ r.short = w.short
      BY <1>2, <2>2, SkewMoved
    <2> HIDE DEF r
    <2>4. r.base + r.long + r.short = r.sqrtK
      BY <1>2, <1>3, <1>4, <2>3
    <2>5. r.base * r.quote >= r.sqrtK * r.sqrtK
      BY <1>2, <2>3
    <2> QED
      BY <1>2, <2>1, <2>3, <2>4, <2>5 DEF PoolOK, w
  <1>5. CASE dir # "Long"
    <2> DEFINE r == [w EXCEPT !.short = w.short - n]
    <2>1. AddSkew(w, dir, n) = r
      BY <1>5 DEF AddSkew
    <2>2. w.short - n \in Int
      BY <1>2, <1>3
    <2>3. /\ r \in AmmType
          /\ r.base = w.base /\ r.quote = w.quote /\ r.sqrtK = w.sqrtK
          /\ r.short = w.short - n /\ r.long = w.long
      BY <1>2, <2>2, SkewMoved
    <2> HIDE DEF r
    <2>4. r.base + r.long + r.short = r.sqrtK
      BY <1>2, <1>3, <1>5, <2>3
    <2>5. r.base * r.quote >= r.sqrtK * r.sqrtK
      BY <1>2, <2>3
    <2> QED
      BY <1>2, <2>1, <2>3, <2>4, <2>5 DEF PoolOK, w
  <1> QED
    BY <1>4, <1>5

\* A close or a liquidation undoes it.
LEMMA CloseKeepsPool ==
    ASSUME NEW p, PoolOK(p), NEW n \in Nat, NEW pos \in PositionType,
           SwapAllowed(p, n, CloseSwapDir(pos))
    PROVE  /\ PoolOK(RemoveSkew(Swapped(p, n, CloseSwapDir(pos)), pos.base > 0, n))
           /\ RemoveSkew(Swapped(p, n, CloseSwapDir(pos)), pos.base > 0, n).base > 0
  <1> DEFINE w == Swapped(p, n, CloseSwapDir(pos))
  <1>1. CloseSwapDir(pos) \in {"Add", "Remove"}
    BY DEF CloseSwapDir
  <1>2. /\ w \in AmmType
        /\ w.base = IF pos.base > 0 THEN p.base + n ELSE p.base - n
        /\ w.base > 0
        /\ w.long = p.long /\ w.short = p.short /\ w.sqrtK = p.sqrtK
        /\ w.base * w.quote >= p.sqrtK * p.sqrtK
    BY <1>1, SwapKeepsProduct DEF NewBaseReserve, CloseSwapDir
  <1> HIDE DEF w
  <1>3. /\ p.base \in Int /\ p.long \in Int /\ p.short \in Int
        /\ p.base + p.long + p.short = p.sqrtK
    BY DEF PoolOK, AmmType
  <1>4. CASE pos.base > 0
    <2> DEFINE r == [w EXCEPT !.long = w.long - n]
    <2>1. RemoveSkew(w, pos.base > 0, n) = r
      BY <1>4 DEF RemoveSkew
    <2>2. w.long - n \in Int
      BY <1>2, <1>3
    <2>3. /\ r \in AmmType
          /\ r.base = w.base /\ r.quote = w.quote /\ r.sqrtK = w.sqrtK
          /\ r.long = w.long - n /\ r.short = w.short
      BY <1>2, <2>2, SkewMoved
    <2> HIDE DEF r
    <2>4. r.base + r.long + r.short = r.sqrtK
      BY <1>2, <1>3, <1>4, <2>3
    <2>5. r.base * r.quote >= r.sqrtK * r.sqrtK
      BY <1>2, <2>3
    <2> QED
      BY <1>2, <2>1, <2>3, <2>4, <2>5 DEF PoolOK, w
  <1>5. CASE ~(pos.base > 0)
    <2> DEFINE r == [w EXCEPT !.short = w.short + n]
    <2>1. RemoveSkew(w, pos.base > 0, n) = r
      BY <1>5 DEF RemoveSkew
    <2>2. w.short + n \in Int
      BY <1>2, <1>3
    <2>3. /\ r \in AmmType
          /\ r.base = w.base /\ r.quote = w.quote /\ r.sqrtK = w.sqrtK
          /\ r.short = w.short + n /\ r.long = w.long
      BY <1>2, <2>2, SkewMoved
    <2> HIDE DEF r
    <2>4. r.base + r.long + r.short = r.sqrtK
      BY <1>2, <1>3, <1>5, <2>3
    <2>5. r.base * r.quote >= r.sqrtK * r.sqrtK
      BY <1>2, <2>3
    <2> QED
      BY <1>2, <2>1, <2>3, <2>4, <2>5 DEF PoolOK, w
  <1> QED
    BY <1>4, <1>5

\* A match of n base adds n to both sides of the skew and leaves the reserves alone.
LEMMA MatchKeepsPool ==
    ASSUME NEW p, PoolOK(p), NEW n \in Nat, NEW dir \in Directions
    PROVE  /\ PoolOK(AddSkew(AddSkew(p, dir, n), Opposite(dir), n))
           /\ AddSkew(AddSkew(p, dir, n), Opposite(dir), n).base = p.base
  BY DEF PoolOK, AmmType, AddSkew, Opposite, Directions

-----------------------------------------------------------------------------
(* Accounts, positions and markets *)

LEMMA AccountReplaced ==
    ASSUME AccountsOK, NEW u \in Users, NEW a, AccountOK(a),
           user' = [user EXCEPT ![u] = a]
    PROVE  AccountsOK'
  <1>1. \A v \in Users : user'[v] = IF v = u THEN a ELSE user[v]
    BY DEF AccountsOK
  <1>2. user' \in [Users -> UserType]
    BY DEF AccountsOK, AccountOK
  <1> QED
    BY <1>1, <1>2 DEF AccountsOK, AccountOK

\* Any unsigned collateral and any settled profit suit an account.
LEMMA AccountWithCollateral ==
    ASSUME NEW a, AccountOK(a), NEW c \in Nat, NEW s \in Int
    PROVE  AccountOK([a EXCEPT !.collateral = c, !.settledPnl = s])
  BY DEF AccountOK, UserType

LEMMA PositionReplaced ==
    ASSUME PositionsOK, NEW u \in Users, NEW s \in PositionSlots, NEW p \in PositionType,
           positions' = [positions EXCEPT ![u][s] = p]
    PROVE  PositionsOK'
  BY DEF PositionsOK

LEMMA MarketReplaced ==
    ASSUME MarketsOK, NEW m \in MarketIndexes, NEW mk \in MarketType,
           market' = [market EXCEPT ![m] = mk]
    PROVE  MarketsOK'
  BY DEF MarketsOK

LEMMA SignedBaseType ==
    ASSUME NEW dir \in Directions, NEW n \in Nat
    PROVE  SignedBase(dir, n) \in Int
  BY PrecisionAssumption DEF SignedBase, AsI64

LEMMA TargetPositionType ==
    ASSUME PositionsOK, NEW u \in Users, NEW m \in MarketIndexes, NEW s \in PositionSlots
    PROVE  TargetPosition(u, m, s) \in PositionType
  BY StateAssumption DEF PositionsOK, TargetPosition, DefaultPosition, PositionType

LEMMA IncreasedType ==
    ASSUME NEW p \in PositionType, NEW dir \in Directions, NEW n \in Nat, NEW q \in Int,
           NEW cum \in Int
    PROVE  Increased(p, dir, n, q, cum) \in PositionType
  <1> DEFINE b == p.base + SignedBase(dir, n)
             e == IF dir = "Long" THEN p.quoteEntry - q ELSE p.quoteEntry + q
             c == IF p.base = 0 THEN cum ELSE p.lastCum
  <1>1. b \in Int /\ e \in Int /\ c \in Int
    BY SignedBaseType DEF PositionType
  <1>2. Increased(p, dir, n, q, cum) = [p EXCEPT !.base = b, !.quoteEntry = e, !.lastCum = c]
    BY DEF Increased
  <1> HIDE DEF b, e, c
  <1> QED
    BY <1>1, <1>2 DEF PositionType

LEMMA QuoteClosedType ==
    ASSUME NEW p \in PositionType, p.base # 0, NEW n \in Nat
    PROVE  QuoteClosed(p, n) \in Int
  <1>1. Magnitude(p.base) \in Nat \ {0} /\ p.quoteEntry * n \in Int
    BY DEF Magnitude, PositionType
  <1> QED
    BY <1>1, TruncDivType DEF QuoteClosed

LEMMA ReducedType ==
    ASSUME NEW p \in PositionType, p.base # 0, NEW n \in Nat
    PROVE  Reduced(p, n) \in PositionType
  <1> DEFINE b == IF p.base > 0 THEN p.base - n ELSE p.base + n
             e == IF b = 0 THEN 0 ELSE p.quoteEntry - QuoteClosed(p, n)
  <1>1. b \in Int /\ e \in Int
    BY QuoteClosedType DEF PositionType
  <1>2. Reduced(p, n) = [p EXCEPT !.base = b, !.quoteEntry = e]
    BY DEF Reduced
  <1> HIDE DEF b, e
  <1> QED
    BY <1>1, <1>2 DEF PositionType

LEMMA RealizedType ==
    ASSUME NEW p \in PositionType, p.base # 0, NEW n \in Nat, NEW q \in Int
    PROVE  Realized(p, n, q) \in Int
  BY QuoteClosedType DEF Realized

LEMMA InterestType ==
    ASSUME NEW mk \in MarketType, NEW n \in Nat
    PROVE  /\ \A dir \in Directions : AddInterest(mk, dir, n) \in MarketType
           /\ \A isLong \in BOOLEAN : RemoveInterest(mk, isLong, n) \in MarketType
  BY DEF AddInterest, RemoveInterest, Greatest, MarketType

-----------------------------------------------------------------------------
(* The three ways of trading *)

\* execute_amm_open keeps pools, positions, markets and accounts sound.
LEMMA AmmOpenKeeps ==
    ASSUME TradeOK, NEW u \in Users, NEW m \in MarketIndexes, NEW dir \in Directions,
           NEW n \in Nat, NEW limit, numMarkets' = numMarkets,
           ExecuteAmmOpen(u, m, dir, n, limit)
    PROVE  TradeOK'
  <1> DEFINE swapDir == SwapDirForOpen(dir)
             quote   == SwapQuote(amm[m], n, swapDir)
             fee     == FeeAmount(quote, TakerFeeBps)
             left    == user[u].collateral - fee
             pool    == AddSkew(Swapped(amm[m], n, swapDir), dir, n)
  <1>1. PICK s \in PositionSlots :
          LET pos   == Increased(TargetPosition(u, m, s), dir, n, quote, amm[m].cumFunding)
              after == AddInterest(market[m], dir, n)
          IN  /\ SwapAllowed(amm[m], n, swapDir)
              /\ left >= 0
              /\ positions' = [positions EXCEPT ![u][s] = pos]
              /\ user' = [user EXCEPT ![u].collateral = left]
              /\ market' = [market EXCEPT ![m] = after]
              /\ amm' = [amm EXCEPT ![m] = [pool EXCEPT !.totalFee = @ + fee]]
    BY DEF ExecuteAmmOpen
  <1>2. /\ PoolOK(amm[m]) /\ amm[m].base \in Nat /\ amm[m].quote \in Nat
        /\ amm[m].peg \in Nat /\ amm[m].cumFunding \in Int
    BY DEF TradeOK, PoolsOK, PoolOK, AmmType
  <1>3. swapDir \in {"Add", "Remove"}
    BY DEF SwapDirForOpen
  <1>4. quote \in Int
    BY <1>1, <1>2, <1>3, SwapQuoteType
  <1>5. fee \in Int
    BY <1>4, FeeType, StateAssumption
  <1>6. PoolOK(pool) /\ pool.base > 0
    BY <1>1, <1>2, OpenKeepsPool
  <1>7. user[u] \in UserType /\ AccountOK(user[u])
    BY DEF TradeOK, AccountsOK
  <1>8. left \in Nat
    BY <1>1, <1>5, <1>7 DEF UserType
  <1> HIDE DEF quote, fee, left, pool
  <1>9. PoolsOK'
    BY <1>1, <1>5, <1>6, FeeKeepsPool, PoolReplaced DEF TradeOK
  <1>10. AccountsOK'
    <2>1. AccountOK([user[u] EXCEPT !.collateral = left])
      BY <1>7, <1>8 DEF AccountOK, UserType
    <2>2. user' = [user EXCEPT ![u] = [user[u] EXCEPT !.collateral = left]]
      BY <1>1
    <2> QED
      BY <2>1, <2>2, AccountReplaced DEF TradeOK
  <1>11. PositionsOK'
    BY <1>1, <1>2, <1>4, TargetPositionType, IncreasedType, PositionReplaced DEF TradeOK
  <1>12. MarketsOK'
    <2>1. market[m] \in MarketType
      BY DEF TradeOK, MarketsOK
    <2> QED
      BY <1>1, <2>1, InterestType, MarketReplaced DEF TradeOK
  <1> QED
    BY <1>9, <1>10, <1>11, <1>12 DEF TradeOK

\* execute_amm_close does.
LEMMA AmmCloseKeeps ==
    ASSUME TradeOK, NEW u \in Users, NEW m \in MarketIndexes, NEW s \in PositionSlots,
           NEW n, NEW limit, numMarkets' = numMarkets,
           ExecuteAmmClose(u, m, s, n, limit)
    PROVE  TradeOK'
  <1> DEFINE pos   == positions[u][s]
             quote == SwapQuote(amm[m], n, CloseSwapDir(pos))
             fee   == FeeAmount(quote, TakerFeeBps)
             pnl   == Realized(pos, n, quote)
             left  == user[u].collateral + pnl - fee
             pool  == RemoveSkew(Swapped(amm[m], n, CloseSwapDir(pos)), pos.base > 0, n)
  <1>1. /\ n \in 1 .. Magnitude(pos.base)
        /\ SwapAllowed(amm[m], n, CloseSwapDir(pos))
        /\ left >= 0
        /\ positions' = [positions EXCEPT ![u][s] = Reduced(pos, n)]
        /\ user' = [user EXCEPT ![u].collateral = left, ![u].settledPnl = @ + pnl]
        /\ market' = [market EXCEPT ![m] = RemoveInterest(market[m], pos.base > 0, n)]
        /\ amm' = [amm EXCEPT ![m] = [pool EXCEPT !.totalFee = @ + fee]]
    BY DEF ExecuteAmmClose
  <1>2. /\ PoolOK(amm[m]) /\ amm[m].base \in Nat /\ amm[m].quote \in Nat
        /\ amm[m].peg \in Nat
    BY DEF TradeOK, PoolsOK, PoolOK, AmmType
  <1>3. pos \in PositionType
    BY DEF TradeOK, PositionsOK
  <1>4. n \in Nat /\ pos.base # 0
    BY <1>1, <1>3 DEF Magnitude, PositionType
  <1>5. CloseSwapDir(pos) \in {"Add", "Remove"}
    BY DEF CloseSwapDir
  <1>6. quote \in Int
    BY <1>1, <1>2, <1>4, <1>5, SwapQuoteType
  <1>7. fee \in Int
    BY <1>6, FeeType, StateAssumption
  <1>8. pnl \in Int
    BY <1>3, <1>4, <1>6, RealizedType
  <1>9. PoolOK(pool) /\ pool.base > 0
    BY <1>1, <1>2, <1>3, <1>4, CloseKeepsPool
  <1>10. user[u] \in UserType /\ AccountOK(user[u])
    BY DEF TradeOK, AccountsOK
  <1>11. left \in Nat
    BY <1>1, <1>7, <1>8, <1>10 DEF UserType
  <1> HIDE DEF quote, fee, pnl, left, pool, pos
  <1>12. PoolsOK'
    BY <1>1, <1>7, <1>9, FeeKeepsPool, PoolReplaced DEF TradeOK
  <1>13. AccountsOK'
    <2> DEFINE settled == user[u].settledPnl + pnl
    <2>1. settled \in Int
      BY <1>8, <1>10 DEF UserType
    <2>2. user' = [user EXCEPT ![u] = [user[u] EXCEPT !.collateral = left,
                                                      !.settledPnl = settled]]
      BY <1>1, <1>10 DEF TradeOK, AccountsOK, UserType
    <2> HIDE DEF settled
    <2> QED
      BY <1>10, <1>11, <2>1, <2>2, AccountWithCollateral, AccountReplaced DEF TradeOK
  <1>14. PositionsOK'
    BY <1>1, <1>3, <1>4, ReducedType, PositionReplaced DEF TradeOK
  <1>15. MarketsOK'
    <2>1. market[m] \in MarketType /\ (pos.base > 0) \in BOOLEAN
      BY DEF TradeOK, MarketsOK
    <2> QED
      BY <1>1, <1>4, <2>1, InterestType, MarketReplaced DEF TradeOK
  <1> QED
    BY <1>12, <1>13, <1>14, <1>15 DEF TradeOK

\* execute_maker_match does, between two users that differ.
LEMMA MakerMatchKeeps ==
    ASSUME TradeOK, NEW taker \in Users, NEW maker \in Users, taker # maker,
           NEW m \in MarketIndexes, NEW dir \in Directions, NEW n \in Nat,
           NEW price \in Nat, numMarkets' = numMarkets, amm[m].base > 0,
           ExecuteMakerMatch(taker, maker, m, dir, n, price)
    PROVE  TradeOK'
  <1> DEFINE quote  == (n * price) \div BASE_PRECISION
             fee    == FeeAmount(quote, TakerFeeBps)
             rebate == FeeAmount(quote, MakerRebateBps)
             pool   == AddSkew(AddSkew(amm[m], dir, n), Opposite(dir), n)
             after  == AddInterest(AddInterest(market[m], dir, n), Opposite(dir), n)
  <1>1. PICK ts \in PositionSlots, ms \in PositionSlots :
          LET tpos == Increased(TargetPosition(taker, m, ts), dir, n, quote, amm[m].cumFunding)
              mpos == Increased(TargetPosition(maker, m, ms), Opposite(dir), n, quote,
                                amm[m].cumFunding)
          IN  /\ user[taker].collateral + (-fee) >= 0
              /\ user[maker].collateral + rebate >= 0
              /\ positions' = [positions EXCEPT ![taker][ts] = tpos, ![maker][ms] = mpos]
              /\ user' = [user EXCEPT ![taker].collateral = @ - fee,
                                      ![maker].collateral = @ + rebate]
              /\ market' = [market EXCEPT ![m] = after]
              /\ amm' = [amm EXCEPT ![m] = [pool EXCEPT !.totalFee = @ + fee - rebate]]
    BY DEF ExecuteMakerMatch, MatchLegAllowed
  <1>2. PoolOK(amm[m]) /\ amm[m].cumFunding \in Int
    BY DEF TradeOK, PoolsOK, PoolOK, AmmType
  <1>3. Opposite(dir) \in Directions
    BY DEF Opposite, Directions
  <1>4. quote \in Int
    BY PrecisionAssumption, DivBounds
  <1>5. fee \in Int /\ rebate \in Int
    BY <1>4, FeeType, StateAssumption
  <1>6. PoolOK(pool) /\ pool.base = amm[m].base
    BY <1>2, MatchKeepsPool
  <1>7. after \in MarketType
    <2>1. market[m] \in MarketType
      BY DEF TradeOK, MarketsOK
    <2> QED
      BY <1>3, <2>1, InterestType
  <1> HIDE DEF quote, fee, rebate, pool, after
  <1>8. PoolsOK'
    <2>1. fee - rebate \in Int /\ pool.totalFee \in Int
      BY <1>5, <1>6 DEF PoolOK, AmmType
    <2>2. [pool EXCEPT !.totalFee = @ + fee - rebate]
            = [pool EXCEPT !.totalFee = @ + (fee - rebate)]
      BY <1>5, <2>1
    <2> QED
      BY <1>1, <1>6, <2>1, <2>2, FeeKeepsPool, PoolReplaced DEF TradeOK
  <1>9. AccountsOK'
    <2>1. /\ \A u \in Users : user[u] \in UserType /\ AccountOK(user[u])
          /\ user \in [Users -> UserType]
      BY DEF TradeOK, AccountsOK
    <2> DEFINE tk == [user[taker] EXCEPT !.collateral = user[taker].collateral - fee]
               mk == [user[maker] EXCEPT !.collateral = user[maker].collateral + rebate]
    <2>2. AccountOK(tk)
      BY <1>1, <1>5, <2>1 DEF AccountOK, UserType
    <2>3. AccountOK(mk)
      BY <1>1, <1>5, <2>1 DEF AccountOK, UserType
    <2>4. user' = [user EXCEPT ![taker] = tk, ![maker] = mk]
      BY <1>1, <2>1
    <2> HIDE DEF tk, mk
    <2>5. /\ user' \in [Users -> UserType]
          /\ \A u \in Users : user'[u] \in {tk, mk, user[u]}
      BY <2>1, <2>2, <2>3, <2>4 DEF AccountOK
    <2> QED
      BY <2>1, <2>2, <2>3, <2>5 DEF AccountsOK, AccountOK
  <1>10. PositionsOK'
    <2> DEFINE tpos == Increased(TargetPosition(taker, m, ts), dir, n, quote, amm[m].cumFunding)
               mpos == Increased(TargetPosition(maker, m, ms), Opposite(dir), n, quote,
                                 amm[m].cumFunding)
    <2>1. tpos \in PositionType /\ mpos \in PositionType
      BY <1>2, <1>3, <1>4, TargetPositionType, IncreasedType DEF TradeOK
    <2>2. positions' = [positions EXCEPT ![taker][ts] = tpos, ![maker][ms] = mpos]
      BY <1>1
    <2> HIDE DEF tpos, mpos
    <2> QED
      BY <2>1, <2>2 DEF TradeOK, PositionsOK
  <1>11. MarketsOK'
    BY <1>1, <1>7, MarketReplaced DEF TradeOK
  <1> QED
    BY <1>8, <1>9, <1>10, <1>11 DEF TradeOK

-----------------------------------------------------------------------------
(* The instructions. *)

\* the part of the state no trade changes
RestOK ==
    /\ clock \in Nat
    /\ paused \in BOOLEAN
    /\ numMarkets \in Nat
    /\ oracle \in [MarketIndexes -> OracleType]
    /\ orders \in [Users -> [OrderSlots -> OrderType]]
    /\ insurance \in Nat
    /\ wallet \in [Users -> Nat]
    /\ vault \in Nat
    /\ insuranceVault \in Nat

EngineInv == TradeOK /\ RestOK

\* Trades read and change nothing but these.
LEMMA TradeFrame ==
    ASSUME TradeOK, UNCHANGED <<numMarkets, market, amm, user, positions>>
    PROVE  TradeOK'
  BY DEF TradeOK, MarketsOK, PositionsOK, PoolsOK, AccountsOK, AccountOK, CreatedMarkets

\* An instruction that only replaces one account.
LEMMA AccountFrame ==
    ASSUME TradeOK, AccountsOK', UNCHANGED <<numMarkets, market, amm, positions>>
    PROVE  TradeOK'
  BY DEF TradeOK, MarketsOK, PositionsOK, PoolsOK, CreatedMarkets

\* Every account table has its domain and is the function of its entries.
LEMMA Layout ==
    ASSUME EngineInv
    PROVE  /\ DOMAIN user = Users /\ DOMAIN positions = Users /\ DOMAIN orders = Users
           /\ DOMAIN wallet = Users
           /\ DOMAIN market = MarketIndexes /\ DOMAIN amm = MarketIndexes
           /\ DOMAIN oracle = MarketIndexes
           /\ user = [v \in Users |-> user[v]]
           /\ positions = [v \in Users |-> positions[v]]
           /\ orders = [v \in Users |-> orders[v]]
           /\ wallet = [v \in Users |-> wallet[v]]
           /\ market = [m \in MarketIndexes |-> market[m]]
           /\ amm = [m \in MarketIndexes |-> amm[m]]
           /\ oracle = [m \in MarketIndexes |-> oracle[m]]
  BY DEF EngineInv, TradeOK, RestOK, AccountsOK, PositionsOK, MarketsOK, PoolsOK

LEMMA InitEngineInv == Init => EngineInv
  <1> SUFFICES ASSUME Init PROVE EngineInv
    OBVIOUS
  <1>1. MarketsOK
    BY DEF Init, MarketsOK, DefaultMarket, MarketType, MarketStatuses
  <1>2. PositionsOK
    BY DEF Init, PositionsOK, DefaultPosition, PositionType
  <1>3. PoolsOK
    <2>1. DefaultAmm \in AmmType
      BY DEF DefaultAmm, AmmType
    <2>2. PoolOK(DefaultAmm)
      <3>1. DefaultAmm.base = 0 /\ DefaultAmm.quote = 0 /\ DefaultAmm.sqrtK = 0
            /\ DefaultAmm.long = 0 /\ DefaultAmm.short = 0
        BY DEF DefaultAmm
      <3>2. 0 * 0 >= 0 * 0 /\ 0 + 0 + 0 = 0
        OBVIOUS
      <3> QED
        BY <2>1, <3>1, <3>2 DEF PoolOK
    <2>3. CreatedMarkets = {}
      <3>1. \A m \in MarketIndexes : m \in Nat
        BY StateAssumption
      <3>2. \A m \in MarketIndexes : ~(m < 0)
        BY <3>1
      <3> QED
        BY <3>2 DEF Init, CreatedMarkets
    <2> QED
      BY <2>1, <2>2, <2>3 DEF Init, PoolsOK
  <1>4. AccountsOK
    <2>1. DefaultUser \in UserType /\ AccountOK(DefaultUser)
      BY DEF DefaultUser, UserType, AccountOK
    <2> QED
      BY <2>1 DEF Init, AccountsOK
  <1>5. RestOK
    <2>1. DefaultOracle \in OracleType
      BY DEF DefaultOracle, OracleType
    <2>2. DefaultOrder \in OrderType
      BY DEF DefaultOrder, OrderType, OrderTypes, Directions, Conditions
    <2> QED
      BY <2>1, <2>2, InputAssumption DEF Init, RestOK
  <1> QED
    BY <1>1, <1>2, <1>3, <1>4, <1>5 DEF EngineInv, TradeOK

-----------------------------------------------------------------------------
(* Accounts and collateral *)

LEMMA InitializeUserKeeps ==
    ASSUME EngineInv, NEW u \in Users, InitializeUser(u)
    PROVE  EngineInv'
  <1>1. user[u] \in UserType /\ AccountOK(user[u])
    BY DEF EngineInv, TradeOK, AccountsOK
  <1>2. AccountOK([user[u] EXCEPT !.exists = TRUE])
    BY <1>1 DEF AccountOK, UserType
  <1>3. user' = [user EXCEPT ![u] = [user[u] EXCEPT !.exists = TRUE]]
    BY DEF InitializeUser
  <1>4. AccountsOK'
    BY <1>2, <1>3, AccountReplaced DEF EngineInv, TradeOK
  <1> QED
    BY <1>4, AccountFrame DEF EngineInv, RestOK, InitializeUser

\* Collateral moved against the wallet and the vault, none of them below zero.
LEMMA DepositKeeps ==
    ASSUME EngineInv, NEW u \in Users, NEW a \in Nat, Deposit(u, a)
    PROVE  EngineInv'
  <1>1. user[u] \in UserType /\ AccountOK(user[u])
    BY DEF EngineInv, TradeOK, AccountsOK
  <1>2. AccountOK([user[u] EXCEPT !.collateral = user[u].collateral + a])
    BY <1>1 DEF AccountOK, UserType
  <1>3. user' = [user EXCEPT ![u] = [user[u] EXCEPT !.collateral = user[u].collateral + a]]
    BY DEF Deposit
  <1>4. TradeOK'
    BY <1>2, <1>3, AccountReplaced, AccountFrame DEF EngineInv, TradeOK, Deposit
  <1> QED
    BY <1>4 DEF EngineInv, RestOK, Deposit

LEMMA WithdrawKeeps ==
    ASSUME EngineInv, NEW u \in Users, NEW m, NEW a \in Nat, Withdraw(u, m, a)
    PROVE  EngineInv'
  <1>1. user[u] \in UserType /\ AccountOK(user[u])
    BY DEF EngineInv, TradeOK, AccountsOK
  <1>2. AccountOK([user[u] EXCEPT !.collateral = user[u].collateral - a])
    BY <1>1 DEF AccountOK, UserType, Withdraw
  <1>3. user' = [user EXCEPT ![u] = [user[u] EXCEPT !.collateral = user[u].collateral - a]]
    BY DEF Withdraw
  <1>4. TradeOK'
    BY <1>2, <1>3, AccountReplaced, AccountFrame DEF EngineInv, TradeOK, Withdraw
  <1> QED
    BY <1>4 DEF EngineInv, RestOK, Withdraw

-----------------------------------------------------------------------------
(* Market orders *)

LEMMA OpenPositionKeeps ==
    ASSUME EngineInv, NEW u \in Users, NEW m \in MarketIndexes, NEW dir \in Directions,
           NEW n \in Nat, NEW limit, OpenPosition(u, m, dir, n, limit)
    PROVE  EngineInv'
  <1>1. TradeOK'
    BY AmmOpenKeeps DEF OpenPosition, EngineInv
  <1> QED
    BY <1>1 DEF EngineInv, RestOK, OpenPosition

LEMMA ClosePositionKeeps ==
    ASSUME EngineInv, NEW u \in Users, NEW m \in MarketIndexes, NEW request, NEW limit,
           ClosePosition(u, m, request, limit)
    PROVE  EngineInv'
  <1>1. TradeOK'
    BY AmmCloseKeeps DEF ClosePosition, EngineInv
  <1> QED
    BY <1>1 DEF EngineInv, RestOK, ClosePosition

-----------------------------------------------------------------------------
(* Resting orders *)

LEMMA RemainingType ==
    ASSUME NEW o \in OrderType
    PROVE  RemainingBase(o) \in Nat
  BY DEF RemainingBase, Greatest, OrderType

LEMMA FilledType ==
    ASSUME NEW o \in OrderType, NEW n \in Nat
    PROVE  /\ Filled(o, n) \in OrderType
           /\ [Filled(o, n) EXCEPT !.status = "Init"] \in OrderType
           /\ FillAndMaybeClear(o, n) \in OrderType
  <1>1. DefaultOrder \in OrderType
    BY DEF DefaultOrder, OrderType, OrderTypes, Directions, Conditions
  <1>2. Filled(o, n) \in OrderType
    BY DEF Filled, OrderType
  <1>3. [Filled(o, n) EXCEPT !.status = "Init"] \in OrderType
    BY <1>2 DEF OrderType
  <1> QED
    BY <1>1, <1>2, <1>3 DEF FillAndMaybeClear

LEMMA PlaceOrderKeeps ==
    ASSUME EngineInv, NEW u \in Users, NEW m \in MarketIndexes, NEW o \in OrderSpecRecord,
           PlaceOrder(u, m, o)
    PROVE  EngineInv'
  <1>1. user[u] \in UserType /\ AccountOK(user[u])
    BY DEF EngineInv, TradeOK, AccountsOK
  <1> DEFINE next == (user[u].nextOrderId + 1) % ORDER_ID_MODULUS
             new  == [DefaultOrder EXCEPT !.status = "Open", !.id = user[u].nextOrderId,
                        !.market = m, !.type = o.type, !.dir = o.dir, !.base = o.base,
                        !.price = o.price, !.trigger = o.trigger, !.cond = o.cond,
                        !.reduceOnly = o.reduceOnly]
  <1>2. next \in Nat
    BY <1>1, StateAssumption DEF UserType
  <1>3. new \in OrderType
    BY <1>1, StateAssumption DEF DefaultOrder, OrderType, OrderSpecRecord, UserType
  <1>4. user' = [user EXCEPT ![u] = [user[u] EXCEPT !.nextOrderId = next]]
    BY DEF PlaceOrder
  <1>5. PICK s \in OrderSlots : orders' = [orders EXCEPT ![u][s] = new]
    BY DEF PlaceOrder
  <1> HIDE DEF next, new
  <1>6. AccountOK([user[u] EXCEPT !.nextOrderId = next])
    BY <1>1, <1>2 DEF AccountOK, UserType
  <1>7. TradeOK'
    BY <1>4, <1>6, AccountReplaced, AccountFrame DEF EngineInv, TradeOK, PlaceOrder
  <1>8. orders' \in [Users -> [OrderSlots -> OrderType]]
    BY <1>3, <1>5 DEF EngineInv, RestOK
  <1> QED
    BY <1>7, <1>8 DEF EngineInv, RestOK, PlaceOrder

LEMMA CancelOrderKeeps ==
    ASSUME EngineInv, NEW u \in Users, NEW id, CancelOrder(u, id)
    PROVE  EngineInv'
  <1>1. DefaultOrder \in OrderType
    BY DEF DefaultOrder, OrderType, OrderTypes, Directions, Conditions
  <1>2. orders' \in [Users -> [OrderSlots -> OrderType]]
    BY <1>1 DEF EngineInv, RestOK, CancelOrder
  <1>3. TradeOK'
    BY TradeFrame DEF EngineInv, CancelOrder
  <1> QED
    BY <1>2, <1>3 DEF EngineInv, RestOK, CancelOrder

LEMMA FillOrderKeeps ==
    ASSUME EngineInv, NEW u \in Users, NEW m \in MarketIndexes, NEW id,
           FillOrder(u, m, id)
    PROVE  EngineInv'
  <1>1. PICK os \in OrderSlots :
          FillReduceOnly(u, m, os) \/ FillOpening(u, m, os)
    BY DEF FillOrder
  <1>2. orders[u][os] \in OrderType /\ RemainingBase(orders[u][os]) \in Nat
    BY RemainingType DEF EngineInv, RestOK
  <1>3. numMarkets' = numMarkets
    BY DEF FillOrder
  <1>4. DefaultOrder \in OrderType
    BY DEF DefaultOrder, OrderType, OrderTypes, Directions, Conditions
  <1>5. CASE FillReduceOnly(u, m, os)
    <2> DEFINE size(ps) == Magnitude(positions[u][ps].base)
               n(ps)    == Least(RemainingBase(orders[u][os]), size(ps))
    <2>1. PICK ps \in PositionSlots :
            /\ ExecuteAmmClose(u, m, ps, n(ps), orders[u][os].price)
            /\ orders' = [orders EXCEPT ![u][os] =
                  IF n(ps) = size(ps) THEN DefaultOrder
                  ELSE FillAndMaybeClear(orders[u][os], n(ps))]
      BY <1>5 DEF FillReduceOnly
    <2>2. TradeOK'
      BY <1>3, <2>1, AmmCloseKeeps DEF EngineInv
    <2>3. n(ps) \in Nat
      <3>1. positions[u][ps].base \in Int
        BY DEF EngineInv, TradeOK, PositionsOK, PositionType
      <3> QED
        BY <1>2, <3>1 DEF Least, Magnitude
    <2>4. orders' \in [Users -> [OrderSlots -> OrderType]]
      <3> DEFINE new == IF n(ps) = size(ps) THEN DefaultOrder
                        ELSE FillAndMaybeClear(orders[u][os], n(ps))
      <3>1. new \in OrderType
        BY <1>2, <1>4, <2>3, FilledType
      <3>2. orders' = [orders EXCEPT ![u][os] = new]
        BY <2>1
      <3> HIDE DEF new
      <3> QED
        BY <3>1, <3>2 DEF EngineInv, RestOK
    <2> QED
      BY <2>2, <2>4 DEF EngineInv, RestOK, FillOrder
  <1>6. CASE FillOpening(u, m, os)
    <2>1. /\ ExecuteAmmOpen(u, m, orders[u][os].dir, RemainingBase(orders[u][os]),
                            orders[u][os].price)
          /\ orders' = [orders EXCEPT ![u][os] = DefaultOrder]
      BY <1>6 DEF FillOpening
    <2>2. orders[u][os].dir \in Directions
      BY <1>2 DEF OrderType
    <2>3. TradeOK'
      BY <1>2, <1>3, <2>1, <2>2, AmmOpenKeeps DEF EngineInv
    <2>4. orders' \in [Users -> [OrderSlots -> OrderType]]
      BY <1>4, <2>1 DEF EngineInv, RestOK
    <2> QED
      BY <2>3, <2>4 DEF EngineInv, RestOK, FillOrder
  <1> QED
    BY <1>1, <1>5, <1>6

LEMMA MatchOrdersKeeps ==
    ASSUME EngineInv, NEW taker \in Users, NEW maker \in Users, NEW m \in MarketIndexes,
           NEW takerId, NEW makerId, MatchOrders(taker, maker, m, takerId, makerId)
    PROVE  EngineInv'
  <1> DEFINE n(ts, ms) == Least(RemainingBase(orders[taker][ts]),
                                RemainingBase(orders[maker][ms]))
  <1>1. PICK ts \in OrderSlots, ms \in OrderSlots :
          /\ ExecuteMakerMatch(taker, maker, m, orders[taker][ts].dir, n(ts, ms),
                               orders[maker][ms].price)
          /\ orders' = [orders EXCEPT
                ![taker][ts] = FillAndMaybeClear(orders[taker][ts], n(ts, ms)),
                ![maker][ms] = FillAndMaybeClear(orders[maker][ms], n(ts, ms))]
    BY DEF MatchOrders
  <1>2. /\ orders[taker][ts] \in OrderType
        /\ orders[maker][ms] \in OrderType
    BY DEF EngineInv, RestOK
  <1>3. n(ts, ms) \in Nat
    BY <1>2, RemainingType DEF Least
  <1> DEFINE t1 == FillAndMaybeClear(orders[taker][ts], n(ts, ms))
             m1 == FillAndMaybeClear(orders[maker][ms], n(ts, ms))
  <1>4. t1 \in OrderType /\ m1 \in OrderType
    BY <1>2, <1>3, FilledType
  <1>5. orders' = [orders EXCEPT ![taker][ts] = t1, ![maker][ms] = m1]
    BY <1>1
  <1>6. TradeOK'
    <2>1. /\ taker # maker
          /\ m \in CreatedMarkets
          /\ numMarkets' = numMarkets
      BY DEF MatchOrders
    <2>2. amm[m].base > 0
      BY <2>1 DEF EngineInv, TradeOK, PoolsOK
    <2>3. orders[taker][ts].dir \in Directions /\ orders[maker][ms].price \in Nat
      BY <1>2 DEF OrderType
    <2> QED
      BY <1>1, <1>3, <2>1, <2>2, <2>3, MakerMatchKeeps DEF EngineInv
  <1> HIDE DEF t1, m1
  <1>7. orders' \in [Users -> [OrderSlots -> OrderType]]
    BY <1>4, <1>5 DEF EngineInv, RestOK
  <1> QED
    BY <1>6, <1>7 DEF EngineInv, RestOK, MatchOrders

LEMMA TriggerOrderKeeps ==
    ASSUME EngineInv, NEW u \in Users, NEW m \in MarketIndexes, NEW id,
           TriggerOrder(u, m, id)
    PROVE  EngineInv'
  <1> DEFINE n(os, ps) == Least(RemainingBase(orders[u][os]),
                                Magnitude(positions[u][ps].base))
  <1>1. PICK os \in OrderSlots, ps \in PositionSlots :
          /\ ExecuteAmmClose(u, m, ps, n(os, ps),
                IF orders[u][os].type = "TriggerLimit" THEN orders[u][os].price ELSE 0)
          /\ orders' = [orders EXCEPT ![u][os] =
                [Filled(orders[u][os], n(os, ps)) EXCEPT !.status = "Init"]]
    BY DEF TriggerOrder
  <1>2. orders[u][os] \in OrderType /\ positions[u][ps].base \in Int
    BY DEF EngineInv, RestOK, TradeOK, PositionsOK, PositionType
  <1>3. n(os, ps) \in Nat
    BY <1>2, RemainingType DEF Least, Magnitude
  <1>4. TradeOK'
    BY <1>1, AmmCloseKeeps DEF EngineInv, TriggerOrder
  <1> DEFINE new == [Filled(orders[u][os], n(os, ps)) EXCEPT !.status = "Init"]
  <1>5. new \in OrderType
    BY <1>2, <1>3, FilledType
  <1>6. orders' = [orders EXCEPT ![u][os] = new]
    BY <1>1
  <1> HIDE DEF new
  <1>7. orders' \in [Users -> [OrderSlots -> OrderType]]
    BY <1>5, <1>6 DEF EngineInv, RestOK
  <1> QED
    BY <1>4, <1>7 DEF EngineInv, RestOK, TriggerOrder

-----------------------------------------------------------------------------
(* Funding *)

\* A time-weighted average of unsigned prices is unsigned.
LEMMA UpdateTwapType ==
    ASSUME NEW old \in Nat, NEW current \in Nat, NEW elapsed \in Int, NEW window \in Int
    PROVE  UpdateTwap(old, current, elapsed, window) \in Nat
  <1>1. CASE elapsed <= 0 \/ old = 0
    BY <1>1 DEF UpdateTwap
  <1>2. CASE ~(elapsed <= 0 \/ old = 0)
    <2> DEFINE span   == Greatest(window, 1)
               weight == Least(elapsed, span)
    <2>1. span \in Nat \ {0} /\ weight \in Nat /\ span - weight \in Nat
      BY <1>2 DEF Greatest, Least
    <2>2. UpdateTwap(old, current, elapsed, window)
            = (old * (span - weight) + current * weight) \div span
      BY <1>2 DEF UpdateTwap
    <2> HIDE DEF span, weight
    <2>3. old * (span - weight) \in Nat /\ current * weight \in Nat
      BY <2>1
    <2>4. old * (span - weight) + current * weight \in Nat
      BY <2>3
    <2> QED
      BY <2>1, <2>2, <2>4, DivOfNat
  <1> QED
    BY <1>1, <1>2

\* Refreshing the averages keeps a pool with base in it sound.
LEMMA TwapsKeepPool ==
    ASSUME NEW p, PoolOK(p), p.base > 0, NEW index \in Nat, NEW window \in Int,
           NEW now \in Nat
    PROVE  /\ PoolOK(TwapsRefreshed(p, index, window, now))
           /\ TwapsRefreshed(p, index, window, now).base = p.base
  <1> DEFINE elapsed == now - p.lastTwapTs
             mt == UpdateTwap(p.markTwap, MarkPrice(p), elapsed, window)
             ot == UpdateTwap(p.oracleTwap, index, elapsed, window)
  <1>1. /\ p \in AmmType
        /\ p.base \in Nat \ {0} /\ p.quote \in Nat /\ p.peg \in Nat
        /\ p.markTwap \in Nat /\ p.oracleTwap \in Nat /\ elapsed \in Int
    BY DEF PoolOK, AmmType
  <1>2. MarkPrice(p) \in Nat
    <2>1. p.quote * p.peg \in Nat
      BY <1>1
    <2> QED
      BY <1>1, <2>1, DivOfNat DEF MarkPrice
  <1>3. mt \in Nat /\ ot \in Nat
    BY <1>1, <1>2, UpdateTwapType
  <1>4. TwapsRefreshed(p, index, window, now)
          = [p EXCEPT !.markTwap = mt, !.oracleTwap = ot, !.lastTwapTs = now]
    BY DEF TwapsRefreshed
  <1> HIDE DEF mt, ot
  <1> DEFINE r == [p EXCEPT !.markTwap = mt, !.oracleTwap = ot, !.lastTwapTs = now]
  <1>5. /\ r \in AmmType
        /\ r.base = p.base /\ r.quote = p.quote /\ r.long = p.long
        /\ r.short = p.short /\ r.sqrtK = p.sqrtK
    <2>1. r \in AmmType
      <3> DEFINE r1 == [p EXCEPT !.markTwap = mt, !.oracleTwap = ot]
      <3>1. r1 \in AmmType
        BY <1>1, <1>3 DEF AmmType
      <3>2. r = [r1 EXCEPT !.lastTwapTs = now]
        OBVIOUS
      <3>3. now \in Int
        OBVIOUS
      <3> HIDE DEF r, r1
      <3> QED
        BY <3>1, <3>2, <3>3 DEF AmmType
    <2>2. r.base = p.base /\ r.quote = p.quote /\ r.sqrtK = p.sqrtK
      BY <1>1 DEF AmmType
    <2>3. r.long = p.long /\ r.short = p.short
      BY <1>1 DEF AmmType
    <2> QED
      BY <2>1, <2>2, <2>3
  <1> HIDE DEF r
  <1>6. PoolOK(r)
    BY <1>5 DEF PoolOK
  <1> QED
    BY <1>4, <1>5, <1>6 DEF r

\* So does accruing funding.
LEMMA AccrualKeepsPool ==
    ASSUME NEW p, PoolOK(p), p.oracleTwap > 0, NEW period \in Int, NEW now \in Nat
    PROVE  /\ PoolOK(Accrued(p, period, now))
           /\ Accrued(p, period, now).base = p.base
  <1> DEFINE span == Least(now - p.lastFundingTs, period)
             raw  == TruncDiv((p.markTwap - p.oracleTwap) * FUNDING_RATE_PRECISION,
                              p.oracleTwap)
             rate == CalculateFundingRate(p.markTwap, p.oracleTwap, span)
             cum  == p.cumFunding + FundingDeltaPerBase(rate, p.oracleTwap)
  <1>1. /\ p \in AmmType
        /\ p.oracleTwap \in Nat \ {0} /\ p.markTwap \in Nat /\ p.cumFunding \in Int
        /\ p.lastFundingTs \in Int
        /\ FUNDING_RATE_PRECISION \in Nat \ {0} /\ DAY_SECONDS \in Nat \ {0}
        /\ MAX_FUNDING_RATE \in Nat
    BY PrecisionAssumption DEF PoolOK, AmmType
  <1>2. span \in Int
    BY <1>1 DEF Least
  <1>3. raw \in Int
    <2>1. (p.markTwap - p.oracleTwap) * FUNDING_RATE_PRECISION \in Int
      BY <1>1
    <2> QED
      BY <1>1, <2>1, TruncDivType
  <1>4. rate = Clamp(TruncDiv(raw * span, DAY_SECONDS), MAX_FUNDING_RATE)
    BY DEF CalculateFundingRate
  <1> HIDE DEF raw, span, rate
  <1>5. rate \in Int
    <2>1. raw * span \in Int
      BY <1>2, <1>3
    <2>2. TruncDiv(raw * span, DAY_SECONDS) \in Int
      BY <1>1, <2>1, TruncDivType
    <2> QED
      BY <1>1, <1>4, <2>2 DEF Clamp
  <1>6. cum \in Int
    <2>1. rate * p.oracleTwap \in Int
      BY <1>1, <1>5
    <2>2. FundingDeltaPerBase(rate, p.oracleTwap) \in Int
      BY <1>1, <2>1, TruncDivType DEF FundingDeltaPerBase
    <2> QED
      BY <1>1, <2>2
  <1>7. Accrued(p, period, now)
          = [p EXCEPT !.cumFunding = cum, !.lastRate = rate, !.lastFundingTs = now]
    BY DEF Accrued, rate, span
  <1> HIDE DEF cum
  <1> DEFINE r == [p EXCEPT !.cumFunding = cum, !.lastRate = rate, !.lastFundingTs = now]
  <1>8. /\ r \in AmmType
        /\ r.base = p.base /\ r.quote = p.quote /\ r.long = p.long
        /\ r.short = p.short /\ r.sqrtK = p.sqrtK
    <2>1. r \in AmmType
      <3> DEFINE r1 == [p EXCEPT !.cumFunding = cum, !.lastRate = rate]
      <3>1. r1 \in AmmType
        BY <1>1, <1>5, <1>6 DEF AmmType
      <3>2. r = [r1 EXCEPT !.lastFundingTs = now]
        OBVIOUS
      <3>3. now \in Int
        OBVIOUS
      <3> HIDE DEF r, r1
      <3> QED
        BY <3>1, <3>2, <3>3 DEF AmmType
    <2>2. r.base = p.base /\ r.quote = p.quote /\ r.sqrtK = p.sqrtK
      BY <1>1 DEF AmmType
    <2>3. r.long = p.long /\ r.short = p.short
      BY <1>1 DEF AmmType
    <2> QED
      BY <2>1, <2>2, <2>3
  <1> HIDE DEF r
  <1>9. PoolOK(r)
    BY <1>8 DEF PoolOK
  <1> QED
    BY <1>7, <1>8, <1>9 DEF r

LEMMA UpdateFundingRateKeeps ==
    ASSUME EngineInv, NEW m \in MarketIndexes, UpdateFundingRate(m)
    PROVE  EngineInv'
  <1> DEFINE fresh == TwapsRefreshed(amm[m], oracle[m].price,
                                     Greatest(market[m].fundingPeriod, 1), clock)
  <1>1. /\ PoolOK(amm[m]) /\ amm[m].base > 0
        /\ clock \in Nat /\ numMarkets' = numMarkets
    BY DEF EngineInv, TradeOK, RestOK, PoolsOK, UpdateFundingRate
  <1>2. market[m] \in MarketType /\ market[m].fundingPeriod \in Int
    BY DEF EngineInv, TradeOK, MarketsOK, MarketType
  <1>3. oracle[m].price \in Nat /\ Greatest(market[m].fundingPeriod, 1) \in Int
    BY <1>2 DEF EngineInv, RestOK, OracleType, Greatest
  <1>4. PoolOK(fresh) /\ fresh.base > 0
    BY <1>1, <1>3, TwapsKeepPool
  <1>5. CASE clock > amm[m].lastFundingTs
    <2> DEFINE accrued == Accrued(fresh, market[m].fundingPeriod, clock)
               mk == [market[m] EXCEPT !.nextFundingTs = clock + market[m].fundingPeriod]
    <2>1. /\ fresh.oracleTwap > 0
          /\ amm' = [amm EXCEPT ![m] = accrued]
          /\ market' = [market EXCEPT ![m] = mk]
      BY <1>5 DEF UpdateFundingRate
    <2> HIDE DEF fresh
    <2>2. PoolOK(accrued) /\ accrued.base > 0
      BY <1>1, <1>2, <1>4, <2>1, AccrualKeepsPool
    <2>3. mk \in MarketType
      BY <1>1, <1>2 DEF MarketType
    <2> HIDE DEF accrued, mk
    <2>4. PoolsOK' /\ MarketsOK'
      BY <1>1, <2>1, <2>2, <2>3, PoolReplaced, MarketReplaced DEF EngineInv, TradeOK
    <2> QED
      BY <2>4 DEF EngineInv, TradeOK, RestOK, PositionsOK, AccountsOK, AccountOK,
                  UpdateFundingRate
  <1>6. CASE ~(clock > amm[m].lastFundingTs)
    <2>1. amm' = [amm EXCEPT ![m] = fresh] /\ UNCHANGED market
      BY <1>6 DEF UpdateFundingRate
    <2> HIDE DEF fresh
    <2>2. PoolsOK'
      BY <1>1, <1>4, <2>1, PoolReplaced DEF EngineInv, TradeOK
    <2> QED
      BY <2>1, <2>2 DEF EngineInv, TradeOK, RestOK, PositionsOK, AccountsOK, AccountOK,
                        MarketsOK, UpdateFundingRate
  <1> QED
    BY <1>5, <1>6

LEMMA PendingFundingType ==
    ASSUME NEW p \in PositionType, NEW m \in MarketIndexes, PoolsOK
    PROVE  PendingFunding(p, m) \in Int
  <1>1. p.base \in Int /\ p.lastCum \in Int /\ amm[m].cumFunding \in Int
    BY DEF PositionType, PoolsOK, AmmType
  <1>2. p.base * (amm[m].cumFunding - p.lastCum) \in Int
    BY <1>1
  <1> QED
    BY <1>2, TruncDivType, PrecisionAssumption DEF PendingFunding, FundingPayment

\* Charging funding never takes collateral below zero and never lowers the debt.
LEMMA ChargedAccount ==
    ASSUME NEW a, AccountOK(a), NEW payment \in Int
    PROVE  /\ AccountOK(Charged(a, payment))
           /\ Charged(a, payment).settledPnl = a.settledPnl
  <1> DEFINE c == Greatest(a.collateral - payment, 0)
             d == a.badDebt + Greatest(-(a.collateral - payment), 0)
  <1>1. a \in UserType /\ (a.bankrupt => a.badDebt > 0)
    BY DEF AccountOK
  <1>2. c \in Nat /\ d \in Nat /\ d >= a.badDebt /\ a.badDebt \in Nat
    BY <1>1 DEF Greatest, UserType
  <1>3. Charged(a, payment) = [a EXCEPT !.collateral = c, !.badDebt = d]
    BY DEF Charged
  <1> HIDE DEF c, d
  <1> DEFINE r == [a EXCEPT !.collateral = c, !.badDebt = d]
  <1>4. r \in UserType
    BY <1>1, <1>2 DEF UserType
  <1>5. r.bankrupt = a.bankrupt /\ r.badDebt = d /\ r.settledPnl = a.settledPnl
    BY <1>1 DEF UserType
  <1>6. d > 0 \/ ~a.bankrupt
    BY <1>1, <1>2
  <1> HIDE DEF r
  <1>7. AccountOK(r)
    BY <1>4, <1>5, <1>6 DEF AccountOK
  <1> QED
    BY <1>3, <1>5, <1>7 DEF r

LEMMA SettleFundingKeeps ==
    ASSUME EngineInv, NEW u \in Users, NEW m \in MarketIndexes, SettleFunding(u, m)
    PROVE  EngineInv'
  <1> DEFINE due(s) == PendingFunding(positions[u][s], m)
             c(s)   == Charged(user[u], due(s))
             x(s)   == c(s).settledPnl - due(s)
  <1>1. PICK s \in PositionSlots :
          /\ user' = [user EXCEPT ![u] = [c(s) EXCEPT !.settledPnl = x(s)]]
          /\ positions' = [positions EXCEPT ![u][s] = SettledUpTo(@, amm[m].cumFunding)]
    BY DEF SettleFunding
  <1>2. /\ positions[u][s] \in PositionType
        /\ user[u] \in UserType /\ AccountOK(user[u])
        /\ amm[m].cumFunding \in Int
    BY DEF EngineInv, TradeOK, PositionsOK, AccountsOK, PoolsOK, AmmType
  <1>3. due(s) \in Int
    BY <1>2, PendingFundingType DEF EngineInv, TradeOK
  <1>4. AccountOK(c(s)) /\ x(s) \in Int
    <2>1. AccountOK(c(s))
      BY <1>2, <1>3, ChargedAccount
    <2>2. c(s).settledPnl \in Int
      BY <2>1 DEF AccountOK, UserType
    <2> HIDE DEF c
    <2> QED
      BY <1>3, <2>1, <2>2
  <1> HIDE DEF c, x
  <1>6. AccountOK([c(s) EXCEPT !.settledPnl = x(s)])
    BY <1>4 DEF AccountOK, UserType
  <1>7. AccountsOK'
    BY <1>1, <1>6, AccountReplaced DEF EngineInv, TradeOK
  <1>8. PositionsOK'
    <2>1. SettledUpTo(positions[u][s], amm[m].cumFunding) \in PositionType
      BY <1>2 DEF SettledUpTo, PositionType
    <2> QED
      BY <1>1, <2>1, PositionReplaced DEF EngineInv, TradeOK
  <1> QED
    BY <1>7, <1>8 DEF EngineInv, TradeOK, RestOK, MarketsOK, PoolsOK, CreatedMarkets,
                      SettleFunding

-----------------------------------------------------------------------------
(* Liquidation and bankruptcy *)

\* After a liquidation an account's collateral is unsigned, its debt has not shrunk,
\* and it is newly bankrupt only if the debt grew.
LEMMA LiquidatedAccount ==
    ASSUME NEW a, AccountOK(a), NEW pnl \in Int, NEW fee \in Int
    PROVE  AccountOK(AfterLiquidation(a, pnl, fee))
  <1> DEFINE left == a.collateral + pnl - fee
             c == Greatest(left, 0)
             d == a.badDebt + Greatest(-left, 0)
             b == a.bankrupt \/ left < 0
             s == a.settledPnl + pnl
  <1>1. a \in UserType /\ (a.bankrupt => a.badDebt > 0)
    BY DEF AccountOK
  <1>2. c \in Nat /\ d \in Nat /\ s \in Int /\ b \in BOOLEAN /\ (b => d > 0)
    BY <1>1 DEF Greatest, UserType
  <1>3. AfterLiquidation(a, pnl, fee)
          = [a EXCEPT !.collateral = c, !.badDebt = d, !.bankrupt = b, !.settledPnl = s]
    BY DEF AfterLiquidation
  <1> HIDE DEF left, c, d, b, s
  <1> QED
    BY <1>1, <1>2, <1>3 DEF AccountOK, UserType

LEMMA LiquidatePerpKeeps ==
    ASSUME EngineInv, NEW u \in Users, NEW m \in MarketIndexes, NEW request \in Nat,
           LiquidatePerp(u, m, request)
    PROVE  EngineInv'
  <1> DEFINE p(s)       == positions[u][s]
             settled(s) == Charged(user[u], PendingFunding(p(s), m))
             size(s)    == Magnitude(p(s).base)
             n(s)       == IF request = 0 \/ request > size(s) THEN size(s) ELSE request
             quote(s)   == SwapQuote(amm[m], n(s), CloseSwapDir(p(s)))
             pnl(s)     == Realized(p(s), n(s), quote(s))
             fee(s)     == Least(LiquidationFee(PositionNotional(n(s), oracle[m].price),
                                                market[m].liqFeeBps),
                                 Greatest(settled(s).collateral + pnl(s), 0))
             pool(s)    == RemoveSkew(Swapped(amm[m], n(s), CloseSwapDir(p(s))),
                                      p(s).base > 0, n(s))
  <1>1. PICK s \in PositionSlots :
          /\ FoundPosition(u, m, s)
          /\ SwapAllowed(amm[m], n(s), CloseSwapDir(p(s)))
          /\ user' = [user EXCEPT ![u] = AfterLiquidation(settled(s), pnl(s), fee(s))]
          /\ positions' = [positions EXCEPT ![u][s] =
                             SettledUpTo(Reduced(p(s), n(s)), amm[m].cumFunding)]
          /\ insurance' = insurance + fee(s)
          /\ market' = [market EXCEPT ![m] =
                          RemoveInterest(market[m], p(s).base > 0, n(s))]
          /\ amm' = [amm EXCEPT ![m] = pool(s)]
    BY DEF LiquidatePerp, EngineInv, TradeOK, MarketsOK, PoolsOK
  <1>2. /\ PoolOK(amm[m]) /\ amm[m].base \in Nat /\ amm[m].quote \in Nat
        /\ amm[m].peg \in Nat /\ amm[m].cumFunding \in Int
    BY DEF EngineInv, TradeOK, PoolsOK, PoolOK, AmmType
  <1>3. /\ p(s) \in PositionType /\ p(s).base # 0
        /\ user[u] \in UserType /\ AccountOK(user[u])
        /\ market[m] \in MarketType /\ oracle[m].price \in Nat /\ market[m].liqFeeBps \in Nat
    BY <1>1 DEF EngineInv, TradeOK, RestOK, PositionsOK, AccountsOK, MarketsOK,
                MarketType, OracleType, FoundPosition, IsOpenIn
  <1>4. n(s) \in Nat
    BY <1>3 DEF Magnitude, PositionType
  <1>5. CloseSwapDir(p(s)) \in {"Add", "Remove"}
    BY DEF CloseSwapDir
  <1> HIDE DEF n
  <1>6. quote(s) \in Int
    BY <1>1, <1>2, <1>4, <1>5, SwapQuoteType
  <1> HIDE DEF quote
  <1>7. pnl(s) \in Int
    BY <1>3, <1>4, <1>6, RealizedType
  <1> HIDE DEF pnl
  <1>8. AccountOK(settled(s))
    BY <1>3, PendingFundingType, ChargedAccount DEF EngineInv, TradeOK
  <1> HIDE DEF settled
  <1>9. fee(s) \in Nat
    <2>1. LiquidationFee(PositionNotional(n(s), oracle[m].price), market[m].liqFeeBps) \in Nat
      <3>1. n(s) \in Int
        BY <1>4
      <3> QED
        BY <1>3, <3>1, LiquidationFeeType
    <2>2. settled(s).collateral + pnl(s) \in Int
      BY <1>7, <1>8 DEF AccountOK, UserType
    <2> QED
      BY <2>1, <2>2 DEF Least, Greatest
  <1> HIDE DEF fee
  <1>10. PoolOK(pool(s)) /\ pool(s).base > 0
    BY <1>1, <1>2, <1>3, <1>4, CloseKeepsPool
  <1> HIDE DEF pool
  <1>11. numMarkets' = numMarkets
    BY DEF LiquidatePerp
  <1>12. PoolsOK'
    BY <1>1, <1>10, <1>11, PoolReplaced DEF EngineInv, TradeOK
  <1>13. AccountsOK'
    <2>1. fee(s) \in Int
      BY <1>9
    <2>2. AccountOK(AfterLiquidation(settled(s), pnl(s), fee(s)))
      BY <1>7, <1>8, <2>1, LiquidatedAccount
    <2> QED
      BY <1>1, <2>2, AccountReplaced DEF EngineInv, TradeOK
  <1>14. PositionsOK'
    <2>1. Reduced(p(s), n(s)) \in PositionType
      BY <1>3, <1>4, ReducedType
    <2>2. SettledUpTo(Reduced(p(s), n(s)), amm[m].cumFunding) \in PositionType
      BY <1>2, <2>1 DEF SettledUpTo, PositionType
    <2> QED
      BY <1>1, <2>2, PositionReplaced DEF EngineInv, TradeOK
  <1>15. MarketsOK'
    <2>1. (p(s).base > 0) \in BOOLEAN
      OBVIOUS
    <2> QED
      BY <1>1, <1>3, <1>4, <2>1, InterestType, MarketReplaced DEF EngineInv, TradeOK
  <1>16. TradeOK'
    BY <1>12, <1>13, <1>14, <1>15 DEF TradeOK
  <1>17. insurance' \in Nat
    BY <1>1, <1>9 DEF EngineInv, RestOK
  <1> QED
    BY <1>16, <1>17 DEF EngineInv, RestOK, LiquidatePerp

LEMMA ResolveBankruptcyKeeps ==
    ASSUME EngineInv, NEW u \in Users, ResolveBankruptcy(u)
    PROVE  EngineInv'
  <1> DEFINE draw == Least(user[u].badDebt, insurance)
  <1>1. user[u] \in UserType /\ AccountOK(user[u]) /\ insurance \in Nat
    BY DEF EngineInv, TradeOK, RestOK, AccountsOK
  <1>2. draw \in Nat /\ draw <= user[u].badDebt /\ draw <= insurance
        /\ user[u].badDebt \in Nat
    BY <1>1 DEF Least, UserType
  <1>3. insurance' = insurance - draw /\ user' = [user EXCEPT ![u] = Resolved(user[u], draw)]
    BY DEF ResolveBankruptcy
  <1> HIDE DEF draw
  <1>4. AccountOK(Resolved(user[u], draw))
    <2> DEFINE d == user[u].badDebt - draw
               b == user[u].badDebt # draw
    <2>1. d \in Nat /\ b \in BOOLEAN /\ (b => d > 0)
      BY <1>2
    <2>2. Resolved(user[u], draw) = [user[u] EXCEPT !.badDebt = d, !.bankrupt = b]
      BY DEF Resolved
    <2> HIDE DEF d, b
    <2> QED
      BY <1>1, <2>1, <2>2 DEF AccountOK, UserType
  <1>5. TradeOK'
    BY <1>3, <1>4, AccountReplaced, AccountFrame DEF EngineInv, TradeOK, ResolveBankruptcy
  <1>6. insurance' \in Nat
    BY <1>1, <1>2, <1>3
  <1> QED
    BY <1>5, <1>6 DEF EngineInv, RestOK, ResolveBankruptcy

-----------------------------------------------------------------------------
(* Administration, prices and time *)

LEMMA ParamsType ==
    ASSUME NEW mk \in MarketType, NEW p \in ParamRecord
    PROVE  WithParams(mk, p) \in MarketType
  <1> DEFINE r == [mk EXCEPT !.imr = p.imr, !.mmr = p.mmr, !.minOrder = p.minOrder]
  <1>1. r \in MarketType
    BY DEF MarketType, ParamRecord
  <1>2. WithParams(mk, p) = [r EXCEPT !.maxOI = p.maxOI, !.liqFeeBps = p.liqFeeBps,
                                      !.fundingPeriod = p.fundingPeriod]
    BY DEF WithParams
  <1> HIDE DEF r
  <1> QED
    BY <1>1, <1>2 DEF MarketType, ParamRecord

\* A new pool is balanced, unskewed and not empty.
LEMMA NewPool ==
    ASSUME NEW reserve \in Nat \ {0}, NEW peg \in Nat, NEW now \in Nat
    PROVE  LET p == [InitialReserves(reserve, peg) EXCEPT
                       !.markTwap = peg, !.oracleTwap = peg,
                       !.lastTwapTs = now, !.lastFundingTs = now]
           IN  PoolOK(p) /\ p.base > 0
  <1> DEFINE q == InitialReserves(reserve, peg)
             p == [q EXCEPT !.markTwap = peg, !.oracleTwap = peg,
                            !.lastTwapTs = now, !.lastFundingTs = now]
  <1>1. /\ q \in AmmType
        /\ q.base = reserve /\ q.quote = reserve /\ q.sqrtK = reserve
        /\ q.long = 0 /\ q.short = 0
    <2> DEFINE d  == DefaultAmm
               d1 == [d EXCEPT !.base = reserve, !.quote = reserve]
    <2>1. d \in AmmType /\ d.long = 0 /\ d.short = 0
      BY DEF DefaultAmm, AmmType
    <2>2. q = [d1 EXCEPT !.sqrtK = reserve, !.peg = peg]
      BY DEF InitialReserves
    <2> HIDE DEF d, q
    <2>3. /\ d1 \in AmmType
          /\ d1.base = reserve /\ d1.quote = reserve /\ d1.long = 0 /\ d1.short = 0
      BY <2>1 DEF AmmType
    <2> HIDE DEF d1
    <2> QED
      BY <2>2, <2>3 DEF AmmType
  <1> HIDE DEF q
  <1> DEFINE r == [q EXCEPT !.markTwap = peg, !.oracleTwap = peg]
  <1>2. r \in AmmType
    BY <1>1 DEF AmmType
  <1>3. p = [r EXCEPT !.lastTwapTs = now, !.lastFundingTs = now]
    OBVIOUS
  <1>4. p.base = q.base /\ p.quote = q.quote /\ p.sqrtK = q.sqrtK
    BY <1>1 DEF AmmType
  <1>5. p.long = q.long /\ p.short = q.short
    BY <1>1 DEF AmmType
  <1> HIDE DEF p, r
  <1>6. p \in AmmType
    <2>1. now \in Int
      OBVIOUS
    <2> QED
      BY <1>2, <1>3, <2>1 DEF AmmType
  <1>7. reserve * reserve \in Nat
    OBVIOUS
  <1>8. PoolOK(p) /\ p.base > 0
    BY <1>1, <1>4, <1>5, <1>6, <1>7 DEF PoolOK
  <1> QED
    BY <1>8 DEF p, q

LEMMA InitializeMarketKeeps ==
    ASSUME EngineInv, NEW m \in MarketIndexes, NEW p \in ParamRecord, NEW reserve \in Nat,
           NEW peg \in Nat, InitializeMarket(m, p, reserve, peg)
    PROVE  EngineInv'
  <1> DEFINE mk   == [WithParams(DefaultMarket, p) EXCEPT
                        !.status = "Active", !.nextFundingTs = clock + p.fundingPeriod]
             pool == [InitialReserves(reserve, peg) EXCEPT
                        !.markTwap = peg, !.oracleTwap = peg,
                        !.lastTwapTs = clock, !.lastFundingTs = clock]
  <1>1. /\ m = numMarkets
        /\ reserve \in Nat \ {0}
        /\ market' = [market EXCEPT ![m] = mk]
        /\ amm' = [amm EXCEPT ![m] = pool]
        /\ numMarkets' = numMarkets + 1
    BY DEF InitializeMarket
  <1>2. clock \in Nat /\ numMarkets \in Nat
    BY DEF EngineInv, RestOK
  <1>3. mk \in MarketType
    <2>1. DefaultMarket \in MarketType
      BY DEF DefaultMarket, MarketType, MarketStatuses
    <2>2. WithParams(DefaultMarket, p) \in MarketType
      BY <2>1, ParamsType
    <2>3. clock + p.fundingPeriod \in Int
      BY <1>2 DEF ParamRecord
    <2> QED
      BY <2>2, <2>3 DEF MarketType, MarketStatuses
  <1>4. PoolOK(pool) /\ pool.base > 0
    BY <1>1, <1>2, NewPool
  <1> HIDE DEF mk, pool
  <1>5. MarketsOK'
    BY <1>1, <1>3, MarketReplaced DEF EngineInv, TradeOK
  <1>6. PoolsOK'
    <2>1. /\ amm \in [MarketIndexes -> AmmType]
          /\ \A k \in MarketIndexes : PoolOK(amm[k])
          /\ \A k \in MarketIndexes : k < numMarkets => amm[k].base > 0
      BY DEF EngineInv, TradeOK, PoolsOK, CreatedMarkets
    <2>2. /\ amm' \in [MarketIndexes -> AmmType]
          /\ \A k \in MarketIndexes : amm'[k] = IF k = m THEN pool ELSE amm[k]
      BY <1>1, <1>4, <2>1 DEF PoolOK
    <2>3. \A k \in MarketIndexes : PoolOK(amm'[k])
      BY <1>4, <2>1, <2>2
    <2>4. \A k \in MarketIndexes : k < numMarkets + 1 => k < numMarkets \/ k = m
      <3>1. \A k \in MarketIndexes : k \in Nat
        BY StateAssumption
      <3> QED
        BY <1>1, <1>2, <3>1
    <2>5. \A k \in MarketIndexes : k < numMarkets' => amm'[k].base > 0
      BY <1>1, <1>4, <2>1, <2>2, <2>4
    <2> QED
      BY <2>2, <2>3, <2>5 DEF PoolsOK, CreatedMarkets, PoolOK
  <1>7. numMarkets' \in Nat
    BY <1>1, <1>2
  <1> QED
    BY <1>5, <1>6, <1>7 DEF EngineInv, TradeOK, RestOK, PositionsOK, AccountsOK, AccountOK,
                            InitializeMarket

LEMMA UpdateMarketParamsKeeps ==
    ASSUME EngineInv, NEW m \in MarketIndexes, NEW status \in MarketStatuses,
           NEW p \in ParamRecord, UpdateMarketParams(m, status, p)
    PROVE  EngineInv'
  <1> DEFINE mk == [WithParams(market[m], p) EXCEPT !.status = status]
  <1>1. mk \in MarketType
    <2>1. WithParams(market[m], p) \in MarketType
      BY ParamsType DEF EngineInv, TradeOK, MarketsOK
    <2> QED
      BY <2>1 DEF MarketType
  <1>2. market' = [market EXCEPT ![m] = mk]
    BY DEF UpdateMarketParams
  <1> HIDE DEF mk
  <1>3. MarketsOK'
    BY <1>1, <1>2, MarketReplaced DEF EngineInv, TradeOK
  <1> QED
    BY <1>3 DEF EngineInv, TradeOK, RestOK, PositionsOK, PoolsOK, CreatedMarkets,
                AccountsOK, AccountOK, UpdateMarketParams

\* The pause flag, prices and the clock are no part of a trade's state.
LEMMA SetProtocolPausedKeeps ==
    ASSUME EngineInv, NEW p \in BOOLEAN, SetProtocolPaused(p)
    PROVE  EngineInv'
  BY TradeFrame DEF EngineInv, RestOK, SetProtocolPaused

LEMMA OracleKeeps ==
    ASSUME EngineInv, NEW m \in MarketIndexes, NEW price \in Nat, NEW conf \in Nat,
           InitializeOracle(m, price, conf) \/ UpdateOracle(m, price, conf)
    PROVE  EngineInv'
  <1> DEFINE feed == [exists |-> TRUE, price |-> price, conf |-> conf, ts |-> clock]
  <1>1. feed \in OracleType
    BY DEF EngineInv, RestOK, OracleType
  <1>2. /\ oracle' = [oracle EXCEPT ![m] = feed]
        /\ UNCHANGED <<clock, paused, numMarkets, market, amm, user, positions, orders,
                       insurance, wallet, vault, insuranceVault>>
    BY DEF InitializeOracle, UpdateOracle
  <1> HIDE DEF feed
  <1>3. oracle' \in [MarketIndexes -> OracleType]
    BY <1>1, <1>2 DEF EngineInv, RestOK
  <1>4. TradeOK'
    BY <1>2, TradeFrame DEF EngineInv
  <1> QED
    BY <1>2, <1>3, <1>4 DEF EngineInv, RestOK

LEMMA TickKeeps ==
    ASSUME EngineInv, NEW t \in Nat, Tick(t)
    PROVE  EngineInv'
  BY TradeFrame DEF EngineInv, RestOK, Tick

-----------------------------------------------------------------------------
(* The invariant *)

LEMMA UserStepKeeps ==
    ASSUME EngineInv, NEW u \in Users, UserStep(u)
    PROVE  EngineInv'
  <1> USE InputAssumption
  <1>1. ASSUME InitializeUser(u) PROVE EngineInv'
    BY <1>1, InitializeUserKeeps
  <1>2. ASSUME NEW a \in TokenAmounts, Deposit(u, a) PROVE EngineInv'
    BY <1>2, DepositKeeps
  <1>3. ASSUME NEW m \in MarketIndexes, NEW a \in TokenAmounts, Withdraw(u, m, a)
        PROVE  EngineInv'
    BY <1>3, WithdrawKeeps
  <1>4. ASSUME NEW m \in MarketIndexes, NEW d \in Directions, NEW n \in OpenSizes,
               NEW l \in PriceLimits, OpenPosition(u, m, d, n, l)
        PROVE  EngineInv'
    BY <1>4, OpenPositionKeeps
  <1>5. ASSUME NEW m \in MarketIndexes, NEW n \in CloseSizes, NEW l \in PriceLimits,
               ClosePosition(u, m, n, l)
        PROVE  EngineInv'
    BY <1>5, ClosePositionKeeps
  <1>6. ASSUME NEW m \in MarketIndexes, NEW o \in OrderSpecs, PlaceOrder(u, m, o)
        PROVE  EngineInv'
    BY <1>6, PlaceOrderKeeps
  <1>7. ASSUME NEW id \in OrderIds, CancelOrder(u, id) PROVE EngineInv'
    BY <1>7, CancelOrderKeeps
  <1> QED
    BY <1>1, <1>2, <1>3, <1>4, <1>5, <1>6, <1>7 DEF UserStep

LEMMA CrankStepKeeps ==
    ASSUME EngineInv, NEW u \in Users, CrankStep(u)
    PROVE  EngineInv'
  <1> USE InputAssumption
  <1>1. ASSUME NEW m \in MarketIndexes, NEW id \in OrderIds, FillOrder(u, m, id)
        PROVE  EngineInv'
    BY <1>1, FillOrderKeeps
  <1>2. ASSUME NEW w \in Users, NEW m \in MarketIndexes, NEW id \in OrderIds,
               NEW wid \in OrderIds, MatchOrders(u, w, m, id, wid)
        PROVE  EngineInv'
    BY <1>2, MatchOrdersKeeps
  <1>3. ASSUME NEW m \in MarketIndexes, NEW id \in OrderIds, TriggerOrder(u, m, id)
        PROVE  EngineInv'
    BY <1>3, TriggerOrderKeeps
  <1>4. ASSUME NEW m \in MarketIndexes, NEW n \in CloseSizes, LiquidatePerp(u, m, n)
        PROVE  EngineInv'
    BY <1>4, LiquidatePerpKeeps
  <1>5. ASSUME ResolveBankruptcy(u) PROVE EngineInv'
    BY <1>5, ResolveBankruptcyKeeps
  <1>6. ASSUME NEW m \in MarketIndexes, SettleFunding(u, m) PROVE EngineInv'
    BY <1>6, SettleFundingKeeps
  <1> QED
    BY <1>1, <1>2, <1>3, <1>4, <1>5, <1>6 DEF CrankStep

LEMMA MarketStepKeeps ==
    ASSUME EngineInv, NEW m \in MarketIndexes, MarketStep(m)
    PROVE  EngineInv'
  <1> USE InputAssumption
  <1>1. ASSUME UpdateFundingRate(m) PROVE EngineInv'
    BY <1>1, UpdateFundingRateKeeps
  <1>2. ASSUME NEW p \in RiskParams, NEW pool \in Pools,
               InitializeMarket(m, p, pool.reserve, pool.peg)
        PROVE  EngineInv'
    BY <1>2, InitializeMarketKeeps
  <1>3. ASSUME NEW p \in RiskParams, NEW s \in StatusChoices, UpdateMarketParams(m, s, p)
        PROVE  EngineInv'
    BY <1>3, UpdateMarketParamsKeeps
  <1>4. ASSUME NEW p \in Prices, NEW c \in Confidences,
               InitializeOracle(m, p, c) \/ UpdateOracle(m, p, c)
        PROVE  EngineInv'
    BY <1>4, OracleKeeps
  <1> QED
    BY <1>1, <1>2, <1>3, <1>4 DEF MarketStep

LEMMA NextEngineInv == EngineInv /\ [Next]_vars => EngineInv'
  <1> SUFFICES ASSUME EngineInv, [Next]_vars PROVE EngineInv'
    OBVIOUS
  <1>1. ASSUME NEW u \in Users, UserStep(u) \/ CrankStep(u) PROVE EngineInv'
    BY <1>1, UserStepKeeps, CrankStepKeeps
  <1>2. ASSUME NEW m \in MarketIndexes, MarketStep(m) PROVE EngineInv'
    BY <1>2, MarketStepKeeps
  <1>3. ASSUME NEW p \in PauseChoices, SetProtocolPaused(p) PROVE EngineInv'
    BY <1>3, SetProtocolPausedKeeps, InputAssumption
  <1>4. ASSUME NEW t \in TimeSteps, Tick(t) PROVE EngineInv'
    BY <1>4, TickKeeps, InputAssumption
  <1>5. CASE UNCHANGED vars
    BY <1>5, TradeFrame DEF vars, EngineInv, RestOK
  <1> QED
    BY <1>1, <1>2, <1>3, <1>4, <1>5 DEF Next

LEMMA EngineInvImplies ==
    ASSUME EngineInv
    PROVE  TypeOK /\ AmmHedgesSkew /\ CurveNeverLosesValue /\ BankruptAccountOwes
  BY DEF EngineInv, TradeOK, MarketsOK, PositionsOK, PoolsOK, AccountsOK, PoolOK,
         AccountOK, RestOK, TypeOK, AmmHedgesSkew, CurveNeverLosesValue, BankruptAccountOwes

\* Every account keeps its layout through every sequence of instructions, and no
\* unsigned field is ever driven below zero.
THEOREM TypeCorrect == Spec => []TypeOK
  BY InitEngineInv, NextEngineInv, EngineInvImplies, PTL DEF Spec

\* Whatever users, keepers and liquidators do, in any number of markets, a pool has
\* given out exactly the net skew it books for the users who traded with it.
THEOREM PoolAlwaysHedges == Spec => []AmmHedgesSkew
  BY InitEngineInv, NextEngineInv, EngineInvImplies, PTL DEF Spec

\* No sequence of trades, matches and liquidations lowers the product of a pool's
\* reserves below the one its market was created with.
THEOREM CurveAlwaysKeepsValue == Spec => []CurveNeverLosesValue
  BY InitEngineInv, NextEngineInv, EngineInvImplies, PTL DEF Spec

\* A bankrupt account always owes something, so resolve_perp_bankruptcy is never
\* refused for want of debt.
THEOREM BankruptAlwaysOwes == Spec => []BankruptAccountOwes
  BY InitEngineInv, NextEngineInv, EngineInvImplies, PTL DEF Spec

-----------------------------------------------------------------------------
(* What an instruction changes, and what its description locks *)

\* what a step leaves as it was
UserKept(u)   == user'[u] = user[u] /\ positions'[u] = positions[u] /\ orders'[u] = orders[u]
MarketKept(m) == market'[m] = market[m] /\ amm'[m] = amm[m]

\* The accounts that are not in W are as they were.
LEMMA ChangedWithin ==
    ASSUME NEW W,
           UNCHANGED <<paused, numMarkets>> \/ StateAccount \in W,
           UNCHANGED insurance \/ InsuranceFund \in W,
           UNCHANGED insuranceVault,
           UNCHANGED vault \/ CollateralVault \in W,
           \A m \in MarketIndexes : MarketKept(m) \/ MarketAccount(m) \in W,
           \A m \in MarketIndexes : oracle'[m] = oracle[m] \/ MockOracle(m) \in W,
           \A u \in Users : UserKept(u) \/ UserAccount(u) \in W,
           \A u \in Users : wallet'[u] = wallet[u] \/ UserTokens(u) \in W
    PROVE  Changed \subseteq W
  BY DEF Changed, If, MarketKept, UserKept

\* A step that only replaces u's own account, or only u's and what a market holds.
LEMMA OneUserChanged ==
    ASSUME NEW u \in Users,
           UNCHANGED <<paused, numMarkets, market, amm, oracle, insurance, wallet, vault,
                       insuranceVault>>,
           \A v \in Users \ {u} : UserKept(v)
    PROVE  Changed \subseteq {UserAccount(u)}
  BY ChangedWithin DEF MarketKept

LEMMA UserAndMarketChanged ==
    ASSUME NEW u \in Users, NEW m \in MarketIndexes,
           UNCHANGED <<paused, numMarkets, oracle, insurance, wallet, vault, insuranceVault>>,
           \A v \in Users \ {u} : UserKept(v),
           \A l \in MarketIndexes \ {m} : MarketKept(l)
    PROVE  Changed \subseteq {UserAccount(u), MarketAccount(m)}
  BY ChangedWithin

-----------------------------------------------------------------------------
(* What the three ways of trading leave alone *)

LEMMA OpenChanges ==
    ASSUME EngineInv, NEW u \in Users, NEW m \in MarketIndexes, NEW dir, NEW n, NEW limit,
           ExecuteAmmOpen(u, m, dir, n, limit)
    PROVE  /\ \A v \in Users \ {u} : user'[v] = user[v] /\ positions'[v] = positions[v]
           /\ \A l \in MarketIndexes \ {m} : MarketKept(l)
  <1>1. PICK a : user' = [user EXCEPT ![u].collateral = a]
    BY DEF ExecuteAmmOpen
  <1>2. PICK s, b : positions' = [positions EXCEPT ![u][s] = b]
    BY DEF ExecuteAmmOpen
  <1>3. PICK c : market' = [market EXCEPT ![m] = c]
    BY DEF ExecuteAmmOpen
  <1>4. PICK d : amm' = [amm EXCEPT ![m] = d]
    BY DEF ExecuteAmmOpen
  <1> QED
    BY <1>1, <1>2, <1>3, <1>4, Layout DEF MarketKept

LEMMA CloseChanges ==
    ASSUME EngineInv, NEW u \in Users, NEW m \in MarketIndexes, NEW s, NEW n, NEW limit,
           ExecuteAmmClose(u, m, s, n, limit)
    PROVE  /\ \A v \in Users \ {u} : user'[v] = user[v] /\ positions'[v] = positions[v]
           /\ \A l \in MarketIndexes \ {m} : MarketKept(l)
  <1>1. PICK a, e : user' = [user EXCEPT ![u].collateral = a, ![u].settledPnl = @ + e]
    BY DEF ExecuteAmmClose
  <1>2. PICK b : positions' = [positions EXCEPT ![u][s] = b]
    BY DEF ExecuteAmmClose
  <1>3. PICK c : market' = [market EXCEPT ![m] = c]
    BY DEF ExecuteAmmClose
  <1>4. PICK d : amm' = [amm EXCEPT ![m] = d]
    BY DEF ExecuteAmmClose
  <1> QED
    BY <1>1, <1>2, <1>3, <1>4, Layout DEF MarketKept

LEMMA MatchChanges ==
    ASSUME EngineInv, NEW t \in Users, NEW w \in Users, NEW m \in MarketIndexes, NEW dir,
           NEW n, NEW price, ExecuteMakerMatch(t, w, m, dir, n, price)
    PROVE  /\ \A v \in Users \ {t, w} : user'[v] = user[v] /\ positions'[v] = positions[v]
           /\ \A l \in MarketIndexes \ {m} : MarketKept(l)
  <1>1. PICK a, b : user' = [user EXCEPT ![t].collateral = @ - a, ![w].collateral = @ + b]
    BY DEF ExecuteMakerMatch
  <1> DEFINE quote  == (n * price) \div BASE_PRECISION
             tp(ts) == Increased(TargetPosition(t, m, ts), dir, n, quote, amm[m].cumFunding)
             mp(ms) == Increased(TargetPosition(w, m, ms), Opposite(dir), n, quote,
                                 amm[m].cumFunding)
  <1>2. PICK ts \in PositionSlots, ms \in PositionSlots :
          positions' = [positions EXCEPT ![t][ts] = tp(ts), ![w][ms] = mp(ms)]
    BY DEF ExecuteMakerMatch
  <1> HIDE DEF tp, mp
  <1>3. PICK e : market' = [market EXCEPT ![m] = e]
    BY DEF ExecuteMakerMatch
  <1>4. PICK f : amm' = [amm EXCEPT ![m] = f]
    BY DEF ExecuteMakerMatch
  <1> QED
    BY <1>1, <1>2, <1>3, <1>4, Layout DEF MarketKept

-----------------------------------------------------------------------------
(* One step per instruction *)

LEMMA UserStepLocks ==
    ASSUME EngineInv, NEW u \in Users, UserStep(u)
    PROVE  UserStepLocked(u, Changed)
  <1>1. ASSUME InitializeUser(u) PROVE Changed \subseteq InitializeUserWrites(u)
    <2>1. \A v \in Users \ {u} : UserKept(v)
      BY <1>1, Layout DEF InitializeUser, UserKept
    <2> QED
      BY <1>1, <2>1, OneUserChanged DEF InitializeUser, InitializeUserWrites
  <1>2. ASSUME NEW a \in TokenAmounts, Deposit(u, a)
        PROVE  Changed \subseteq DepositCollateralWrites(u)
    <2>1. \A v \in Users \ {u} : UserKept(v) /\ wallet'[v] = wallet[v]
      BY <1>2, Layout DEF Deposit, UserKept
    <2> DEFINE W == {UserAccount(u), UserTokens(u), CollateralVault}
    <2>2. /\ \A v \in Users : UserKept(v) \/ UserAccount(v) \in W
          /\ \A v \in Users : wallet'[v] = wallet[v] \/ UserTokens(v) \in W
          /\ CollateralVault \in W
      BY <2>1
    <2>3. /\ UNCHANGED <<paused, numMarkets, insurance, insuranceVault>>
          /\ \A l \in MarketIndexes : MarketKept(l) /\ oracle'[l] = oracle[l]
      BY <1>2 DEF Deposit, MarketKept
    <2> HIDE DEF W
    <2>4. Changed \subseteq W
      BY <2>2, <2>3, ChangedWithin
    <2> QED
      BY <2>4 DEF W, DepositCollateralWrites
  <1>3. ASSUME NEW m \in MarketIndexes, NEW a \in TokenAmounts, Withdraw(u, m, a)
        PROVE  Changed \subseteq WithdrawCollateralWrites(u)
    <2>1. \A v \in Users \ {u} : UserKept(v) /\ wallet'[v] = wallet[v]
      BY <1>3, Layout DEF Withdraw, UserKept
    <2> DEFINE W == {UserAccount(u), UserTokens(u), CollateralVault}
    <2>2. /\ \A v \in Users : UserKept(v) \/ UserAccount(v) \in W
          /\ \A v \in Users : wallet'[v] = wallet[v] \/ UserTokens(v) \in W
          /\ CollateralVault \in W
      BY <2>1
    <2>3. /\ UNCHANGED <<paused, numMarkets, insurance, insuranceVault>>
          /\ \A l \in MarketIndexes : MarketKept(l) /\ oracle'[l] = oracle[l]
      BY <1>3 DEF Withdraw, MarketKept
    <2> HIDE DEF W
    <2>4. Changed \subseteq W
      BY <2>2, <2>3, ChangedWithin
    <2> QED
      BY <2>4 DEF W, WithdrawCollateralWrites
  <1>4. ASSUME NEW m \in MarketIndexes, NEW d \in Directions, NEW n \in OpenSizes,
               NEW l \in PriceLimits, OpenPosition(u, m, d, n, l)
        PROVE  Changed \subseteq OpenPositionWrites(u, m)
    BY <1>4, OpenChanges, UserAndMarketChanged
       DEF OpenPosition, OpenPositionWrites, UserKept
  <1>5. ASSUME NEW m \in MarketIndexes, NEW n \in CloseSizes, NEW l \in PriceLimits,
               ClosePosition(u, m, n, l)
        PROVE  Changed \subseteq ClosePositionWrites(u, m)
    BY <1>5, CloseChanges, UserAndMarketChanged
       DEF ClosePosition, ClosePositionWrites, UserKept
  <1>6. ASSUME NEW m \in MarketIndexes, NEW o \in OrderSpecs, PlaceOrder(u, m, o)
        PROVE  Changed \subseteq PlacePerpOrderWrites(u, m)
    <2>1. PICK a, b, s : /\ user' = [user EXCEPT ![u].nextOrderId = a]
                         /\ orders' = [orders EXCEPT ![u][s] = b]
      BY <1>6 DEF PlaceOrder
    <2>2. \A v \in Users \ {u} : UserKept(v)
      BY <1>6, <2>1, Layout DEF PlaceOrder, UserKept
    <2> QED
      BY <1>6, <2>2, OneUserChanged DEF PlaceOrder, PlacePerpOrderWrites
  <1>7. ASSUME NEW id \in OrderIds, CancelOrder(u, id)
        PROVE  Changed \subseteq CancelOrderWrites(u)
    <2>1. \A v \in Users \ {u} : UserKept(v)
      BY <1>7, Layout DEF CancelOrder, UserKept
    <2> QED
      BY <1>7, <2>1, OneUserChanged DEF CancelOrder, CancelOrderWrites
  <1> QED
    BY <1>1, <1>2, <1>3, <1>4, <1>5, <1>6, <1>7 DEF UserStep, UserStepLocked

LEMMA CrankStepLocks ==
    ASSUME EngineInv, NEW u \in Users, CrankStep(u)
    PROVE  CrankStepLocked(u, Changed)
  <1>1. ASSUME NEW m \in MarketIndexes, NEW id \in OrderIds, FillOrder(u, m, id)
        PROVE  Changed \subseteq FillPerpOrderWrites(u, m)
    <2>1. PICK os : FillReduceOnly(u, m, os) \/ FillOpening(u, m, os)
      BY <1>1 DEF FillOrder
    <2>2. PICK a : orders' = [orders EXCEPT ![u][os] = a]
      BY <2>1 DEF FillReduceOnly, FillOpening
    <2>3. /\ \A v \in Users \ {u} : user'[v] = user[v] /\ positions'[v] = positions[v]
          /\ \A l \in MarketIndexes \ {m} : MarketKept(l)
      BY <2>1, OpenChanges, CloseChanges DEF FillReduceOnly, FillOpening
    <2>4. \A v \in Users \ {u} : UserKept(v)
      BY <2>2, <2>3, Layout DEF UserKept
    <2> QED
      BY <1>1, <2>3, <2>4, UserAndMarketChanged DEF FillOrder, FillPerpOrderWrites
  <1>2. ASSUME NEW w \in Users, NEW m \in MarketIndexes, NEW id \in OrderIds,
               NEW wid \in OrderIds, MatchOrders(u, w, m, id, wid)
        PROVE  Changed \subseteq FillPerpMatchWrites(u, w, m)
    <2>1. /\ \A v \in Users \ {u, w} : user'[v] = user[v] /\ positions'[v] = positions[v]
          /\ \A l \in MarketIndexes \ {m} : MarketKept(l)
      BY <1>2, MatchChanges DEF MatchOrders
    <2>2. PICK a, b, ts, ms : orders' = [orders EXCEPT ![u][ts] = a, ![w][ms] = b]
      BY <1>2 DEF MatchOrders
    <2>3. \A v \in Users \ {u, w} : UserKept(v)
      BY <2>1, <2>2, Layout DEF UserKept
    <2> QED
      BY <1>2, <2>1, <2>3, ChangedWithin DEF MatchOrders, FillPerpMatchWrites
  <1>3. ASSUME NEW m \in MarketIndexes, NEW id \in OrderIds, TriggerOrder(u, m, id)
        PROVE  Changed \subseteq TriggerOrderWrites(u, m)
    <2>1. PICK a, os : orders' = [orders EXCEPT ![u][os] = a]
      BY <1>3 DEF TriggerOrder
    <2>2. /\ \A v \in Users \ {u} : user'[v] = user[v] /\ positions'[v] = positions[v]
          /\ \A l \in MarketIndexes \ {m} : MarketKept(l)
      BY <1>3, CloseChanges DEF TriggerOrder
    <2>3. \A v \in Users \ {u} : UserKept(v)
      BY <2>1, <2>2, Layout DEF UserKept
    <2> QED
      BY <1>3, <2>2, <2>3, UserAndMarketChanged DEF TriggerOrder, TriggerOrderWrites
  <1>4. ASSUME NEW m \in MarketIndexes, NEW n \in CloseSizes, LiquidatePerp(u, m, n)
        PROVE  Changed \subseteq LiquidatePerpWrites(u, m)
    <2>1. PICK a : user' = [user EXCEPT ![u] = a]
      BY <1>4 DEF LiquidatePerp
    <2>2. PICK b, s : positions' = [positions EXCEPT ![u][s] = b]
      BY <1>4 DEF LiquidatePerp
    <2>3. PICK c : market' = [market EXCEPT ![m] = c]
      BY <1>4 DEF LiquidatePerp
    <2>4. PICK d : amm' = [amm EXCEPT ![m] = d]
      BY <1>4 DEF LiquidatePerp
    <2>5. UNCHANGED <<paused, numMarkets, oracle, orders, wallet, vault, insuranceVault>>
      BY <1>4 DEF LiquidatePerp
    <2> DEFINE W == {UserAccount(u), MarketAccount(m), InsuranceFund}
    <2>6. /\ \A v \in Users : UserKept(v) \/ UserAccount(v) \in W
          /\ \A l \in MarketIndexes : MarketKept(l) \/ MarketAccount(l) \in W
          /\ InsuranceFund \in W
      BY <2>1, <2>2, <2>3, <2>4, <2>5, Layout DEF UserKept, MarketKept
    <2> HIDE DEF W
    <2>7. Changed \subseteq W
      BY <2>5, <2>6, ChangedWithin
    <2> QED
      BY <2>7 DEF W, LiquidatePerpWrites
  <1>5. ASSUME ResolveBankruptcy(u)
        PROVE  Changed \subseteq ResolvePerpBankruptcyWrites(u)
    <2>1. \A v \in Users \ {u} : UserKept(v)
      BY <1>5, Layout DEF ResolveBankruptcy, UserKept
    <2> DEFINE W == {UserAccount(u), InsuranceFund}
    <2>2. /\ \A v \in Users : UserKept(v) \/ UserAccount(v) \in W
          /\ InsuranceFund \in W
      BY <2>1
    <2>3. /\ UNCHANGED <<paused, numMarkets, oracle, wallet, vault, insuranceVault>>
          /\ \A l \in MarketIndexes : MarketKept(l)
      BY <1>5 DEF ResolveBankruptcy, MarketKept
    <2> HIDE DEF W
    <2>4. Changed \subseteq W
      BY <2>2, <2>3, ChangedWithin
    <2> QED
      BY <2>4 DEF W, ResolvePerpBankruptcyWrites
  <1>6. ASSUME NEW m \in MarketIndexes, SettleFunding(u, m)
        PROVE  Changed \subseteq SettleFundingWrites(u)
    <2>1. /\ \E a : user' = [user EXCEPT ![u] = a]
          /\ \E b, s : positions' = [positions EXCEPT ![u][s] = b]
      BY <1>6 DEF SettleFunding
    <2>2. \A v \in Users \ {u} : UserKept(v)
      BY <1>6, <2>1, Layout DEF SettleFunding, UserKept
    <2> QED
      BY <1>6, <2>2, OneUserChanged DEF SettleFunding, SettleFundingWrites
  <1> QED
    BY <1>1, <1>2, <1>3, <1>4, <1>5, <1>6 DEF CrankStep, CrankStepLocked

LEMMA MarketStepLocks ==
    ASSUME EngineInv, NEW m \in MarketIndexes, MarketStep(m)
    PROVE  MarketStepLocked(m, Changed)
  <1>1. ASSUME UpdateFundingRate(m) PROVE Changed \subseteq UpdateFundingRateWrites(m)
    <2>1. \A l \in MarketIndexes \ {m} : MarketKept(l)
      BY <1>1, Layout DEF UpdateFundingRate, MarketKept
    <2> QED
      BY <1>1, <2>1, ChangedWithin DEF UpdateFundingRate, UpdateFundingRateWrites, UserKept
  <1>2. ASSUME NEW p \in RiskParams, NEW pool \in Pools,
               InitializeMarket(m, p, pool.reserve, pool.peg)
        PROVE  Changed \subseteq InitializeMarketWrites(m)
    <2>1. \A l \in MarketIndexes \ {m} : MarketKept(l)
      BY <1>2, Layout DEF InitializeMarket, MarketKept
    <2> DEFINE W == {StateAccount, MarketAccount(m)}
    <2>2. /\ \A l \in MarketIndexes : MarketKept(l) \/ MarketAccount(l) \in W
          /\ StateAccount \in W
      BY <2>1
    <2>3. /\ UNCHANGED <<oracle, insurance, wallet, vault, insuranceVault>>
          /\ \A v \in Users : UserKept(v)
      BY <1>2 DEF InitializeMarket, UserKept
    <2> HIDE DEF W
    <2>4. Changed \subseteq W
      BY <2>2, <2>3, ChangedWithin
    <2> QED
      BY <2>4 DEF W, InitializeMarketWrites
  <1>3. ASSUME NEW p \in RiskParams, NEW s \in StatusChoices, UpdateMarketParams(m, s, p)
        PROVE  Changed \subseteq UpdateMarketParamsWrites(m)
    <2>1. \A l \in MarketIndexes \ {m} : MarketKept(l)
      BY <1>3, Layout DEF UpdateMarketParams, MarketKept
    <2> QED
      BY <1>3, <2>1, ChangedWithin
         DEF UpdateMarketParams, UpdateMarketParamsWrites, UserKept
  <1>4. ASSUME NEW p \in Prices, NEW c \in Confidences,
               InitializeOracle(m, p, c) \/ UpdateOracle(m, p, c)
        PROVE  Changed \subseteq {MockOracle(m)}
    <2>1. \A l \in MarketIndexes \ {m} : oracle'[l] = oracle[l]
      BY <1>4, Layout DEF InitializeOracle, UpdateOracle
    <2> QED
      BY <1>4, <2>1, ChangedWithin DEF InitializeOracle, UpdateOracle, UserKept, MarketKept
  <1> QED
    BY <1>1, <1>2, <1>3, <1>4
       DEF MarketStep, MarketStepLocked, InitializeMockOracleWrites, UpdateMockOracleWrites

LEMMA NothingChanged ==
    ASSUME UNCHANGED <<paused, numMarkets, market, amm, oracle, user, positions, orders,
                       insurance, wallet, vault, insuranceVault>>
    PROVE  Changed = {}
  <1>1. /\ \A u \in Users : UserKept(u)
        /\ \A m \in MarketIndexes : MarketKept(m)
    BY DEF UserKept, MarketKept
  <1> DEFINE W == {}
  <1> HIDE DEF W
  <1>2. Changed \subseteq W
    BY <1>1, ChangedWithin
  <1> QED
    BY <1>2 DEF W

LEMMA NextLocks == EngineInv /\ [Next]_vars => [LockedStep]_vars
  <1> SUFFICES ASSUME EngineInv, Next PROVE LockedStep
    OBVIOUS
  <1>1. ASSUME NEW u \in Users, UserStep(u) PROVE LockedStep
    BY <1>1, UserStepLocks DEF LockedStep
  <1>2. ASSUME NEW u \in Users, CrankStep(u) PROVE LockedStep
    BY <1>2, CrankStepLocks DEF LockedStep
  <1>3. ASSUME NEW m \in MarketIndexes, MarketStep(m) PROVE LockedStep
    BY <1>3, MarketStepLocks DEF LockedStep
  <1>4. ASSUME NEW p \in PauseChoices, SetProtocolPaused(p) PROVE LockedStep
    <2>1. Changed \subseteq SetProtocolPausedWrites
      BY <1>4, ChangedWithin DEF SetProtocolPaused, SetProtocolPausedWrites, UserKept, MarketKept
    <2> QED
      BY <1>4, <2>1 DEF LockedStep
  <1>5. ASSUME NEW t \in TimeSteps, Tick(t) PROVE LockedStep
    BY <1>5, NothingChanged DEF Tick, LockedStep
  <1> QED
    BY <1>1, <1>2, <1>3, <1>4, <1>5 DEF Next

\* Whatever the arguments and the state, no instruction writes to an account its
\* interface description does not lock: transactions that run in parallel never touch
\* the same account.
THEOREM ChangesAlwaysLocked == Spec => ChangesAreLocked
  BY InitEngineInv, NextEngineInv, NextLocks, PTL DEF Spec, ChangesAreLocked

=============================================================================
