------------------------------ MODULE MoneyProofs ------------------------------
(***************************************************************************)
(* For every value of the constants: where money goes.  Bad debt only        *)
(* appears where collateral is used up and only disappears with what the     *)
(* insurance fund pays; the claims on the protocol balance with its vault;    *)
(* an account's worth follows its tokens and the funding it stops owing.     *)
(*                                                                         *)
(* Only settle_funding, liquidate_perp and resolve_perp_bankruptcy change    *)
(* bad debt; the other instructions leave every account's debt alone.        *)
(***************************************************************************)
EXTENDS PositionProofs

\* u's debt is what it was
DebtKept(u) == user'[u].badDebt = user[u].badDebt

\* what DebtStep says of one account
DebtStepOf(u) ==
    /\ user'[u].badDebt > user[u].badDebt =>
          \/ user'[u].collateral = 0
          \/ user'[u].settledPnl > user[u].settledPnl
    /\ user'[u].badDebt < user[u].badDebt =>
          insurance - insurance' = user[u].badDebt - user'[u].badDebt

LEMMA KeptDebt ==
    ASSUME EngineInv, \A u \in Users : DebtKept(u)
    PROVE  DebtStep
  <1>1. \A u \in Users : user[u].badDebt \in Nat
    BY DEF EngineInv, TradeOK, AccountsOK, UserType
  <1> QED
    BY <1>1 DEF DebtKept, DebtStep

\* One account replaced: the others keep their debt.
LEMMA OneAccountReplaced ==
    ASSUME EngineInv, NEW u \in Users, NEW a, user' = [user EXCEPT ![u] = a],
           DebtStepOf(u)
    PROVE  DebtStep
  <1>1. \A v \in Users : user[v].badDebt \in Nat /\ (v # u => user'[v] = user[v])
    BY DEF EngineInv, TradeOK, AccountsOK, UserType
  <1> QED
    BY <1>1 DEF DebtStep, DebtStepOf

\* Setting other fields of an account keeps its debt.
LEMMA OtherFields ==
    ASSUME NEW a \in UserType, NEW x, NEW y
    PROVE  /\ [a EXCEPT !.collateral = x].badDebt = a.badDebt
           /\ [a EXCEPT !.collateral = x, !.settledPnl = y].badDebt = a.badDebt
           /\ [a EXCEPT !.exists = x].badDebt = a.badDebt
           /\ [a EXCEPT !.nextOrderId = x].badDebt = a.badDebt
  BY DEF UserType

LEMMA FieldSet ==
    ASSUME EngineInv, NEW u \in Users, NEW a, a.badDebt = user[u].badDebt,
           user' = [user EXCEPT ![u] = a]
    PROVE  \A v \in Users : DebtKept(v)
  BY DEF EngineInv, TradeOK, AccountsOK, DebtKept

LEMMA OpenKeepsDebt ==
    ASSUME EngineInv, NEW u \in Users, NEW m, NEW dir, NEW n, NEW limit,
           ExecuteAmmOpen(u, m, dir, n, limit)
    PROVE  \A v \in Users : DebtKept(v)
  <1>1. PICK x : user' = [user EXCEPT ![u].collateral = x]
    BY DEF ExecuteAmmOpen
  <1>2. user[u] \in UserType
    BY DEF EngineInv, TradeOK, AccountsOK
  <1>3. user' = [user EXCEPT ![u] = [user[u] EXCEPT !.collateral = x]]
    BY <1>1
  <1> QED
    BY <1>2, <1>3, OtherFields, FieldSet

LEMMA CloseKeepsDebt ==
    ASSUME EngineInv, NEW u \in Users, NEW m, NEW s, NEW n, NEW limit,
           ExecuteAmmClose(u, m, s, n, limit)
    PROVE  \A v \in Users : DebtKept(v)
  <1>1. PICK x, y : user' = [user EXCEPT ![u].collateral = x, ![u].settledPnl = @ + y]
    BY DEF ExecuteAmmClose
  <1>2. user \in [Users -> UserType] /\ user[u] \in UserType
    BY DEF EngineInv, TradeOK, AccountsOK
  <1> DEFINE z == user[u].settledPnl + y
  <1>3. user' = [user EXCEPT ![u] = [user[u] EXCEPT !.collateral = x, !.settledPnl = z]]
    BY <1>1, <1>2 DEF UserType
  <1> HIDE DEF z
  <1> DEFINE a == [user[u] EXCEPT !.collateral = x, !.settledPnl = z]
  <1>4. a.badDebt = user[u].badDebt
    BY <1>2, OtherFields
  <1> HIDE DEF a
  <1> QED
    BY <1>3, <1>4, FieldSet DEF a

LEMMA MatchKeepsDebt ==
    ASSUME EngineInv, NEW t \in Users, NEW w \in Users, t # w, NEW m, NEW dir, NEW n,
           NEW price, ExecuteMakerMatch(t, w, m, dir, n, price)
    PROVE  \A v \in Users : DebtKept(v)
  <1>1. PICK x, y : user' = [user EXCEPT ![t].collateral = @ - x, ![w].collateral = @ + y]
    BY DEF ExecuteMakerMatch
  <1>2. user \in [Users -> UserType] /\ \A v \in Users : user[v] \in UserType
    BY DEF EngineInv, TradeOK, AccountsOK
  <1> DEFINE a == [user[t] EXCEPT !.collateral = user[t].collateral - x]
             b == [user[w] EXCEPT !.collateral = user[w].collateral + y]
  <1>3. user' = [user EXCEPT ![t] = a, ![w] = b]
    BY <1>1, <1>2
  <1>4. a.badDebt = user[t].badDebt /\ b.badDebt = user[w].badDebt
    BY <1>2, OtherFields
  <1> HIDE DEF a, b
  <1> QED
    BY <1>2, <1>3, <1>4 DEF DebtKept

-----------------------------------------------------------------------------
(* The three instructions that change debt *)

\* one account's worth and realized profits changed by so much, and no other's did
WorthMoved(u, x, y) ==
    /\ user'[u].collateral - user'[u].badDebt = user[u].collateral - user[u].badDebt + x
    /\ user'[u].settledPnl = user[u].settledPnl + y

OtherUsersKept(U) == \A v \in Users \ U : user'[v] = user[v]

LEMMA SettleDebtStep ==
    ASSUME EngineInv, NEW u \in Users, NEW m \in MarketIndexes, SettleFunding(u, m)
    PROVE  DebtStep
  <1> DEFINE due(s) == PendingFunding(positions[u][s], m)
             c(s)   == Charged(user[u], due(s))
             x(s)   == c(s).settledPnl - due(s)
  <1>1. PICK s \in PositionSlots :
          user' = [user EXCEPT ![u] = [c(s) EXCEPT !.settledPnl = x(s)]]
    BY DEF SettleFunding
  <1>2. user[u] \in UserType /\ due(s) \in Int /\ user \in [Users -> UserType]
    BY PendingFundingType DEF EngineInv, TradeOK, PositionsOK, AccountsOK
  <1> HIDE DEF due
  <1> DEFINE left == user[u].collateral - due(s)
             k    == Greatest(left, 0)
             d    == user[u].badDebt + Greatest(-left, 0)
  <1>3. c(s) = [user[u] EXCEPT !.collateral = k, !.badDebt = d]
    BY DEF Charged
  <1>4. left \in Int /\ user[u].badDebt \in Nat
    BY <1>2 DEF UserType
  <1> HIDE DEF left, c, x
  <1>5. (d > user[u].badDebt => k = 0) /\ d >= user[u].badDebt /\ k \in Nat /\ d \in Nat
    BY <1>4 DEF Greatest
  <1> HIDE DEF k, d
  <1>6. c(s).collateral = k /\ c(s).badDebt = d /\ c(s) \in UserType
    BY <1>2, <1>3, <1>5 DEF UserType
  <1> DEFINE r == [c(s) EXCEPT !.settledPnl = x(s)]
  <1>7. r.collateral = k /\ r.badDebt = d
    BY <1>6 DEF UserType
  <1>8. user'[u] = r
    BY <1>1, <1>2
  <1> HIDE DEF r
  <1>9. DebtStepOf(u)
    BY <1>4, <1>5, <1>7, <1>8 DEF DebtStepOf
  <1> QED
    BY <1>1, <1>9, OneAccountReplaced

\* A liquidation that finds too little collateral for the funding it settles leaves
\* none, unless the close itself realized a profit: its fee is capped by what is left.
LEMMA LiquidateSettles ==
    ASSUME EngineInv, NEW u \in Users, NEW m \in MarketIndexes, NEW request \in Nat,
           LiquidatePerp(u, m, request)
    PROVE  /\ DebtStep
           /\ \E s \in PositionSlots, x \in Int, y \in Int, f \in Nat, k \in Nat :
                 /\ FoundPosition(u, m, s)
                 /\ PendingFunding(positions[u][s], m) \in Int
                 /\ WorthMoved(u, x, y) /\ OtherUsersKept({u})
                 /\ x - y = -PendingFunding(positions[u][s], m) - f
                 /\ insurance' = insurance + f
                 /\ CloseBooked(m, positions[u][s].base > 0, k,
                                CloseSwapDir(positions[u][s]))
                 /\ k > 0
  <1> DEFINE p(s)       == positions[u][s]
             due(s)     == PendingFunding(p(s), m)
             settled(s) == Charged(user[u], due(s))
             size(s)    == Magnitude(p(s).base)
             n(s)       == IF request = 0 \/ request > size(s) THEN size(s) ELSE request
             quote(s)   == SwapQuote(amm[m], n(s), CloseSwapDir(p(s)))
             pnl(s)     == Realized(p(s), n(s), quote(s))
             lf(s)      == LiquidationFee(PositionNotional(n(s), oracle[m].price),
                                          market[m].liqFeeBps)
             fee(s)     == Least(lf(s), Greatest(settled(s).collateral + pnl(s), 0))
  <1>1. PICK s \in PositionSlots :
          /\ FoundPosition(u, m, s)
          /\ SwapAllowed(amm[m], n(s), CloseSwapDir(p(s)))
          /\ user' = [user EXCEPT ![u] = AfterLiquidation(settled(s), pnl(s), fee(s))]
          /\ insurance' = insurance + fee(s)
          /\ CloseBooked(m, p(s).base > 0, n(s), CloseSwapDir(p(s)))
    BY DEF LiquidatePerp, CloseBooked
  <1>2. /\ p(s) \in PositionType /\ p(s).base # 0
        /\ user \in [Users -> UserType] /\ user[u] \in UserType
        /\ market[m].liqFeeBps \in Nat /\ oracle[m].price \in Nat
        /\ amm[m].base \in Nat /\ amm[m].quote \in Nat /\ amm[m].peg \in Nat
    BY <1>1 DEF EngineInv, TradeOK, RestOK, PositionsOK, AccountsOK, PoolsOK, MarketsOK,
                MarketType, OracleType, AmmType, FoundPosition, IsOpenIn
  <1>3. due(s) \in Int
    BY <1>2, PendingFundingType DEF EngineInv, TradeOK
  <1>4. n(s) \in Nat /\ n(s) > 0
    BY <1>2 DEF Magnitude, PositionType
  <1>5. CloseSwapDir(p(s)) \in {"Add", "Remove"}
    BY DEF CloseSwapDir
  <1> HIDE DEF n, due
  <1>6. quote(s) \in Int
    BY <1>1, <1>2, <1>4, <1>5, SwapQuoteType
  <1> HIDE DEF quote
  <1>7. pnl(s) \in Int
    BY <1>2, <1>4, <1>6, RealizedType
  <1> HIDE DEF pnl
  <1>8. lf(s) \in Nat
    <2>1. n(s) \in Int
      BY <1>4
    <2> QED
      BY <1>2, <2>1, LiquidationFeeType
  <1> HIDE DEF lf
  <1> DEFINE c0 == user[u].collateral
             d0 == user[u].badDebt
             l1 == c0 - due(s)
             c1 == Greatest(l1, 0)
             d1 == d0 + Greatest(-l1, 0)
             f  == Least(lf(s), Greatest(c1 + pnl(s), 0))
             l2 == c1 + pnl(s) - f
             c2 == Greatest(l2, 0)
             d2 == d1 + Greatest(-l2, 0)
             s2 == user[u].settledPnl + pnl(s)
             b2 == user[u].bankrupt \/ l2 < 0
  <1>9. /\ c0 \in Nat /\ d0 \in Nat /\ l1 \in Int /\ c1 \in Nat /\ d1 \in Nat
        /\ f \in Nat /\ l2 \in Int /\ c2 \in Nat /\ d2 \in Nat
        /\ user[u].settledPnl \in Int
    BY <1>2, <1>3, <1>7, <1>8 DEF UserType, Greatest, Least
  <1>10. /\ d2 >= d0
         /\ d2 > d0 => c2 = 0 \/ s2 > user[u].settledPnl
    BY <1>3, <1>7, <1>8, <1>9 DEF Greatest, Least
  <1>11. settled(s) = [user[u] EXCEPT !.collateral = c1, !.badDebt = d1]
    BY DEF Charged
  <1>12. c1 - d1 = c0 - d0 - due(s) /\ c2 - d2 = c1 - d1 + pnl(s) - f
    BY <1>3, <1>7, <1>9 DEF Greatest
  <1> HIDE DEF c1, d1, settled
  <1>13. /\ settled(s).collateral = c1 /\ settled(s).badDebt = d1
         /\ settled(s).settledPnl = user[u].settledPnl
         /\ settled(s).bankrupt = user[u].bankrupt
         /\ settled(s) \in UserType
    BY <1>2, <1>9, <1>11 DEF UserType
  <1>14. fee(s) = f
    BY <1>13
  <1>15. AfterLiquidation(settled(s), pnl(s), fee(s))
           = [settled(s) EXCEPT !.collateral = c2, !.badDebt = d2, !.bankrupt = b2,
                                !.settledPnl = s2]
    BY <1>13, <1>14 DEF AfterLiquidation
  <1> HIDE DEF c2, d2, s2, b2, fee
  <1> DEFINE r == [settled(s) EXCEPT !.collateral = c2, !.badDebt = d2, !.bankrupt = b2,
                                     !.settledPnl = s2]
  <1>16. r.collateral = c2 /\ r.badDebt = d2 /\ r.settledPnl = s2
    BY <1>13 DEF UserType
  <1>17. user'[u] = r
    BY <1>1, <1>2, <1>15
  <1> HIDE DEF r
  <1>18. DebtStepOf(u)
    BY <1>9, <1>10, <1>16, <1>17 DEF DebtStepOf
  <1>19. DebtStep
    BY <1>1, <1>18, OneAccountReplaced
  <1> DEFINE x == -due(s) + pnl(s) - f
  <1>20. x \in Int /\ x - pnl(s) = -due(s) - f /\ c2 - d2 = c0 - d0 + x
    BY <1>3, <1>7, <1>9, <1>12
  <1> HIDE DEF x
  <1>21. WorthMoved(u, x, pnl(s)) /\ OtherUsersKept({u})
    BY <1>2, <1>1, <1>16, <1>17, <1>20 DEF WorthMoved, OtherUsersKept, s2
  <1>22. insurance' = insurance + f
    BY <1>1, <1>14
  <1> HIDE DEF f
  <1>23. /\ FoundPosition(u, m, s) /\ due(s) \in Int
         /\ WorthMoved(u, x, pnl(s)) /\ OtherUsersKept({u})
         /\ x - pnl(s) = -due(s) - f
         /\ insurance' = insurance + f
         /\ CloseBooked(m, positions[u][s].base > 0, n(s), CloseSwapDir(positions[u][s]))
         /\ n(s) > 0
    BY <1>1, <1>3, <1>4, <1>20, <1>21, <1>22
  <1>24. \E y \in Int, g \in Nat, k \in Nat :
         /\ FoundPosition(u, m, s) /\ due(s) \in Int
         /\ WorthMoved(u, x, y) /\ OtherUsersKept({u})
         /\ x - y = -due(s) - g
         /\ insurance' = insurance + g
         /\ CloseBooked(m, positions[u][s].base > 0, k, CloseSwapDir(positions[u][s]))
         /\ k > 0
    BY <1>4, <1>7, <1>9, <1>23
  <1> QED
    BY <1>19, <1>20, <1>24 DEF due

LEMMA ResolveDebtStep ==
    ASSUME EngineInv, NEW u \in Users, ResolveBankruptcy(u)
    PROVE  DebtStep
  <1> DEFINE draw == Least(user[u].badDebt, insurance)
             d == user[u].badDebt - draw
             b == user[u].badDebt # draw
             r == [user[u] EXCEPT !.badDebt = d, !.bankrupt = b]
  <1>1. /\ user \in [Users -> UserType] /\ user[u] \in UserType
        /\ user[u].badDebt \in Nat /\ insurance \in Nat
    BY DEF EngineInv, TradeOK, RestOK, AccountsOK, UserType
  <1>2. insurance' = insurance - draw /\ user' = [user EXCEPT ![u] = r]
    BY DEF ResolveBankruptcy, Resolved
  <1>3. draw \in Nat /\ draw <= user[u].badDebt
    BY <1>1 DEF Least
  <1>4. r.badDebt = d
    BY <1>1 DEF UserType
  <1>5. user'[u] = r
    BY <1>1, <1>2
  <1> HIDE DEF draw, r
  <1>6. DebtStepOf(u)
    BY <1>1, <1>2, <1>3, <1>4, <1>5 DEF DebtStepOf
  <1> QED
    BY <1>2, <1>6, OneAccountReplaced

-----------------------------------------------------------------------------

LEMMA UserStepDebt ==
    ASSUME EngineInv, NEW u \in Users, UserStep(u)
    PROVE  DebtStep
  <1>1. user[u] \in UserType
    BY DEF EngineInv, TradeOK, AccountsOK
  <1>2. ASSUME NEW x, user' = [user EXCEPT ![u].collateral = x] PROVE DebtStep
    <2>1. user' = [user EXCEPT ![u] = [user[u] EXCEPT !.collateral = x]]
      BY <1>2
    <2> QED
      BY <1>1, <2>1, OtherFields, FieldSet, KeptDebt
  <1>3. ASSUME InitializeUser(u) PROVE DebtStep
    <2>1. user' = [user EXCEPT ![u] = [user[u] EXCEPT !.exists = TRUE]]
      BY <1>3 DEF InitializeUser
    <2> QED
      BY <1>1, <2>1, OtherFields, FieldSet, KeptDebt
  <1>4. ASSUME NEW a \in TokenAmounts, Deposit(u, a) PROVE DebtStep
    <2>1. user' = [user EXCEPT ![u].collateral = user[u].collateral + a]
      BY <1>4 DEF Deposit
    <2> QED
      BY <1>2, <2>1
  <1>5. ASSUME NEW m \in MarketIndexes, NEW a \in TokenAmounts, Withdraw(u, m, a)
        PROVE  DebtStep
    <2>1. user' = [user EXCEPT ![u].collateral = user[u].collateral - a]
      BY <1>5 DEF Withdraw
    <2> QED
      BY <1>2, <2>1
  <1>6. ASSUME NEW m \in MarketIndexes, NEW d \in Directions, NEW n \in OpenSizes,
               NEW l \in PriceLimits, OpenPosition(u, m, d, n, l)
        PROVE  DebtStep
    BY <1>6, OpenKeepsDebt, KeptDebt DEF OpenPosition
  <1>7. ASSUME NEW m \in MarketIndexes, NEW n \in CloseSizes, NEW l \in PriceLimits,
               ClosePosition(u, m, n, l)
        PROVE  DebtStep
    BY <1>7, CloseKeepsDebt, KeptDebt DEF ClosePosition
  <1>8. ASSUME NEW m \in MarketIndexes, NEW o \in OrderSpecs, PlaceOrder(u, m, o)
        PROVE  DebtStep
    <2> DEFINE next == (user[u].nextOrderId + 1) % ORDER_ID_MODULUS
    <2>1. user' = [user EXCEPT ![u] = [user[u] EXCEPT !.nextOrderId = next]]
      BY <1>8 DEF PlaceOrder
    <2> HIDE DEF next
    <2> QED
      BY <1>1, <2>1, OtherFields, FieldSet, KeptDebt
  <1>9. ASSUME NEW id \in OrderIds, CancelOrder(u, id) PROVE DebtStep
    BY <1>9, KeptDebt DEF CancelOrder, DebtKept
  <1> QED
    BY <1>3, <1>4, <1>5, <1>6, <1>7, <1>8, <1>9 DEF UserStep

LEMMA CrankStepDebt ==
    ASSUME EngineInv, NEW u \in Users, CrankStep(u)
    PROVE  DebtStep
  <1>1. ASSUME NEW m \in MarketIndexes, NEW id \in OrderIds, FillOrder(u, m, id)
        PROVE  DebtStep
    <2>1. PICK os \in OrderSlots : FillReduceOnly(u, m, os) \/ FillOpening(u, m, os)
      BY <1>1 DEF FillOrder
    <2> QED
      BY <2>1, OpenKeepsDebt, CloseKeepsDebt, KeptDebt DEF FillReduceOnly, FillOpening
  <1>2. ASSUME NEW w \in Users, NEW m \in MarketIndexes, NEW id \in OrderIds,
               NEW wid \in OrderIds, MatchOrders(u, w, m, id, wid)
        PROVE  DebtStep
    BY <1>2, MatchKeepsDebt, KeptDebt DEF MatchOrders
  <1>3. ASSUME NEW m \in MarketIndexes, NEW id \in OrderIds, TriggerOrder(u, m, id)
        PROVE  DebtStep
    BY <1>3, CloseKeepsDebt, KeptDebt DEF TriggerOrder
  <1>4. ASSUME NEW m \in MarketIndexes, NEW n \in CloseSizes, LiquidatePerp(u, m, n)
        PROVE  DebtStep
    BY <1>4, LiquidateSettles, InputAssumption
  <1>5. ASSUME ResolveBankruptcy(u) PROVE DebtStep
    BY <1>5, ResolveDebtStep
  <1>6. ASSUME NEW m \in MarketIndexes, SettleFunding(u, m) PROVE DebtStep
    BY <1>6, SettleDebtStep
  <1> QED
    BY <1>1, <1>2, <1>3, <1>4, <1>5, <1>6 DEF CrankStep

LEMMA NextDebtStep == EngineInv /\ [Next]_vars => DebtStep
  <1> SUFFICES ASSUME EngineInv, [Next]_vars PROVE DebtStep
    OBVIOUS
  <1>1. ASSUME NEW u \in Users, UserStep(u) \/ CrankStep(u) PROVE DebtStep
    BY <1>1, UserStepDebt, CrankStepDebt
  <1>2. ASSUME UNCHANGED user PROVE DebtStep
    BY <1>2, KeptDebt DEF DebtKept
  <1>3. ASSUME NEW m \in MarketIndexes, MarketStep(m) PROVE UNCHANGED user
    BY <1>3 DEF MarketStep, UpdateFundingRate, InitializeMarket, UpdateMarketParams,
                InitializeOracle, UpdateOracle
  <1>4. ASSUME NEW p \in PauseChoices, SetProtocolPaused(p) PROVE UNCHANGED user
    BY <1>4 DEF SetProtocolPaused
  <1>5. ASSUME NEW t \in TimeSteps, Tick(t) PROVE UNCHANGED user
    BY <1>5 DEF Tick
  <1>6. CASE UNCHANGED vars
    BY <1>2, <1>6 DEF vars
  <1> QED
    BY <1>1, <1>2, <1>3, <1>4, <1>5, <1>6 DEF Next

\* In every behaviour of the program, a step that adds to an account's bad debt
\* leaves it no collateral or realizes a profit for it, and a step that lowers it
\* lowers the insurance fund by the same amount.
THEOREM DebtAlwaysLastResort == Spec => DebtIsLastResort
  <1>1. EngineInv /\ [Next]_vars => [DebtStep]_vars
    BY NextDebtStep
  <1> QED
    BY <1>1, InitEngineInv, NextEngineInv, PTL DEF Spec, DebtIsLastResort

-----------------------------------------------------------------------------
(* The ledger: what one account, or one market's fees, changing does to it   *)

\* what u can claim, not counting the profits it realized
Claim(u) == Equity(u) - user[u].settledPnl

Claims == SumFunction([u \in Users |-> Claim(u)])
Fees   == SumFunction([m \in MarketIndexes |-> amm[m].totalFee])

LEMMA LedgerParts ==
    /\ Ledger = Claims + Fees + insurance - vault
    /\ Ledger' = Claims' + Fees' + insurance' - vault'
  BY DEF Ledger, Claims, Fees, Claim

LEMMA WorthType ==
    ASSUME EngineInv
    PROVE  \A u \in Users : /\ user[u].collateral \in Int /\ user[u].badDebt \in Int
                            /\ user[u].settledPnl \in Int
                            /\ Equity(u) \in Int /\ Claim(u) \in Int
  <1>1. ASSUME NEW u \in Users
        PROVE  /\ user[u].collateral \in Int /\ user[u].badDebt \in Int
               /\ user[u].settledPnl \in Int
    BY DEF EngineInv, TradeOK, AccountsOK, UserType
  <1> QED
    BY <1>1 DEF Equity, Claim

LEMMA NewWorthType ==
    ASSUME EngineInv'
    PROVE  \A u \in Users : /\ user'[u].collateral \in Int /\ user'[u].badDebt \in Int
                            /\ user'[u].settledPnl \in Int
                            /\ Equity(u)' \in Int /\ Claim(u)' \in Int
  <1>1. ASSUME NEW u \in Users
        PROVE  /\ user'[u].collateral \in Int /\ user'[u].badDebt \in Int
               /\ user'[u].settledPnl \in Int
    BY DEF EngineInv, TradeOK, AccountsOK, UserType
  <1> QED
    BY <1>1 DEF Equity, Claim

LEMMA FeesAreInts ==
    ASSUME EngineInv
    PROVE  \A m \in MarketIndexes : amm[m].totalFee \in Int
  BY DEF EngineInv, TradeOK, PoolsOK, AmmType

LEMMA NewFeesAreInts ==
    ASSUME EngineInv'
    PROVE  \A m \in MarketIndexes : amm'[m].totalFee \in Int
  BY DEF EngineInv, TradeOK, PoolsOK, AmmType

LEMMA LedgerType ==
    ASSUME EngineInv
    PROVE  Claims \in Int /\ Fees \in Int /\ insurance \in Int /\ vault \in Int
  <1> DEFINE f == [u \in Users |-> Claim(u)]
             g == [m \in MarketIndexes |-> amm[m].totalFee]
  <1>1. f \in [Users -> Int] /\ g \in [MarketIndexes -> Int]
    BY WorthType, FeesAreInts
  <1>2. Claims = SumFunction(f) /\ Fees = SumFunction(g)
    BY DEF Claims, Fees
  <1> HIDE DEF f, g
  <1>3. Claims \in Int /\ Fees \in Int
    BY <1>1, <1>2, SumIsInt, StateAssumption
  <1> QED
    BY <1>3 DEF EngineInv, RestOK

LEMMA ClaimChanged ==
    ASSUME EngineInv, EngineInv', NEW u \in Users,
           \A v \in Users \ {u} : Claim(v)' = Claim(v)
    PROVE  Claims' = Claims + (Claim(u)' - Claim(u))
  <1> DEFINE f == [v \in Users |-> Claim(v)]
             g == [v \in Users |-> Claim(v)']
  <1>1. \A v \in Users : Claim(v) \in Int /\ Claim(v)' \in Int
    BY WorthType, NewWorthType
  <1>2. f \in [Users -> Int] /\ g \in [Users -> Int]
        /\ f[u] = Claim(u) /\ g[u] = Claim(u)'
        /\ \A v \in Users \ {u} : g[v] = f[v]
    BY <1>1
  <1>3. Claims = SumFunction(f) /\ Claims' = SumFunction(g)
    BY DEF Claims
  <1> HIDE DEF f, g
  <1>4. SumFunction(g) = SumFunction(f) + (g[u] - f[u])
    BY <1>2, SumChanged, StateAssumption
  <1> QED
    BY <1>2, <1>3, <1>4

LEMMA ClaimsChangedTwice ==
    ASSUME EngineInv, EngineInv', NEW t \in Users, NEW w \in Users, t # w,
           \A v \in Users \ {t, w} : Claim(v)' = Claim(v)
    PROVE  Claims' = Claims + (Claim(t)' - Claim(t)) + (Claim(w)' - Claim(w))
  <1> DEFINE f == [v \in Users |-> Claim(v)]
             g == [v \in Users |-> Claim(v)']
  <1>1. \A v \in Users : Claim(v) \in Int /\ Claim(v)' \in Int
    BY WorthType, NewWorthType
  <1>2. f \in [Users -> Int] /\ g \in [Users -> Int]
        /\ f[t] = Claim(t) /\ g[t] = Claim(t)' /\ f[w] = Claim(w) /\ g[w] = Claim(w)'
        /\ \A v \in Users \ {t, w} : g[v] = f[v]
    BY <1>1
  <1>3. Claims = SumFunction(f) /\ Claims' = SumFunction(g)
    BY DEF Claims
  <1> HIDE DEF f, g
  <1>4. SumFunction(g) = SumFunction(f) + (g[t] - f[t]) + (g[w] - f[w])
    BY <1>2, SumChangedTwice, StateAssumption
  <1> QED
    BY <1>2, <1>3, <1>4

LEMMA ClaimsSame ==
    ASSUME \A v \in Users : Claim(v)' = Claim(v)
    PROVE  Claims' = Claims
  <1>1. [v \in Users |-> Claim(v)'] = [v \in Users |-> Claim(v)]
    OBVIOUS
  <1> QED
    BY <1>1 DEF Claims

LEMMA FeesChanged ==
    ASSUME EngineInv, EngineInv', NEW m \in MarketIndexes,
           \A k \in MarketIndexes \ {m} : amm'[k].totalFee = amm[k].totalFee
    PROVE  Fees' = Fees + (amm'[m].totalFee - amm[m].totalFee)
  <1> DEFINE f == [k \in MarketIndexes |-> amm[k].totalFee]
             g == [k \in MarketIndexes |-> amm'[k].totalFee]
  <1>1. \A k \in MarketIndexes : amm[k].totalFee \in Int /\ amm'[k].totalFee \in Int
    BY FeesAreInts, NewFeesAreInts
  <1>2. f \in [MarketIndexes -> Int] /\ g \in [MarketIndexes -> Int]
        /\ f[m] = amm[m].totalFee /\ g[m] = amm'[m].totalFee
        /\ \A k \in MarketIndexes \ {m} : g[k] = f[k]
    BY <1>1
  <1>3. Fees = SumFunction(f) /\ Fees' = SumFunction(g)
    BY DEF Fees
  <1> HIDE DEF f, g
  <1>4. IsFiniteSet(MarketIndexes)
    BY StateAssumption
  <1>5. SumFunction(g) = SumFunction(f) + (g[m] - f[m])
    BY <1>2, <1>4, SumChanged
  <1> QED
    BY <1>2, <1>3, <1>5

LEMMA FeesSame ==
    ASSUME \A k \in MarketIndexes : amm'[k].totalFee = amm[k].totalFee
    PROVE  Fees' = Fees
  <1>1. [k \in MarketIndexes |-> amm'[k].totalFee] = [k \in MarketIndexes |-> amm[k].totalFee]
    OBVIOUS
  <1> QED
    BY <1>1 DEF Fees

-----------------------------------------------------------------------------
(* The ledger: each kind of step                                             *)

\* market m earned fees of x and no other market earned any
FeesMoved(m, x) ==
    /\ amm'[m].totalFee = amm[m].totalFee + x
    /\ \A k \in MarketIndexes \ {m} : amm'[k] = amm[k]

LEMMA ClaimOfWorth ==
    ASSUME EngineInv, EngineInv', NEW u \in Users, NEW x \in Int, NEW y \in Int,
           WorthMoved(u, x, y)
    PROVE  Claim(u)' - Claim(u) = x - y
  <1>1. /\ user[u].collateral \in Int /\ user[u].badDebt \in Int
        /\ user[u].settledPnl \in Int
        /\ user'[u].collateral \in Int /\ user'[u].badDebt \in Int
        /\ user'[u].settledPnl \in Int
    BY WorthType, NewWorthType
  <1>2. /\ Claim(u) = user[u].collateral - user[u].badDebt - user[u].settledPnl
        /\ Claim(u)' = user'[u].collateral - user'[u].badDebt - user'[u].settledPnl
    BY DEF Claim, Equity
  <1> QED
    BY <1>1, <1>2 DEF WorthMoved

LEMMA LedgerOfOne ==
    ASSUME EngineInv, EngineInv', NEW u \in Users, NEW x \in Int, NEW y \in Int,
           WorthMoved(u, x, y), OtherUsersKept({u})
    PROVE  Claims' = Claims + (x - y)
  <1>1. \A v \in Users \ {u} : Claim(v)' = Claim(v)
    BY DEF OtherUsersKept, Claim, Equity
  <1>2. Claims' = Claims + (Claim(u)' - Claim(u))
    BY <1>1, ClaimChanged
  <1>3. Claim(u)' - Claim(u) = x - y
    BY ClaimOfWorth
  <1> QED
    BY <1>2, <1>3

LEMMA LedgerOfTwo ==
    ASSUME EngineInv, EngineInv', NEW t \in Users, NEW w \in Users, t # w,
           NEW x \in Int, NEW y \in Int, WorthMoved(t, x, 0), WorthMoved(w, y, 0),
           OtherUsersKept({t, w})
    PROVE  Claims' = Claims + x + y
  <1>1. \A v \in Users \ {t, w} : Claim(v)' = Claim(v)
    BY DEF OtherUsersKept, Claim, Equity
  <1>2. Claims' = Claims + (Claim(t)' - Claim(t)) + (Claim(w)' - Claim(w))
    BY <1>1, ClaimsChangedTwice
  <1>3. Claim(t)' - Claim(t) = x - 0
    BY ClaimOfWorth
  <1>4. Claim(w)' - Claim(w) = y - 0
    BY ClaimOfWorth
  <1>5. Claims \in Int
    BY LedgerType
  <1> QED
    BY <1>2, <1>3, <1>4, <1>5

LEMMA FeesOfOne ==
    ASSUME EngineInv, EngineInv', NEW m \in MarketIndexes, NEW x \in Int, FeesMoved(m, x)
    PROVE  Fees' = Fees + x
  <1>1. \A k \in MarketIndexes \ {m} : amm'[k].totalFee = amm[k].totalFee
    BY DEF FeesMoved
  <1>2. Fees' = Fees + (amm'[m].totalFee - amm[m].totalFee)
    BY <1>1, FeesChanged
  <1>3. amm[m].totalFee \in Int
    BY FeesAreInts
  <1>4. amm'[m].totalFee = amm[m].totalFee + x
    BY DEF FeesMoved
  <1> QED
    BY <1>2, <1>3, <1>4

\* a pool has earned f
HasFees(p, f) == "totalFee" \in DOMAIN p /\ p.totalFee = f

LEMMA FeesKept ==
    ASSUME NEW p, NEW f, HasFees(p, f), NEW n, NEW d, NEW isLong, NEW x
    PROVE  /\ HasFees(Swapped(p, n, d), f)
           /\ HasFees(AddSkew(p, d, n), f)
           /\ HasFees(RemoveSkew(p, isLong, n), f)
           /\ [p EXCEPT !.totalFee = @ + x].totalFee = f + x
           /\ [p EXCEPT !.totalFee = x].totalFee = x
  <1>1. HasFees(Swapped(p, n, d), f)
    BY DEF HasFees, Swapped
  <1>2. HasFees(AddSkew(p, d, n), f)
    BY DEF HasFees, AddSkew
  <1>3. HasFees(RemoveSkew(p, isLong, n), f)
    BY DEF HasFees, RemoveSkew
  <1>4. [p EXCEPT !.totalFee = @ + x].totalFee = f + x
        /\ [p EXCEPT !.totalFee = x].totalFee = x
    BY DEF HasFees
  <1> QED
    BY <1>1, <1>2, <1>3, <1>4

LEMMA PoolsHaveFees ==
    ASSUME EngineInv, NEW m \in MarketIndexes
    PROVE  HasFees(amm[m], amm[m].totalFee)
  BY DEF EngineInv, TradeOK, PoolsOK, AmmType, HasFees

\* Replacing one pool by one that has earned x more.
LEMMA FeesMovedBy ==
    ASSUME EngineInv, NEW m \in MarketIndexes, NEW q, NEW x,
           amm' = [amm EXCEPT ![m] = q], q.totalFee = amm[m].totalFee + x
    PROVE  FeesMoved(m, x)
  BY DEF EngineInv, TradeOK, PoolsOK, FeesMoved

\* Replacing one account by one that is worth x more and has realized y more.
LEMMA WorthMovedBy ==
    ASSUME EngineInv, NEW u \in Users, NEW a, NEW x, NEW y,
           user' = [user EXCEPT ![u] = a],
           a.collateral - a.badDebt = user[u].collateral - user[u].badDebt + x,
           a.settledPnl = user[u].settledPnl + y
    PROVE  WorthMoved(u, x, y) /\ OtherUsersKept({u})
  BY DEF EngineInv, TradeOK, AccountsOK, WorthMoved, OtherUsersKept

\* An open pays its fee out of the collateral into the pool's fees.
LEMMA OpenBalances ==
    ASSUME EngineInv, EngineInv', NEW u \in Users, NEW m \in MarketIndexes,
           NEW dir \in Directions, NEW n \in Nat, NEW limit,
           ExecuteAmmOpen(u, m, dir, n, limit), UNCHANGED <<insurance, vault>>
    PROVE  Ledger' = Ledger
  <1> DEFINE quote == SwapQuote(amm[m], n, SwapDirForOpen(dir))
             fee   == FeeAmount(quote, TakerFeeBps)
             left  == user[u].collateral - fee
             a     == [user[u] EXCEPT !.collateral = left]
             skewed == AddSkew(Swapped(amm[m], n, SwapDirForOpen(dir)), dir, n)
             pool  == [skewed EXCEPT !.totalFee = @ + fee]
  <1>1. /\ SwapAllowed(amm[m], n, SwapDirForOpen(dir))
        /\ user' = [user EXCEPT ![u].collateral = left]
        /\ amm' = [amm EXCEPT ![m] = pool]
    BY DEF ExecuteAmmOpen
  <1>2. amm[m].base \in Nat /\ amm[m].quote \in Nat /\ amm[m].peg \in Nat
    BY DEF EngineInv, TradeOK, PoolsOK, AmmType
  <1>3. SwapDirForOpen(dir) \in {"Add", "Remove"}
    BY DEF SwapDirForOpen
  <1>4. quote \in Int
    BY <1>1, <1>2, <1>3, SwapQuoteType
  <1> HIDE DEF quote
  <1>5. fee \in Int
    BY <1>4, FeeType, StateAssumption
  <1>6. HasFees(skewed, amm[m].totalFee)
    BY PoolsHaveFees, FeesKept
  <1> HIDE DEF fee, skewed
  <1>7. pool.totalFee = amm[m].totalFee + fee
    BY <1>6, FeesKept
  <1> HIDE DEF pool
  <1>8. FeesMoved(m, fee)
    BY <1>1, <1>7, FeesMovedBy
  <1>9. user' = [user EXCEPT ![u] = a] /\ user[u] \in UserType
    BY <1>1 DEF EngineInv, TradeOK, AccountsOK
  <1>10. a.collateral = user[u].collateral - fee /\ a.badDebt = user[u].badDebt
         /\ a.settledPnl = user[u].settledPnl
    BY <1>9 DEF UserType
  <1>11. user[u].collateral \in Int /\ user[u].badDebt \in Int /\ user[u].settledPnl \in Int
    BY WorthType
  <1> HIDE DEF a, left
  <1>12. a.collateral - a.badDebt = user[u].collateral - user[u].badDebt + (-fee)
         /\ a.settledPnl = user[u].settledPnl + 0
    BY <1>5, <1>10, <1>11
  <1>13. WorthMoved(u, -fee, 0) /\ OtherUsersKept({u})
    BY <1>9, <1>12, WorthMovedBy
  <1>14. Fees' = Fees + fee
    BY <1>5, <1>8, FeesOfOne
  <1>15. -fee \in Int /\ 0 \in Int
    BY <1>5
  <1>16. Claims' = Claims + ((-fee) - 0)
    BY <1>13, <1>15, LedgerOfOne
  <1> QED
    BY <1>5, <1>14, <1>16, LedgerParts, LedgerType

\* A close also books its profit as realized.
LEMMA CloseBalances ==
    ASSUME EngineInv, EngineInv', NEW u \in Users, NEW m \in MarketIndexes,
           NEW s \in PositionSlots, NEW n, NEW limit,
           ExecuteAmmClose(u, m, s, n, limit), UNCHANGED <<insurance, vault>>
    PROVE  Ledger' = Ledger
  <1> DEFINE pos   == positions[u][s]
             quote == SwapQuote(amm[m], n, CloseSwapDir(pos))
             fee   == FeeAmount(quote, TakerFeeBps)
             pnl   == Realized(pos, n, quote)
             left  == user[u].collateral + pnl - fee
             z     == user[u].settledPnl + pnl
             a     == [user[u] EXCEPT !.collateral = left, !.settledPnl = z]
             skewed == RemoveSkew(Swapped(amm[m], n, CloseSwapDir(pos)), pos.base > 0, n)
             pool  == [skewed EXCEPT !.totalFee = @ + fee]
  <1>1. /\ n \in 1 .. Magnitude(pos.base)
        /\ SwapAllowed(amm[m], n, CloseSwapDir(pos))
        /\ user' = [user EXCEPT ![u].collateral = left, ![u].settledPnl = @ + pnl]
        /\ amm' = [amm EXCEPT ![m] = pool]
    BY DEF ExecuteAmmClose
  <1>2. amm[m].base \in Nat /\ amm[m].quote \in Nat /\ amm[m].peg \in Nat
    BY DEF EngineInv, TradeOK, PoolsOK, AmmType
  <1>3. pos \in PositionType
    BY DEF EngineInv, TradeOK, PositionsOK
  <1>4. n \in Nat /\ pos.base # 0
    BY <1>1, <1>3 DEF Magnitude, PositionType
  <1>5. CloseSwapDir(pos) \in {"Add", "Remove"}
    BY DEF CloseSwapDir
  <1>6. quote \in Int
    BY <1>1, <1>2, <1>4, <1>5, SwapQuoteType
  <1>7. fee \in Int
    BY <1>6, FeeType, StateAssumption
  <1>8. pnl \in Int
    BY <1>3, <1>4, <1>6, RealizedType
  <1> HIDE DEF quote
  <1>9. HasFees(skewed, amm[m].totalFee)
    BY PoolsHaveFees, FeesKept
  <1> HIDE DEF fee, skewed, pnl, pos
  <1>10. pool.totalFee = amm[m].totalFee + fee
    BY <1>9, FeesKept
  <1> HIDE DEF pool
  <1>11. FeesMoved(m, fee)
    BY <1>1, <1>10, FeesMovedBy
  <1>12. user[u] \in UserType /\ user \in [Users -> UserType]
    BY DEF EngineInv, TradeOK, AccountsOK
  <1>13. user' = [user EXCEPT ![u] = a]
    BY <1>1, <1>12 DEF UserType
  <1>14. a.collateral = user[u].collateral + pnl - fee /\ a.badDebt = user[u].badDebt
         /\ a.settledPnl = user[u].settledPnl + pnl
    BY <1>12 DEF UserType
  <1>15. user[u].collateral \in Int /\ user[u].badDebt \in Int /\ user[u].settledPnl \in Int
    BY WorthType
  <1> HIDE DEF a, left, z
  <1> DEFINE x == pnl - fee
  <1>16. x \in Int
         /\ a.collateral - a.badDebt = user[u].collateral - user[u].badDebt + x
    BY <1>7, <1>8, <1>14, <1>15
  <1>17. Fees' = Fees + fee
    BY <1>7, <1>11, FeesOfOne
  <1>18. Claims' = Claims + (x - pnl)
    <2> HIDE DEF x
    <2>1. WorthMoved(u, x, pnl) /\ OtherUsersKept({u})
      BY <1>13, <1>14, <1>16, WorthMovedBy
    <2> QED
      BY <1>8, <1>16, <2>1, LedgerOfOne
  <1> QED
    BY <1>7, <1>8, <1>17, <1>18, LedgerParts, LedgerType

\* A match takes the fee from the taker, gives the rebate to the maker and leaves
\* the difference with the pool.
LEMMA MatchBalances ==
    ASSUME EngineInv, EngineInv', NEW t \in Users, NEW w \in Users, t # w,
           NEW m \in MarketIndexes, NEW dir \in Directions, NEW n \in Nat,
           NEW price \in Nat, ExecuteMakerMatch(t, w, m, dir, n, price),
           UNCHANGED <<insurance, vault>>
    PROVE  Ledger' = Ledger
  <1> DEFINE quote  == (n * price) \div BASE_PRECISION
             fee    == FeeAmount(quote, TakerFeeBps)
             rebate == FeeAmount(quote, MakerRebateBps)
             skewed == AddSkew(AddSkew(amm[m], dir, n), Opposite(dir), n)
             pool   == [skewed EXCEPT !.totalFee = @ + fee - rebate]
             tc     == user[t].collateral - fee
             wc     == user[w].collateral + rebate
             a      == [user[t] EXCEPT !.collateral = tc]
             b      == [user[w] EXCEPT !.collateral = wc]
  <1>1. /\ user' = [user EXCEPT ![t].collateral = @ - fee, ![w].collateral = @ + rebate]
        /\ amm' = [amm EXCEPT ![m] = pool]
    BY DEF ExecuteMakerMatch
  <1>2. quote \in Int
    <2>1. n * price \in Nat
      OBVIOUS
    <2> QED
      BY <2>1, DivOfNat, PrecisionAssumption
  <1> HIDE DEF quote
  <1>3. fee \in Int /\ rebate \in Int
    BY <1>2, FeeType, StateAssumption
  <1>4. HasFees(skewed, amm[m].totalFee)
    BY PoolsHaveFees, FeesKept
  <1> HIDE DEF fee, rebate, skewed
  <1>5. amm[m].totalFee \in Int
    BY FeesAreInts
  <1>6. pool.totalFee = amm[m].totalFee + (fee - rebate)
    <2>1. pool.totalFee = amm[m].totalFee + fee - rebate
      BY <1>4 DEF HasFees
    <2> HIDE DEF pool
    <2> QED
      BY <1>3, <1>5, <2>1
  <1> HIDE DEF pool
  <1> DEFINE x == fee - rebate
  <1>7. x \in Int
    BY <1>3
  <1>8. Fees' = Fees + x
    <2>1. pool.totalFee = amm[m].totalFee + x
      BY <1>6
    <2> HIDE DEF x
    <2>2. FeesMoved(m, x)
      BY <1>1, <2>1, FeesMovedBy
    <2> QED
      BY <1>7, <2>2, FeesOfOne
  <1>9. user \in [Users -> UserType] /\ user[t] \in UserType /\ user[w] \in UserType
    BY DEF EngineInv, TradeOK, AccountsOK
  <1>10. user' = [user EXCEPT ![t] = a, ![w] = b]
    BY <1>1, <1>9
  <1>11. /\ a.collateral = user[t].collateral - fee /\ a.badDebt = user[t].badDebt
         /\ a.settledPnl = user[t].settledPnl
         /\ b.collateral = user[w].collateral + rebate /\ b.badDebt = user[w].badDebt
         /\ b.settledPnl = user[w].settledPnl
    BY <1>9 DEF UserType
  <1> HIDE DEF a, b, tc, wc
  <1>12. user'[t] = a /\ user'[w] = b /\ OtherUsersKept({t, w})
    BY <1>9, <1>10 DEF OtherUsersKept
  <1>13. /\ user[t].collateral \in Int /\ user[t].badDebt \in Int
         /\ user[t].settledPnl \in Int
         /\ user[w].collateral \in Int /\ user[w].badDebt \in Int
         /\ user[w].settledPnl \in Int
    BY WorthType
  <1>14. /\ a.collateral - a.badDebt = user[t].collateral - user[t].badDebt + (-fee)
         /\ a.settledPnl = user[t].settledPnl + 0
         /\ b.collateral - b.badDebt = user[w].collateral - user[w].badDebt + rebate
         /\ b.settledPnl = user[w].settledPnl + 0
    BY <1>3, <1>11, <1>13
  <1>15. WorthMoved(t, -fee, 0) /\ WorthMoved(w, rebate, 0)
    BY <1>12, <1>14 DEF WorthMoved
  <1>16. -fee \in Int
    BY <1>3
  <1>17. Claims' = Claims + (-fee) + rebate
    BY <1>3, <1>12, <1>15, <1>16, LedgerOfTwo
  <1> QED
    BY <1>3, <1>8, <1>17, LedgerParts, LedgerType

\* Settling funding takes it out of the worth and books it as a loss.
LEMMA SettleWorth ==
    ASSUME EngineInv, NEW u \in Users, NEW m \in MarketIndexes, SettleFunding(u, m)
    PROVE  \E s \in PositionSlots :
             LET due == PendingFunding(positions[u][s], m)
             IN  /\ FoundPosition(u, m, s)
                 /\ due \in Int
                 /\ WorthMoved(u, -due, -due) /\ OtherUsersKept({u})
                 /\ positions' = [positions EXCEPT ![u][s] =
                                     SettledUpTo(@, amm[m].cumFunding)]
  <1> DEFINE due(s) == PendingFunding(positions[u][s], m)
             c(s)   == Charged(user[u], due(s))
             x(s)   == c(s).settledPnl - due(s)
             r(s)   == [c(s) EXCEPT !.settledPnl = x(s)]
  <1>1. PICK s \in PositionSlots :
          /\ FoundPosition(u, m, s)
          /\ user' = [user EXCEPT ![u] = r(s)]
          /\ positions' = [positions EXCEPT ![u][s] = SettledUpTo(@, amm[m].cumFunding)]
    BY DEF SettleFunding
  <1>2. user[u] \in UserType /\ due(s) \in Int /\ user \in [Users -> UserType]
    BY PendingFundingType DEF EngineInv, TradeOK, PositionsOK, AccountsOK
  <1> HIDE DEF due
  <1> DEFINE left == user[u].collateral - due(s)
             k    == Greatest(left, 0)
             d    == user[u].badDebt + Greatest(-left, 0)
  <1>3. c(s) = [user[u] EXCEPT !.collateral = k, !.badDebt = d]
    BY DEF Charged
  <1>4. user[u].collateral \in Int /\ user[u].badDebt \in Int /\ user[u].settledPnl \in Int
    BY WorthType
  <1>5. k - d = user[u].collateral - user[u].badDebt + (-due(s))
    BY <1>2, <1>4 DEF Greatest
  <1> HIDE DEF k, d
  <1>6. c(s).collateral = k /\ c(s).badDebt = d /\ c(s).settledPnl = user[u].settledPnl
        /\ DOMAIN c(s) = DOMAIN user[u]
    BY <1>2, <1>3 DEF UserType
  <1> HIDE DEF c
  <1>7. x(s) = user[u].settledPnl + (-due(s))
    BY <1>2, <1>4, <1>6
  <1> HIDE DEF x
  <1>8. r(s).collateral = k /\ r(s).badDebt = d /\ r(s).settledPnl = x(s)
    BY <1>2, <1>6 DEF UserType
  <1> HIDE DEF r
  <1> DEFINE e == -due(s)
  <1>9. /\ r(s).collateral - r(s).badDebt = user[u].collateral - user[u].badDebt + e
        /\ r(s).settledPnl = user[u].settledPnl + e
    BY <1>5, <1>7, <1>8
  <1>10. WorthMoved(u, e, e) /\ OtherUsersKept({u})
    <2> HIDE DEF e
    <2> QED
      BY <1>1, <1>9, WorthMovedBy
  <1> QED
    BY <1>1, <1>2, <1>10 DEF due

LEMMA SettleBalances ==
    ASSUME EngineInv, EngineInv', NEW u \in Users, NEW m \in MarketIndexes,
           SettleFunding(u, m)
    PROVE  Ledger' = Ledger
  <1>1. PICK s \in PositionSlots :
          LET due == PendingFunding(positions[u][s], m)
          IN  due \in Int /\ WorthMoved(u, -due, -due) /\ OtherUsersKept({u})
    BY SettleWorth
  <1> DEFINE e == -PendingFunding(positions[u][s], m)
  <1>2. e \in Int /\ WorthMoved(u, e, e)
    BY <1>1
  <1> HIDE DEF e
  <1>3. Claims' = Claims + (e - e)
    BY <1>1, <1>2, LedgerOfOne
  <1>4. UNCHANGED <<amm, insurance, vault>>
    BY DEF SettleFunding
  <1>5. Fees' = Fees
    BY <1>4 DEF Fees
  <1> QED
    BY <1>2, <1>3, <1>4, <1>5, LedgerParts, LedgerType

\* A liquidation moves its fee from the account to the insurance fund; the funding
\* it settles leaves the worth and is booked nowhere.
LEMMA LiquidationDrifts ==
    ASSUME EngineInv, EngineInv', NEW u \in Users, NEW m \in MarketIndexes,
           NEW request \in Nat, LiquidatePerp(u, m, request)
    PROVE  \E s \in PositionSlots :
             /\ FoundPosition(u, m, s)
             /\ Ledger' = Ledger - PendingFunding(positions[u][s], m)
  <1>1. PICK s \in PositionSlots, x \in Int, y \in Int, f \in Nat, k \in Nat :
          /\ FoundPosition(u, m, s)
          /\ PendingFunding(positions[u][s], m) \in Int
          /\ WorthMoved(u, x, y) /\ OtherUsersKept({u})
          /\ x - y = -PendingFunding(positions[u][s], m) - f
          /\ insurance' = insurance + f
          /\ CloseBooked(m, positions[u][s].base > 0, k, CloseSwapDir(positions[u][s]))
    BY LiquidateSettles
  <1> DEFINE due    == PendingFunding(positions[u][s], m)
             isLong == positions[u][s].base > 0
             dir    == CloseSwapDir(positions[u][s])
             pool   == RemoveSkew(Swapped(amm[m], k, dir), isLong, k)
  <1>2. amm' = [amm EXCEPT ![m] = pool]
    BY <1>1 DEF CloseBooked
  <1>3. HasFees(pool, amm[m].totalFee) /\ amm[m].totalFee \in Int
    BY PoolsHaveFees, FeesKept, FeesAreInts
  <1> HIDE DEF pool
  <1>4. pool.totalFee = amm[m].totalFee + 0
    BY <1>3 DEF HasFees
  <1>5. FeesMoved(m, 0)
    BY <1>2, <1>4, FeesMovedBy
  <1>6. Fees' = Fees + 0
    BY <1>5, FeesOfOne
  <1>7. Claims' = Claims + (x - y)
    BY <1>1, LedgerOfOne
  <1>8. vault' = vault
    BY DEF LiquidatePerp
  <1>9. x - y = -due - f /\ due \in Int
    BY <1>1
  <1> HIDE DEF due
  <1>10. Ledger' = Ledger - due
    BY <1>1, <1>6, <1>7, <1>8, <1>9, LedgerParts, LedgerType
  <1> QED
    BY <1>1, <1>10 DEF due

-----------------------------------------------------------------------------
(* The instructions that do not trade                                        *)

\* no account's worth or realized profit changed, and no tokens moved
MoneyStill ==
    /\ \A v \in Users : /\ user'[v].collateral = user[v].collateral
                        /\ user'[v].badDebt = user[v].badDebt
                        /\ user'[v].settledPnl = user[v].settledPnl
    /\ UNCHANGED <<insurance, wallet, vault>>

\* u moved x of its tokens into (or out of) the vault
TokensMoved(u, x) ==
    /\ WorthMoved(u, x, 0) /\ OtherUsersKept({u})
    /\ wallet'[u] = wallet[u] - x
    /\ \A v \in Users \ {u} : wallet'[v] = wallet[v]
    /\ vault' = vault + x
    /\ UNCHANGED insurance

\* the insurance fund paid x of u's debt
DebtPaid(u, x) ==
    /\ WorthMoved(u, x, 0) /\ OtherUsersKept({u})
    /\ insurance' = insurance - x
    /\ UNCHANGED <<wallet, vault>>

LEMMA CollateralReplaced ==
    ASSUME EngineInv, NEW u \in Users, NEW x \in Int, NEW y,
           y = user[u].collateral + x, user' = [user EXCEPT ![u].collateral = y]
    PROVE  WorthMoved(u, x, 0) /\ OtherUsersKept({u})
  <1> DEFINE a == [user[u] EXCEPT !.collateral = y]
  <1>1. user[u] \in UserType /\ user' = [user EXCEPT ![u] = a]
    BY DEF EngineInv, TradeOK, AccountsOK
  <1>2. a.collateral = y /\ a.badDebt = user[u].badDebt
        /\ a.settledPnl = user[u].settledPnl
    BY <1>1 DEF UserType
  <1>3. user[u].collateral \in Int /\ user[u].badDebt \in Int /\ user[u].settledPnl \in Int
    BY WorthType
  <1> HIDE DEF a
  <1>4. a.collateral - a.badDebt = user[u].collateral - user[u].badDebt + x
        /\ a.settledPnl = user[u].settledPnl + 0
    BY <1>2, <1>3
  <1> QED
    BY <1>1, <1>4, WorthMovedBy

LEMMA DepositMoves ==
    ASSUME EngineInv, NEW u \in Users, NEW a \in Nat, Deposit(u, a)
    PROVE  TokensMoved(u, a)
  <1>1. /\ user' = [user EXCEPT ![u].collateral = user[u].collateral + a]
        /\ wallet' = [wallet EXCEPT ![u] = wallet[u] - a]
        /\ vault' = vault + a /\ insurance' = insurance
    BY DEF Deposit
  <1>2. WorthMoved(u, a, 0) /\ OtherUsersKept({u})
    <2> DEFINE y == user[u].collateral + a
    <2>1. a \in Int /\ y = user[u].collateral + a /\ user' = [user EXCEPT ![u].collateral = y]
      BY <1>1
    <2> HIDE DEF y
    <2> QED
      BY <2>1, CollateralReplaced
  <1>3. wallet \in [Users -> Nat]
    BY DEF EngineInv, RestOK
  <1> QED
    BY <1>1, <1>2, <1>3 DEF TokensMoved

LEMMA WithdrawMoves ==
    ASSUME EngineInv, NEW u \in Users, NEW m \in MarketIndexes, NEW a \in Nat,
           Withdraw(u, m, a)
    PROVE  TokensMoved(u, -a)
  <1>1. /\ user' = [user EXCEPT ![u].collateral = user[u].collateral - a]
        /\ wallet' = [wallet EXCEPT ![u] = wallet[u] + a]
        /\ vault' = vault - a /\ insurance' = insurance
    BY DEF Withdraw
  <1>2. /\ wallet \in [Users -> Nat] /\ vault \in Nat /\ user[u].collateral \in Int
    BY WorthType DEF EngineInv, RestOK
  <1> DEFINE x == -a
  <1>3. /\ x \in Int
        /\ user[u].collateral - a = user[u].collateral + x
        /\ wallet[u] + a = wallet[u] - x
        /\ vault - a = vault + x
    BY <1>2
  <1> HIDE DEF x
  <1>4. WorthMoved(u, x, 0) /\ OtherUsersKept({u})
    BY <1>1, <1>3, CollateralReplaced
  <1>5. TokensMoved(u, x)
    BY <1>1, <1>2, <1>3, <1>4 DEF TokensMoved
  <1> QED
    BY <1>5 DEF x

LEMMA ResolvePays ==
    ASSUME EngineInv, NEW u \in Users, ResolveBankruptcy(u)
    PROVE  \E x \in Int : DebtPaid(u, x)
  <1> DEFINE draw == Least(user[u].badDebt, insurance)
             d == user[u].badDebt - draw
             b == user[u].badDebt # draw
             r == [user[u] EXCEPT !.badDebt = d, !.bankrupt = b]
  <1>1. user[u] \in UserType /\ user[u].badDebt \in Nat /\ insurance \in Nat
    BY DEF EngineInv, TradeOK, RestOK, AccountsOK, UserType
  <1>2. insurance' = insurance - draw /\ user' = [user EXCEPT ![u] = r]
        /\ UNCHANGED <<wallet, vault>>
    BY DEF ResolveBankruptcy, Resolved
  <1>3. draw \in Int
    BY <1>1 DEF Least
  <1>4. r.badDebt = user[u].badDebt - draw /\ r.collateral = user[u].collateral
        /\ r.settledPnl = user[u].settledPnl
    BY <1>1 DEF UserType
  <1>5. user[u].collateral \in Int /\ user[u].badDebt \in Int /\ user[u].settledPnl \in Int
    BY WorthType
  <1> HIDE DEF draw, r
  <1>6. r.collateral - r.badDebt = user[u].collateral - user[u].badDebt + draw
        /\ r.settledPnl = user[u].settledPnl + 0
    BY <1>3, <1>4, <1>5
  <1>7. WorthMoved(u, draw, 0) /\ OtherUsersKept({u})
    BY <1>2, <1>6, WorthMovedBy
  <1> QED
    BY <1>2, <1>3, <1>7 DEF DebtPaid

\* Setting another field of an account leaves its money.
LEMMA FieldSetMovesNothing ==
    ASSUME EngineInv, NEW u \in Users, NEW a, user' = [user EXCEPT ![u] = a],
           a.collateral = user[u].collateral, a.badDebt = user[u].badDebt,
           a.settledPnl = user[u].settledPnl, UNCHANGED <<insurance, wallet, vault>>
    PROVE  MoneyStill
  BY DEF EngineInv, TradeOK, AccountsOK, MoneyStill

LEMMA NoTradeMoves ==
    ASSUME EngineInv, NoTrade
    PROVE  \/ MoneyStill
           \/ \E u \in Users, x \in Int : TokensMoved(u, x) /\ UNCHANGED <<amm, positions>>
           \/ \E u \in Users, x \in Int : DebtPaid(u, x) /\ UNCHANGED <<amm, positions>>
  <1>0. \A u \in Users : user[u] \in UserType
    BY DEF EngineInv, TradeOK, AccountsOK
  <1>1. ASSUME NEW u \in Users, InitializeUser(u) PROVE MoneyStill
    <2> DEFINE a == [user[u] EXCEPT !.exists = TRUE]
    <2>1. user' = [user EXCEPT ![u] = a] /\ UNCHANGED <<insurance, wallet, vault>>
      BY <1>1 DEF InitializeUser
    <2>2. a.collateral = user[u].collateral /\ a.badDebt = user[u].badDebt
          /\ a.settledPnl = user[u].settledPnl
      BY <1>0 DEF UserType
    <2> HIDE DEF a
    <2> QED
      BY <2>1, <2>2, FieldSetMovesNothing
  <1>2. ASSUME NEW u \in Users, NEW m \in MarketIndexes, NEW o \in OrderSpecs,
               PlaceOrder(u, m, o)
        PROVE  MoneyStill
    <2> DEFINE next == (user[u].nextOrderId + 1) % ORDER_ID_MODULUS
               a    == [user[u] EXCEPT !.nextOrderId = next]
    <2>1. user' = [user EXCEPT ![u] = a] /\ UNCHANGED <<insurance, wallet, vault>>
      BY <1>2 DEF PlaceOrder
    <2> HIDE DEF next
    <2>2. a.collateral = user[u].collateral /\ a.badDebt = user[u].badDebt
          /\ a.settledPnl = user[u].settledPnl
      BY <1>0 DEF UserType
    <2> HIDE DEF a
    <2> QED
      BY <2>1, <2>2, FieldSetMovesNothing
  <1>3. ASSUME NEW u \in Users, NEW a \in TokenAmounts, Deposit(u, a)
        PROVE  TokensMoved(u, a) /\ a \in Int /\ UNCHANGED <<amm, positions>>
    <2>1. a \in Nat
      BY InputAssumption
    <2>2. UNCHANGED <<amm, positions>>
      BY <1>3 DEF Deposit
    <2> QED
      BY <1>3, <2>1, <2>2, DepositMoves
  <1>4. ASSUME NEW u \in Users, NEW m \in MarketIndexes, NEW a \in TokenAmounts,
               Withdraw(u, m, a)
        PROVE  TokensMoved(u, -a) /\ -a \in Int /\ UNCHANGED <<amm, positions>>
    <2>1. a \in Nat
      BY InputAssumption
    <2>2. UNCHANGED <<amm, positions>>
      BY <1>4 DEF Withdraw
    <2> QED
      BY <1>4, <2>1, <2>2, WithdrawMoves
  <1>5. ASSUME NEW u \in Users, ResolveBankruptcy(u)
        PROVE  \E x \in Int : DebtPaid(u, x) /\ UNCHANGED <<amm, positions>>
    <2>1. UNCHANGED <<amm, positions>>
      BY <1>5 DEF ResolveBankruptcy
    <2> QED
      BY <1>5, <2>1, ResolvePays
  <1>6. ASSUME NEW u \in Users, NEW id, CancelOrder(u, id) PROVE MoneyStill
    BY <1>6 DEF CancelOrder, MoneyStill
  <1>7. ASSUME NEW m \in MarketIndexes, MarketStep(m) PROVE MoneyStill
    <2>1. UNCHANGED <<user, insurance, wallet, vault>>
      BY <1>7 DEF MarketStep, UpdateFundingRate, InitializeMarket, UpdateMarketParams,
                  InitializeOracle, UpdateOracle
    <2> QED
      BY <2>1 DEF MoneyStill
  <1>8. ASSUME NEW x, SetProtocolPaused(x) \/ Tick(x) PROVE MoneyStill
    <2>1. UNCHANGED <<user, insurance, wallet, vault>>
      BY <1>8 DEF SetProtocolPaused, Tick
    <2> QED
      BY <2>1 DEF MoneyStill
  <1> QED
    BY <1>1, <1>2, <1>3, <1>4, <1>5, <1>6, <1>7, <1>8 DEF NoTrade

\* Funding and administration leave what pools have earned, and a market that is
\* created has earned nothing yet.
LEMMA NoTradeKeepsFees ==
    ASSUME EngineInv, FreshMarkets, NoTrade
    PROVE  Fees' = Fees
  <1>1. ASSUME NEW m \in MarketIndexes, MarketTuned(m)
        PROVE  \A k \in MarketIndexes : amm'[k].totalFee = amm[k].totalFee
    BY <1>1 DEF MarketTuned, MarketKeptAll, InterestKept
  <1>2. ASSUME NEW m \in MarketIndexes, MarketBorn(m)
        PROVE  \A k \in MarketIndexes : amm'[k].totalFee = amm[k].totalFee
    <2>1. m \notin CreatedMarkets
      BY <1>2, StateAssumption DEF MarketBorn, CreatedMarkets, EngineInv, RestOK
    <2> QED
      BY <1>2, <2>1 DEF MarketBorn, MarketKeptAll, FreshMarkets
  <1>3. CASE UNCHANGED amm
    BY <1>3 DEF Fees
  <1> QED
    BY <1>1, <1>2, <1>3, NoTradeMarkets, FeesSame

LEMMA NoTradeBalances ==
    ASSUME EngineInv, EngineInv', FreshMarkets, NoTrade
    PROVE  Ledger' = Ledger
  <1>1. Fees' = Fees
    BY NoTradeKeepsFees
  <1>2. CASE MoneyStill
    <2>1. \A v \in Users : Claim(v)' = Claim(v)
      BY <1>2 DEF MoneyStill, Claim, Equity
    <2>2. Claims' = Claims
      BY <2>1, ClaimsSame
    <2> QED
      BY <1>1, <1>2, <2>2, LedgerParts DEF MoneyStill
  <1>3. ASSUME NEW u \in Users, NEW x \in Int, TokensMoved(u, x) PROVE Ledger' = Ledger
    <2>1. Claims' = Claims + (x - 0)
      BY <1>3, LedgerOfOne DEF TokensMoved
    <2>2. insurance' = insurance /\ vault' = vault + x
      BY <1>3 DEF TokensMoved
    <2> QED
      BY <1>1, <2>1, <2>2, LedgerParts, LedgerType
  <1>4. ASSUME NEW u \in Users, NEW x \in Int, DebtPaid(u, x) PROVE Ledger' = Ledger
    <2>1. Claims' = Claims + (x - 0)
      BY <1>4, LedgerOfOne DEF DebtPaid
    <2>2. insurance' = insurance - x /\ vault' = vault
      BY <1>4 DEF DebtPaid
    <2> QED
      BY <1>1, <2>1, <2>2, LedgerParts, LedgerType
  <1> QED
    BY <1>2, <1>3, <1>4, NoTradeMoves

LEMMA TradeBalances ==
    ASSUME EngineInv, EngineInv', Trade
    PROVE  Ledger' = Ledger
  <1>1. ASSUME NEW u \in Users, NEW m \in MarketIndexes, NEW dir \in Directions,
               NEW n \in Nat, NEW limit \in Nat, Opens(u, m, dir, n, limit)
        PROVE  Ledger' = Ledger
    BY <1>1, OpenBalances DEF Opens
  <1>2. ASSUME NEW u \in Users, NEW m \in MarketIndexes, NEW s \in PositionSlots,
               NEW n \in Nat, NEW limit \in Nat, Closes(u, m, s, n, limit)
        PROVE  Ledger' = Ledger
    BY <1>2, CloseBalances DEF Closes
  <1>3. ASSUME NEW t \in Users, NEW w \in Users, NEW m \in MarketIndexes,
               NEW ts \in OrderSlots, NEW ws \in OrderSlots, NEW n \in Nat,
               Matches(t, w, m, ts, ws, n)
        PROVE  Ledger' = Ledger
    <2> DEFINE d == orders[t][ts].dir
               price == orders[w][ws].price
    <2>1. t # w /\ ExecuteMakerMatch(t, w, m, d, n, price) /\ UNCHANGED <<insurance, vault>>
      BY <1>3 DEF Matches
    <2>2. d \in Directions /\ price \in Nat
      BY DEF EngineInv, RestOK, OrderType
    <2> HIDE DEF d, price
    <2> QED
      BY <2>1, <2>2, MatchBalances
  <1> QED
    BY <1>1, <1>2, <1>3 DEF Trade

\* Every step trades, settles, does neither, or is a liquidation a caller may send.
LEMMA MoneyKinds ==
    ASSUME EngineInv, Next
    PROVE  \/ Trade \/ NoTrade
           \/ \E u \in Users, m \in MarketIndexes : SettleFunding(u, m)
           \/ \E u \in Users, m \in MarketIndexes, n \in CloseSizes : LiquidatePerp(u, m, n)
  <1>1. ASSUME NEW u \in Users, UserStep(u) PROVE Trade \/ NoTrade
    BY <1>1, OpenPositionOpens, ClosePositionCloses DEF UserStep, NoTrade
  <1>2. ASSUME NEW u \in Users, CrankStep(u)
        PROVE  \/ Trade \/ NoTrade
               \/ \E m \in MarketIndexes : SettleFunding(u, m)
               \/ \E m \in MarketIndexes, n \in CloseSizes : LiquidatePerp(u, m, n)
    BY <1>2, FillOrderTrades, MatchOrdersMatches, TriggerOrderCloses
       DEF CrankStep, NoTrade
  <1> QED
    BY <1>1, <1>2 DEF Next, NoTrade

LEMMA LiquidationLedgerStep ==
    ASSUME EngineInv, EngineInv', NEW u \in Users, NEW m \in MarketIndexes,
           NEW n \in CloseSizes, LiquidatePerp(u, m, n)
    PROVE  LedgerStep
  <1>1. n \in Nat
    BY InputAssumption
  <1>2. PICK s \in PositionSlots :
          /\ FoundPosition(u, m, s)
          /\ Ledger' = Ledger - PendingFunding(positions[u][s], m)
    BY <1>1, LiquidationDrifts
  <1>3. positions[u][s].market = m
    BY <1>2 DEF FoundPosition, IsOpenIn
  <1> QED
    BY <1>2, <1>3 DEF LedgerStep

LEMMA NextLedgerStep ==
    EngineInv /\ EngineInv' /\ FreshMarkets /\ [Next]_vars => [LedgerStep]_vars
  <1> SUFFICES ASSUME EngineInv, EngineInv', FreshMarkets, [Next]_vars
               PROVE  [LedgerStep]_vars
    OBVIOUS
  <1>1. CASE Next
    <2>1. ASSUME Ledger' = Ledger PROVE LedgerStep
      BY <2>1 DEF LedgerStep
    <2> QED
      BY <1>1, <2>1, MoneyKinds, TradeBalances, NoTradeBalances, SettleBalances,
         LiquidationLedgerStep
  <1> QED
    BY <1>1

\* In every behaviour of the program, what users, the pools' fees and the insurance
\* fund can claim changes exactly by the tokens that enter or leave the vault and by
\* realized profit and loss, whoever trades, matches, settles, liquidates or goes
\* bankrupt in whatever order; the one exception is the funding a liquidation settles.
THEOREM LedgerAlwaysBalances == Spec => LedgerBalances
  <1>1. Init => EngineInv /\ FreshMarkets
    BY InitEngineInv, InitFreshMarkets
  <1>2. EngineInv /\ FreshMarkets /\ [Next]_vars => (EngineInv /\ FreshMarkets)'
    BY NextEngineInv, NextFreshMarkets
  <1>3. EngineInv /\ FreshMarkets /\ [Next]_vars => [LedgerStep]_vars
    BY NextEngineInv, NextLedgerStep
  <1> QED
    BY <1>1, <1>2, <1>3, PTL DEF Spec, LedgerBalances

-----------------------------------------------------------------------------
(* An account's worth, while no trade happens                                *)

\* what slot p of a user owes
OwedBy(p) == IF p.base = 0 THEN 0 ELSE PendingFunding(p, p.market)

LEMMA OwedType ==
    ASSUME SlotInv, NEW u \in Users
    PROVE  /\ \A s \in PositionSlots : OwedBy(positions[u][s]) \in Int
           /\ FundingOwed(u) \in Int
           /\ FundingOwed(u) = SumFunction([s \in PositionSlots |-> OwedBy(positions[u][s])])
  <1>1. SlotsOK(positions[u]) /\ PoolsOK
    BY DEF SlotInv, EngineInv, TradeOK
  <1>2. \A s \in PositionSlots : OwedBy(positions[u][s]) \in Int
    BY <1>1, PendingFundingType DEF SlotsOK, OwedBy
  <1> DEFINE f == [s \in PositionSlots |-> OwedBy(positions[u][s])]
  <1>3. FundingOwed(u) = SumFunction(f)
    BY DEF FundingOwed, OwedBy
  <1>4. f \in [PositionSlots -> Int]
    BY <1>2
  <1> HIDE DEF f
  <1>5. FundingOwed(u) \in Int
    BY <1>3, <1>4, SumIsInt, SlotsFinite
  <1> QED
    BY <1>2, <1>3, <1>5 DEF f

\* A trade or a liquidation moves the skew of its pool.
LEMMA RaisedMovesPool ==
    ASSUME EngineInv, NEW m \in MarketIndexes, NEW l \in Nat, NEW h \in Nat,
           BooksRaised(m, l, h), l > 0 \/ h > 0
    PROVE  amm' # amm
  <1>1. amm[m].long \in Int /\ amm[m].short \in Int
    BY DEF EngineInv, TradeOK, PoolsOK, AmmType
  <1>2. amm'[m].long = amm[m].long + l /\ amm'[m].short = amm[m].short - h
    BY DEF BooksRaised
  <1> QED
    BY <1>1, <1>2

LEMMA LoweredMovesPool ==
    ASSUME EngineInv, NEW m \in MarketIndexes, NEW isLong \in BOOLEAN, NEW n \in Nat,
           BooksLowered(m, isLong, n), n > 0
    PROVE  amm' # amm
  <1>1. amm[m].long \in Int /\ amm[m].short \in Int
    BY DEF EngineInv, TradeOK, PoolsOK, AmmType
  <1>2. amm'[m].long = amm[m].long - n \/ amm'[m].short = amm[m].short + n
    BY DEF BooksLowered
  <1> QED
    BY <1>1, <1>2

LEMMA TradeMovesPool ==
    ASSUME EngineInv, Trade
    PROVE  amm' # amm
  <1>1. ASSUME NEW u \in Users, NEW m \in MarketIndexes, NEW dir \in Directions,
               NEW n \in Nat, NEW limit \in Nat, Opens(u, m, dir, n, limit)
        PROVE  amm' # amm
    <2>1. BooksRaised(m, LongPart(dir, n), ShortPart(dir, n))
      BY <1>1, OpenBooks DEF Opens
    <2>2. n > 0
      BY <1>1 DEF Opens, ExecuteAmmOpen, SwapAllowed
    <2>3. LongPart(dir, n) \in Nat /\ ShortPart(dir, n) \in Nat
          /\ (LongPart(dir, n) > 0 \/ ShortPart(dir, n) > 0)
      BY <2>2 DEF LongPart, ShortPart
    <2> QED
      BY <2>1, <2>3, RaisedMovesPool
  <1>2. ASSUME NEW u \in Users, NEW m \in MarketIndexes, NEW s \in PositionSlots,
               NEW n \in Nat, NEW limit \in Nat, Closes(u, m, s, n, limit)
        PROVE  amm' # amm
    <2> DEFINE b == positions[u][s].base > 0
    <2>1. BooksLowered(m, b, n)
      BY <1>2, CloseBooks DEF Closes
    <2>2. n > 0
      BY <1>2 DEF Closes, ExecuteAmmClose, SwapAllowed
    <2>3. b \in BOOLEAN
      OBVIOUS
    <2> HIDE DEF b
    <2> QED
      BY <2>1, <2>2, <2>3, LoweredMovesPool
  <1>3. ASSUME NEW t \in Users, NEW w \in Users, NEW m \in MarketIndexes,
               NEW ts \in OrderSlots, NEW ws \in OrderSlots, NEW n \in Nat,
               Matches(t, w, m, ts, ws, n)
        PROVE  amm' # amm
    <2> DEFINE d == orders[t][ts].dir
               price == orders[w][ws].price
    <2>1. ExecuteMakerMatch(t, w, m, d, n, price)
      BY <1>3 DEF Matches
    <2>2. d \in Directions
      BY DEF EngineInv, RestOK, OrderType
    <2> HIDE DEF d, price
    <2>3. BooksRaised(m, n, n)
      BY <2>1, <2>2, MatchBooks
    <2>4. n > 0
      BY <2>1 DEF ExecuteMakerMatch
    <2> QED
      BY <2>3, <2>4, RaisedMovesPool
  <1> QED
    BY <1>1, <1>2, <1>3 DEF Trade

LEMMA LiquidationMovesPool ==
    ASSUME EngineInv, NEW u \in Users, NEW m \in MarketIndexes, NEW request \in Nat,
           LiquidatePerp(u, m, request)
    PROVE  amm' # amm
  <1>1. PICK s \in PositionSlots, k \in Nat :
          /\ CloseBooked(m, positions[u][s].base > 0, k, CloseSwapDir(positions[u][s]))
          /\ k > 0
    BY LiquidateSettles
  <1> DEFINE b == positions[u][s].base > 0
             d == CloseSwapDir(positions[u][s])
  <1>2. CloseBooked(m, b, k, d) /\ b \in BOOLEAN
    BY <1>1
  <1> HIDE DEF b, d
  <1>3. BooksLowered(m, b, k)
    BY <1>2, LiquidateBooks
  <1> QED
    BY <1>1, <1>2, <1>3, LoweredMovesPool

\* what EquityStep says of u
EquityStepOf(u) ==
    LET expected == (wallet[u] - wallet'[u]) + (FundingOwed(u)' - FundingOwed(u))
    IN  (Equity(u)' - Equity(u)) - expected \in {0, insurance - insurance'}

LEMMA EquityOfWorth ==
    ASSUME EngineInv, NEW u \in Users, NEW x \in Int, NEW y, WorthMoved(u, x, y)
    PROVE  Equity(u)' - Equity(u) = x
  <1>1. /\ Equity(u) = user[u].collateral - user[u].badDebt
        /\ Equity(u)' = user'[u].collateral - user'[u].badDebt
    BY DEF Equity
  <1>2. Equity(u) \in Int
    BY WorthType
  <1>3. Equity(u)' = Equity(u) + x
    BY <1>1 DEF WorthMoved
  <1> QED
    BY <1>2, <1>3

\* An account whose money and slots are as they were.
LEMMA StillAccount ==
    ASSUME SlotInv, NEW u \in Users, Equity(u)' = Equity(u), wallet'[u] = wallet[u],
           FundingOwed(u)' = FundingOwed(u)
    PROVE  EquityStepOf(u)
  <1>1. Equity(u) \in Int
    BY WorthType DEF SlotInv
  <1>2. FundingOwed(u) \in Int
    BY OwedType
  <1>3. wallet[u] \in Int
    BY DEF SlotInv, EngineInv, RestOK
  <1> QED
    BY <1>1, <1>2, <1>3 DEF EquityStepOf

LEMMA SameFundingOwed ==
    ASSUME amm' = amm, NEW u \in Users, positions'[u] = positions[u]
    PROVE  FundingOwed(u)' = FundingOwed(u)
  BY DEF FundingOwed, PendingFunding

LEMMA SettleEquity ==
    ASSUME SlotInv, SlotInv', NEW w \in Users, NEW m \in MarketIndexes, SettleFunding(w, m)
    PROVE  \A u \in Users : EquityStepOf(u)
  <1>1. PICK s \in PositionSlots :
          LET due == PendingFunding(positions[w][s], m)
          IN  /\ FoundPosition(w, m, s)
              /\ due \in Int
              /\ WorthMoved(w, -due, -due) /\ OtherUsersKept({w})
              /\ positions' = [positions EXCEPT ![w][s] =
                                  SettledUpTo(@, amm[m].cumFunding)]
    BY SettleWorth DEF SlotInv
  <1>2. UNCHANGED <<amm, wallet, insurance>>
    BY DEF SettleFunding
  <1> DEFINE p   == positions[w][s]
             q   == SettledUpTo(p, amm[m].cumFunding)
             due == PendingFunding(p, m)
             f   == [t \in PositionSlots |-> OwedBy(positions[w][t])]
             g   == [t \in PositionSlots |-> OwedBy(positions[w][t])']
  <1>3. /\ positions \in [Users -> [PositionSlots -> PositionType]]
        /\ p \in PositionType /\ p.base # 0 /\ p.market = m
        /\ amm[m].cumFunding \in Int
    BY <1>1 DEF SlotInv, EngineInv, TradeOK, PositionsOK, PoolsOK, AmmType, FoundPosition,
                IsOpenIn
  <1>4. q.base = p.base /\ q.market = m /\ q.lastCum = amm[m].cumFunding
    BY <1>3 DEF SettledUpTo, PositionType
  <1>5. /\ positions'[w][s] = q
        /\ \A t \in PositionSlots \ {s} : positions'[w][t] = positions[w][t]
        /\ \A v \in Users \ {w} : positions'[v] = positions[v]
    BY <1>1, <1>3
  <1>6. \A t \in PositionSlots \ {s} : g[t] = f[t]
    BY <1>2, <1>5 DEF OwedBy, PendingFunding
  <1>7. f[s] = due
    BY <1>3 DEF OwedBy
  <1>8. g[s] = 0
    <2>1. g[s] = FundingPayment(q.base, amm[m].cumFunding, q.lastCum)
      BY <1>2, <1>3, <1>4, <1>5 DEF OwedBy, PendingFunding
    <2>2. q.base * (amm[m].cumFunding - q.lastCum) = 0
      <3>1. p.base \in Int
        BY <1>3 DEF PositionType
      <3>2. amm[m].cumFunding - q.lastCum = 0
        BY <1>3, <1>4
      <3> QED
        BY <1>4, <3>1, <3>2
    <2>3. TruncDiv(0, BASE_PRECISION) = 0
      BY PrecisionAssumption DEF TruncDiv
    <2> QED
      BY <2>1, <2>2, <2>3 DEF FundingPayment
  <1>9. FundingOwed(w) = SumFunction(f) /\ f \in [PositionSlots -> Int]
    BY OwedType
  <1>10. FundingOwed(w)' = SumFunction(g)
    BY DEF FundingOwed, OwedBy
  <1>11. g \in [PositionSlots -> Int]
    BY <1>6, <1>8, <1>9
  <1> HIDE DEF f, g, q
  <1>12. SumFunction(g) = SumFunction(f) + (g[s] - f[s])
    BY <1>6, <1>9, <1>11, SumChanged, SlotsFinite
  <1> HIDE DEF due
  <1>13. due \in Int /\ WorthMoved(w, -due, -due)
    BY <1>1 DEF due
  <1>14. Equity(w)' - Equity(w) = -due
    <2>1. -due \in Int
      BY <1>13
    <2> QED
      BY <1>13, <2>1, EquityOfWorth DEF SlotInv
  <1>15. EquityStepOf(w)
    <2>1. FundingOwed(w) \in Int
      BY OwedType
    <2>2. FundingOwed(w)' - FundingOwed(w) = -due
      BY <1>7, <1>8, <1>9, <1>10, <1>12, <1>13, <2>1
    <2>3. wallet[w] - wallet'[w] = 0
      <3>1. wallet[w] \in Int
        BY DEF SlotInv, EngineInv, RestOK
      <3> QED
        BY <1>2, <3>1
    <2> QED
      BY <1>13, <1>14, <2>2, <2>3 DEF EquityStepOf
  <1>16. ASSUME NEW v \in Users \ {w} PROVE EquityStepOf(v)
    <2>1. Equity(v)' = Equity(v)
      BY <1>1 DEF OtherUsersKept, Equity
    <2>2. FundingOwed(v)' = FundingOwed(v)
      BY <1>2, <1>5, SameFundingOwed
    <2> QED
      BY <1>2, <2>1, <2>2, StillAccount
  <1> QED
    BY <1>15, <1>16

LEMMA TokensEquity ==
    ASSUME SlotInv, NEW w \in Users, NEW x \in Int, TokensMoved(w, x),
           UNCHANGED <<amm, positions>>
    PROVE  \A u \in Users : EquityStepOf(u)
  <1>1. ASSUME NEW u \in Users PROVE FundingOwed(u)' = FundingOwed(u)
    BY SameFundingOwed
  <1>2. wallet[w] - wallet'[w] = x
    <2>1. wallet[w] \in Int
      BY DEF SlotInv, EngineInv, RestOK
    <2> QED
      BY <2>1 DEF TokensMoved
  <1>3. Equity(w)' - Equity(w) = x
    BY EquityOfWorth DEF TokensMoved, SlotInv
  <1>4. EquityStepOf(w)
    <2>1. FundingOwed(w) \in Int
      BY OwedType
    <2> QED
      BY <1>1, <1>2, <1>3, <2>1 DEF EquityStepOf
  <1>5. ASSUME NEW v \in Users \ {w} PROVE EquityStepOf(v)
    <2>1. Equity(v)' = Equity(v) /\ wallet'[v] = wallet[v]
      BY DEF TokensMoved, OtherUsersKept, Equity
    <2> QED
      BY <1>1, <2>1, StillAccount
  <1> QED
    BY <1>4, <1>5

LEMMA DebtEquity ==
    ASSUME SlotInv, NEW w \in Users, NEW x \in Int, DebtPaid(w, x),
           UNCHANGED <<amm, positions>>
    PROVE  \A u \in Users : EquityStepOf(u)
  <1>1. ASSUME NEW u \in Users PROVE FundingOwed(u)' = FundingOwed(u)
    BY SameFundingOwed
  <1>2. insurance - insurance' = x
    <2>1. insurance \in Int
      BY DEF SlotInv, EngineInv, RestOK
    <2> QED
      BY <2>1 DEF DebtPaid
  <1>3. Equity(w)' - Equity(w) = x
    BY EquityOfWorth DEF DebtPaid, SlotInv
  <1>4. wallet[w] - wallet'[w] = 0
    <2>1. wallet[w] \in Int
      BY DEF SlotInv, EngineInv, RestOK
    <2> QED
      BY <2>1 DEF DebtPaid
  <1>5. EquityStepOf(w)
    <2>1. FundingOwed(w) \in Int
      BY OwedType
    <2> QED
      BY <1>1, <1>2, <1>3, <1>4, <2>1 DEF EquityStepOf
  <1>6. ASSUME NEW v \in Users \ {w} PROVE EquityStepOf(v)
    <2>1. Equity(v)' = Equity(v) /\ wallet'[v] = wallet[v]
      BY DEF DebtPaid, OtherUsersKept, Equity
    <2> QED
      BY <1>1, <2>1, StillAccount
  <1> QED
    BY <1>5, <1>6

LEMMA NoTradeEquity ==
    ASSUME SlotInv, NoTrade, amm' = amm
    PROVE  \A u \in Users : EquityStepOf(u)
  <1>1. ASSUME MoneyStill, NEW u \in Users PROVE EquityStepOf(u)
    <2>1. FundingOwed(u)' = FundingOwed(u)
      BY NoTradeKeepsPositions, SameFundingOwed
    <2>2. Equity(u)' = Equity(u) /\ wallet'[u] = wallet[u]
      BY <1>1 DEF MoneyStill, Equity
    <2> QED
      BY <2>1, <2>2, StillAccount
  <1>2. EngineInv
    BY DEF SlotInv
  <1> QED
    BY <1>1, <1>2, NoTradeMoves, TokensEquity, DebtEquity

LEMMA NextEquityStep == SlotInv /\ SlotInv' /\ [Next]_vars => [EquityStep]_vars
  <1> SUFFICES ASSUME SlotInv, SlotInv', [Next]_vars PROVE [EquityStep]_vars
    OBVIOUS
  <1>1. EngineInv
    BY DEF SlotInv
  <1>2. CASE Next
    <2>1. ASSUME amm' = amm, NEW u \in Users PROVE EquityStepOf(u)
      <3>1. ~Trade
        BY <1>1, <2>1, TradeMovesPool
      <3>2. ASSUME NEW w \in Users, NEW m \in MarketIndexes, NEW n \in CloseSizes,
                   LiquidatePerp(w, m, n)
            PROVE  FALSE
        <4>1. n \in Nat
          BY InputAssumption
        <4> QED
          BY <1>1, <2>1, <3>2, <4>1, LiquidationMovesPool
      <3> QED
        BY <1>1, <1>2, <2>1, <3>1, <3>2, MoneyKinds, SettleEquity, NoTradeEquity
    <2> QED
      BY <2>1 DEF EquityStep, EquityStepOf
  <1> QED
    BY <1>2

\* In every behaviour of the program, while no trade happens an account's worth
\* changes only by the tokens it deposits or withdraws, by a draw on the insurance
\* fund, and by the funding its positions stop owing: funding is taken once, in full
\* and from the right account.
THEOREM EquityAlwaysFollows == Spec => EquityFollowsCashAndFunding
  <1>1. SlotInv /\ [Next]_vars => [EquityStep]_vars
    BY NextSlotInv, NextEquityStep
  <1> QED
    BY <1>1, InitSlotInv, NextSlotInv, PTL DEF Spec, EquityFollowsCashAndFunding

=============================================================================
