------------------------------ MODULE Liquidation ------------------------------
(***************************************************************************)
(* liquidate_perp and resolve_perp_bankruptcy, both open to anyone and both *)
(* available while the protocol or the market is paused.                    *)
(***************************************************************************)
EXTENDS Controller, Funding

\* below maintenance margin, in the market being liquidated
IsLiquidatable(acct, p, m) ==
    ~MeetsMargin(acct.collateral, p, oracle[m].price, market[m].mmr)

\* mutants of AfterLiquidation: collateral goes below zero; the realized loss is not
\* recorded; an account left with nothing is flagged bankrupt
CollateralBelowZero(acct, pnl, fee) ==
    [acct EXCEPT !.collateral = @ + pnl - fee, !.settledPnl = @ + pnl]
LossUnrecorded(acct, pnl, fee) ==
    LET left == acct.collateral + pnl - fee
    IN  [acct EXCEPT !.collateral = Greatest(left, 0),
                     !.badDebt    = @ + Greatest(-left, 0),
                     !.bankrupt   = @ \/ left < 0]
BankruptAtZero(acct, pnl, fee) ==
    LET left == acct.collateral + pnl - fee
    IN  [acct EXCEPT !.collateral = Greatest(left, 0),
                     !.badDebt    = @ + Greatest(-left, 0),
                     !.bankrupt   = @ \/ left <= 0,
                     !.settledPnl = @ + pnl]

\* the account after the close: the fee is capped by what is left, and what is
\* missing becomes bad debt and marks the account bankrupt
AfterLiquidation(acct, pnl, fee) ==
    LET left == acct.collateral + pnl - fee
    IN  [acct EXCEPT !.collateral = Greatest(left, 0),
                     !.badDebt    = @ + Greatest(-left, 0),
                     !.bankrupt   = @ \/ left < 0,
                     !.settledPnl = @ + pnl]

LiquidatePerp(u, m, request) ==
    /\ m \in CreatedMarkets
    /\ OracleUsable(m)
    /\ \E s \in PositionSlots :
       LET p       == positions[u][s]
           settled == Charged(user[u], PendingFunding(p, m))
           size    == Magnitude(p.base)
           n       == IF request = 0 \/ request > size THEN size ELSE request
           quote   == SwapQuote(amm[m], n, CloseSwapDir(p))
           pnl     == Realized(p, n, quote)
           fee     == Least(LiquidationFee(PositionNotional(n, oracle[m].price),
                                           market[m].liqFeeBps),
                            Greatest(settled.collateral + pnl, 0))
       IN  /\ FoundPosition(u, m, s)
           /\ IsLiquidatable(settled, p, m)
           /\ SwapAllowed(amm[m], n, CloseSwapDir(p))
           /\ user' = [user EXCEPT ![u] = AfterLiquidation(settled, pnl, fee)]
           /\ positions' = [positions EXCEPT ![u][s] =
                               SettledUpTo(Reduced(p, n), amm[m].cumFunding)]
           /\ insurance' = insurance + fee
           /\ market' = [market EXCEPT ![m] = RemoveInterest(@, p.base > 0, n)]
           /\ amm' = [amm EXCEPT ![m] =
                        RemoveSkew(Swapped(@, n, CloseSwapDir(p)), p.base > 0, n)]
    /\ UNCHANGED <<clock, paused, numMarkets, oracle, orders, wallet, vault,
                   insuranceVault>>

\* mutant of Resolved: all of the debt is written off, whatever the fund paid
WrittenOff(acct, draw) == [acct EXCEPT !.badDebt = 0, !.bankrupt = FALSE]

Resolved(acct, draw) ==
    [acct EXCEPT !.badDebt  = @ - draw,
                 !.bankrupt = acct.badDebt # draw]

\* the insurance fund pays as much of the bad debt as it holds
ResolveBankruptcy(u) ==
    LET draw == Least(user[u].badDebt, insurance)
    IN  /\ user[u].bankrupt
        /\ user[u].badDebt > 0
        /\ insurance' = insurance - draw
        /\ user' = [user EXCEPT ![u] = Resolved(@, draw)]
        /\ UNCHANGED <<clock, paused, numMarkets, market, amm, oracle, positions,
                       orders, wallet, vault, insuranceVault>>

=============================================================================
