------------------------------ MODULE Collateral ------------------------------
(***************************************************************************)
(* deposit_collateral and withdraw_collateral: the only instructions that  *)
(* move tokens.  The SPL token program is external: a transfer fails when   *)
(* the source account holds too little, which reverts the instruction.      *)
(***************************************************************************)
EXTENDS PerpState

Deposit(u, amount) ==
    /\ ~paused
    /\ user[u].exists
    /\ amount > 0
    /\ wallet[u] >= amount
    /\ user' = [user EXCEPT ![u].collateral = @ + amount]
    /\ wallet' = [wallet EXCEPT ![u] = @ - amount]
    /\ vault' = vault + amount
    /\ UNCHANGED <<clock, paused, numMarkets, market, amm, oracle, positions,
                   orders, insurance, insuranceVault>>

\* what is left must meet the initial margin of u's position in the market the
\* caller names (if u has one there)
WithdrawMarginOK(u, m, left) ==
    IF HasPosition(u, m)
    THEN \E s \in PositionSlots :
            /\ FoundPosition(u, m, s)
            /\ MeetsInitialMargin(left, positions[u][s], m)
    ELSE left >= 0

Withdraw(u, m, amount) ==
    /\ ~paused
    /\ user[u].exists
    /\ m \in CreatedMarkets
    /\ amount > 0
    /\ amount <= user[u].collateral
    /\ OracleUsable(m)
    /\ WithdrawMarginOK(u, m, user[u].collateral - amount)
    /\ vault >= amount
    /\ user' = [user EXCEPT ![u].collateral = @ - amount]
    /\ wallet' = [wallet EXCEPT ![u] = @ + amount]
    /\ vault' = vault - amount
    /\ UNCHANGED <<clock, paused, numMarkets, market, amm, oracle, positions,
                   orders, insurance, insuranceVault>>

=============================================================================
