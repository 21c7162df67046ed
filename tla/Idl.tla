--------------------------------- MODULE Idl ---------------------------------
(***************************************************************************)
(* The program's interface description, packages/sdk/src/idl/impl_perps.ts: *)
(* the accounts every instruction names, and which of them it locks for     *)
(* writing.  The runtime executes transactions whose locks do not clash in   *)
(* parallel and writes only the accounts locked for writing back, so an      *)
(* instruction that changes any other account loses that change silently.   *)
(***************************************************************************)
EXTENDS PerpEngine

\* The accounts of the program: what PerpEngine keeps in each.  Signers, programs and
\* the vault authority hold no state of it.
StateAccount     == <<"state">>
InsuranceFund    == <<"insuranceFund">>
InsuranceVault   == <<"insuranceVault">>
CollateralVault  == <<"collateralVault">>
MarketAccount(m) == <<"market", m>>
MockOracle(m)    == <<"mockOracle", m>>
UserAccount(u)   == <<"user", u>>
UserTokens(u)    == <<"userTokenAccount", u>>

\* What each instruction locks for writing.  The other accounts it names (the state,
\* the market of an order or a withdrawal, the price account) it may only read.
CancelOrderWrites(u)             == {UserAccount(u)}
ClosePositionWrites(u, m)        == {UserAccount(u), MarketAccount(m)}
DepositCollateralWrites(u)       == {UserAccount(u), UserTokens(u), CollateralVault}

FillPerpMatchWrites(u, w, m)     == {UserAccount(u), UserAccount(w), MarketAccount(m)}

FillPerpOrderWrites(u, m)        == {UserAccount(u), MarketAccount(m)}
InitializeMarketWrites(m)        == {StateAccount, MarketAccount(m)}
InitializeMockOracleWrites(m)    == {MockOracle(m)}
InitializeUserWrites(u)          == {StateAccount, UserAccount(u)}
LiquidatePerpWrites(u, m)        == {UserAccount(u), MarketAccount(m), InsuranceFund}
OpenPositionWrites(u, m)         == {UserAccount(u), MarketAccount(m)}

\* mutant of PlacePerpOrderWrites: copied from updateMarketParams, which locks the
\* market and reads the rest
PlacePerpOrderWritesMarket(u, m) == {MarketAccount(m)}
PlacePerpOrderWrites(u, m)       == {UserAccount(u)}

ResolvePerpBankruptcyWrites(u)   == {UserAccount(u), InsuranceFund}
SetProtocolPausedWrites          == {StateAccount}
SettleFundingWrites(u)           == {UserAccount(u)}
TriggerOrderWrites(u, m)         == {UserAccount(u), MarketAccount(m)}
UpdateFundingRateWrites(m)       == {MarketAccount(m)}
UpdateMarketParamsWrites(m)      == {MarketAccount(m)}
UpdateMockOracleWrites(m)        == {MockOracle(m)}
WithdrawCollateralWrites(u)      == {UserAccount(u), UserTokens(u), CollateralVault}

-----------------------------------------------------------------------------

\* the accounts a step leaves different
If(differs, account) == IF differs THEN {account} ELSE {}

Changed ==
    UNION ({If(<<paused, numMarkets>>' # <<paused, numMarkets>>, StateAccount),
            If(insurance' # insurance, InsuranceFund),
            If(insuranceVault' # insuranceVault, InsuranceVault),
            If(vault' # vault, CollateralVault)}
      \cup {If(<<market[m], amm[m]>>' # <<market[m], amm[m]>>, MarketAccount(m)) : m \in MarketIndexes}
      \cup {If(oracle'[m] # oracle[m], MockOracle(m)) : m \in MarketIndexes}
      \cup {If(<<user[u], positions[u], orders[u]>>' # <<user[u], positions[u], orders[u]>>,
               UserAccount(u)) : u \in Users}
      \cup {If(wallet'[u] # wallet[u], UserTokens(u)) : u \in Users})

\* The instructions, each with its locks; changed is what the step changed.

UserStepLocked(u, changed) ==
    \/ changed \subseteq InitializeUserWrites(u) /\ InitializeUser(u)
    \/ changed \subseteq DepositCollateralWrites(u) /\ \E a \in TokenAmounts : Deposit(u, a)
    \/ /\ changed \subseteq WithdrawCollateralWrites(u)
       /\ \E m \in MarketIndexes, a \in TokenAmounts : Withdraw(u, m, a)
    \/ \E m \in MarketIndexes :
          \/ /\ changed \subseteq OpenPositionWrites(u, m)
             /\ \E d \in Directions, n \in OpenSizes, l \in PriceLimits :
                   OpenPosition(u, m, d, n, l)
          \/ /\ changed \subseteq ClosePositionWrites(u, m)
             /\ \E n \in CloseSizes, l \in PriceLimits : ClosePosition(u, m, n, l)
          \/ /\ changed \subseteq PlacePerpOrderWrites(u, m)
             /\ \E o \in OrderSpecs : PlaceOrder(u, m, o)
    \/ changed \subseteq CancelOrderWrites(u) /\ \E id \in OrderIds : CancelOrder(u, id)

CrankStepLocked(u, changed) ==
    \/ changed \subseteq ResolvePerpBankruptcyWrites(u) /\ ResolveBankruptcy(u)
    \/ \E m \in MarketIndexes :
          \/ changed \subseteq SettleFundingWrites(u) /\ SettleFunding(u, m)
          \/ /\ changed \subseteq LiquidatePerpWrites(u, m)
             /\ \E n \in CloseSizes \cup {0} : LiquidatePerp(u, m, n)
          \/ /\ changed \subseteq FillPerpOrderWrites(u, m)
             /\ \E id \in OrderIds : FillOrder(u, m, id)
          \/ /\ changed \subseteq TriggerOrderWrites(u, m)
             /\ \E id \in OrderIds : TriggerOrder(u, m, id)
          \/ \E w \in Users : /\ changed \subseteq FillPerpMatchWrites(u, w, m)
                              /\ \E id, wid \in OrderIds : MatchOrders(u, w, m, id, wid)

MarketStepLocked(m, changed) ==
    \/ changed \subseteq UpdateFundingRateWrites(m) /\ UpdateFundingRate(m)
    \/ /\ changed \subseteq InitializeMarketWrites(m)
       /\ \E p \in RiskParams, pool \in Pools : InitializeMarket(m, p, pool.reserve, pool.peg)
    \/ /\ changed \subseteq UpdateMarketParamsWrites(m)
       /\ \E p \in RiskParams, s \in StatusChoices : UpdateMarketParams(m, s, p)
    \/ /\ changed \subseteq InitializeMockOracleWrites(m)
       /\ \E p \in Prices, c \in Confidences : InitializeOracle(m, p, c)
    \/ /\ changed \subseteq UpdateMockOracleWrites(m)
       /\ \E p \in Prices, c \in Confidences : UpdateOracle(m, p, c)

\* a step changes nothing, or is an instruction that locks what it changes
LockedStep ==
    LET changed == Changed
    IN  \/ changed = {}
        \/ changed \subseteq SetProtocolPausedWrites
           /\ \E p \in PauseChoices : SetProtocolPaused(p)
        \/ \E m \in MarketIndexes : MarketStepLocked(m, changed)
        \/ \E u \in Users : UserStepLocked(u, changed) \/ CrankStepLocked(u, changed)

\* Every transaction changes only accounts its instruction locks for writing, so no
\* change is lost when it ends and transactions the runtime runs in parallel, whose
\* locks do not clash, never touch the same account.
ChangesAreLocked == [][LockedStep]_vars

=============================================================================
