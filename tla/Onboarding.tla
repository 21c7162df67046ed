------------------------------ MODULE Onboarding ------------------------------
(***************************************************************************)
(* OrderTicket's buttons that prepare an account (initAccount, claim), for   *)
(* one wallet in two tabs of a browser.  Every await is a step of its own    *)
(* that may fail: SOL for fees is seen to, the account is looked up, created *)
(* if the lookup fails, looked up again if that fails; the program's mint    *)
(* and the wallet's tokens are read, claimed from the faucet if there are    *)
(* none, and deposited.  A stranger asks the faucet for any wallet from any  *)
(* address, the user's included.                                            *)
(***************************************************************************)
EXTENDS Faucet

CONSTANTS
    Tabs,          \* the tabs the page is open in
    Owner, Home,   \* the wallet connected in all of them, and the address of the browser
    Stranger,      \* all other clients of the faucet
    MaxDeposits,   \* bound: the user stops pressing when this much is deposited
    MaxDisturbances \* bound: failed calls and mints, restarts and requests of the stranger

ASSUME OnboardingAssumption ==
    /\ Owner \in Wallets /\ Home \in Addresses
    /\ Clients = Tabs \cup {Stranger} /\ Stranger \notin Tabs
    /\ MaxDisturbances \in Nat

VARIABLES
    account,    \* the program has a user account for the wallet
    deposited,  \* the grants deposited in it
    tab,        \* tab[t]: the handler running in tab t: the button pressed, the await it
                \* is at and the tokens it is about to deposit
    disturbances \* failed calls of the tabs and requests of the stranger

programVars    == <<account, deposited>>
onboardingVars == <<faucetVars, programVars, tab, disturbances>>

Steps  == {"idle", "fees", "lookup", "create", "recheck", "state", "balance", "ask",
           "minting", "deposit"}
Goals  == {"init", "claim"}
Handling(g, step) == [goal |-> g, at |-> step, amount |-> 0]
Idle   == Handling("init", "idle")

OnboardingTypeOK ==
    /\ FaucetTypeOK
    /\ account \in BOOLEAN
    /\ deposited \in Nat
    /\ tab \in [Tabs -> [goal : Goals, at : Steps, amount : Nat]]
    /\ disturbances \in 0 .. MaxDisturbances

OnboardingInit ==
    /\ FaucetInit
    /\ account = FALSE
    /\ deposited = 0
    /\ tab = [t \in Tabs |-> Idle]
    /\ disturbances = 0

Stands(t, step) == tab[t].at = step
GoesTo(t, step) == tab' = [tab EXCEPT ![t].at = step]

\* The amount to deposit is known.
WillDeposit(t, n) == tab' = [tab EXCEPT ![t].at = "deposit", ![t].amount = n]

\* The handler ends, with a result or an error.
Finishes(t) == tab' = [tab EXCEPT ![t] = Idle]

Quiet    == disturbances + faucetFaults < MaxDisturbances
NoFault  == UNCHANGED disturbances
TabFault == Quiet /\ disturbances' = disturbances + 1

\* ensureUserAccount is done: initAccount ends, claim goes on.
HasAccount(t) ==
    IF tab[t].goal = "init" THEN Finishes(t) ELSE GoesTo(t, "state")

Press(t, g) ==
    /\ Stands(t, "idle")
    /\ deposited < MaxDeposits
    /\ tab' = [tab EXCEPT ![t] = Handling(g, "fees")]
    /\ UNCHANGED <<faucetVars, programVars, disturbances>>

\* The awaits of ensureLocalFeeSol: none of them changes what is modelled, each may throw.
EnsureLocalFeeSol(t) ==
    /\ Stands(t, "fees")
    /\ \/ NoFault /\ GoesTo(t, "lookup")
       \/ TabFault /\ Finishes(t)
    /\ UNCHANGED <<faucetVars, programVars>>

LookUp(t) ==
    /\ Stands(t, "lookup")
    /\ \/ account /\ NoFault /\ HasAccount(t)
       \/ ~account /\ NoFault /\ GoesTo(t, "create")
       \/ TabFault /\ GoesTo(t, "create")
    /\ UNCHANGED <<faucetVars, programVars>>

\* initialize_user refuses an account that exists; it may land although the call fails.
Create(t) ==
    /\ Stands(t, "create")
    /\ \/ ~account /\ NoFault /\ account' = TRUE /\ HasAccount(t)
       \/ account /\ NoFault /\ GoesTo(t, "recheck") /\ UNCHANGED account
       \/ TabFault /\ account' \in {account, TRUE} /\ GoesTo(t, "recheck")
    /\ UNCHANGED <<faucetVars, deposited>>

Recheck(t) ==
    /\ Stands(t, "recheck")
    /\ \/ account /\ NoFault /\ HasAccount(t)
       \/ ~account /\ NoFault /\ Finishes(t)
       \/ TabFault /\ Finishes(t)
    /\ UNCHANGED <<faucetVars, programVars>>

\* walletCollateralBalance reads the program's state for the mint, and throws if it cannot.
ReadState(t) ==
    /\ Stands(t, "state")
    /\ \/ NoFault /\ GoesTo(t, "balance")
       \/ TabFault /\ Finishes(t)
    /\ UNCHANGED <<faucetVars, programVars>>

\* A balance that cannot be read counts as none.
ReadBalance(t) ==
    /\ Stands(t, "balance")
    /\ \/ NoFault /\ IF tokens[Owner] = 0 THEN GoesTo(t, "ask") ELSE WillDeposit(t, tokens[Owner])
       \/ TabFault /\ GoesTo(t, "ask")
    /\ UNCHANGED <<faucetVars, programVars>>

\* The request does not reach the service, is refused, or is let through; the answer
\* to a refusal may get lost.
Ask(t) ==
    /\ Stands(t, "ask")
    /\ \/ NoFault /\ RefuseClaim(Owner, Home) /\ Finishes(t)
       \/ NoFault /\ AcceptClaim(Owner, Home, t) /\ GoesTo(t, "minting")
       \/ /\ TabFault /\ Finishes(t)
          /\ RefuseClaim(Owner, Home) \/ UNCHANGED faucetVars
    /\ UNCHANGED programVars

\* The faucet's answer: the amount it minted or an error; or none, because the service
\* restarted or the answer got lost, and then the mint may still come.
Answered(t) ==
    /\ Stands(t, "minting")
    /\ \/ NoFault /\ Mint(Owner, t) /\ WillDeposit(t, 1)
       \/ NoFault /\ Quiet /\ MintFails(Owner, t) /\ Finishes(t)
       \/ minting[Owner][t] = 0 /\ NoFault /\ UNCHANGED faucetVars /\ Finishes(t)
       \/ TabFault /\ UNCHANGED faucetVars /\ Finishes(t)
    /\ UNCHANGED programVars

\* deposit_collateral needs the account and the tokens; it may land although the call fails.
DepositTokens(t) ==
    LET accepted == account /\ tab[t].amount <= tokens[Owner]
        Lands    == /\ tokens' = [tokens EXCEPT ![Owner] = @ - tab[t].amount]
                    /\ deposited' = deposited + tab[t].amount
    IN  /\ Stands(t, "deposit")
        /\ \/ accepted /\ Lands /\ NoFault /\ Finishes(t)
           \/ ~accepted /\ UNCHANGED <<tokens, deposited>> /\ NoFault /\ Finishes(t)
           \/ accepted /\ Lands /\ TabFault /\ Finishes(t)
           \/ UNCHANGED <<tokens, deposited>> /\ TabFault /\ Finishes(t)
        /\ UNCHANGED <<sinceClaim, granted, minting, faucetFaults, account>>

\* A step of the faucet that no tab takes part in.
Elsewhere(A) == A /\ UNCHANGED <<programVars, tab>>

\* Whoever it is asks for whichever wallet from wherever.
StrangerAsks(w, a) ==
    /\ Quiet /\ disturbances' = disturbances + 1
    /\ RefuseClaim(w, a) \/ AcceptClaim(w, a, Stranger)

\* The claims whose answers a tab waits for are its own; the service works off the others
\* too, those of tabs that have given up included.
Waiting(w, c) == IF w = Owner /\ c \in Tabs /\ Stands(c, "minting") THEN 1 ELSE 0

AnswersNobody(w, c) ==
    /\ minting[w][c] > Waiting(w, c)
    /\ Mint(w, c) \/ (Quiet /\ MintFails(w, c))
    /\ NoFault

Handler(t) ==
    \/ EnsureLocalFeeSol(t) \/ LookUp(t) \/ Create(t) \/ Recheck(t) \/ ReadState(t)
    \/ ReadBalance(t) \/ Ask(t) \/ Answered(t) \/ DepositTokens(t)

ClockTicks      == Elsewhere(FaucetTick /\ NoFault)
ServiceRestarts == Elsewhere(Quiet /\ FaucetRestarts /\ NoFault)

OnboardingNext ==
    \/ \E t \in Tabs : Handler(t) \/ \E g \in Goals : Press(t, g)
    \/ \E w \in Wallets, a \in Addresses : Elsewhere(StrangerAsks(w, a))
    \/ \E w \in Wallets, c \in Clients : Elsewhere(AnswersNobody(w, c))
    \/ ClockTicks \/ ServiceRestarts

\* Handlers end, the clock ticks, and the user presses the button again until it works.
\* Nothing is asked of the stranger, nor of claims nobody waits for.
OnboardingFairness ==
    /\ \A t \in Tabs : WF_onboardingVars(Handler(t))
    /\ WF_onboardingVars(ClockTicks)
    /\ SF_onboardingVars(\E t \in Tabs : Press(t, "claim"))

OnboardingSpec ==
    OnboardingInit /\ [][OnboardingNext]_onboardingVars /\ OnboardingFairness

---------------------------------------------------------------------------
(* Properties.                                                             *)

\* Once strangers stop asking, the user who presses again gets his collateral: mints and
\* deposits that fail after the claim was recorded, answers that get lost, restarts of the
\* faucet, the other tab, and claims of strangers behind his address or for his wallet
\* delay it, but no refusal lasts.  (A stranger who never stops does keep it from him.)
ClaimIsDeposited == <>[](deposited > 0)

===============================================================================
