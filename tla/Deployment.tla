------------------------------ MODULE Deployment ------------------------------
(***************************************************************************)
(* The operator's scripts on a local validator: airdrop, create-usdc,        *)
(* bootstrap and faucet, which run one at a time and may be run again, and    *)
(* push-prices, which keeps running.  They share the chain and the cache     *)
(* file.  Every remote call is a step; it may fail, a transaction may land    *)
(* although its call fails, a script may be stopped between two steps and    *)
(* the validator may be started anew.                                       *)
(***************************************************************************)
EXTENDS Integers

CONSTANTS
    MARKETS,         \* how many markets bootstrap configures
    Peg,             \* the price their oracles start with
    MAX_ATTEMPTS,    \* of an airdrop
    Jitters, Scale,  \* a push moves a price by j/Scale, j in Jitters
    PriceCap,        \* bound: the highest price
    MaxTicks,        \* bound: ticks of push-prices under way at once
    MaxScriptFaults  \* bound: failed calls, stopped scripts and resets

ASSUME DeploymentAssumption ==
    /\ MARKETS \in Nat \ {0} /\ MAX_ATTEMPTS \in Nat \ {0} /\ MaxScriptFaults \in Nat
    /\ MaxTicks \in Nat \ {0}
    /\ Scale \in Nat \ {0} /\ 0 \in Jitters /\ Jitters \subseteq (-Scale) .. Scale
    /\ PriceCap \in Nat /\ Peg \in 1 .. PriceCap

VARIABLES
    sol,        \* airdrops the operator's wallet has received
    issued,     \* mints ever created, named 1, 2, ...
    mints,      \* those the chain has
    stateMint,  \* the collateral mint of the program's State, or 0: not initialized
    price,      \* price[m]: of the mock oracle of market m, or 0: not initialized
    fresh,      \* the markets whose oracle the program does not find stale
    created,    \* State.num_markets
    handedOut,  \* the mint of the tokens the faucet script minted last, or 0
    cache,      \* the mint in usdc-mint.json, or 0
    task,       \* the script that is running and where it is
    pusher,     \* push-prices: the number of markets it read, whether its timer runs,
                \* and its ticks: each at a market, to fetch its price or to update it
    misread,    \* create-usdc did not find a cached mint that the chain has
    scriptFaults

chainVars      == <<sol, issued, mints, stateMint, price, fresh, created, handedOut>>
deploymentVars == <<chainVars, cache, task, pusher, misread, scriptFaults>>

PerpMarkets == 0 .. MARKETS - 1

\* n is the mint the script is at, the index of the market, or the attempt.
At(script, step, mint, n) == [script |-> script, step |-> step, mint |-> mint, n |-> n]
NoTask    == At("none", "none", 0, 0)
Ticks     == 1 .. MaxTicks
Tick(step, m, p) == [step |-> step, market |-> m, price |-> p]
NoTick    == Tick("over", 0, 0)
NoPusher  == [numMarkets |-> 0, timer |-> FALSE, ticks |-> [k \in Ticks |-> NoTick]]

ScriptNames == {"none", "airdrop", "create-usdc", "bootstrap", "faucet"}
ScriptSteps == {"none", "request", "confirm", "lookup", "create", "save", "state",
                "initState", "oracle", "initOracle", "market", "initMarket", "mintTo"}

Tickings == [step : {"fetch", "update", "over"}, market : PerpMarkets, price : 0 .. PriceCap]

DeploymentTypeOK ==
    /\ sol \in Nat /\ issued \in Nat /\ mints \subseteq 1 .. issued
    /\ {stateMint, handedOut, cache} \subseteq 0 .. issued
    /\ price \in [PerpMarkets -> 0 .. PriceCap]
    /\ fresh \subseteq PerpMarkets
    /\ created \in 0 .. MARKETS
    /\ task \in [script : ScriptNames, step : ScriptSteps,
                 mint : 0 .. issued, n : 0 .. MARKETS + MAX_ATTEMPTS]
    /\ pusher \in [numMarkets : 0 .. MARKETS, timer : BOOLEAN, ticks : [Ticks -> Tickings]]
    /\ misread \in BOOLEAN
    /\ scriptFaults \in 0 .. MaxScriptFaults

NoOracles == [m \in PerpMarkets |-> 0]

DeploymentInit ==
    /\ sol = 0 /\ issued = 0 /\ mints = {} /\ stateMint = 0 /\ price = NoOracles
    /\ fresh = {} /\ created = 0 /\ handedOut = 0
    /\ cache = 0 /\ task = NoTask /\ pusher = NoPusher
    /\ misread = FALSE /\ scriptFaults = 0

---------------------------------------------------------------------------
(* What all scripts share.                                                 *)

Worked      == UNCHANGED scriptFaults
ScriptFault == scriptFaults < MaxScriptFaults /\ scriptFaults' = scriptFaults + 1

In(script, step) == task.script = script /\ task.step = step
Goes(step)       == task' = [task EXCEPT !.step = step]
Exit             == task' = NoTask

Run(script, step, mint, n) == task = NoTask /\ task' = At(script, step, mint, n)

\* A read that decides between skipping and creating takes a failure for absence.
Probe(there, skip, create) ==
    \/ there /\ Worked /\ skip
    \/ ~there /\ Worked /\ Goes(create)
    \/ ScriptFault /\ Goes(create)

\* A transaction takes effect, is refused, fails, or lands although the call fails;
\* all but the first end the script with an error.
Send(accepted, Effect, Otherwise, Next) ==
    \/ accepted /\ Effect /\ Worked /\ Next
    \/ accepted /\ Effect /\ ScriptFault /\ Exit
    \/ ~accepted /\ Otherwise /\ Worked /\ Exit
    \/ Otherwise /\ ScriptFault /\ Exit

---------------------------------------------------------------------------
(* airdrop and create-usdc.                                                *)

RunAirdrop ==
    /\ sol = 0
    /\ Run("airdrop", "request", 0, 1)
    /\ UNCHANGED <<chainVars, cache, pusher, misread, scriptFaults>>

\* The next attempt, or the error after the last.
AttemptFails ==
    /\ ScriptFault
    /\ task' = IF task.n = MAX_ATTEMPTS THEN NoTask
               ELSE [task EXCEPT !.step = "request", !.n = @ + 1]

RequestAirdrop ==
    /\ In("airdrop", "request")
    /\ \/ Worked /\ sol' = sol + 1 /\ Goes("confirm")
       \/ AttemptFails /\ UNCHANGED sol
    /\ UNCHANGED <<issued, mints, stateMint, price, fresh, created, handedOut, cache,
                   pusher, misread>>

ConfirmAirdrop ==
    /\ In("airdrop", "confirm")
    /\ (Worked /\ Exit) \/ AttemptFails
    /\ UNCHANGED <<chainVars, cache, pusher, misread>>

\* mutant of RunCreateUsdc: the cached mint is not looked up
RunCreateUsdcAnew ==
    /\ Run("create-usdc", "create", 0, 0)
    /\ UNCHANGED <<chainVars, cache, pusher, misread, scriptFaults>>

RunCreateUsdc ==
    /\ Run("create-usdc", IF cache = 0 THEN "create" ELSE "lookup", 0, 0)
    /\ UNCHANGED <<chainVars, cache, pusher, misread, scriptFaults>>

LookUpMint ==
    /\ In("create-usdc", "lookup")
    /\ Probe(cache \in mints, Exit, "create")
    /\ misread' = (misread \/ (cache \in mints /\ task'.step = "create"))
    /\ UNCHANGED <<chainVars, cache, pusher>>

CreateMint ==
    /\ In("create-usdc", "create")
    /\ Send(sol > 0,
            issued' = issued + 1 /\ mints' = mints \cup {issued'},
            UNCHANGED <<issued, mints>>,
            task' = [task EXCEPT !.step = "save", !.mint = issued'])
    /\ UNCHANGED <<sol, stateMint, price, fresh, created, handedOut, cache,
                   pusher, misread>>

SaveMint ==
    /\ In("create-usdc", "save")
    /\ cache' = task.mint
    /\ Exit
    /\ UNCHANGED <<chainVars, pusher, misread, scriptFaults>>

---------------------------------------------------------------------------
(* bootstrap.                                                              *)

RunBootstrap ==
    /\ cache # 0
    /\ Run("bootstrap", "state", cache, 0)
    /\ UNCHANGED <<chainVars, cache, pusher, misread, scriptFaults>>

FetchState ==
    /\ In("bootstrap", "state")
    /\ Probe(stateMint # 0, Goes("oracle"), "initState")
    /\ UNCHANGED <<chainVars, cache, pusher, misread>>

\* initialize_state, once, with a mint that exists.
InitializeState ==
    /\ In("bootstrap", "initState")
    /\ Send(stateMint = 0 /\ task.mint \in mints /\ sol > 0,
            stateMint' = task.mint, UNCHANGED stateMint, Goes("oracle"))
    /\ UNCHANGED <<sol, issued, mints, price, fresh, created, handedOut, cache,
                   pusher, misread>>

NextMarket ==
    task' = IF task.n + 1 < MARKETS THEN [task EXCEPT !.step = "oracle", !.n = @ + 1]
            ELSE NoTask

\* mutant of FetchOracle: a market whose oracle exists is taken for created
FetchOracleAsMarket ==
    /\ In("bootstrap", "oracle")
    /\ Probe(price[task.n] # 0, NextMarket, "initOracle")
    /\ UNCHANGED <<chainVars, cache, pusher, misread>>

\* mutant of FetchOracle: a failed fetch is taken for an oracle that exists
FetchOracleTrusting ==
    /\ In("bootstrap", "oracle")
    /\ \/ Probe(price[task.n] # 0, Goes("market"), "initOracle")
       \/ ScriptFault /\ Goes("market")
    /\ UNCHANGED <<chainVars, cache, pusher, misread>>

FetchOracle ==
    /\ In("bootstrap", "oracle")
    /\ Probe(price[task.n] # 0, Goes("market"), "initOracle")
    /\ UNCHANGED <<chainVars, cache, pusher, misread>>

InitializeMockOracle ==
    /\ In("bootstrap", "initOracle")
    /\ Send(price[task.n] = 0 /\ stateMint # 0 /\ sol > 0,
            price' = [price EXCEPT ![task.n] = Peg] /\ fresh' = fresh \cup {task.n},
            UNCHANGED <<price, fresh>>, Goes("market"))
    /\ UNCHANGED <<sol, issued, mints, stateMint, created, handedOut, cache, pusher, misread>>

FetchMarket ==
    /\ In("bootstrap", "market")
    /\ Probe(task.n < created, NextMarket, "initMarket")
    /\ UNCHANGED <<chainVars, cache, pusher, misread>>

\* initialize_market, in the order of the indexes.
CreateMarket ==
    /\ In("bootstrap", "initMarket")
    /\ Send(stateMint # 0 /\ task.n = created /\ sol > 0,
            created' = created + 1, UNCHANGED created, NextMarket)
    /\ UNCHANGED <<sol, issued, mints, stateMint, price, fresh, handedOut, cache, pusher,
                   misread>>

---------------------------------------------------------------------------
(* faucet: the token account and the mint are one step, either may fail.   *)

RunFaucet ==
    /\ cache # 0
    /\ Run("faucet", "mintTo", cache, 0)
    /\ UNCHANGED <<chainVars, cache, pusher, misread, scriptFaults>>

MintToWallet ==
    /\ In("faucet", "mintTo")
    /\ Send(task.mint \in mints /\ sol > 0, handedOut' = task.mint, UNCHANGED handedOut, Exit)
    /\ UNCHANGED <<sol, issued, mints, stateMint, price, fresh, created, cache, pusher,
                   misread>>

---------------------------------------------------------------------------
(* push-prices.                                                            *)

\* The number of markets is read once, and the first tick begins.
StartPusher ==
    /\ pusher = NoPusher
    /\ stateMint # 0 /\ created > 0
    /\ pusher' = [NoPusher EXCEPT !.numMarkets = created, !.ticks[1] = Tick("fetch", 0, 0)]
    /\ UNCHANGED <<chainVars, cache, task, misread, scriptFaults>>

StopPusher ==
    /\ pusher # NoPusher
    /\ pusher' = NoPusher
    /\ UNCHANGED <<chainVars, cache, task, misread, scriptFaults>>

\* The timer is set when the first tick is over, and does not wait for the later ones.
FireTimer(k) ==
    /\ pusher.timer /\ pusher.ticks[k] = NoTick
    /\ pusher' = [pusher EXCEPT !.ticks[k] = Tick("fetch", 0, 0)]
    /\ UNCHANGED <<chainVars, cache, task, misread, scriptFaults>>

\* mutant of Walk: without the check of the last price
WalkToZero(p, j) == (p * (Scale + j)) \div Scale

Walk(p, j) == LET next == (p * (Scale + j)) \div Scale IN IF next <= 0 THEN p ELSE next

\* The tick is done with its market, whether or not it could move the price.
NextInTick(k) ==
    LET m == pusher.ticks[k].market + 1
    IN  pusher' = IF m < pusher.numMarkets
                  THEN [pusher EXCEPT !.ticks[k] = Tick("fetch", m, 0)]
                  ELSE [pusher EXCEPT !.ticks[k] = NoTick, !.timer = TRUE]

FetchPrice(k) ==
    LET m == pusher.ticks[k].market
    IN  /\ pusher.ticks[k].step = "fetch"
        /\ \/ /\ price[m] # 0 /\ Worked
              /\ \E j \in Jitters :
                    /\ Walk(price[m], j) <= PriceCap
                    /\ pusher' = [pusher EXCEPT !.ticks[k] = Tick("update", m, Walk(price[m], j))]
           \/ price[m] = 0 /\ Worked /\ NextInTick(k)
           \/ ScriptFault /\ NextInTick(k)
        /\ UNCHANGED <<chainVars, cache, task, misread>>

\* update_mock_oracle refuses a price that is not positive.  What is written was made
\* of the price fetched, whatever other ticks, a reset or bootstrap have done since, and
\* it may be written although the call fails.
UpdatePrice(k) ==
    LET m        == pusher.ticks[k].market
        p        == pusher.ticks[k].price
        accepted == price[m] # 0 /\ sol > 0 /\ p > 0
        Lands    == price' = [price EXCEPT ![m] = p] /\ fresh' = fresh \cup {m}
    IN  /\ pusher.ticks[k].step = "update"
        /\ \/ accepted /\ Lands /\ (Worked \/ ScriptFault)
           \/ ~accepted /\ UNCHANGED <<price, fresh>> /\ Worked
           \/ UNCHANGED <<price, fresh>> /\ ScriptFault
        /\ NextInTick(k)
        /\ UNCHANGED <<sol, issued, mints, stateMint, created, handedOut, cache, task, misread>>

---------------------------------------------------------------------------
(* The surroundings.                                                       *)

GoesStale(m) ==
    /\ m \in fresh
    /\ fresh' = fresh \ {m}
    /\ UNCHANGED <<sol, issued, mints, stateMint, price, created, handedOut, cache, task, pusher,
                   misread, scriptFaults>>

\* A script is interrupted.
Interrupt ==
    /\ task # NoTask
    /\ ScriptFault
    /\ Exit
    /\ UNCHANGED <<chainVars, cache, pusher, misread>>

\* A validator with an empty ledger; the cache file stays.
ResetValidator ==
    /\ ScriptFault
    /\ sol' = 0 /\ mints' = {} /\ stateMint' = 0 /\ price' = NoOracles /\ fresh' = {}
    /\ created' = 0 /\ handedOut' = 0 /\ misread' = FALSE
    /\ UNCHANGED <<issued, cache, task, pusher>>

---------------------------------------------------------------------------

ScriptStep ==
    \/ RequestAirdrop \/ ConfirmAirdrop \/ LookUpMint \/ CreateMint \/ SaveMint
    \/ FetchState \/ InitializeState \/ FetchOracle \/ InitializeMockOracle
    \/ FetchMarket \/ CreateMarket \/ MintToWallet
PusherStep == \E k \in Ticks : FetchPrice(k) \/ UpdatePrice(k) \/ FireTimer(k)

DeploymentNext ==
    \/ RunAirdrop \/ RunCreateUsdc \/ RunBootstrap \/ RunFaucet
    \/ ScriptStep
    \/ StartPusher \/ StopPusher \/ PusherStep
    \/ \E m \in PerpMarkets : GoesStale(m)
    \/ Interrupt \/ ResetValidator

\* Calls are answered and timers fire; the operator runs every script again and again.
DeploymentFairness ==
    /\ WF_deploymentVars(ScriptStep) /\ WF_deploymentVars(PusherStep)
    /\ SF_deploymentVars(RunAirdrop) /\ SF_deploymentVars(RunCreateUsdc)
    /\ SF_deploymentVars(RunBootstrap)

DeploymentSpec == DeploymentInit /\ [][DeploymentNext]_deploymentVars /\ DeploymentFairness

---------------------------------------------------------------------------
(* Properties.                                                             *)

\* Whatever is interrupted, lost, reset or run again, the cached mint and the tokens
\* the faucet minted are of the program's own mint, unless create-usdc took a failed
\* lookup for a mint that does not exist.
MintsAgree == stateMint # 0 /\ ~misread => {cache, handedOut} \subseteq {0, stateMint}

\* bootstrap.ts:6: "re-running after a partial failure is safe": scripts run again and
\* again bring all markets up in the end.
BootstrapConverges == <>[](created = MARKETS)

\* initialize_market does not ask for the oracle it is given, and bootstrap takes any
\* failed fetch for an account that is missing: however it is interrupted, refused or
\* run again on a chain that was reset under it, every market has an oracle with a
\* price, also after push-prices has walked it down.
MarketsHaveOracles == \A m \in PerpMarkets : m < created => price[m] > 0

\* A market that existed when push-prices was started never stays stale, however low its
\* price has walked, and however its ticks overlap and write back what they read.
PushedStayFresh ==
    \A m \in PerpMarkets : <>[](m < pusher.numMarkets /\ m < created) => []<>(m \in fresh)

===============================================================================
