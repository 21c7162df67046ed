------------------------------ MODULE MCServices ------------------------------
(***************************************************************************)
(* The services, pages and scripts that do not share state, on small         *)
(* instances and in one state space: the first state chooses a scene, and    *)
(* the variables of all other scenes stand still.                           *)
(***************************************************************************)
EXTENDS HistoryApi, Chart, Pages, Onboarding, Deployment, Preview, PythFeed,
        TLC

CONSTANTS s1, s2, s3

VARIABLE scene

\* The scripts have two scenes: one with all their failures, one with overlapping ticks.
Scenes == {"history", "chart", "pages", "onboarding", "scripts", "pusher", "preview", "pyth"}

servicesVars == <<scene, indexerVars, chartVars, pageVars, onboardingVars,
                  deploymentVars, previewVars, feedVars>>

---------------------------------------------------------------------------
(* The instances.                                                          *)

\* Two trades of one second and one transaction, an earlier signature with a trade of
\* the same second, a later trade, and an event of each other kind.
Trade(p, n, t) == [name |-> "tradeRecord", market |-> 0, price |-> p, base |-> n, ts |-> t]
LoggedEvents ==
    (s1 :> <<Trade(5, 1, 3), Trade(6, 2, 3)>>) @@
    (s2 :> <<Trade(4, 1, 3), [name |-> "fundingRecord", market |-> 0, ts |-> 8]>>) @@
    (s3 :> <<Trade(7, 1, 9), [name |-> "liquidationRecord", market |-> 0, ts |-> 9]>>)
SignatureOrder == (s1 :> 2) @@ (s2 :> 1) @@ (s3 :> 3)

TwoMarketsMarks == (0 :> {1, 2}) @@ (1 :> {3})

\* One tenth is the unit; feeds in units of 1/1000, of the unit itself and of ten units.
Tenfolds == {-3, -1, 1}

SignedMantissas == {-1, 7, 60, 250}

\* With a scale of 10, a push halves the price or leaves it: 3 becomes 1, and 1 would
\* become 0.
DownwardJitters == {-5, 0}

SmallPools == {[base |-> 20, quote |-> 20, peg |-> p] : p \in {3, 14}}

\* The ticks of push-prices overlap on a chain bootstrap has finished with.
Bootstrapped ==
    /\ sol = 1 /\ issued = 1 /\ mints = {1} /\ stateMint = 1 /\ cache = 1
    /\ price = [m \in PerpMarkets |-> Peg] /\ fresh = PerpMarkets /\ created = MARKETS
    /\ handedOut = 0 /\ task = NoTask /\ pusher = NoPusher
    /\ misread = FALSE /\ scriptFaults = 0

---------------------------------------------------------------------------

ServicesInit ==
    /\ scene \in Scenes
    /\ IndexerInit /\ ChartInit /\ PagesInit /\ OnboardingInit /\ PreviewInit /\ PythInit
    /\ IF scene = "pusher" THEN Bootstrapped ELSE DeploymentInit
    /\ scene # "pages" => page = "History"
    /\ scene # "preview" => pool = CHOOSE p \in StartPools : TRUE
    /\ scene # "pyth" => update = CHOOSE u \in Updates(0) : TRUE

\* Bounds of a scene on its steps.  When two things have gone wrong in the onboarding, one
\* tab works at a time.  Beside the scripts there is one tick at a time, and none once two
\* things have gone wrong; their prices do not go stale: no script looks.  Beside
\* overlapping ticks one thing goes wrong, and a script is run only if there is something
\* to set up.  Every price and interval is that of a first update, so another one changes
\* no more than the feed and the time.
OneTabAtLast == disturbances + faucetFaults > 1 => \E t \in Tabs : tab[t] = Idle
NoOverlap    == \A k \in Ticks \ {1} : pusher.ticks[k] = NoTick
AloneAtLast  == scriptFaults > 1 => pusher = NoPusher
StaysFresh   == ~(\E m \in PerpMarkets : GoesStale(m))
OnlySetsUp   == created = MARKETS => task' = NoTask
SameReading  == [update' EXCEPT !.feed = update.feed, !.at = update.at] = update

\* A step of a scene leaves the variables of the others alone.
InHistory(A) ==
    /\ scene = "history" /\ A
    /\ UNCHANGED <<scene, chartVars, pageVars, onboardingVars, deploymentVars, previewVars, feedVars>>
OnChart(A) ==
    /\ scene = "chart" /\ A
    /\ UNCHANGED <<scene, indexerVars, pageVars, onboardingVars, deploymentVars, previewVars, feedVars>>
OnPages(A) ==
    /\ scene = "pages" /\ A
    /\ UNCHANGED <<scene, indexerVars, chartVars, onboardingVars, deploymentVars, previewVars, feedVars>>
InOnboarding(A) ==
    /\ scene = "onboarding" /\ A /\ OneTabAtLast'
    /\ UNCHANGED <<scene, indexerVars, chartVars, pageVars, deploymentVars, previewVars, feedVars>>
InDeployment(A) ==
    /\ scene \in {"scripts", "pusher"} /\ A
    /\ scene = "scripts" => NoOverlap' /\ AloneAtLast' /\ StaysFresh
    /\ scene = "pusher"  => scriptFaults' <= 1 /\ OnlySetsUp
    /\ UNCHANGED <<scene, indexerVars, chartVars, pageVars, onboardingVars, previewVars, feedVars>>
InPreview(A) ==
    /\ scene = "preview" /\ A
    /\ UNCHANGED <<scene, indexerVars, chartVars, pageVars, onboardingVars, deploymentVars, feedVars>>
AtPyth(A) ==
    /\ scene = "pyth" /\ A /\ SameReading
    /\ UNCHANGED <<scene, indexerVars, chartVars, pageVars, onboardingVars, deploymentVars,
                   previewVars>>

ServicesNext ==
    \/ InHistory(IndexerNext) \/ OnChart(ChartNext) \/ OnPages(PagesNext)
    \/ InOnboarding(OnboardingNext) \/ InDeployment(DeploymentNext) \/ InPreview(PreviewNext)
    \/ AtPyth(PythNext)

\* The fairness of the modules.  No two scenes are ever played in one behaviour, so one
\* condition serves an action of each.
ServicesFairness ==
    /\ WF_servicesVars(InHistory(Service) \/ OnPages(Polling) \/ InDeployment(ScriptStep))
    /\ WF_servicesVars(InHistory(CatchUp) \/ InOnboarding(ClockTicks) \/ InDeployment(PusherStep))
    /\ \A t \in Tabs : WF_servicesVars(InOnboarding(Handler(t)))
    /\ SF_servicesVars(InOnboarding(\E t \in Tabs : Press(t, "claim")) \/ InDeployment(RunAirdrop))
    /\ SF_servicesVars(InDeployment(RunCreateUsdc)) /\ SF_servicesVars(InDeployment(RunBootstrap))

ServicesSpec == ServicesInit /\ [][ServicesNext]_servicesVars /\ ServicesFairness

---------------------------------------------------------------------------
(* Properties.                                                             *)

\* All the modules' variables stay within their types.
ServicesTypeOK ==
    /\ IndexerTypeOK /\ ChartTypeOK /\ PagesTypeOK /\ OnboardingTypeOK
    /\ DeploymentTypeOK

\* In the scene of the preview, PreviewMatchesProgram: what the order ticket shows of a
\* fill, a fee and a liquidation price is the program's, up to its roundings.
PreviewMatchesInScene == scene = "preview" => PreviewMatchesProgram

\* In the scene of the pages, Settled: what is shown is what is selected, as it is.
PagesSettleInScene == <>[](scene = "pages" => Settled)

\* In the scene of the onboarding, ClaimIsDeposited: once strangers stop asking the faucet,
\* the user who presses again gets his collateral, whatever failed before.
ClaimIsDepositedInScene == <>[](scene = "onboarding" => deposited > 0)

\* In the scene of the scripts, BootstrapConverges: run again and again, they bring all
\* markets up, whatever was interrupted, refused or reset.
BootstrapConvergesInScene == <>[](scene = "scripts" => created = MARKETS)

===============================================================================
