# Verification of impl-perps

TLA+ models of the impl.trade perpetual-futures stack, the TLC runs that check
them on small instances and the TLAPS proofs about them. The stack is an Anchor
program that holds all funds and risk logic (`programs/impl-perps`), the services
around it (`services`), the web application (`app/web`), the SDK (`packages/sdk`)
and the operator's scripts (`scripts`). Paths below are relative to the repository;
for the program, to `programs/impl-perps/src/`.

## 1. The system

### On chain

| Part | Code | State | Operations |
|---|---|---|---|
| Fixed-point math | `math/*.rs` | none | swap on `base * quote = k`, margin, fees, profit and loss, funding, TWAP |
| Accounts | `state/*.rs`, `constants.rs` | `State`, `Market` with its `Amm`, `User` with 8 position and 32 order slots, `InsuranceFund`, `MockOracle` | slot and order lookups, status checks |
| Trade execution | `controller.rs` | market, amm, user, positions | open or close against the pool, match two users |
| Collateral | `deposit_collateral.rs`, `withdraw_collateral.rs` | user, wallets, vault | move tokens in and out |
| Market orders | `open_position.rs`, `close_position.rs` | through the controller | a user's own trades |
| Resting orders | `place_perp_order.rs`, `cancel_order.rs`, `fill_perp_order.rs`, `fill_perp_match.rs`, `trigger_order.rs` | user.orders, and through the controller | owner places and cancels; anyone fills, matches, triggers |
| Funding | `update_funding_rate.rs`, `settle_funding.rs` | amm, market; user, positions | accrue a rate; charge one position |
| Liquidation | `liquidate_perp.rs`, `resolve_perp_bankruptcy.rs` | everything but the order book | close an unsafe position, pay bad debt from the insurance count |
| Oracle loading | `oracle.rs` | a mock account, or a Pyth update | fresh, positive and narrow, or no price |
| Administration | `initialize_*.rs`, `update_market_params.rs`, `set_protocol_paused.rs`, `update_mock_oracle.rs` | state, market, oracle | create accounts, breakers, risk parameters, prices |

An instruction is atomic: every failed check reverts the transaction. What makes
the program hard is not a data race but the ORDER of instructions: users, keepers,
liquidators and the admin act on the same accounts with nothing but the guards of
each instruction between them, prices and time move in between, and every keeper
instruction is open to anybody and may be sent with stale intentions, twice, or not
at all.

What makes each part correct:

- trade execution: open interest and the pool's skew equal what users hold; the
  pool is the counterparty of exactly the net exposure; no value appears.
- curve: the product of the reserves never falls, and rounding is the only leak.
- collateral: nobody withdraws what a position needs; the vault covers the claims.
- resting orders: a fill respects direction, size and price; a reduce-only order
  never adds or flips; each open order is identified by its id.
- funding: every position pays what it owes, once.
- liquidation: a loss beyond collateral is recorded as debt, and nowhere else;
  debt shrinks only as the insurance count does.
- oracle: a price that is accepted is the market's, fresh and narrow, in either source.
- administration: no position grows while a breaker is set.
- interface: an instruction changes only accounts its description locks for writing.

### Off chain

| Part | Code | State | What is hard | What makes it correct |
|---|---|---|---|---|
| Keeper | `services/keeper` | snapshot of one pass | acts on a snapshot its own transactions have made stale; dies in mid-pass | what is due happens; only the orders it read are touched |
| Order-book service | `services/dlob` | books in memory | refreshes overlap; the slowest is published last | the book follows the chain; both sides of a match leave it |
| Gateway | `services/ws-gateway` | sockets, subscriptions | polls overlap; markets fail one by one | subscribers of a market get that market, and in the end its newest state |
| Indexer | `services/indexer`, `db/schema.sql` | three tables | a window of 50 signatures without a cursor; rows arrive late | every event of the window once; candles agree with trades |
| Faucet | `services/faucet` | last claim per wallet and address | anybody may name any wallet; check and record precede a mint that may fail | claims are rationed, and a refusal does not last once nobody else asks |
| Web application | `app/web` | React state | effects outlive the market or wallet they were made for; two tabs | what is shown is what is selected, in the end as it is |
| SDK | `packages/sdk` | none | mirrors the program's arithmetic and interface | the mirror agrees |
| Scripts | `scripts` | a cache file | stopped anywhere, run again; the validator is reset; ticks of the price pusher overlap | running again finishes; prices stay fresh |

Who calls whom: the keeper, the web application and the scripts send instructions; the
book server, the gateway, the keeper and the pages read accounts; the gateway also reads
the book server and the indexer; the indexer reads transaction logs; the pages read
all three services and claim from the faucet. No service calls the keeper.

## 2. Modules and the code

    PerpMath --+-- PerpState --+-- Controller --+-- Trading ------+
               |               |                +-- OrderBook ----+
               |               +-- Funding -----+-- Liquidation --+-- PerpEngine --+-- PerpProperties --+
               |               +-- Collateral --------------------+                +-- Idl -------------+-- MCPerp
               |               +-- Admin -------------------------+                +-- BookBuilder -----+
               |                                                                   +-- Keeper -- MCKeeper (with MCPerp)
               +-- SwapCurve -- Preview --------+
               +-- PythFeed --------------------+
    EventStore -- Indexer -- HistoryApi --------+
    Chart, Pages, Deployment -------------------+-- MCServices
    Faucet -- Onboarding -----------------------+

    BookServer -- Gateway -- LiveFeed -- MCFeed

| Module | Models | Correspondence |
|---|---|---|
| `PerpMath` | `math` | one operator per function; precisions are constants; `\div` rounds down, so Rust's truncation is `TruncDiv`; `AsI64` keeps the width of the one unchecked cast |
| `PerpState` | `state`, guards of `oracle.rs` | variables `market[m]`, `amm[m]`, `user[u]`, `positions[u][slot]`, `orders[u][slot]`; slots are kept, because lookups take the FIRST match and slots are reused |
| `Controller` | `controller.rs` | `ExecuteAmmOpen`, `ExecuteAmmClose`, `ExecuteMakerMatch`: guards and effects of the Rust function of the same name |
| `Collateral`, `Trading`, `OrderBook`, `Funding`, `Liquidation`, `Admin` | `instructions` | one action per instruction, named after it |
| `PerpEngine` | `lib.rs` | `Next`: any instruction, any caller, and the clock; `TypeOK` |
| `PerpProperties` | | the program's invariants and action properties |
| `Idl` | `packages/sdk/src/idl/impl_perps.ts` | per instruction the set of accounts marked writable; `LockedStep` compares it with what the step changed |
| `PythFeed` | Pyth's half of `oracle.rs` | the update account is overwritten by anyone with signed updates, some old, some a second ahead; `PythUsable` is `get_oracle_price` |
| `SwapCurve` | `calculate_swap`, `initial_reserves` | one trader against one pool, before fees, with ghost counts of swaps |
| `Preview` | `packages/sdk/src/math.ts`, the preview in `OrderTicket.tsx` | the client's mirror of the swap and its liquidation hint, on the pool the page read last |
| `Keeper` | `services/keeper` | one action per remote call of `runOnce` and per step of the matching loop; `seen` is the snapshot, `plan` the calls it asks for, `book` the sorted bids and asks. A call IS the program's own action: it takes effect, is refused (not enabled) or is lost. `Restarts` is a process that dies anywhere in a pass. `Others` is any instruction of anybody else between two calls |
| `BookBuilder` | `services/dlob/src/book.ts` | `buildBooks` on the orders of `PerpEngine` |
| `BookServer` | `services/dlob/src/server.ts` | refreshes in flight and the published books; a book is the number of changes its market had seen when it was read |
| `Gateway` | `services/ws-gateway` | sockets, subscriptions, polls in flight; each await of a poll is a step; start, shutdown |
| `LiveFeed` | `app/web/lib/ws.ts` with `Orderbook`, `MarketStats`, `RecentTrades` | effect g is the g-th of the page: probe, connect, open, closed, waiting; REST polls beside it |
| `EventStore` | the promise of `db/schema.sql` | abstract: a store that grows and holds logged entries once |
| `Indexer` | `services/indexer` | one action per await: signatures, each transaction, each insert, sleep; failure, signal and death at each |
| `HistoryApi` | `api.ts`, `candles.ts` | the queries as functions of the tables; every answer the query's ordering allows |
| `Chart` | `Chart.tsx` | loads in flight, live bars, the merged series |
| `Pages` | `Positions.tsx`, the portfolio and history pages, `OrderTicket.tsx`'s own loads | a load is a chain of calls, whose answers land guarded by the effect or not, as in each component |
| `Faucet` | `services/faucet` | time since the last claim per wallet and address; a request names any wallet (its body) from any address (its socket); check and record are one step, the mint a later one that may land and fail |
| `Onboarding` | `initAccount` and `claim` of `OrderTicket.tsx`, `ensureLocalFeeSol`, the web side of the faucet | one step per await, in two tabs of one wallet; each may fail, with the effect on the handler that its `try` has; a stranger asks the faucet for any wallet from any address |
| `Deployment` | `airdrop.ts`, `create-usdc.ts`, `bootstrap.ts`, `faucet.ts`, `push-prices.ts` | one step per remote call, so a tick of `push-prices` fetches a price and updates it in two, and `setInterval` lets ticks overlap; a call fails, lands and is reported failed, or the script is stopped |
| `MCPerp`, `MCKeeper`, `MCFeed`, `MCServices` | | instances, bounds and start states |
| `PerpMathLemmas`, `PriceProofs`, `PerpEngineProofs`, `PositionProofs`, `MoneyProofs`, `RestingOrderProofs`, `ServiceProofs`, `FeedProofs` | | lemmas and theorems, section 5 |

A definition with the comment "mutant of ..." has a plausible mistake in it; it is
used to confirm that a property notices that mistake.

Deliberate abstractions:

- Addresses, bumps and signatures: an action is taken for the account it names,
  which is what the Anchor constraints enforce. Each market has one oracle account
  and reads only that one.
- Overflow rejections of `math/safe.rs`: they need magnitudes near 2^63.
- `User.being_liquidated` (never set), `open_orders` (always 0), `Order.ts`,
  `post_only`, `cumulative_deposits`, `num_users` and a market's `max_leverage`:
  no instruction reads them.
- SPL tokens: balances of wallets and vaults; a transfer fails for lack of funds.
- The instructions run on the mock account, whose authority may write any price; the
  Pyth source differs only in how a price is accepted, and that is `PythFeed`.
- Feeds and pages: data is the NUMBER of changes its source had seen, which is all
  that staleness and mixing can be told from.
- Timers: a timer that may fire fires at any time; only the faucet's cooldown and the
  age of a price are counted.

## 3. Runs

The program's scales are shrunk (4 units of base in 1.0, margin in tenths, fees in
hundredths) so that the roundings that are rare in production occur on almost
every step; definitions are parametric in the scales and the proofs cover all.

Runs of the program start from `Seeded` (the state `bootstrap.ts` and one deposit per
user lead to) or, in `lifecycle`, from the deployed program. `Bounded` is a state
constraint: fees collected (each trade pays at least one unit, so it bounds the
trades), orders placed per user, and the clock. `Users` are interchangeable and
form a symmetry set; liveness is checked without symmetry and without a constraint.

| Run | Instance | What it checks |
|---|---|---|
| `trading` | 2 users, 1 market, 3 fee units, prices {4, 16}, two funding periods | `TypeOK`, `AmmHedgesSkew`, `CurveNeverLosesValue`, `BankruptAccountOwes`, `LedgerBalances`, `EquityFollowsCashAndFunding`, `DebtIsLastResort`, `OpenedPositionIsSafe` under opens, partial closes, liquidations, bankruptcies and funding |
| `orders` | 2 users, 2 order slots, 2 markets | `PositionsSound`, `OpenInterestMatchesPositions`, `OrdersSound`, `ReduceOnlyOnlyReduces`, `FillsHonourOrders`, and `MatchesTakeBothSides` of the book server's book. Two start states: limits of two users in one market, filled and matched; reduce-only limits and stops of one user in two markets, whose position is closed and reversed under them |
| `lifecycle` | 1 user from `Init`, statuses, pauses, two parameter sets, invalid prices and pools offered | `BreakersStopNewRisk`, `ChangesAreLocked` |
| `keeper` | 2 users, 1 market, 3 instructions of others, 1 failing call or restart | `PassesEnd`, `NothingDueStays`, `BestPairMeets` (liveness), `ActsOnSeenOrder`; starts with an empty book or with a crossed one |
| `feed` | one panel, of any of the three kinds, 2 markets, 1 change of the chain, 1 fault, 2 effects (one switch), 2 overlapping refreshes, and 2 overlapping polls or loads for the panel whose code has them | `LiveFeedTypeOK`, `OnlyOrphansMislead`, `PanelCatchesUp` |
| `services` | eight scenes, below | 17 properties of the modules `MCServices` extends |

The modules under `MCServices` share no variable, so one run checks them side by side
instead of multiplying them: the first state chooses a scene and only its variables
move. The scenes and their bounds:

| Scene | Instance | Properties |
|---|---|---|
| history | 3 transactions with 5 events of 3 kinds, a window of 2, 2 failures or restarts | `ImplementsEventStore`, `WindowIsIndexed`, `ServedCandlesOnlyWiden`, `PageAndCandlesAgree` |
| chart | 2 markets, one switch, 2 minutes | `ChartShowsSelected` |
| pages | 5 pages, 2 keys or none, 2 selections, 1 change, 1 failing load | `PagesSettleInScene`, `OnlySelectedLands` |
| onboarding | 2 wallets, 2 addresses, 2 tabs of one user and a stranger, a cooldown of 2 ticks, any 2 disturbances: failed or lost calls of the tabs, failed mints, restarts of the faucet and requests of the stranger; after the second one tab works at a time | `GrantsAreRationed`, `ClaimIsDepositedInScene` |
| scripts | 2 markets, prices 3 and 1 with a push that halves or keeps them, one tick of `push-prices` at a time, any 2 faults: failed calls (landed or not), interruptions, resets of the validator, the second while `push-prices` is not running; no price goes stale, which no script looks at | `MintsAgree`, `MarketsHaveOracles`, `BootstrapConvergesInScene` |
| pusher | the same markets, bootstrapped, with two overlapping ticks, prices that go stale and 1 fault; after a reset the scripts set the chain up again | `PushedStayFresh`, `MarketsHaveOracles` |
| preview | pools with pegs that do not divide the precision, 4 sizes, 3 swaps, hint at 4 prices | `RoundingIsTheOnlyLeak`, `PreviewMatchesInScene` |
| pyth | 3 exponents (finer than, equal to and coarser than the program's unit), 4 mantissas with a negative one, 6 intervals, 2 feeds; a later update has the price and interval of the first, which is any | `AcceptedPriceIsNarrow` |

Why the bounds are enough to be of interest. Three fee units allow open, close and a
reopening, two users on opposite sides, or one increase; one price move more than
halves the price and the other lifts it by 60%, past maintenance margin in both directions, so
liquidations with and without bad debt and partial insurance payments occur. Two slots
over two markets suffice for every reuse pattern of a free slot. Three instructions of others
between the keeper's calls are enough for a position that turns unsafe (open,
counter-trade, oracle), for an order cancelled and replaced between the read and the call,
and for three orders that hide one another. Two reads of one source, one change of it
and any order of their arrival is the whole of what overlapping timers can do wrong; a third would
only repeat the second. One switch makes one orphaned effect, and two markets tell it
from the current one. A window of two over three transactions lets a signature leave
the window unread. Two wallets and two addresses
make every combination of a wallet asked for twice from two addresses and of two wallets asked for from one,
and two disturbances every pair: a stranger's request and a failed mint, one that burns the user's
wallet and one that burns his address, a restart between a claim and its mint. The mutants that
record only the wallet, or only the address, are both caught. Halving 3 gives 1, and
halving 1 would give 0, so the pushed price walks down to the edge where only the check in `walk` keeps it
positive; and two ticks are all it takes to write an older price back over a newer one.
A second failure beside `push-prices` would add little: a tick neither makes nor removes an oracle, and
that an oracle exists is all a script asks.
Deadlock is not an error in `services`, because a trader out of swaps and a user out of
selections stop.

### Runs that find a disagreement

Six statements of the repository's own documents and comments do not hold; each is a property of
its own run, which ends in a counterexample (and a `findings` entry).

| Run | Statement | What happens |
|---|---|---|
| `withdraw_margin` | a withdrawal leaves the account at initial margin (`withdraw_collateral.rs:1-2`, `math/margin.rs:3`) | only the position in the market the caller names is counted, so collateral that a second market's position needs leaves |
| `bad_debt_flag` | a shortfall of funding is bad debt "resolved from the insurance fund" (`settle_funding.rs:44`, `user.rs:113`) | `settle_funding` does not set `bankrupt`, which `resolve_perp_bankruptcy` requires |
| `wind_down` | while paused, positions "can always be wound down" (`set_protocol_paused.rs:2-3`) | close reverts when the loss at the POOL's price exceeds the collateral, liquidation looks at the ORACLE's price: both can refuse, and a paused protocol takes no deposit |
| `keeper_starves` | the keeper "matches makers" (`README.md:63-64`, `keeper.ts:124-125`) | when one user owns the best bid and the best ask left, the ask is passed over for the rest of the pass: a bid of another user that crosses it is never tried, in any pass, as long as the pool's price impact keeps all of them from being filled by the pool |
| `ws_stale` | without a gateway, callers "fall back to REST polling" (`app/web/lib/ws.ts:22-24`) | true before the first frame only: the last snapshot outlives the connection, and panels prefer it to their poll |
| `candle_units` | candles bucket trades "by `resolution` seconds" (`candles.ts:1`) | times are seconds and are divided by milliseconds: a candle spans a thousand times its resolution, and its time is not that of its trades |

Seen while modelling, without a run:

- program: nothing ever transfers tokens into the insurance vault, the fund is a number
  (`liquidate_perp.rs`); the funding clamp "per funding period" (`constants.rs:42`) is applied per
  crank (`update_funding_rate.rs:67`), so cranks within a period add up; a crank within a
  second replaces the TWAP by the current price; a trigger order
  without the reduce-only flag is accepted by `place_perp_order` and refused for ever by
  `trigger_order`, and the client's default is without; `trigger_order` ignores the order's direction, so a stop may
  close the opposite position; `market.rs:31` calls `Paused` "All trading halted", while closing
  and liquidation go on; `math/mod.rs:5` says rounding favours the protocol, while the
  quote of a buy is rounded down - the leak is bounded by one unit per buy, which is
  what `SwapCurve` checks and proves; `liquidate_perp` settles funding without adding it to `settled_pnl`, the one
  term `LedgerBalances` allows for.
- oracle: `oracle.rs:8` promises a positive price, but a Pyth price is tested before it is normalized,
  so a value below one unit of PRICE_PRECISION loads as zero; an update published ahead
  of the cluster's clock is accepted from Pyth and refused from the mock account.
- services: the gateway reads `numMarkets` once, and stamps a snapshot after its reads; the indexer parses logs of
  failed transactions too; the faucet forgets all claims when it restarts, and records the wallet named in a request it
  refuses for the address (`index.ts:84`): somebody behind the user's address, or somebody at a limited address
  who names the user's wallet, keeps the user from claiming for as long as he goes on asking.
- web: `RecentTrades` says "Indexer offline." while live trades arrive; the portfolio shows new collateral
  beside old rows while a load is under way; the order ticket keeps the old market's oracle
  price until the next load; the CSV of the history page is not escaped.
- scripts: the jitter of `push-prices` truncates downwards; its ticks are not awaited by `setInterval`, so a slow one
  writes an older price back over a newer one; `smoke.ts` races a running
  keeper; DEMO.md:28-29 has the keeper match a Long limit below the mark with a Short limit above it,
  which do not cross.

## 4. Fairness

The program is reactive: no instruction has to be sent, nothing in it waits, and a
deadline that nobody enforces is a property of the keeper. No run of `MCPerp` assumes fairness.

`KeeperSpec` assumes `WF_kvars(KeeperStep)`: `runLoop` awaits one call after the other and sleeps
for a fixed interval, so as long as the process runs some step of it follows; every `rpc()` returns or
throws, and both are steps; and a process that died is started again. Nothing is assumed of the
others, nor of WHICH transaction the cluster accepts beyond the program's guards. A call is lost or the process restarted at most `MaxDrops`
times and the others act at most `MaxMoves` times: liveness is claimed for a network that works again
and a market that comes to rest, which is all that a keeper working from snapshots can promise.
Its properties say "again and again not due" (`[]<>~Due`), so a state that became due
during a pass may wait for the next one.

`LiveFeedSpec`: timers go on firing and each of their oldest calls ends (weak fairness of the
book server's loop, restart included, of the gateway's and of the page's), each effect's probe, retry and socket make progress, and a gateway that is
down is started again. `OutageSpec` is the same without that last condition: the gateway may
stay down, which is the case `ws_stale` is about.

`ServicesSpec`, one condition serving the scenes that need it, since no two are ever played in one behaviour:

- the indexer's loop and the node's catching up with a confirmed transaction (weak): the
  loop awaits and sleeps, its host starts it again when it has ended, and a confirmed transaction becomes readable;
- the pages' polling (weak): `setInterval`;
- the handler of each tab, once a button was pressed (weak: every await returns or throws), and the clock (weak);
- a user without collateral presses the button again (strong: the button is disabled while
  its handler runs, and enabled again and again). Nothing is asked of the stranger, nor of the claims
  whose answers nobody waits for. The stranger's requests count as disturbances (`MaxDisturbances`), with no other
  limit on whom they name, when or from where: `ClaimIsDepositedInScene` is claimed for the time after
  he has stopped, because in the code nothing else stops him;
- the operator's running script goes on (weak), so does `push-prices` while it runs (weak: the timer fires and calls
  return), and he runs airdrop, create-usdc and bootstrap again and again (strong: only one script runs at
  a time). Nothing obliges him to run them in the right order.

Failures are bounded everywhere (`Max...Faults`, `MaxDisturbances`): liveness is claimed for a system that fails
finitely often, at any point.

## 5. Proofs

Every constant is arbitrary but for the named assumptions of the modules, all evaluated by the
runs: precisions are positive and amounts are naturals (`PrecisionAssumption`, `StateAssumption`,
`InputAssumption`); there are finitely many users and markets (the proofs add up over
them); keys, logs, bars and bounds have their types (`FaucetAssumption`, `IndexerAssumption`,
`HistoryAssumption`, `ChartAssumption`, `PagesAssumption`, `OnboardingAssumption`, `DeploymentAssumption`,
`FeedAssumption`, `PreviewAssumption` and those of `BookServer`, `Gateway` and `LiveFeed`).

| Theorem | Statement |
|---|---|
| `PerpEngineProofs!TypeCorrect` | `Spec => []TypeOK`; with it, no unsigned field of an account is driven below zero |
| `PerpEngineProofs!PoolAlwaysHedges` | `Spec => []AmmHedgesSkew`: a pool has given out exactly the net skew it books |
| `PerpEngineProofs!CurveAlwaysKeepsValue` | `Spec => []CurveNeverLosesValue`: the product of the reserves never falls below its first value |
| `PerpEngineProofs!BankruptAlwaysOwes` | `Spec => []BankruptAccountOwes` |
| `PositionProofs!PositionsAlwaysSound` | if `SizesFit`, `Spec => []PositionsSound`: one open slot per user and market, no cost left in a flat slot, a long has paid and a short has received |
| `PositionProofs!OpenInterestAlwaysMatches` | if `SizesFit`, `Spec => []OpenInterestMatchesPositions`: both counts of a market are the sums of what users hold |
| `PositionProofs!OrdersAlwaysSound` | `Spec /\ []IdsLeft => []OrdersSound`: an id names one open order, with something left to fill |
| `PositionProofs!FillsAlwaysHonourOrders` | if `SizesFit`, `Spec => FillsHonourOrders`: size, direction and limit price of every fill, match and trigger |
| `PositionProofs!ReduceOnlyAlwaysReduces` | `Spec => ReduceOnlyOnlyReduces` |
| `PositionProofs!OpenedAlwaysSafe` | `Spec => OpenedPositionIsSafe`: a bigger or reversed position is above maintenance margin |
| `PositionProofs!BreakersAlwaysStopNewRisk` | `Spec => BreakersStopNewRisk` |
| `MoneyProofs!LedgerAlwaysBalances` | `Spec => LedgerBalances`: claims change by the tokens that cross the vault's border and by settled profit, in every step |
| `MoneyProofs!EquityAlwaysFollows` | `Spec => EquityFollowsCashAndFunding`: outside trades an account's worth changes by its tokens, the insurance draw and the funding it stops owing |
| `MoneyProofs!DebtAlwaysLastResort` | `Spec => DebtIsLastResort`: debt grows only once collateral is gone (or a profit is realized in the same step) and shrinks only by what the insurance count pays |
| `PerpEngineProofs!ChangesAlwaysLocked` | `Spec => ChangesAreLocked`: no instruction changes an account its interface does not lock for writing |
| `RestingOrderProofs!KeeperAlwaysActsOnSeen` | `KeeperRuns /\ []IdsLeft => ActsOnSeenOrder`: a keeper transaction changes only the order it meant, as its snapshot showed it |
| `RestingOrderProofs!MatchesAlwaysTakeBothSides` | `Spec => MatchesTakeBothSides`: a match takes as much off the published bids as off the asks, at crossed prices, and leaves the levels sorted |
| `PriceProofs!RoundingAlwaysTheOnlyLeak` | `CurveSpec => []RoundingIsTheOnlyLeak`: after any sequence of swaps the cash moved equals the value of the reserves moved up to one quote unit per swap, and a trader who ends flat has gained less than one unit per buy |
| `PriceProofs!PreviewAlwaysMatches` | `PreviewSpec => []PreviewMatchesProgram`: swap, fee and liquidation hint of the order ticket; the run checks it in its scene only, for speed |
| `PriceProofs!AcceptedPriceAlwaysNarrow` | `PythSpec => []AcceptedPriceIsNarrow` |
| `ServiceProofs!ClaimsAlwaysRationed` | `FaucetSpec => []GrantsAreRationed`: no two claims let through within a cooldown are for one wallet or from one address, any wallet being asked for from any address |
| `ServiceProofs!IndexerImplementsEventStore` | `IndexerSpec => ImplementsEventStore`: the refinement, initial states and every step |
| `ServiceProofs!PageAndCandlesAlwaysAgree` | `IndexerSpec => []PageAndCandlesAgree`: a page of trades lies in the candles beside it |
| `ServiceProofs!CandlesOnlyEverWiden` | `IndexerSpec => ServedCandlesOnlyWiden`: late rows only widen a candle or push it out |
| `ServiceProofs!MintsAlwaysAgree` | `DeploymentSpec => []MintsAgree` |
| `ServiceProofs!MarketsAlwaysHaveOracles` | `DeploymentSpec => []MarketsHaveOracles`: no market of the program is without a positive price, however the scripts are stopped, refused and run again |
| `ServiceProofs!ChartAlwaysShowsSelected` | `ChartSpec => []ChartShowsSelected` |
| `ServiceProofs!OnlySelectedEverLands` | `PagesSpec => OnlySelectedLands`: what lands on a guarded page is of what is selected now |
| `ServiceProofs!OnboardingRationed` | `OnboardingSpec => []GrantsAreRationed`: the same with the web page as a client, and a stranger who asks for any wallet from any address |
| `ServiceProofs!ServicesTypeCorrect` | `ServicesSpec => []ServicesTypeOK` |
| `FeedProofs!FeedTypeCorrect` | `LiveFeedSpec => []LiveFeedTypeOK` |
| `FeedProofs!OnlyOrphansEverMislead` | `LiveFeedSpec => OnlyOrphansMislead`: a snapshot of another market comes only through a socket an earlier effect left connecting |

Two hypotheses stand beside the assumptions, both because the code lets them fail:

- `SizesFit`: no size an instruction is called with is above `I64_MAX`. `controller.rs:59`
  casts `base_amount as i64` without a check; a size of 2^63 units or more would open a position of the
  wrong sign, and positions, fills and open interest would all be wrong. Every
  `.cfg` of the program satisfies it (`I64_MAX` = 1000000).
- `IdsLeft`: the order counter of no user has reached its last id. `next_order_id`
  is 32 bits wide and wraps (`place_perp_order.rs`), after which an old open order and a new one may
  share an id.

`PreviewSpec`, `PythSpec`, `IndexerSpec`, `DeploymentSpec`, `ChartSpec`, `PagesSpec`, `OnboardingSpec` and
`FaucetSpec` are the modules' own specifications; the `services` run plays the same steps beside each other
(the lemma `ServicesPlayTheModules`, on which `ServicesTypeCorrect` rests), within the bounds of its scenes.

### The program

The inductive invariants are built on top of each other, each adding what the next property needs:

- `EngineInv` = `TradeOK` (markets, positions, pools and accounts, the state a trade can
  change) and `RestOK` (clock, pause, oracles, orders, insurance, wallets, vaults). Neither
  `AmmHedgesSkew` nor `CurveNeverLosesValue` is inductive alone. A swap computes reserves with unsigned
  arithmetic, so both need the types of pool, market and order; the cost of a
  trade needs the mark price, which divides by the base reserve, so every CREATED market must have base
  left (`initialize_market` refuses an empty pool, and `SwapAllowed` refuses to take all of it); margin
  and fees must keep collateral and debt unsigned, which is why `BankruptAccountOwes` is carried
  along. Opening, closing and matching are split into what the swap does to the pool (`SwapKeepsProduct`
  with `DivCeilBounds`), what the skew update does (`SkewMoved`) and what the account pays.
- `SlotInv` adds that a user has at most one open slot per market: lookups take the FIRST match, so without it a close
  might reduce another slot than the one an open grew. With it, each trade changes a user's exposure in one
  market by the amount traded (`GrewExposure`, `ShrankExposure`) and leaves every other exposure alone. `StepKinds` sorts
  all instructions into trades, settlements and the rest, so that an action property is shown once per kind:
  breakers, reduce-only and (with `RatiosOK`, initial margin above maintenance margin in every created market,
  which `update_market_params` has to keep) the safety of opened positions follow from it.
- `SignInv` adds, under `SizesFit`, that open orders fit an `i64` too (`OrdersFit`) and that a position's cost
  has the sign opposite to its base. `Reduced` divides the cost by the share closed; the cast,
  the sign and the rounding together are what `PositionsSound` says and what the price of a fill is
  computed from.
- `BookInv` adds that a market's counts are the sums over users and that a market yet to be created has none
  (`FreshMarkets`). The sums are changed in one term by a trade and in two by a match (`SumChanged`,
  `SumChangedTwice`); only because the booked count contains the term that is taken away do the
  saturating subtractions of the code never saturate.
- `OrdersSound` is inductive with `EngineInv` and `IdsLeft`: a fresh id lies above all that were handed out.

Money. `LedgerBalances` adds the claims of all users, so each instruction is shown to change the worth of one
account (two in a match) and the fees of one pool by amounts that cancel: funding goes from
worth to the market's balance, fees from worth to the pool, profit is `settled_pnl`. Liquidation
charges funding, then profit or loss, then a fee capped at what is left, and each
charge may spill into debt; `LiquidationDrifts` follows the account through the three and shows that only the
funding escapes the ledger. `EquityFollowsCashAndFunding` uses `SlotInv` because settling charges ONE
slot, and equity counts all of them. `DebtAlwaysLastResort` needs only `EngineInv`.

Sums. The library's induction theorems cannot be instantiated by the installed provers, so the lemmas on sums
over a function (`SumIsInt`, `SumChanged`, `SumOfNats`, `SumOfFewer`) are proved from
`LeastNumber` and `AllNumbers`: a set of naturals that contains zero and every successor is all of them,
applied to the sizes of the domain. The powers of ten, candles' ends and the
first of a finite set in an order (`FiniteFirst`) are obtained the same way.

Locks. `ChangesAlwaysLocked` takes the layout of the accounts from `EngineInv` (a function that
is updated at u differs from what it was at u alone only if it is a function on the users) and
shows per instruction, through lemmas on the three trades, which functions change and where.

Keeper. A keeper transaction names an order by user and id, and by the time it executes the slot may hold
another order. `KeeperInv` ties three times together: the snapshot was a state of the program (`SnapshotOK`),
every id it shows has been handed out since, so that whatever is open under it is the order that was read
(`SnapshotFollows`; new orders get greater ids under `IdsLeft`), and the calls left, the plan and the book
name orders and users of the snapshot (`MeantCalls`, `ShownOffers`). The book is a flattened sequence of levels: its
type is an induction on the number of levels (`FlattenType`). `KeeperRuns` starts from the undeployed program
and the idle keeper, for any bounds on moves and lost calls.

Book server. `LevelPrices` chooses a sorted listing of the prices shown; that there is one is an induction on
how many there are (`OrderedListing`), and that it lists all of them a counting argument (`ListsAll`). The
depth of a side, a sum of sums, is then the sum over all slots of what each shows (`SumOfParts`,
`DepthShown`), so a fill of n takes n off its own side and nothing off the other (`FillTakes`). By `StepKinds`
only a match changes the orders of two users.

### Prices

Of `RoundingIsTheOnlyLeak`, the part `RoundTripGainIsRounding` speaks only of flat traders and is not inductive. `CurveInv` adds
that base is conserved between pool and trader, that the product of the reserves is at
least the initial one (`DivCeil` rounds the new quote reserve up), and that cash
follows reserves up to rounding. When the trader is flat the base reserve is back, so by cancellation
(`Cancel`) the quote reserve is no smaller than at the start.

The preview needs no history but `CurveInv` of the pool and a pool read from some earlier
state. Its swap is the program's by definition of the two ceilings; the hint compares fractions, and the proof
multiplies the margin formula out (`LongHint`, `ShortHint`). The proof corrected the model: the tolerance of
`HintAgrees` was two quote units and their margin, and misses that the average price the ticket
divides by is itself rounded, an error that grows with the size; TLC's sizes are too
small for it to show. The bound now includes `n * MARGIN_PRECISION`.

For Pyth, `PowerOfTen` is a recursive function, and that it is one, and positive,
is part of the proof (`PowersExist`, `PowersArePositive`). Three truncations meet: of the interval, of the price,
and of the share that is allowed; together they let through less than one program unit too much.

### Services and pages

- Faucet: `GrantsAreRationed` forgets when claims were recorded. `FaucetInv` ties the two: a
  claim of age n left its wallet and its address recorded at most n ago, so while it is younger than the
  cooldown `RateLimited` sees it in either key; a refused request may record a wallet, never forget one. Nothing
  ties the address to the wallet. Claims are numbered, so that two of one tick would be two.
- Onboarding: its deposits change the faucet's tokens, so it is not a run of `FaucetSpec`. Every other step of a
  tab, of the stranger and of the service is one of the faucet or none, and a deposit takes no more than the wallet has: `OnboardingInv` is
  `FaucetInv` with the types.
- Indexer: `IndexerInv` says that what a pass still has to do lies within the confirmed transactions, and that
  it has an event left exactly when it is inserting. A row carries its key and is determined by it, so an
  upsert appends a missing row or nothing, and either is a step of `EventStore` or a stutter.
- History API: both theorems rest on keys that identify rows. The newest n of a set are all of it or n
  (`NewestCount`), candles partition the trades by bucket, and the order by time and text of the signature is
  total, so the last row of a bucket exists and the page cannot show a newer one. When a row is added,
  a candle keeps its rows and gains at most one, or there are n newer candles.
- Scripts: `MintsInv` adds what the running script holds: bootstrap and faucet the cached mint, `create-usdc` a
  new one only while neither the program nor a user has one, unless it misread the chain; and mints
  in use are mints the chain has, so a lookup that does not fail finds them.
- Oracles: `MarketsHaveOracles` says nothing of the market that is created next. `OraclesInv` adds that the
  oracle of the market bootstrap is at is there from the moment it was found or created, as long as the chain
  has the `State`; a reset takes the oracles, but the `State` and the markets too, and `initialize_market`
  is refused without a `State` (`stateMint = 0 => created = 0`). A run stopped in between and
  continued by another looks for the oracle again. A price that was positive stays so because
  `update_mock_oracle` refuses what is not, whatever a tick fetched and however long ago.
- Chart: `ChartInv` says that what is merged into the series next, candles and live bars, is of the
  selected market too; a load of an earlier market does not break it because its arrival is guarded by the
  effect that began it.
- Pages: what a load fills it reads for the key its effect began with, so a part that changes is of the selected
  key exactly if the load is of the active effect. `PagesInv` adds what makes `active` enough: every load under
  way began at an effect there has been and for a key, not for "no wallet"; on the portfolio, the history page and the
  ticket's market all of them are guarded, which is so because none of the three sends transactions,
  whose loads are not; and the lists of the history page, which one load fills together, are of one market.
  `Positions` and the ticket's collateral have unguarded loads and show another wallet's data for a while: of
  them only `PagesSettle` is true.
- Scenes: `ServicesStep` takes a step of the combined specification apart: the scene's module makes one of its own
  steps and the variables of the others stand still. The types then come from the modules' invariants; for the
  chart the bars of all three maps are added (`ChartTyped`).
- Feed: the message that misleads must have come through a socket subscribed to another market.
  `SocketsAgree` says that a socket in the gateway's table is open at an effect of the page
  and subscribed to that effect's market; it needs the types of the queues of refreshes, polls and
  loads, which is `LiveFeedTypeOK`.

### Only model-checked

Every safety property of the passing runs is a theorem. Out of the prover's reach, and so only checked by TLC:
liveness and ENABLED (`PassesEnd`,
`NothingDueStays`, `BestPairMeets`, `PanelCatchesUp`, `WindowIsIndexed`,
`PagesSettleInScene`, `ClaimIsDepositedInScene`, `BootstrapConvergesInScene`, `PushedStayFresh`), the six runs that
end in a counterexample, that the mutants are caught, and what a definition computes by recursion over its data.

## 6. Not modelled, and the plan

Not modelled:

- SDK: derivation of addresses and the transaction builders of `client.ts`; they keep no state and add none to
  the instructions, which any caller may send with any arguments.
- Web application: submit buttons (one instruction each), wallet adapters, layout and formatting.
- Gateway: `unsubscribe`, which no client of the repository sends.
- Scripts: `smoke.ts`, itself a test.
- Program: `approx_liquidation_price` (a display helper nobody calls), overflow rejections, and the
  interplay of the Pyth source with the rest of the program.
- Build and test files, the marketing pages and assets.

No safety property of the passing runs is left to prove. What would extend the project is the Pyth source under the whole
program, and the magnitudes at which `math/safe.rs` rejects an instruction.
