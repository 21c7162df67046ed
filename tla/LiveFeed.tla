------------------------------- MODULE LiveFeed -------------------------------
(***************************************************************************)
(* A panel of the trading page (Orderbook, MarketStats or RecentTrades) and  *)
(* its two sources: the hook useMarketSnapshot, a socket to the gateway that *)
(* is opened after a probe and reopened after a wait, and a REST poll.  Both *)
(* are effects of React: a switch of the market runs their clean-up and      *)
(* starts them again, so effect g is the g-th since the page was opened and  *)
(* only the last is not cleaned up.                                          *)
(***************************************************************************)
EXTENDS Gateway

CONSTANTS
    MaxEffects,  \* bound: markets shown one after the other
    MaxLoads     \* MaxLoads[p], bound: loads under way at a time, by panel

ASSUME FeedAssumption ==
    /\ MaxEffects \in Nat \ {0} /\ Sockets = 1 .. MaxEffects
    /\ MaxLoads \in [Panels -> Nat]

VARIABLES
    effects,  \* effects[g]: the market and the state of the socket of effect g
    snap,     \* the hook's state: the last snapshot, with its market
    loads,    \* answers to the REST poll under way, with the effect that asked
    polled,   \* the panel's state: the last answer, with its market
    error     \* the last answer was an error

panelVars == <<effects, snap, loads, polled, error>>
feedVars  == <<tip, feedFaults, panel, bookVars, gatewayVars, panelVars>>

Current  == Len(effects)
selected == effects[Current].market

Shot(m, d) == [market |-> m, data |-> d]
Shots      == {Shot(m, d) : m \in FeedMarkets, d \in Tips \cup {NoData}}
Phases     == {"waiting", "probing", "connecting", "open", "gone"}

LiveFeedTypeOK ==
    /\ BookServerTypeOK
    /\ GatewayTypeOK
    /\ effects \in Seq([market : FeedMarkets, phase : Phases])
    /\ Current \in 1 .. MaxEffects
    /\ snap \in Shots \cup {NoData}
    /\ loads \in Seq([effect : Sockets, data : Tips \cup {NoData}])
    /\ Len(loads) <= MaxLoads[panel]
    /\ polled \in Shots \cup {NoData}
    /\ error \in BOOLEAN

Mounted(m) == [market |-> m, phase |-> "probing"]

LiveFeedInit ==
    /\ BookServerInit
    /\ GatewayInit
    /\ effects = <<Mounted(FirstMarket)>>
    /\ snap = NoData
    /\ loads = <<>>
    /\ polled = NoData
    /\ error = FALSE

---------------------------------------------------------------------------
(* useMarketSnapshot.                                                      *)

Moves(g, phase) == effects' = [effects EXCEPT ![g].phase = phase]
At(g, phase)    == g \in DOMAIN effects /\ effects[g].phase = phase

\* mutant of WaitOrGone: a socket that closed is not opened again
NoRetry(g) == "gone"

\* What becomes of effect g when it has no socket: a timer, unless it is cleaned up.
WaitOrGone(g) == IF g = Current THEN "waiting" ELSE "gone"

\* /health answers, or does not within its time.
ProbeEnds(g) ==
    /\ At(g, "probing")
    /\ Moves(g, IF gateway = "up" THEN "connecting" ELSE "waiting")
    /\ UNCHANGED <<gatewayVars, feedFaults, snap, loads, polled, error>>

Retry(g) ==
    /\ At(g, "waiting")
    /\ Moves(g, "probing")
    /\ UNCHANGED <<gatewayVars, feedFaults, snap, loads, polled, error>>

\* onopen subscribes to the market of the effect, cleaned up or not.
SocketOpens(g) ==
    /\ At(g, "connecting")
    /\ Subscribe(g, effects[g].market)
    /\ Moves(g, "open")
    /\ UNCHANGED <<snap, loads, polled, error>>

SocketFails(g) ==
    /\ At(g, "connecting")
    /\ gateway = "down"
    /\ Moves(g, WaitOrGone(g))
    /\ UNCHANGED <<gatewayVars, feedFaults, snap, loads, polled, error>>

\* onmessage, at every subscribed socket: the effect's own market passes, and it
\* is not asked whether the effect has been cleaned up.
SnapshotArrives(i) ==
    LET m == polls[i].market
    IN  /\ PollSends(i)
        /\ snap' = IF Subscribers(m) = {} THEN snap ELSE Shot(m, polls[i].data)
        /\ UNCHANGED <<effects, loads, polled, error>>

\* onclose, at every socket.
SocketsClose ==
    /\ GatewayStops
    /\ effects' = [g \in DOMAIN effects |->
                      IF effects[g].phase = "open"
                      THEN [effects[g] EXCEPT !.phase = WaitOrGone(g)] ELSE effects[g]]
    /\ UNCHANGED <<snap, loads, polled, error>>

---------------------------------------------------------------------------
(* The REST poll.                                                          *)

LoadAsks ==
    /\ Len(loads) < MaxLoads[panel]
    /\ loads' = Append(loads, [effect |-> Current, data |-> Answer(selected)])
    /\ UNCHANGED <<gatewayVars, feedFaults, effects, snap, polled, error>>

\* MarketStats forgets the mark when a load fails, the others keep what they have
\* and remember the error.
Loaded(d) ==
    /\ polled' = IF d # NoData THEN Shot(selected, d)
                 ELSE IF panel = "MarketStats" THEN NoData ELSE polled
    /\ error' = (d = NoData)

\* An answer counts while the effect that asked for it is active.
LoadArrives(i) ==
    /\ i \in DOMAIN loads
    /\ IF loads[i].effect = Current THEN Loaded(loads[i].data)
       ELSE UNCHANGED <<polled, error>>
    /\ loads' = RemoveAt(loads, i)
    /\ UNCHANGED <<gatewayVars, feedFaults, effects, snap>>

LoadFails(i) ==
    /\ i \in DOMAIN loads
    /\ Fault
    /\ loads' = [loads EXCEPT ![i].data = NoData]
    /\ UNCHANGED <<gatewayVars, effects, snap, polled, error>>

---------------------------------------------------------------------------
(* The user shows another market: the clean-ups and the new effects.       *)

\* cleanup closes a socket that is open; one still connecting is left alone.
CleanedUp(e) == IF e.phase = "connecting" THEN e ELSE [e EXCEPT !.phase = "gone"]

SwitchMarket(m) ==
    /\ m # selected
    /\ Current < MaxEffects
    /\ effects' = Append([effects EXCEPT ![Current] = CleanedUp(@)], Mounted(m))
    /\ Disconnect(Current)
    /\ snap' = NoData
    /\ UNCHANGED <<loads, polled, error>>

---------------------------------------------------------------------------

Chain(A) == A /\ UNCHANGED <<panel, gatewayVars, panelVars>>
Dlob(A)  == A /\ panel = "Orderbook" /\ UNCHANGED <<panel, gatewayVars, panelVars>>
Gate(A)  == A /\ UNCHANGED <<tip, panel, bookVars, panelVars>>
Page(A)  == A /\ UNCHANGED <<tip, panel, bookVars>>

Slots == 1 .. 2

LiveFeedNext ==
    \/ \E m \in FeedMarkets : Chain(MarketChanges(m)) \/ Page(SwitchMarket(m))
    \/ Dlob(RefreshReads) \/ Dlob(DlobStops) \/ Dlob(DlobStarts)
    \/ \E i \in Slots : Dlob(RefreshCompletes(i)) \/ Dlob(RefreshFails(i))
    \/ Gate(StartPoll) \/ Gate(GatewayStarts) \/ Page(SocketsClose)
    \/ \E i \in Slots : Gate(PollReads(i)) \/ Gate(PollSkips(i)) \/ Page(SnapshotArrives(i))
    \/ \E g \in Sockets : \/ Page(ProbeEnds(g)) \/ Page(Retry(g))
                          \/ Page(SocketOpens(g)) \/ Page(SocketFails(g))
    \/ Page(LoadAsks)
    \/ \E i \in Slots : Page(LoadArrives(i)) \/ Page(LoadFails(i))

\* Each loop keeps going: its timer fires or a call of its is answered, not
\* necessarily every call in turn; the host restarts the book server.
FeedFairness ==
    /\ WF_feedVars(Dlob(RefreshReads) \/ Dlob(RefreshCompletes(1)) \/ Dlob(DlobStarts))
    /\ WF_feedVars(Gate(StartPoll) \/ Gate(PollReads(1)) \/ Page(SnapshotArrives(1)))
    /\ WF_feedVars(Page(LoadAsks) \/ Page(LoadArrives(1)))
    /\ \A g \in Sockets : WF_feedVars(\/ Page(ProbeEnds(g)) \/ Page(Retry(g))
                                      \/ Page(SocketOpens(g)) \/ Page(SocketFails(g)))

LiveFeedSpec ==
    /\ LiveFeedInit /\ [][LiveFeedNext]_feedVars /\ FeedFairness
    /\ WF_feedVars(Gate(GatewayStarts))

\* The gateway may stay down: what the page then owes its reader.
OutageSpec == LiveFeedInit /\ [][LiveFeedNext]_feedVars /\ FeedFairness

---------------------------------------------------------------------------
(* Properties.                                                             *)

\* What the panel shows: the snapshot where it has the panel's data, else the poll.
shown ==
    CASE panel = "Orderbook"   -> IF snap # NoData /\ snap.data # NoData THEN snap ELSE polled
      [] panel = "MarketStats" -> IF snap # NoData THEN snap ELSE polled
      [] OTHER -> IF error THEN NoData
                  ELSE IF snap # NoData /\ snap.data # 0 THEN snap ELSE polled

\* Sockets of effects that were cleaned up while the socket was connecting.
Orphans == {g \in DOMAIN effects : g # Current /\ effects[g].phase \in {"connecting", "open"}}

\* Polls, loads and refreshes end in any order, each service fails and restarts, the
\* market is switched at any point of the socket's life: when the chain and the user
\* pause and no orphan is left, the panel comes to show the selected market as it is.
PanelCatchesUp ==
    <>[](Orphans = {}) => <>[](shown = Shot(selected, tip[selected]))

\* The hook takes a snapshot of another market only from a socket that an earlier
\* effect left connecting: no other interleaving of probes, retries, switches and
\* gateway restarts shows one market's data as another's.
OnlyOrphansMislead ==
    [][snap' # snap /\ snap' # NoData /\ snap'.market # selected => Orphans # {}]_feedVars

\* ws.ts:22-24: the hook "Returns `null` until the first frame (or if the gateway is
\* offline - callers fall back to REST polling)".
FallsBackToPolling == <>[](gateway = "down") => <>[](snap = NoData)

=============================================================================
