-------------------------------- MODULE Gateway --------------------------------
(***************************************************************************)
(* services/ws-gateway: while clients are connected, a timer polls market    *)
(* after market (the program's account, the book server, the indexer) and    *)
(* sends each a snapshot to the sockets subscribed to it.  Polls overlap as  *)
(* refreshes do.  A snapshot stands for the field a panel shows of it: the   *)
(* book read from the book server (NoData when that fetch fails), or the      *)
(* mark price and trades, read at the market's current change.               *)
(***************************************************************************)
EXTENDS BookServer, FiniteSets

CONSTANTS
    Sockets,   \* the sockets browsers may open
    MaxPolls,  \* MaxPolls[p], bound: polls under way at a time, by panel
    NoData     \* null

VARIABLES
    panel,    \* the panel behind the sockets: Orderbook, MarketStats or RecentTrades
    subs,     \* subs[s]: the markets socket s, connected, is subscribed to
    polls,    \* the polls under way, oldest first
    gateway   \* "up" or "down"

gatewayVars == <<subs, polls, gateway>>

Panels == {"Orderbook", "MarketStats", "RecentTrades"}

ASSUME GatewayAssumption == MaxPolls \in [Panels -> Nat]

\* A poll is at one market; it has read that market's data or not yet.
Polls == [market : FeedMarkets, read : BOOLEAN, data : Tips \cup {NoData}]

GatewayTypeOK ==
    /\ panel \in Panels
    /\ DOMAIN subs \subseteq Sockets
    /\ \A s \in DOMAIN subs : subs[s] \subseteq FeedMarkets
    /\ polls \in Seq(Polls) /\ Len(polls) <= MaxPolls[panel]
    /\ gateway \in {"up", "down"}

NoSubs == [s \in {} |-> {}]

GatewayInit ==
    /\ panel \in Panels
    /\ subs = NoSubs
    /\ polls = <<>>
    /\ gateway = "up"

FirstMarket == CHOOSE m \in FeedMarkets : \A n \in FeedMarkets : m <= n
PollAt(m)   == [market |-> m, read |-> FALSE, data |-> NoData]

\* What the REST service behind the field answers now; NoData when it fails.
Answer(m) ==
    IF panel # "Orderbook" THEN tip[m] ELSE IF dlob = "up" THEN books[m] ELSE NoData

StartPoll ==
    /\ gateway = "up"
    /\ DOMAIN subs # {}
    /\ Len(polls) < MaxPolls[panel]
    /\ polls' = Append(polls, PollAt(FirstMarket))
    /\ UNCHANGED <<subs, gateway, feedFaults>>

PollReads(i) ==
    /\ i \in DOMAIN polls /\ ~polls[i].read
    /\ polls' = [polls EXCEPT ![i].read = TRUE, ![i].data = Answer(polls[i].market)]
    /\ UNCHANGED <<subs, gateway, feedFaults>>

\* mutant of NextMarket: the loop over the markets has no end
NextMarketAlways(i) == polls' = [polls EXCEPT ![i] = PollAt(@.market + 1)]

\* The poll goes on with the next market, or ends.
NextMarket(i) ==
    polls' = IF polls[i].market + 1 \in FeedMarkets
             THEN [polls EXCEPT ![i] = PollAt(polls[i].market + 1)]
             ELSE RemoveAt(polls, i)

\* mutant of Subscribers: every connected socket
Connected(m) == DOMAIN subs

\* The sockets a snapshot of market m goes to.
Subscribers(m) == {s \in DOMAIN subs : m \in subs[s]}

\* broadcast; what the sockets do with the snapshot is their page's matter.
PollSends(i) ==
    /\ i \in DOMAIN polls /\ polls[i].read
    /\ NextMarket(i)
    /\ UNCHANGED <<subs, gateway, feedFaults>>

\* The program's account or the oracle cannot be read: no snapshot this time.
PollSkips(i) ==
    /\ i \in DOMAIN polls
    /\ Fault
    /\ NextMarket(i)
    /\ UNCHANGED <<subs, gateway>>

\* The connection handler and the first message of a page.
Subscribe(s, m) ==
    /\ gateway = "up"
    /\ subs' = [t \in DOMAIN subs \cup {s} |-> IF t = s THEN {m} ELSE subs[t]]
    /\ UNCHANGED <<polls, gateway, feedFaults>>

Disconnect(s) ==
    /\ subs' = [t \in DOMAIN subs \ {s} |-> subs[t]]
    /\ UNCHANGED <<polls, gateway, feedFaults>>

\* A crash, or a shutdown, which closes every socket first.
GatewayStops ==
    /\ gateway = "up"
    /\ Fault
    /\ gateway' = "down"
    /\ subs' = NoSubs
    /\ polls' = <<>>

GatewayStarts ==
    /\ gateway = "down"
    /\ gateway' = "up"
    /\ UNCHANGED <<subs, polls, feedFaults>>

=============================================================================
