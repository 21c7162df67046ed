------------------------------ MODULE FeedProofs ------------------------------
(***************************************************************************)
(* For any number of markets, effects, polls and faults: the trading page    *)
(* takes a snapshot of another market only from a socket that an earlier      *)
(* effect left connecting.                                                  *)
(*                                                                         *)
(* The property is about the moment a snapshot arrives.  What makes it true   *)
(* is an agreement of two processes, FeedInv: a socket in the gateway's table *)
(* is open at an effect of the page, and subscribed to that effect's market. *)
(* The lemmas on sums are those of PerpMathLemmas.                          *)
(***************************************************************************)
EXTENDS LiveFeed, PerpMathLemmas

EffectStates == [market : FeedMarkets, phase : Phases]

SocketsAgree ==
    /\ DOMAIN subs \subseteq DOMAIN effects
    /\ \A g \in DOMAIN subs :
          effects[g].phase = "open" /\ subs[g] = {effects[g].market}

FeedInv == LiveFeedTypeOK /\ SocketsAgree

\* A market has seen no more changes than all of them together.
LEMMA TipWithinChanges ==
    ASSUME tip \in [FeedMarkets -> Tips], NEW m \in FeedMarkets
    PROVE  tip[m] <= SumFunction(tip)
  <1>1. IsFiniteSet(FeedMarkets)
    BY BookServerAssumption
  <1>2. tip \in [FeedMarkets -> Nat]
    BY BookServerAssumption DEF Tips
  <1> QED
    BY <1>1, <1>2, SumOfNats

-----------------------------------------------------------------------------
(* The book server and the gateway alone keep their types. *)

LEMMA FaultType ==
    ASSUME BookServerTypeOK, Fault
    PROVE  feedFaults' \in 0 .. MaxFeedFaults
  BY BookServerAssumption DEF BookServerTypeOK, Fault

LEMMA MarketChangesType ==
    ASSUME BookServerTypeOK, NEW m \in FeedMarkets, MarketChanges(m)
    PROVE  BookServerTypeOK'
  <1>1. tip \in [FeedMarkets -> Tips] /\ SumFunction(tip) < MaxChanges
    BY DEF BookServerTypeOK, MarketChanges
  <1>2. SumFunction(tip) \in Nat
    <2>1. tip \in [FeedMarkets -> Nat] /\ IsFiniteSet(FeedMarkets)
      BY <1>1, BookServerAssumption DEF Tips
    <2> QED
      BY <2>1, SumOfNats
  <1>3. tip[m] <= SumFunction(tip)
    BY <1>1, TipWithinChanges
  <1>4. tip[m] \in Nat /\ MaxChanges \in Nat
    BY <1>1, BookServerAssumption DEF Tips
  <1>5. tip[m] + 1 \in Tips
    BY <1>1, <1>2, <1>3, <1>4 DEF Tips
  <1>6. tip' = [tip EXCEPT ![m] = tip[m] + 1]
    BY DEF MarketChanges
  <1>7. tip' \in [FeedMarkets -> Tips]
    BY <1>1, <1>5, <1>6
  <1> QED
    BY <1>7 DEF MarketChanges, bookVars, BookServerTypeOK

LEMMA RefreshType ==
    ASSUME BookServerTypeOK, NEW i,
           \/ RefreshReads \/ RefreshCompletes(i) \/ RefreshFails(i)
           \/ DlobStops \/ DlobStarts
    PROVE  BookServerTypeOK' /\ tip' = tip
  <1> DEFINE Books == [FeedMarkets -> Tips]
  <1>1. /\ tip \in Books /\ books \in Books /\ refreshes \in Seq(Books)
        /\ Len(refreshes) <= MaxRefreshes /\ Len(refreshes) \in Nat
        /\ MaxRefreshes \in Nat /\ MaxFeedFaults \in Nat
        /\ feedFaults \in 0 .. MaxFeedFaults /\ dlob \in {"up", "down"}
    BY BookServerAssumption DEF BookServerTypeOK
  <1>2. NoBooks \in Books
    BY BookServerAssumption DEF NoBooks, Tips
  <1> HIDE DEF Books
  <1>3. ASSUME i \in DOMAIN refreshes
        PROVE  /\ RemoveAt(refreshes, i) \in Seq(Books)
               /\ Len(RemoveAt(refreshes, i)) <= MaxRefreshes
               /\ refreshes[i] \in Books
    <2>1. /\ RemoveAt(refreshes, i) \in Seq(Books)
          /\ Len(RemoveAt(refreshes, i)) = Len(refreshes) - 1
      BY <1>1, <1>3, RemoveAtType
    <2> QED
      BY <1>1, <1>3, <2>1
  <1>4. /\ tip' \in Books /\ tip' = tip /\ books' \in Books
        /\ refreshes' \in Seq(Books) /\ Len(refreshes') <= MaxRefreshes
        /\ dlob' \in {"up", "down"} /\ feedFaults' \in 0 .. MaxFeedFaults
    <2>1. CASE RefreshReads
      BY <1>1, <2>1 DEF RefreshReads
    <2>2. CASE RefreshCompletes(i)
      BY <1>1, <1>3, <2>2 DEF RefreshCompletes
    <2>3. CASE RefreshFails(i)
      BY <1>1, <1>3, <2>3, FaultType DEF RefreshFails
    <2>4. CASE DlobStops
      BY <1>1, <1>2, <2>4, FaultType DEF DlobStops
    <2>5. CASE DlobStarts
      BY <1>1, <2>5 DEF DlobStarts
    <2> QED
      BY <2>1, <2>2, <2>3, <2>4, <2>5
  <1> QED
    BY <1>4 DEF BookServerTypeOK, Books

\* What a poll reads, the page or the gateway may hold.
LEMMA AnswerType ==
    ASSUME BookServerTypeOK, NEW m \in FeedMarkets
    PROVE  Answer(m) \in Tips \cup {NoData}
  BY DEF BookServerTypeOK, Answer

LEMMA FirstMarketExists == FirstMarket \in FeedMarkets
  <1>1. \E m \in FeedMarkets : \A n \in FeedMarkets : m <= n
    BY BookServerAssumption
  <1> QED
    BY <1>1 DEF FirstMarket

LEMMA PollAtType ==
    ASSUME NEW m \in FeedMarkets
    PROVE  PollAt(m) \in Polls
  BY DEF PollAt, Polls

\* What every step of a poll does to the polls, the rest of the gateway aside.
PollsOK == polls \in Seq(Polls) /\ Len(polls) <= MaxPolls[panel]

LEMMA NextMarketType ==
    ASSUME GatewayTypeOK, NEW i \in DOMAIN polls, NextMarket(i), panel' = panel
    PROVE  PollsOK'
  <1>1. /\ polls \in Seq(Polls) /\ Len(polls) <= MaxPolls[panel]
        /\ MaxPolls[panel] \in Nat /\ Len(polls) \in Nat
    BY GatewayAssumption DEF GatewayTypeOK
  <1>2. CASE polls[i].market + 1 \in FeedMarkets
    <2> DEFINE next == PollAt(polls[i].market + 1)
    <2>1. next \in Polls
      BY <1>2, PollAtType
    <2> HIDE DEF next
    <2>2. polls' = [polls EXCEPT ![i] = next]
      BY <1>2 DEF NextMarket, next
    <2> QED
      BY <1>1, <2>1, <2>2 DEF PollsOK
  <1>3. CASE ~(polls[i].market + 1 \in FeedMarkets)
    <2>1. polls' = RemoveAt(polls, i)
      BY <1>3 DEF NextMarket
    <2>2. RemoveAt(polls, i) \in Seq(Polls) /\ Len(RemoveAt(polls, i)) = Len(polls) - 1
      BY <1>1, RemoveAtType
    <2> QED
      BY <1>1, <2>1, <2>2 DEF PollsOK
  <1> QED
    BY <1>2, <1>3

-----------------------------------------------------------------------------
(* The page. *)

EffectsOK == effects \in Seq(EffectStates) /\ Current \in 1 .. MaxEffects

PageOK ==
    /\ EffectsOK
    /\ snap \in Shots \cup {NoData}
    /\ loads \in Seq([effect : Sockets, data : Tips \cup {NoData}])
    /\ Len(loads) <= MaxLoads[panel]
    /\ polled \in Shots \cup {NoData}
    /\ error \in BOOLEAN

LEMMA PartsOfFeedInv ==
    FeedInv <=> BookServerTypeOK /\ GatewayTypeOK /\ PageOK /\ SocketsAgree
  BY DEF FeedInv, LiveFeedTypeOK, PageOK, EffectsOK, EffectStates

LEMMA SelectedType ==
    ASSUME EffectsOK
    PROVE  /\ Current \in DOMAIN effects /\ Current \in Sockets
           /\ effects[Current] \in EffectStates /\ selected \in FeedMarkets
           /\ DOMAIN effects = 1 .. Current
           /\ DOMAIN effects \subseteq Sockets
  <1>1. /\ effects \in Seq(EffectStates) /\ Current = Len(effects)
        /\ Current \in 1 .. MaxEffects /\ MaxEffects \in Nat /\ Sockets = 1 .. MaxEffects
    BY FeedAssumption DEF EffectsOK, Current
  <1>2. DOMAIN effects = 1 .. Current
    BY <1>1
  <1>3. Current \in DOMAIN effects /\ Current \in Sockets /\ DOMAIN effects \subseteq Sockets
    BY <1>1, <1>2
  <1>4. effects[Current] \in EffectStates
    BY <1>1, <1>3
  <1> QED
    BY <1>2, <1>3, <1>4 DEF selected, EffectStates

LEMMA MovesType ==
    ASSUME EffectsOK, NEW g \in DOMAIN effects, NEW phase \in Phases, Moves(g, phase)
    PROVE  /\ EffectsOK' /\ DOMAIN effects' = DOMAIN effects
           /\ effects'[g].market = effects[g].market /\ effects'[g].phase = phase
           /\ \A h \in DOMAIN effects : h # g => effects'[h] = effects[h]
  <1>1. effects \in Seq(EffectStates) /\ effects[g] \in EffectStates
    BY DEF EffectsOK
  <1> DEFINE moved == [effects[g] EXCEPT !.phase = phase]
  <1>2. moved \in EffectStates /\ moved.phase = phase /\ moved.market = effects[g].market
    BY <1>1 DEF EffectStates
  <1> HIDE DEF moved
  <1>3. effects' = [effects EXCEPT ![g] = moved]
    BY DEF Moves, moved
  <1>4. effects' \in Seq(EffectStates) /\ Len(effects') = Len(effects)
        /\ effects'[g] = moved /\ \A h \in DOMAIN effects : h # g => effects'[h] = effects[h]
    BY <1>1, <1>2, <1>3
  <1>5. DOMAIN effects' = DOMAIN effects
    BY <1>1, <1>4
  <1> QED
    BY <1>2, <1>4, <1>5 DEF EffectsOK, Current

\* An effect without a socket may move anywhere but to a socket.
LEMMA MovesKeepSockets ==
    ASSUME EffectsOK, SocketsAgree, NEW g \in DOMAIN effects, effects[g].phase # "open",
           NEW phase \in Phases, Moves(g, phase), subs' = subs
    PROVE  SocketsAgree'
  <1>1. /\ DOMAIN effects' = DOMAIN effects
        /\ \A h \in DOMAIN effects : h # g => effects'[h] = effects[h]
    BY MovesType
  <1>2. g \notin DOMAIN subs /\ DOMAIN subs \subseteq DOMAIN effects
    BY DEF SocketsAgree
  <1> QED
    BY <1>1, <1>2 DEF SocketsAgree

LEMMA ProbesInv ==
    ASSUME FeedInv, NEW g \in Sockets,
           Page(ProbeEnds(g)) \/ Page(Retry(g)) \/ Page(SocketFails(g))
    PROVE  FeedInv'
  <1>1. /\ BookServerTypeOK /\ GatewayTypeOK /\ PageOK /\ EffectsOK /\ SocketsAgree
    BY PartsOfFeedInv DEF PageOK
  <1>2. /\ UNCHANGED <<tip, panel, bookVars, gatewayVars, feedFaults, snap, loads, polled, error>>
        /\ g \in DOMAIN effects /\ effects[g].phase # "open"
    BY DEF Page, ProbeEnds, Retry, SocketFails, At
  <1>3. \E phase \in Phases : Moves(g, phase)
    <2>1. {"waiting", "connecting", "probing", "gone"} \subseteq Phases
      BY DEF Phases
    <2>2. \E phase \in {"waiting", "connecting", "probing", "gone"} : Moves(g, phase)
      BY DEF Page, ProbeEnds, Retry, SocketFails, WaitOrGone
    <2> QED
      BY <2>1, <2>2
  <1>4. EffectsOK' /\ SocketsAgree'
    BY <1>1, <1>2, <1>3, MovesType, MovesKeepSockets DEF gatewayVars
  <1>5. BookServerTypeOK'
    BY <1>1, <1>2 DEF BookServerTypeOK, bookVars
  <1>6. GatewayTypeOK'
    BY <1>1, <1>2 DEF GatewayTypeOK, gatewayVars
  <1>7. PageOK'
    BY <1>1, <1>2, <1>4 DEF PageOK
  <1> QED
    BY <1>4, <1>5, <1>6, <1>7, PartsOfFeedInv DEF FeedInv, LiveFeedTypeOK, PageOK,
       EffectsOK, EffectStates

LEMMA SocketOpensInv ==
    ASSUME FeedInv, NEW g \in Sockets, Page(SocketOpens(g))
    PROVE  FeedInv'
  <1>1. /\ BookServerTypeOK /\ GatewayTypeOK /\ PageOK /\ EffectsOK /\ SocketsAgree
    BY PartsOfFeedInv DEF PageOK
  <1>2. /\ UNCHANGED <<tip, panel, bookVars, polls, gateway, feedFaults, snap, loads, polled,
                       error>>
        /\ g \in DOMAIN effects /\ effects[g].phase = "connecting"
        /\ Moves(g, "open") /\ "open" \in Phases
        /\ subs' = [t \in DOMAIN subs \cup {g} |->
                       IF t = g THEN {effects[g].market} ELSE subs[t]]
    BY DEF Page, SocketOpens, Subscribe, At, Phases
  <1>3. /\ EffectsOK' /\ DOMAIN effects' = DOMAIN effects
        /\ effects'[g].market = effects[g].market /\ effects'[g].phase = "open"
        /\ \A h \in DOMAIN effects : h # g => effects'[h] = effects[h]
    BY <1>1, <1>2, MovesType
  <1>4. effects[g].market \in FeedMarkets
    <2>1. effects[g] \in EffectStates
      BY <1>1, <1>2 DEF EffectsOK
    <2> QED
      BY <2>1 DEF EffectStates
  <1>5. SocketsAgree'
    BY <1>1, <1>2, <1>3 DEF SocketsAgree
  <1>6. DOMAIN subs' \subseteq Sockets /\ \A s \in DOMAIN subs' : subs'[s] \subseteq FeedMarkets
    BY <1>1, <1>2, <1>4 DEF GatewayTypeOK
  <1>7. BookServerTypeOK'
    BY <1>1, <1>2 DEF BookServerTypeOK, bookVars
  <1>8. GatewayTypeOK'
    BY <1>1, <1>2, <1>6 DEF GatewayTypeOK
  <1>9. PageOK'
    BY <1>1, <1>2, <1>3 DEF PageOK
  <1> QED
    BY <1>5, <1>7, <1>8, <1>9 DEF FeedInv, LiveFeedTypeOK, PageOK, EffectsOK, EffectStates

\* All sockets close at once; the table is empty.
LEMMA SocketsCloseInv ==
    ASSUME FeedInv, Page(SocketsClose)
    PROVE  FeedInv'
  <1>1. /\ BookServerTypeOK /\ GatewayTypeOK /\ PageOK /\ EffectsOK
    BY PartsOfFeedInv DEF PageOK
  <1>2. /\ UNCHANGED <<tip, panel, bookVars, snap, loads, polled, error>>
        /\ gateway' = "down" /\ subs' = NoSubs /\ polls' = <<>> /\ Fault
        /\ effects' = [g \in DOMAIN effects |->
                          IF effects[g].phase = "open"
                          THEN [effects[g] EXCEPT !.phase = WaitOrGone(g)] ELSE effects[g]]
    BY DEF Page, SocketsClose, GatewayStops
  <1>3. \A g \in DOMAIN effects : effects'[g] \in EffectStates
    <2> SUFFICES ASSUME NEW g \in DOMAIN effects PROVE effects'[g] \in EffectStates
      OBVIOUS
    <2>1. effects[g] \in EffectStates /\ WaitOrGone(g) \in Phases
      BY <1>1 DEF EffectsOK, WaitOrGone, Phases
    <2>2. [effects[g] EXCEPT !.phase = WaitOrGone(g)] \in EffectStates
      BY <2>1 DEF EffectStates
    <2> QED
      BY <1>2, <2>1, <2>2
  <1>4. EffectsOK'
    <2>1. effects \in Seq(EffectStates) /\ DOMAIN effects = 1 .. Len(effects)
          /\ Len(effects) \in Nat
      BY <1>1 DEF EffectsOK
    <2>2. effects' \in [1 .. Len(effects) -> EffectStates]
      BY <1>2, <1>3, <2>1
    <2>3. effects' \in Seq(EffectStates) /\ Len(effects') = Len(effects)
      BY <2>1, <2>2
    <2> QED
      BY <1>1, <2>3 DEF EffectsOK, Current
  <1>5. BookServerTypeOK'
    BY <1>1, <1>2, FaultType DEF BookServerTypeOK, bookVars
  <1>6. GatewayTypeOK'
    <2>1. MaxPolls[panel] >= 0
      BY <1>1, GatewayAssumption DEF GatewayTypeOK
    <2>2. polls' \in Seq(Polls) /\ Len(polls') = 0
      BY <1>2
    <2>3. Len(polls') <= MaxPolls[panel]
      BY <2>1, <2>2
    <2> QED
      BY <1>1, <1>2, <2>2, <2>3 DEF GatewayTypeOK, NoSubs
  <1>7. SocketsAgree'
    BY <1>2 DEF SocketsAgree, NoSubs
  <1>8. PageOK'
    BY <1>1, <1>2, <1>4 DEF PageOK
  <1> QED
    BY <1>5, <1>6, <1>7, <1>8 DEF FeedInv, LiveFeedTypeOK, PageOK, EffectsOK, EffectStates

\* The clean-up closes a socket that is open; only one still connecting can open later.
LEMMA SwitchMarketInv ==
    ASSUME FeedInv, NEW m \in FeedMarkets, Page(SwitchMarket(m))
    PROVE  FeedInv'
  <1> DEFINE old    == effects[Current]
             closed == [effects EXCEPT ![Current] = CleanedUp(old)]
  <1>1. /\ BookServerTypeOK /\ GatewayTypeOK /\ PageOK /\ EffectsOK /\ SocketsAgree
    BY PartsOfFeedInv DEF PageOK
  <1>2. /\ UNCHANGED <<tip, panel, bookVars, polls, gateway, feedFaults, loads, polled, error>>
        /\ Current < MaxEffects /\ snap' = NoData
        /\ effects' = Append(closed, Mounted(m))
        /\ subs' = [t \in DOMAIN subs \ {Current} |-> subs[t]]
    BY DEF Page, SwitchMarket, Disconnect
  <1>3. /\ Current \in DOMAIN effects /\ old \in EffectStates
        /\ DOMAIN effects = 1 .. Current
    BY <1>1, SelectedType
  <1>4. CleanedUp(old) \in EffectStates
    <2>1. [old EXCEPT !.phase = "gone"] \in EffectStates
      BY <1>3 DEF EffectStates, Phases
    <2> QED
      BY <1>3, <2>1 DEF CleanedUp
  <1>5. Mounted(m) \in EffectStates
    BY DEF Mounted, EffectStates, Phases
  <1>6. /\ closed \in Seq(EffectStates) /\ Len(closed) = Current /\ Current \in Nat
        /\ \A g \in DOMAIN effects : g # Current => closed[g] = effects[g]
    BY <1>1, <1>3, <1>4 DEF EffectsOK, Current
  <1> HIDE DEF closed, old
  <1>7. /\ effects' \in Seq(EffectStates) /\ Len(effects') = Current + 1
        /\ \A g \in 1 .. Current : effects'[g] = closed[g]
        /\ DOMAIN effects' = 1 .. Current + 1
    BY <1>2, <1>5, <1>6
  <1>8. EffectsOK'
    BY <1>1, <1>2, <1>7, FeedAssumption DEF EffectsOK, Current
  <1>9. \A g \in DOMAIN subs' : /\ g \in DOMAIN subs /\ g # Current /\ subs'[g] = subs[g]
    BY <1>2
  <1>10. \A g \in DOMAIN subs' : g \in DOMAIN effects' /\ effects'[g] = effects[g]
    BY <1>1, <1>3, <1>6, <1>7, <1>9 DEF SocketsAgree
  <1>11. SocketsAgree'
    BY <1>1, <1>9, <1>10 DEF SocketsAgree
  <1>12. BookServerTypeOK'
    BY <1>1, <1>2 DEF BookServerTypeOK, bookVars
  <1>13. GatewayTypeOK'
    BY <1>1, <1>2, <1>9 DEF GatewayTypeOK
  <1>14. PageOK'
    BY <1>1, <1>2, <1>8 DEF PageOK
  <1> QED
    BY <1>11, <1>12, <1>13, <1>14 DEF FeedInv, LiveFeedTypeOK, PageOK, EffectsOK, EffectStates

LEMMA SnapshotArrivesInv ==
    ASSUME FeedInv, NEW i, Page(SnapshotArrives(i))
    PROVE  FeedInv'
  <1> DEFINE m == polls[i].market
             d == polls[i].data
  <1>1. /\ BookServerTypeOK /\ GatewayTypeOK /\ PageOK /\ EffectsOK /\ SocketsAgree
    BY PartsOfFeedInv DEF PageOK
  <1>2. /\ UNCHANGED <<tip, panel, bookVars, subs, gateway, feedFaults, effects, loads, polled,
                       error>>
        /\ i \in DOMAIN polls /\ NextMarket(i)
        /\ snap' = snap \/ snap' = Shot(m, d)
    BY DEF Page, SnapshotArrives, PollSends
  <1>3. polls[i] \in Polls
    BY <1>1, <1>2 DEF GatewayTypeOK
  <1>4. m \in FeedMarkets /\ d \in Tips \cup {NoData}
    BY <1>3 DEF Polls
  <1>5. Shot(m, d) \in Shots
    BY <1>4 DEF Shots
  <1>6. PollsOK'
    BY <1>1, <1>2, NextMarketType
  <1> HIDE DEF m, d
  <1>7. BookServerTypeOK'
    BY <1>1, <1>2 DEF BookServerTypeOK, bookVars
  <1>8. GatewayTypeOK'
    BY <1>1, <1>2, <1>6 DEF GatewayTypeOK, PollsOK
  <1>9. SocketsAgree'
    BY <1>1, <1>2 DEF SocketsAgree
  <1>10. PageOK'
    BY <1>1, <1>2, <1>5 DEF PageOK, EffectsOK, Current
  <1> QED
    BY <1>7, <1>8, <1>9, <1>10 DEF FeedInv, LiveFeedTypeOK, PageOK, EffectsOK, EffectStates

LEMMA LoadsInv ==
    ASSUME FeedInv, NEW i, Page(LoadAsks) \/ Page(LoadArrives(i)) \/ Page(LoadFails(i))
    PROVE  FeedInv'
  <1> DEFINE Loads == [effect : Sockets, data : Tips \cup {NoData}]
  <1>1. /\ BookServerTypeOK /\ GatewayTypeOK /\ PageOK /\ EffectsOK /\ SocketsAgree
    BY PartsOfFeedInv DEF PageOK
  <1>2. UNCHANGED <<tip, panel, bookVars, gatewayVars, effects, snap>>
    BY DEF Page, LoadAsks, LoadArrives, LoadFails
  <1>3. /\ loads \in Seq(Loads) /\ Len(loads) <= MaxLoads[panel]
        /\ Len(loads) \in Nat /\ MaxLoads[panel] \in Nat
        /\ feedFaults \in 0 .. MaxFeedFaults
        /\ polled \in Shots \cup {NoData} /\ error \in BOOLEAN
    BY <1>1, FeedAssumption DEF PageOK, GatewayTypeOK, BookServerTypeOK
  <1>4. \A d \in Tips \cup {NoData} : Shot(selected, d) \in Shots
    BY <1>1, SelectedType DEF Shots
  <1>5. /\ loads' \in Seq(Loads) /\ Len(loads') <= MaxLoads[panel]
        /\ feedFaults' \in 0 .. MaxFeedFaults
        /\ polled' \in Shots \cup {NoData} /\ error' \in BOOLEAN
    <2>1. CASE Page(LoadAsks)
      <3> DEFINE load == [effect |-> Current, data |-> Answer(selected)]
      <3>1. load \in Loads
        BY <1>1, SelectedType, AnswerType
      <3>2. /\ loads' = Append(loads, load) /\ Len(loads) < MaxLoads[panel]
            /\ UNCHANGED <<feedFaults, polled, error>>
        BY <2>1 DEF Page, LoadAsks
      <3> HIDE DEF load, Loads
      <3>3. loads' \in Seq(Loads) /\ Len(loads') = Len(loads) + 1
        BY <1>3, <3>1, <3>2
      <3> QED
        BY <1>3, <3>2, <3>3
    <2>2. CASE Page(LoadArrives(i))
      <3>1. /\ i \in DOMAIN loads /\ loads' = RemoveAt(loads, i) /\ feedFaults' = feedFaults
            /\ Loaded(loads[i].data) \/ UNCHANGED <<polled, error>>
        BY <2>2 DEF Page, LoadArrives
      <3> HIDE DEF Loads
      <3>2. loads[i] \in Loads
        BY <1>3, <3>1
      <3> USE DEF Loads
      <3>3. loads[i].data \in Tips \cup {NoData}
        BY <3>2
      <3> HIDE DEF Loads
      <3>4. RemoveAt(loads, i) \in Seq(Loads) /\ Len(RemoveAt(loads, i)) = Len(loads) - 1
        BY <1>3, <3>1, RemoveAtType
      <3>5. polled' \in Shots \cup {NoData} /\ error' \in BOOLEAN
        BY <1>3, <1>4, <3>1, <3>3 DEF Loaded
      <3> QED
        BY <1>3, <3>1, <3>4, <3>5
    <2>3. CASE Page(LoadFails(i))
      <3>1. /\ i \in DOMAIN loads /\ Fault /\ UNCHANGED <<polled, error>>
            /\ loads' = [loads EXCEPT ![i].data = NoData]
        BY <2>3 DEF Page, LoadFails
      <3> DEFINE failed == [loads[i] EXCEPT !.data = NoData]
      <3> HIDE DEF Loads
      <3>2. loads[i] \in Loads
        BY <1>3, <3>1
      <3> USE DEF Loads
      <3>3. failed \in Loads
        BY <3>2
      <3>4. loads' = [loads EXCEPT ![i] = failed]
        BY <3>1
      <3> HIDE DEF failed, Loads
      <3>5. loads' \in Seq(Loads) /\ Len(loads') = Len(loads)
        BY <1>3, <3>1, <3>3, <3>4
      <3> QED
        BY <1>1, <1>3, <3>1, <3>5, FaultType
    <2> QED
      BY <2>1, <2>2, <2>3
  <1>6. BookServerTypeOK'
    BY <1>1, <1>2, <1>5 DEF BookServerTypeOK, bookVars
  <1>7. GatewayTypeOK' /\ SocketsAgree'
    BY <1>1, <1>2 DEF GatewayTypeOK, SocketsAgree, gatewayVars
  <1>8. PageOK'
    BY <1>1, <1>2, <1>5 DEF PageOK, EffectsOK, Current
  <1> QED
    BY <1>6, <1>7, <1>8 DEF FeedInv, LiveFeedTypeOK, PageOK, EffectsOK, EffectStates

LEMMA GateInv ==
    ASSUME FeedInv, NEW i,
           Gate(StartPoll) \/ Gate(GatewayStarts) \/ Gate(PollReads(i)) \/ Gate(PollSkips(i))
    PROVE  FeedInv'
  <1>1. /\ BookServerTypeOK /\ GatewayTypeOK /\ PageOK /\ EffectsOK /\ SocketsAgree
    BY PartsOfFeedInv DEF PageOK
  <1>2. UNCHANGED <<tip, panel, bookVars, subs, effects, snap, loads, polled, error>>
    BY DEF Gate, StartPoll, GatewayStarts, PollReads, PollSkips, panelVars
  <1>3. /\ polls \in Seq(Polls) /\ Len(polls) <= MaxPolls[panel]
        /\ Len(polls) \in Nat /\ MaxPolls[panel] \in Nat
        /\ feedFaults \in 0 .. MaxFeedFaults /\ gateway \in {"up", "down"}
    BY <1>1, GatewayAssumption DEF GatewayTypeOK, BookServerTypeOK
  <1>4. /\ PollsOK' /\ gateway' \in {"up", "down"} /\ feedFaults' \in 0 .. MaxFeedFaults
    <2>1. CASE Gate(StartPoll)
      <3>1. /\ polls' = Append(polls, PollAt(FirstMarket)) /\ Len(polls) < MaxPolls[panel]
            /\ UNCHANGED <<gateway, feedFaults>>
        BY <2>1 DEF Gate, StartPoll
      <3>2. PollAt(FirstMarket) \in Polls
        BY FirstMarketExists, PollAtType
      <3>3. polls' \in Seq(Polls) /\ Len(polls') = Len(polls) + 1
        BY <1>3, <3>1, <3>2
      <3> QED
        BY <1>2, <1>3, <3>1, <3>3 DEF PollsOK
    <2>2. CASE Gate(GatewayStarts)
      BY <1>2, <1>3, <2>2 DEF Gate, GatewayStarts, PollsOK
    <2>3. CASE Gate(PollReads(i))
      <3> DEFINE read == [polls[i] EXCEPT !.read = TRUE, !.data = Answer(polls[i].market)]
      <3>1. /\ i \in DOMAIN polls /\ UNCHANGED <<gateway, feedFaults>>
            /\ polls' = [polls EXCEPT ![i].read = TRUE, ![i].data = Answer(polls[i].market)]
        BY <2>3 DEF Gate, PollReads
      <3>2. polls[i] \in Polls
        BY <1>3, <3>1
      <3>3. polls[i].market \in FeedMarkets
        BY <3>2 DEF Polls
      <3>4. Answer(polls[i].market) \in Tips \cup {NoData}
        BY <1>1, <3>3, AnswerType
      <3>5. read \in Polls
        BY <3>2, <3>4 DEF Polls
      <3>6. polls' = [polls EXCEPT ![i] = read]
        BY <1>3, <3>1
      <3> HIDE DEF read
      <3>7. polls \in Seq(Polls) /\ i \in DOMAIN polls /\ read \in Polls
        BY <1>3, <3>1, <3>5
      <3>8. polls' \in Seq(Polls) /\ Len(polls') = Len(polls)
        BY <3>6, <3>7
      <3> QED
        BY <1>2, <1>3, <3>1, <3>8 DEF PollsOK
    <2>4. CASE Gate(PollSkips(i))
      BY <1>1, <1>2, <1>3, <2>4, NextMarketType, FaultType DEF Gate, PollSkips
    <2> QED
      BY <2>1, <2>2, <2>3, <2>4
  <1>5. BookServerTypeOK'
    BY <1>1, <1>2, <1>4 DEF BookServerTypeOK, bookVars
  <1>6. GatewayTypeOK' /\ SocketsAgree'
    BY <1>1, <1>2, <1>4 DEF GatewayTypeOK, SocketsAgree, PollsOK
  <1>7. PageOK'
    BY <1>1, <1>2 DEF PageOK, EffectsOK, Current
  <1> QED
    BY <1>5, <1>6, <1>7 DEF FeedInv, LiveFeedTypeOK, PageOK, EffectsOK, EffectStates

\* The chain and the book server do not touch the page or the gateway.
LEMMA BehindInv ==
    ASSUME FeedInv, UNCHANGED <<panel, gatewayVars, panelVars>>, BookServerTypeOK'
    PROVE  FeedInv'
  BY DEF FeedInv, LiveFeedTypeOK, GatewayTypeOK, SocketsAgree, gatewayVars, panelVars, Current

LEMMA FeedInitInv == LiveFeedInit => FeedInv
  <1> SUFFICES ASSUME LiveFeedInit PROVE FeedInv
    OBVIOUS
  <1>1. BookServerTypeOK
    BY BookServerAssumption DEF LiveFeedInit, BookServerInit, BookServerTypeOK, NoBooks, Tips
  <1>2. GatewayTypeOK
    <2>1. panel \in Panels /\ subs = NoSubs /\ polls = <<>> /\ gateway = "up"
      BY DEF LiveFeedInit, GatewayInit
    <2>2. MaxPolls[panel] \in Nat
      BY <2>1, GatewayAssumption
    <2>3. polls \in Seq(Polls) /\ Len(polls) <= MaxPolls[panel]
      BY <2>1, <2>2
    <2> QED
      BY <2>1, <2>3 DEF GatewayTypeOK, NoSubs
  <1>3. PageOK
    <2>1. /\ effects = <<Mounted(FirstMarket)>> /\ snap = NoData /\ loads = <<>>
          /\ polled = NoData /\ error = FALSE
      BY DEF LiveFeedInit
    <2>2. Mounted(FirstMarket) \in EffectStates
      BY FirstMarketExists DEF Mounted, EffectStates, Phases
    <2>3. effects \in Seq(EffectStates) /\ Len(effects) = 1
      BY <2>1, <2>2
    <2>4. EffectsOK
      BY <2>3, FeedAssumption DEF EffectsOK, Current
    <2>5. MaxLoads[panel] \in Nat
      BY <1>2, FeedAssumption DEF GatewayTypeOK
    <2>6. /\ loads \in Seq([effect : Sockets, data : Tips \cup {NoData}])
          /\ Len(loads) <= MaxLoads[panel]
      BY <2>1, <2>5
    <2> QED
      BY <2>1, <2>4, <2>6 DEF PageOK
  <1>4. SocketsAgree
    BY DEF LiveFeedInit, GatewayInit, SocketsAgree, NoSubs
  <1> QED
    BY <1>1, <1>2, <1>3, <1>4, PartsOfFeedInv

LEMMA FeedNextInv == FeedInv /\ [LiveFeedNext]_feedVars => FeedInv'
  <1> SUFFICES ASSUME FeedInv, [LiveFeedNext]_feedVars PROVE FeedInv'
    OBVIOUS
  <1>1. BookServerTypeOK
    BY DEF FeedInv, LiveFeedTypeOK
  <1>2. ASSUME NEW m \in FeedMarkets, Chain(MarketChanges(m)) PROVE FeedInv'
    BY <1>1, <1>2, MarketChangesType, BehindInv DEF Chain
  <1>3. ASSUME NEW i, \/ Dlob(RefreshReads) \/ Dlob(DlobStops) \/ Dlob(DlobStarts)
                      \/ Dlob(RefreshCompletes(i)) \/ Dlob(RefreshFails(i))
        PROVE  FeedInv'
    <2>1. \/ RefreshReads \/ RefreshCompletes(i) \/ RefreshFails(i)
          \/ DlobStops \/ DlobStarts
      BY <1>3 DEF Dlob
    <2>2. BookServerTypeOK'
      BY <1>1, <2>1, RefreshType
    <2>3. UNCHANGED <<panel, gatewayVars, panelVars>>
      BY <1>3 DEF Dlob
    <2> QED
      BY <2>2, <2>3, BehindInv
  <1>4. CASE UNCHANGED feedVars
    <2>1. BookServerTypeOK'
      BY <1>1, <1>4 DEF feedVars, bookVars, BookServerTypeOK
    <2> QED
      BY <1>4, <2>1, BehindInv DEF feedVars
  <1> QED
    BY <1>2, <1>3, <1>4, GateInv, LoadsInv, SnapshotArrivesInv, SwitchMarketInv,
       SocketsCloseInv, SocketOpensInv, ProbesInv DEF LiveFeedNext

\* Every reachable state has the layout of the three processes: an answer is of a market
\* that exists, a socket belongs to an effect, and queues respect their bounds.
THEOREM FeedTypeCorrect == LiveFeedSpec => []LiveFeedTypeOK
  <1>1. FeedInv => LiveFeedTypeOK
    BY DEF FeedInv
  <1> QED
    BY <1>1, FeedInitInv, FeedNextInv, PTL DEF LiveFeedSpec

MisleadStep == snap' # snap /\ snap' # NoData /\ snap'.market # selected => Orphans # {}

\* Only a snapshot that arrives changes what the hook shows to another snapshot, and the
\* gateway sends it only if a socket is open at an effect of its market.
LEMMA MisleadByOrphan ==
    ASSUME FeedInv, [LiveFeedNext]_feedVars
    PROVE  MisleadStep
  <1> SUFFICES ASSUME snap' # snap, snap' # NoData, snap'.market # selected
               PROVE  Orphans # {}
    BY DEF MisleadStep
  <1>1. PICK i \in Slots : Page(SnapshotArrives(i))
    <2>1. \A m : ~Chain(MarketChanges(m)) /\ ~Page(SwitchMarket(m))
      BY DEF Chain, panelVars, Page, SwitchMarket
    <2>2. /\ ~Dlob(RefreshReads) /\ ~Dlob(DlobStops) /\ ~Dlob(DlobStarts)
          /\ \A i : ~Dlob(RefreshCompletes(i)) /\ ~Dlob(RefreshFails(i))
      BY DEF Dlob, panelVars
    <2>3. /\ ~Gate(StartPoll) /\ ~Gate(GatewayStarts) /\ ~Page(SocketsClose)
          /\ \A i : ~Gate(PollReads(i)) /\ ~Gate(PollSkips(i))
      BY DEF Gate, panelVars, Page, SocketsClose
    <2>4. \A g : /\ ~Page(ProbeEnds(g)) /\ ~Page(Retry(g))
                 /\ ~Page(SocketOpens(g)) /\ ~Page(SocketFails(g))
      BY DEF Page, ProbeEnds, Retry, SocketOpens, SocketFails
    <2>5. ~Page(LoadAsks) /\ \A i : ~Page(LoadArrives(i)) /\ ~Page(LoadFails(i))
      BY DEF Page, LoadAsks, LoadArrives, LoadFails
    <2>6. ~UNCHANGED feedVars
      BY DEF feedVars, panelVars
    <2> QED
      BY <2>1, <2>2, <2>3, <2>4, <2>5, <2>6 DEF LiveFeedNext
  <1> DEFINE m == polls[i].market
  <1>2. snap' = Shot(m, polls[i].data) /\ Subscribers(m) # {}
    BY <1>1 DEF Page, SnapshotArrives
  <1>3. m # selected
    BY <1>2 DEF Shot
  <1>4. PICK g \in DOMAIN subs : m \in subs[g]
    BY <1>2 DEF Subscribers
  <1>5. g \in DOMAIN effects /\ effects[g].phase = "open" /\ effects[g].market = m
    BY <1>4 DEF FeedInv, SocketsAgree
  <1>6. g # Current
    BY <1>3, <1>5 DEF selected
  <1> QED
    BY <1>5, <1>6 DEF Orphans

\* Whatever order polls end in, however the gateway restarts and whenever the market is
\* switched: the hook takes a snapshot of another market only from a socket that an
\* earlier effect left connecting.
THEOREM OnlyOrphansEverMislead == LiveFeedSpec => OnlyOrphansMislead
  <1>1. FeedInv /\ [LiveFeedNext]_feedVars => [MisleadStep]_feedVars
    BY MisleadByOrphan
  <1>2. [MisleadStep]_feedVars <=> [snap' # snap /\ snap' # NoData /\ snap'.market # selected
                                       => Orphans # {}]_feedVars
    BY DEF MisleadStep
  <1> QED
    BY <1>1, <1>2, FeedInitInv, FeedNextInv, PTL DEF LiveFeedSpec, OnlyOrphansMislead

=============================================================================
