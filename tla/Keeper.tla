-------------------------------- MODULE Keeper --------------------------------
(***************************************************************************)
(* services/keeper: an endless loop of passes.  A pass reads the markets one *)
(* by one, cranking the funding of each, then reads every user account, and  *)
(* sends what that snapshot calls for, one transaction at a time.  Meanwhile *)
(* anybody may send any instruction, so the snapshot grows stale; the        *)
(* program checks every transaction again.                                   *)
(***************************************************************************)
EXTENDS PerpEngine, SequencesExt

CONSTANTS
    MaxMoves,  \* bound: instructions of everybody else, and ticks of the clock
    MaxDrops   \* bound: remote calls of the keeper that fail, and its restarts

ASSUME KeeperAssumption == MaxMoves \in Nat /\ MaxDrops \in Nat

VARIABLES
    phase,   \* where in runOnce the keeper is
    at,      \* the market being read
    seen,    \* numMarkets, market, amm and orders as this pass read them
    plan,    \* calls of the scan over users still to be sent, in order
    left,    \* markets whose orders are still to be matched
    book,    \* bids and asks of the market being matched
    moves,   \* instructions of everybody else so far, those before the keeper started included
    drops    \* failed calls and restarts so far

pass  == <<phase, at, seen, plan, left, book>>
kvars == <<vars, pass, moves, drops>>

Phases == {"idle", "market", "crank", "users", "scan", "match", "pair"}

NothingSeen ==
    [numMarkets |-> 0,
     market |-> [m \in MarketIndexes |-> DefaultMarket],
     amm    |-> [m \in MarketIndexes |-> DefaultAmm],
     orders |-> [u \in Users |-> [s \in OrderSlots |-> DefaultOrder]]]

NoBook == [market |-> 0, bids |-> <<>>, asks |-> <<>>]

IdleKeeper ==
    /\ phase = "idle" /\ at = 0 /\ seen = NothingSeen
    /\ plan = <<>> /\ left = {} /\ book = NoBook

KeeperInit == IdleKeeper /\ drops = 0

\* the pass is over, or a read has thrown: the loop sleeps and starts anew
Rest ==
    /\ phase' = "idle" /\ at' = 0 /\ seen' = NothingSeen
    /\ plan' = <<>> /\ left' = {} /\ book' = NoBook

-----------------------------------------------------------------------------
(* What the snapshot calls for.  Prices are the mark of the market as read.  *)

SeenMarkets    == {m \in MarketIndexes : m < seen.numMarkets}
SeenMark(m)    == MarkPrice(seen.amm[m])
SeenActive(m)  == seen.market[m].status = "Active"
SeenReduces(m) == seen.market[m].status \in {"Active", "ReduceOnly"}

\* mutant of LooksUnsafe: the notional of a short is negative
LooksUnsafeLong(acct, p) ==
    acct.collateral + UnrealizedPnl(p, SeenMark(p.market))
      < MarginRequirement(TruncDiv(p.base * SeenMark(p.market), BASE_PRECISION),
                          seen.market[p.market].mmr)

LooksUnsafe(acct, p) ==
    acct.collateral + UnrealizedPnl(p, SeenMark(p.market))
      < MarginRequirement(PositionNotional(p.base, SeenMark(p.market)),
                          seen.market[p.market].mmr)

\* mutant of LooksDue: above and below are confused
LooksDueTwisted(o) ==
    /\ o.type \in {"TriggerMarket", "TriggerLimit"}
    /\ IF o.cond = "Above" THEN SeenMark(o.market) <= o.trigger
                           ELSE SeenMark(o.market) >= o.trigger

LooksDue(o) ==
    /\ o.type \in {"TriggerMarket", "TriggerLimit"}
    /\ SeenReduces(o.market)
    /\ TriggerFired(o, SeenMark(o.market))

LooksFillable(o) ==
    /\ o.type = "Limit"
    /\ IF o.reduceOnly THEN SeenReduces(o.market) ELSE SeenActive(o.market)
    /\ IF o.dir = "Long" THEN SeenMark(o.market) <= o.price
                         ELSE SeenMark(o.market) >= o.price

Call(kind, u, m, id) == [kind |-> kind, user |-> u, market |-> m, id |-> id]

PositionCalls(u) ==
    LET calls == [s \in PositionSlots |->
                    LET p == positions[u][s]
                    IN  IF p.base # 0 /\ p.market \in SeenMarkets /\ LooksUnsafe(user[u], p)
                        THEN <<Call("Liquidate", u, p.market, 0)>> ELSE <<>>]
    IN  FlattenSeq(calls)

OrderCalls(u) ==
    LET calls == [s \in OrderSlots |->
                    LET o == orders[u][s]
                    IN  IF o.status # "Open" \/ o.market \notin SeenMarkets THEN <<>>
                        ELSE IF LooksDue(o)      THEN <<Call("Trigger", u, o.market, o.id)>>
                        ELSE IF LooksFillable(o) THEN <<Call("Fill", u, o.market, o.id)>>
                        ELSE <<>>]
    IN  FlattenSeq(calls)

-----------------------------------------------------------------------------
(* Reading *)

FetchState ==
    /\ phase = "idle"
    /\ seen' = [seen EXCEPT !.numMarkets = numMarkets]
    /\ phase' = IF numMarkets = 0 THEN "users" ELSE "market"
    /\ UNCHANGED <<vars, at, plan, left, book, moves, drops>>

FetchMarket ==
    /\ phase = "market"
    /\ seen' = [seen EXCEPT !.market[at] = market[at], !.amm[at] = amm[at]]
    /\ phase' = "crank"
    /\ UNCHANGED <<vars, at, plan, left, book, moves, drops>>

\* All users at once, in the order the cluster lists them.  What the scan will
\* send follows from this snapshot alone, so it is planned here.
FetchUsers ==
    /\ phase = "users"
    /\ seen' = [seen EXCEPT !.orders = orders]
    /\ \E listed \in SetToSeqs({u \in Users : user[u].exists}) :
          plan' = FlattenSeq([i \in DOMAIN listed |->
                                PositionCalls(listed[i]) \o OrderCalls(listed[i])])
    /\ phase' = "scan"
    /\ UNCHANGED <<vars, at, left, book, moves, drops>>

\* fetchState, fetchMarket or the read of the users throws
ReadFails ==
    /\ phase \in {"market", "users"}
    /\ drops < MaxDrops
    /\ drops' = drops + 1
    /\ Rest
    /\ UNCHANGED <<vars, moves>>

\* The process dies, or a signal finds the pass still running after ten seconds; the
\* next process knows nothing of the pass.  A signal obeyed between two passes leaves
\* an idle keeper.
Restarts ==
    /\ phase # "idle"
    /\ drops < MaxDrops
    /\ drops' = drops + 1
    /\ Rest
    /\ UNCHANGED <<vars, moves>>

-----------------------------------------------------------------------------
(* Sending *)

\* A transaction takes effect, is refused by the program, or is lost; the keeper
\* logs which and goes on.
Refused == UNCHANGED vars /\ UNCHANGED drops
Lost    == drops < MaxDrops /\ drops' = drops + 1 /\ UNCHANGED vars

CrankFunding ==
    /\ phase = "crank"
    /\ \/ UpdateFundingRate(at) /\ UNCHANGED drops
       \/ ~ENABLED UpdateFundingRate(at) /\ Refused
       \/ Lost
    /\ at' = at + 1
    /\ phase' = IF at + 1 = seen.numMarkets THEN "users" ELSE "market"
    /\ UNCHANGED <<seen, plan, left, book, moves>>

Carried(c) ==
    \/ c.kind = "Liquidate" /\ LiquidatePerp(c.user, c.market, 0)
    \/ c.kind = "Trigger"   /\ TriggerOrder(c.user, c.market, c.id)
    \/ c.kind = "Fill"      /\ FillOrder(c.user, c.market, c.id)

SendCall ==
    /\ phase = "scan"
    /\ plan # <<>>
    /\ \/ Carried(Head(plan)) /\ UNCHANGED drops
       \/ ~ENABLED Carried(Head(plan)) /\ Refused
       \/ Lost
    /\ plan' = Tail(plan)
    /\ UNCHANGED <<phase, at, seen, left, book, moves>>

\* mutant of Rests: reduce-only orders are offered too
RestsAny(o, m) == o.status = "Open" /\ o.type = "Limit" /\ o.market = m

\* an order the third part of the pass offers to others
Rests(o, m) == o.status = "Open" /\ o.type = "Limit" /\ o.market = m /\ ~o.reduceOnly

Resting(m, dir) ==
    LET order(w) == seen.orders[w[1]][w[2]]
    IN  {[user |-> w[1], id |-> order(w).id, price |-> order(w).price] :
            w \in {v \in Users \X OrderSlots : Rests(order(v), m) /\ order(v).dir = dir}}

\* The comparators say nothing sensible of equal prices: any order of them.
Falling(S) == {q \in SetToSeqs(S) : \A i, j \in DOMAIN q : i < j => q[i].price >= q[j].price}
Rising(S)  == {q \in SetToSeqs(S) : \A i, j \in DOMAIN q : i < j => q[i].price <= q[j].price}

BestFirst(m, bids, asks) ==
    bids \in Falling(Resting(m, "Long")) /\ asks \in Rising(Resting(m, "Short"))

Offering(m) == SeenActive(m) /\ (Resting(m, "Long") # {} \/ Resting(m, "Short") # {})

ScanEnds ==
    /\ phase = "scan"
    /\ plan = <<>>
    /\ left' = {m \in SeenMarkets : Offering(m)}
    /\ phase' = "match"
    /\ UNCHANGED <<vars, at, seen, plan, book, moves, drops>>

OpenBook ==
    /\ phase = "match"
    /\ \E m \in left :
       \E bids \in SetToSeqs(Resting(m, "Long")), asks \in SetToSeqs(Resting(m, "Short")) :
          /\ BestFirst(m, bids, asks)
          /\ book' = [market |-> m, bids |-> bids, asks |-> asks]
          /\ left' = left \ {m}
    /\ phase' = "pair"
    /\ UNCHANGED <<vars, at, seen, plan, moves, drops>>

PassEnds ==
    /\ phase = "match"
    /\ left = {}
    /\ Rest
    /\ UNCHANGED <<vars, moves, drops>>

\* what the best bid and the best ask left in the book are to each other
BothLeft    == book.bids # <<>> /\ book.asks # <<>>
OwnPair     == BothLeft /\ Head(book.bids).user = Head(book.asks).user

\* mutant of CrossedPair: equal prices do not cross
StrictlyCrossedPair ==
    /\ BothLeft
    /\ Head(book.bids).user # Head(book.asks).user
    /\ Head(book.bids).price > Head(book.asks).price

CrossedPair == /\ BothLeft
               /\ Head(book.bids).user # Head(book.asks).user
               /\ Head(book.bids).price >= Head(book.asks).price

\* mutant of AskPassedOver: j is not advanced
AskKept(b) == b

AskPassedOver(b) == [b EXCEPT !.asks = Tail(@)]

\* the best bid and the best ask of one user: the ask is passed over
SkipOwnAsk ==
    /\ phase = "pair"
    /\ OwnPair
    /\ book' = AskPassedOver(book)
    /\ UNCHANGED <<vars, phase, at, seen, plan, left, moves, drops>>

SendMatch ==
    LET bid == Head(book.bids)
        ask == Head(book.asks)
        send == MatchOrders(bid.user, ask.user, book.market, bid.id, ask.id)
    IN  /\ phase = "pair"
        /\ CrossedPair
        /\ \/ send /\ UNCHANGED drops
           \/ ~ENABLED send /\ Refused
           \/ Lost
        /\ book' = [book EXCEPT !.bids = Tail(@), !.asks = Tail(@)]
        /\ UNCHANGED <<phase, at, seen, plan, left, moves>>

\* one side is used up, or the best bid is below the best ask
CloseBook ==
    /\ phase = "pair"
    /\ ~OwnPair
    /\ ~CrossedPair
    /\ book' = NoBook
    /\ phase' = "match"
    /\ UNCHANGED <<vars, at, seen, plan, left, moves, drops>>

-----------------------------------------------------------------------------

KeeperStep ==
    \/ FetchState \/ FetchMarket \/ CrankFunding \/ FetchUsers \/ SendCall \/ ScanEnds
    \/ OpenBook \/ SkipOwnAsk \/ SendMatch \/ CloseBook \/ PassEnds
    \/ ReadFails \/ Restarts

\* any instruction of anybody else, another keeper included, and the clock
Others ==
    /\ moves < MaxMoves
    /\ Next
    /\ moves' = moves + 1
    /\ UNCHANGED <<pass, drops>>

KeeperNext == KeeperStep \/ Others

\* a keeper beside the program from its first state on
KeeperRuns == Init /\ KeeperInit /\ moves = 0 /\ [][KeeperNext]_kvars

-----------------------------------------------------------------------------
(* What the loop must achieve.  The others fall silent after MaxMoves, calls *)
(* stop failing after MaxDrops.                                              *)

\* runLoop: no book and no failure holds the keeper up in the middle of a pass.
PassesEnd == []<>(phase = "idle")

\* an account that is unsafe at the mark and that the program would liquidate
LooksUnsafeNow(u, s) ==
    LET p == positions[u][s]
    IN  p.base # 0
        /\ user[u].collateral + UnrealizedPnl(p, MarkPrice(amm[p.market]))
             < MarginRequirement(PositionNotional(p.base, MarkPrice(amm[p.market])),
                                 market[p.market].mmr)

LiquidationDue ==
    \E u \in Users, s \in PositionSlots :
       LooksUnsafeNow(u, s) /\ ENABLED LiquidatePerp(u, positions[u][s].market, 0)

\* a trigger order the mark has crossed and the program would execute
TriggerDue ==
    \E u \in Users, s \in OrderSlots :
       LET o == orders[u][s]
       IN  /\ o.status = "Open" /\ o.type \in {"TriggerMarket", "TriggerLimit"}
           /\ TriggerFired(o, MarkPrice(amm[o.market]))
           /\ ENABLED TriggerOrder(u, o.market, o.id)

\* Again and again no account is left to liquidate and, at the same moment, no trigger
\* order to fire: a failed call, a stale snapshot, another user's order, or the one
\* making the other due by moving the pool, only delays the keeper to a later pass.
NothingDueStays == []<>~(LiquidationDue \/ TriggerDue)

\* order s of x is a bid and order t of y an ask that the program would match
Crossing(x, y, s, t) ==
    /\ orders[x][s].status = "Open" /\ orders[x][s].dir = "Long"
    /\ orders[y][t].status = "Open" /\ orders[y][t].dir = "Short"
    /\ ENABLED MatchOrders(x, y, orders[x][s].market, orders[x][s].id, orders[y][t].id)

\* no other bid is as high and no other ask as low
BestOfBook(x, y, s, t) ==
    \A u \in Users, r \in OrderSlots :
       LET o == orders[u][r]
       IN  Rests(o, orders[x][s].market) =>
              /\ o.dir = "Long"  /\ <<u, r>> # <<x, s>> => o.price < orders[x][s].price
              /\ o.dir = "Short" /\ <<u, r>> # <<y, t>> => o.price > orders[y][t].price

\* The best bid and the best ask of a market do not stand crossed for ever when the
\* program would match them.
BestPairMeets ==
    []<>~(\E x, y \in Users, s, t \in OrderSlots :
             Crossing(x, y, s, t) /\ BestOfBook(x, y, s, t))

\* A transaction of the keeper changes an order only if it is the very order the
\* snapshot showed, however it was filled since, and the one the keeper meant; a slot
\* used again for another order is never mistaken for the one that was read.
SameOrder(o, seenOrder) ==
    /\ seenOrder.status = "Open"
    /\ o.filled >= seenOrder.filled
    /\ seenOrder = [o EXCEPT !.filled = seenOrder.filled]

Meant(u, id) ==
    \/ phase = "scan" /\ Head(plan).user = u /\ Head(plan).id = id
    \/ phase = "pair" /\ \E o \in {Head(book.bids), Head(book.asks)} : o.user = u /\ o.id = id

SeenOrderStep ==
    moves' = moves =>
       \A u \in Users, s \in OrderSlots :
          orders'[u][s] # orders[u][s]
             => /\ Meant(u, orders[u][s].id)
                /\ \E r \in OrderSlots : SameOrder(orders[u][s], seen.orders[u][r])

ActsOnSeenOrder == [][SeenOrderStep]_kvars

\* keeper.ts:124-125 and README.md:63-64: the keeper crosses resting orders "against each
\* other ... partial fills settle over later passes" and so "matches makers": two
\* orders that the program would match do not stay crossed for ever.
CrossedOrdersMeet ==
    []<>~(\E x, y \in Users, s, t \in OrderSlots : Crossing(x, y, s, t))

=============================================================================
