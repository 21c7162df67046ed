------------------------------ MODULE BookBuilder ------------------------------
(***************************************************************************)
(* The order book the book server publishes (services/dlob/src/book.ts): the *)
(* open limit orders of all users, reduce-only or not, summed by price.      *)
(***************************************************************************)
EXTENDS PerpEngine, FiniteSetsExt, SequencesExt

\* The orders of table os on one side of market m's book, as user and slot.
ShownOrders(os, m, dir) ==
    {w \in Users \X OrderSlots :
        LET o == os[w[1]][w[2]]
        IN  /\ o.status = "Open" /\ o.type = "Limit"
            /\ o.market = m /\ o.dir = dir
            /\ RemainingBase(o) > 0}

PriceAt(os, w) == os[w[1]][w[2]].price

\* mutant of SizeAt: what was filled is still shown
WholeSizeAt(os, w) == os[w[1]][w[2]].base

SizeAt(os, w)      == RemainingBase(os[w[1]][w[2]])

\* toLevels: bids from the highest price down, asks from the lowest up.
Ordered(ps, dir) ==
    \A i, j \in DOMAIN ps : i < j => IF dir = "Long" THEN ps[i] > ps[j] ELSE ps[i] < ps[j]

LevelPrices(os, m, dir) ==
    CHOOSE ps \in SetToSeqs({PriceAt(os, w) : w \in ShownOrders(os, m, dir)}) : Ordered(ps, dir)

LevelSize(os, m, dir, price) ==
    LET level == {w \in ShownOrders(os, m, dir) : PriceAt(os, w) = price}
    IN  SumFunction([w \in level |-> SizeAt(os, w)])

Levels(os, m, dir) ==
    LET ps == LevelPrices(os, m, dir)
    IN  [i \in DOMAIN ps |-> [price |-> ps[i], size |-> LevelSize(os, m, dir, ps[i])]]

Depth(levels) == SumFunction([i \in DOMAIN levels |-> levels[i].size])

---------------------------------------------------------------------------
(* Property.                                                               *)

\* Only a match changes the orders of two users in one step.  It takes the same amount
\* off both sides of the book, at prices at which the sides crossed, whatever was
\* filled of either order before; and the levels stay in order, best first, each with
\* something to trade.
MatchTakesBothSides(m) ==
    LET levels(dir) == Levels(orders, m, dir)
        left(dir)   == Levels(orders', m, dir)
        taken(dir)  == Depth(levels(dir)) - Depth(left(dir))
    IN  /\ taken("Long") = taken("Short") /\ taken("Long") > 0
        /\ levels("Long")[1].price >= levels("Short")[1].price
        /\ \A dir \in Directions :
              /\ \A i \in DOMAIN left(dir) : left(dir)[i].size > 0
              /\ Ordered([i \in DOMAIN left(dir) |-> left(dir)[i].price], dir)

MatchesTakeBothSides ==
    [][Cardinality({u \in Users : orders'[u] # orders[u]}) = 2 =>
          \E m \in MarketIndexes : MatchTakesBothSides(m)]_vars

===============================================================================
