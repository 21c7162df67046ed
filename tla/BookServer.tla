------------------------------ MODULE BookServer ------------------------------
(***************************************************************************)
(* services/dlob: the order books of all markets, rebuilt from the program's *)
(* user accounts every refreshMs and served from memory in between.  The     *)
(* timer does not wait for the refresh before: slow refreshes overlap, and   *)
(* the one that ends last is published, whichever read the chain last.       *)
(*                                                                         *)
(* What a book contains is BookBuilder's matter.  Here a book is the number  *)
(* of changes its market had seen when the accounts were read.               *)
(***************************************************************************)
EXTENDS Integers, Sequences, SequencesExt

CONSTANTS
    FeedMarkets,   \* market indexes
    MaxChanges,    \* bound: changes of all the markets
    MaxRefreshes,  \* bound: refreshes under way at a time
    MaxFeedFaults  \* bound: failed calls and stops of processes

ASSUME BookServerAssumption ==
    /\ FeedMarkets \subseteq Nat /\ 0 \in FeedMarkets /\ IsFiniteSet(FeedMarkets)
    /\ {MaxChanges, MaxRefreshes, MaxFeedFaults} \subseteq Nat

VARIABLES
    tip,        \* tip[m]: the changes market m has seen (external: the chain)
    books,      \* books[m]: the change the cached book of m was read at
    refreshes,  \* what the refreshes under way have read, oldest first
    dlob,       \* "up" or "down"
    feedFaults

bookVars == <<books, refreshes, dlob>>

Tips == 0 .. MaxChanges
Fault == feedFaults < MaxFeedFaults /\ feedFaults' = feedFaults + 1

BookServerTypeOK ==
    /\ tip \in [FeedMarkets -> Tips]
    /\ books \in [FeedMarkets -> Tips]
    /\ refreshes \in Seq([FeedMarkets -> Tips]) /\ Len(refreshes) <= MaxRefreshes
    /\ dlob \in {"up", "down"}
    /\ feedFaults \in 0 .. MaxFeedFaults

\* No market has orders at change 0, and an empty map serves an empty book for each.
NoBooks == [m \in FeedMarkets |-> 0]

BookServerInit ==
    /\ tip = [m \in FeedMarkets |-> 0]
    /\ books = NoBooks
    /\ refreshes = <<>>
    /\ dlob = "up"
    /\ feedFaults = 0

\* An order or a trade changes a market (external).
MarketChanges(m) ==
    /\ SumFunction(tip) < MaxChanges
    /\ tip' = [tip EXCEPT ![m] = @ + 1]
    /\ UNCHANGED <<bookVars, feedFaults>>

\* The timer starts a refresh; the node answers with the accounts as they are.
RefreshReads ==
    /\ dlob = "up"
    /\ Len(refreshes) < MaxRefreshes
    /\ refreshes' = Append(refreshes, tip)
    /\ UNCHANGED <<tip, books, dlob, feedFaults>>

\* The answer of any of them arrives and replaces all the books.
RefreshCompletes(i) ==
    /\ i \in DOMAIN refreshes
    /\ books' = refreshes[i]
    /\ refreshes' = RemoveAt(refreshes, i)
    /\ UNCHANGED <<tip, dlob, feedFaults>>

\* A failed refresh is logged and leaves the books as they are.
RefreshFails(i) ==
    /\ i \in DOMAIN refreshes
    /\ Fault
    /\ refreshes' = RemoveAt(refreshes, i)
    /\ UNCHANGED <<tip, books, dlob>>

\* A crash or a shutdown; what was cached and under way is gone.
DlobStops ==
    /\ dlob = "up"
    /\ Fault
    /\ dlob' = "down"
    /\ books' = NoBooks
    /\ refreshes' = <<>>
    /\ UNCHANGED tip

DlobStarts ==
    /\ dlob = "down"
    /\ dlob' = "up"
    /\ UNCHANGED <<tip, books, refreshes, feedFaults>>

=============================================================================
