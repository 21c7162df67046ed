------------------------------ MODULE EventStore ------------------------------
(***************************************************************************)
(* What the indexer promises its readers, whatever it does to keep the      *)
(* promise: a store that only grows, holds only entries the chain has       *)
(* logged, and holds each of them once.  Indexer implements it.             *)
(***************************************************************************)
EXTENDS Sequences, SequencesExt

VARIABLES
    logged,  \* the entries of the transactions the chain has confirmed
    stored   \* the entries in the store, in the order they were inserted

storeVars == <<logged, stored>>

Init == logged = {} /\ stored = <<>>

\* A transaction is confirmed, with the entries of its logs.
Log ==
    /\ logged \subseteq logged'
    /\ UNCHANGED stored

\* One logged entry that is not yet in the store is added to it.
Store ==
    /\ \E e \in logged \ ToSet(stored) : stored' = Append(stored, e)
    /\ UNCHANGED logged

Next == Log \/ Store

Spec == Init /\ [][Next]_storeVars

===============================================================================
