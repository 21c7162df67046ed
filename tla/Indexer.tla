-------------------------------- MODULE Indexer --------------------------------
(***************************************************************************)
(* services/indexer: a loop that reads the program's most recent            *)
(* transactions, decodes the events in their logs and inserts them into      *)
(* Postgres.  No cursor is kept: every pass reads the same window again and  *)
(* the primary key (signature, log_index) makes the repetition harmless.     *)
(* Each await of the code is a step of its own, so that the chain grows, a   *)
(* call fails or the process dies between any two of them.                   *)
(***************************************************************************)
EXTENDS Naturals, Sequences, SequencesExt

CONSTANTS
    Signatures,       \* the transactions that may be confirmed
    EventsOf,         \* EventsOf[s]: the events EventParser finds in the logs of s
    SIGNATURE_LIMIT,  \* how many signatures a pass asks for (50 in the code)
    MaxIndexerFaults  \* bound: failed passes and stops of the process

ASSUME IndexerAssumption ==
    /\ SIGNATURE_LIMIT \in Nat \ {0}
    /\ MaxIndexerFaults \in Nat
    /\ \A s \in Signatures : EventsOf[s] \in Seq(Range(EventsOf[s]))

VARIABLES
    confirmed,  \* the chain: the signatures confirmed so far, oldest first
    readable,   \* those whose transaction the RPC node can already return
    tables,     \* the rows of the three tables, in the order of insertion
    process,    \* "down", "asleep" between two passes, or "passing"
    stopping,   \* SIGTERM was received
    todo,       \* the signatures the pass has left, the one it is at first
    fetched,    \* the transaction of the first of them has been fetched
    logIndex,   \* how many of its events have been inserted
    indexerFaults

passVars    == <<todo, fetched, logIndex>>
indexerVars == <<confirmed, readable, tables, process, stopping, passVars,
                 indexerFaults>>

TableOf(name) ==
    CASE name = "tradeRecord"       -> "trades"
      [] name = "fundingRecord"     -> "funding_rates"
      [] name = "liquidationRecord" -> "liquidations"

\* A row of a table: its primary key and the columns decoded from the event.
Row(s, i) == [table |-> TableOf(EventsOf[s][i + 1].name), signature |-> s,
              logIndex |-> i, columns |-> EventsOf[s][i + 1]]

\* The rows the logs of the transactions in S call for.
Entries(S) == UNION {{Row(s, i) : i \in 0 .. Len(EventsOf[s]) - 1} : s \in S}

IndexerTypeOK ==
    /\ confirmed \in Seq(Signatures)
    /\ readable \subseteq ToSet(confirmed)
    /\ tables \in Seq(Entries(Signatures))
    /\ process \in {"down", "asleep", "passing"}
    /\ stopping \in BOOLEAN
    /\ todo \in Seq(Signatures)
    /\ fetched \in BOOLEAN
    /\ logIndex \in Nat
    /\ indexerFaults \in 0 .. MaxIndexerFaults

NoPass == todo = <<>> /\ fetched = FALSE /\ logIndex = 0

IndexerInit ==
    /\ confirmed = <<>>
    /\ readable = {}
    /\ tables = <<>>
    /\ process = "asleep"
    /\ stopping = FALSE
    /\ NoPass
    /\ indexerFaults = 0

---------------------------------------------------------------------------
(* The chain and the RPC node (external).                                  *)

Confirm(s) ==
    /\ s \notin ToSet(confirmed)
    /\ confirmed' = Append(confirmed, s)
    /\ UNCHANGED <<readable, tables, process, stopping, passVars, indexerFaults>>

\* The node lists a signature before it can return the transaction.
BecomesReadable(s) ==
    /\ s \in ToSet(confirmed) \ readable
    /\ readable' = readable \cup {s}
    /\ UNCHANGED <<confirmed, tables, process, stopping, passVars, indexerFaults>>

---------------------------------------------------------------------------
(* The main loop, ingestOnce and insertEvent.                              *)

\* getSignaturesForAddress answers with the newest signatures; the pass visits
\* them oldest first.
Window ==
    IF Len(confirmed) <= SIGNATURE_LIMIT THEN confirmed
    ELSE SubSeq(confirmed, Len(confirmed) - SIGNATURE_LIMIT + 1, Len(confirmed))

BeginPass ==
    /\ process = "asleep"
    /\ ~stopping
    /\ process' = "passing"
    /\ todo' = Window
    /\ UNCHANGED <<confirmed, readable, tables, stopping, fetched, logIndex, indexerFaults>>

\* A transaction the node cannot return yet, or one without events, is passed over.
ReadTransaction ==
    /\ process = "passing"
    /\ todo # <<>> /\ ~fetched
    /\ IF Head(todo) \in readable /\ EventsOf[Head(todo)] # <<>>
       THEN fetched' = TRUE /\ UNCHANGED todo
       ELSE todo' = Tail(todo) /\ UNCHANGED fetched
    /\ UNCHANGED <<confirmed, readable, tables, process, stopping, logIndex, indexerFaults>>

\* mutant of Upsert: a plain insert into tables without keys
InsertAgain(row) == Append(tables, row)

\* mutant of Upsert: the key is the signature alone
UpsertBySignature(row) ==
    IF \E i \in DOMAIN tables : tables[i].signature = row.signature THEN tables
    ELSE Append(tables, row)

\* insert ... on conflict do nothing, the key of each table being
\* (signature, log_index).
Upsert(row) ==
    IF \E i \in DOMAIN tables : /\ tables[i].table = row.table
                                /\ tables[i].signature = row.signature
                                /\ tables[i].logIndex = row.logIndex
    THEN tables
    ELSE Append(tables, row)

InsertEvent ==
    /\ process = "passing"
    /\ fetched
    /\ tables' = Upsert(Row(Head(todo), logIndex))
    /\ IF logIndex + 1 = Len(EventsOf[Head(todo)])
       THEN todo' = Tail(todo) /\ fetched' = FALSE /\ logIndex' = 0
       ELSE logIndex' = logIndex + 1 /\ UNCHANGED <<todo, fetched>>
    /\ UNCHANGED <<confirmed, readable, process, stopping, indexerFaults>>

EndPass ==
    /\ process = "passing"
    /\ todo = <<>>
    /\ process' = "asleep"
    /\ UNCHANGED <<confirmed, readable, tables, stopping, passVars, indexerFaults>>

\* What an exception or the end of the process leaves of a pass: nothing.
Abandon(next) ==
    /\ process' = next
    /\ todo' = <<>> /\ fetched' = FALSE /\ logIndex' = 0
    /\ UNCHANGED <<confirmed, readable, tables>>

\* The node or the database refuses a call: the loop catches it, logs and sleeps.
FailPass ==
    /\ process = "passing"
    /\ indexerFaults < MaxIndexerFaults
    /\ indexerFaults' = indexerFaults + 1
    /\ Abandon("asleep")
    /\ UNCHANGED stopping

---------------------------------------------------------------------------
(* Shutdown, crash and restart.                                            *)

ReceiveSignal ==
    /\ process # "down" /\ ~stopping
    /\ indexerFaults < MaxIndexerFaults
    /\ indexerFaults' = indexerFaults + 1
    /\ stopping' = TRUE
    /\ UNCHANGED <<confirmed, readable, tables, process, passVars>>

\* The loop ends, or a pass still running loses its pool or its ten seconds.
ProcessExits ==
    /\ process # "down" /\ stopping
    /\ stopping' = FALSE
    /\ Abandon("down")
    /\ UNCHANGED indexerFaults

Crash ==
    /\ process # "down"
    /\ indexerFaults < MaxIndexerFaults
    /\ indexerFaults' = indexerFaults + 1
    /\ stopping' = FALSE
    /\ Abandon("down")

\* migrate() creates the tables only where they are missing.
Start ==
    /\ process = "down"
    /\ process' = "asleep"
    /\ UNCHANGED <<confirmed, readable, tables, stopping, passVars, indexerFaults>>

---------------------------------------------------------------------------

Pass == BeginPass \/ ReadTransaction \/ InsertEvent \/ EndPass

IndexerNext ==
    \/ \E s \in Signatures : Confirm(s) \/ BecomesReadable(s)
    \/ Pass \/ FailPass
    \/ ReceiveSignal \/ ProcessExits \/ Crash \/ Start

\* The service never waits for ever: its timer fires, its calls are answered or fail,
\* its host restarts it; and the node catches up with its own list.
Service  == Pass \/ ProcessExits \/ Start
CatchUp  == \E s \in Signatures : BecomesReadable(s)

IndexerFairness == WF_indexerVars(Service) /\ WF_indexerVars(CatchUp)

IndexerSpec == IndexerInit /\ [][IndexerNext]_indexerVars /\ IndexerFairness

---------------------------------------------------------------------------
(* Properties.                                                             *)

Store == INSTANCE EventStore WITH
    logged <- Entries(ToSet(confirmed)), stored <- tables

\* The indexer implements the event store: whatever is re-read after failed passes,
\* transactions the node could not return and restarts, the tables only grow, hold
\* only what confirmed logs hold, and hold no entry twice (schema.sql: "re-ingesting
\* is a no-op").
ImplementsEventStore == Store!Spec

\* No event in the last SIGNATURE_LIMIT transactions is lost for good: when the chain
\* pauses, later passes store what failed passes, restarts and unreadable transactions
\* left out.
WindowIsIndexed ==
    \A s \in Signatures :
        <>[](s \in ToSet(Window) => Entries({s}) \subseteq ToSet(tables))

=============================================================================
