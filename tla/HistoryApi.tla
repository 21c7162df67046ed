------------------------------ MODULE HistoryApi ------------------------------
(***************************************************************************)
(* What the indexer's REST service answers from the tables: the newest rows  *)
(* of a market and the candles of its trades (api.ts, candles.ts).  Every     *)
(* answer is one query, so it is a function of the tables as they are; where  *)
(* the query leaves the order of rows open, it is any of several answers.    *)
(***************************************************************************)
EXTENDS Indexer, FiniteSets, FiniteSetsExt

CONSTANTS
    TextOrder,      \* TextOrder[s]: the place of signature s among all, as text
    MILLISECONDS,   \* 1000 in the code
    Resolutions,    \* what readers ask for: seconds of a candle
    Limits          \* and how many candles or rows

ASSUME HistoryAssumption ==
    /\ MILLISECONDS \in Nat \ {0}
    /\ Resolutions \subseteq Nat \ {0}
    /\ Limits \subseteq Nat \ {0}
    /\ \A s \in Signatures : TextOrder[s] \in Nat
    /\ \A s, t \in Signatures : TextOrder[s] = TextOrder[t] => s = t
    \* events.rs: the events with a row, the unsigned fields, and the time of a clock
    /\ \A s \in Signatures : \A i \in DOMAIN EventsOf[s] :
          LET e == EventsOf[s][i]
          IN  /\ e.name \in {"tradeRecord", "fundingRecord", "liquidationRecord"}
              /\ e.ts \in Nat
              /\ e.name = "tradeRecord" => e.price \in Nat /\ e.base \in Nat

RowsOf(table, m, rows) == {r \in ToSet(rows) : r.table = table /\ r.columns.market = m}

\* where market_index = m order by ts desc limit n: sets of rows, of which those of
\* equal time may come in any order and any of the oldest may be left out.
PagesOf(table, m, n, rows) ==
    LET all == RowsOf(table, m, rows)
    IN  {page \in SUBSET all :
            /\ Cardinality(page) = (IF Cardinality(all) < n THEN Cardinality(all) ELSE n)
            /\ \A r \in page, other \in all \ page : r.columns.ts >= other.columns.ts}

\* ts / (resolution * 1000) * resolution
Bucket(row, resolution) ==
    (row.columns.ts \div (resolution * MILLISECONDS)) * resolution

\* order by ts, signature, log_index
Before(r, q) ==
    \/ r.columns.ts < q.columns.ts
    \/ r.columns.ts = q.columns.ts /\ TextOrder[r.signature] < TextOrder[q.signature]
    \/ r.columns.ts = q.columns.ts /\ r.signature = q.signature /\ r.logIndex < q.logIndex

PricesOf(S)  == {r.columns.price : r \in S}
Volume(S)    == SumFunction([r \in S |-> r.columns.base])

Candle(time, S) ==
    [time   |-> time,
     open   |-> (CHOOSE r \in S : \A q \in S \ {r} : Before(r, q)).columns.price,
     high   |-> Max(PricesOf(S)),
     low    |-> Min(PricesOf(S)),
     close  |-> (CHOOSE r \in S : \A q \in S \ {r} : Before(q, r)).columns.price,
     volume |-> Volume(S)]

\* mutant of NewestOf: ascending order, and so the oldest buckets
OldestOf(times, n) == {t \in times : Cardinality({u \in times : u < t}) < n}

\* The n newest buckets.
NewestOf(times, n) == {t \in times : Cardinality({u \in times : u > t}) < n}

CandlesOf(m, resolution, n, rows) ==
    LET trades == RowsOf("trades", m, rows)
        times  == NewestOf({Bucket(r, resolution) : r \in trades}, n)
    IN  {Candle(t, {r \in trades : Bucket(r, resolution) = t}) : t \in times}

---------------------------------------------------------------------------
(* Properties.                                                             *)

Asked == {0, 1} \X Resolutions \X Limits

\* Rows arrive late and out of order, after passes that failed and transactions that
\* could not be read.  A candle that was served is served again only with at least its
\* range and its volume, and is gone only when that many newer ones are served.
ServedCandlesOnlyWiden ==
    [][\A q \in Asked :
          LET now  == CandlesOf(q[1], q[2], q[3], tables)
              then == CandlesOf(q[1], q[2], q[3], tables')
          IN  \A c \in now :
                 \/ \E d \in then : /\ d.time = c.time /\ d.volume >= c.volume
                                    /\ c.low \in d.low .. d.high /\ c.high \in d.low .. d.high
                 \/ Cardinality({d \in then : d.time > c.time}) = q[3]]_tables

\* The trades a page lists and the candles drawn beside it come from two queries of
\* the same tables: with one limit for both, every listed trade lies in a candle that
\* is drawn, and the newest candle closes at a trade no listed one is newer than.
PageAndCandlesAgree ==
    \A q \in Asked :
        LET served == CandlesOf(q[1], q[2], q[3], tables)
        IN  \A page \in PagesOf("trades", q[1], q[3], tables) :
               page # {} =>
                  /\ \A r \in page : \E c \in served :
                        c.time = Bucket(r, q[2]) /\ r.columns.price \in c.low .. c.high
                  /\ \E r \in page, c \in served :
                        /\ \A d \in served : c.time >= d.time
                        /\ \A other \in page : r.columns.ts >= other.columns.ts
                        /\ \E x \in RowsOf("trades", q[1], tables) :
                              x.columns.ts = r.columns.ts /\ x.columns.price = c.close

\* candles.ts:1: "bucket trades by `resolution` seconds".
CandlesHoldTheirTrades ==
    \A q \in Asked : \A r \in RowsOf("trades", q[1], tables) :
        r.columns.ts \in Bucket(r, q[2]) .. Bucket(r, q[2]) + q[2] - 1

===============================================================================
