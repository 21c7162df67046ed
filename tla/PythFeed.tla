-------------------------------- MODULE PythFeed --------------------------------
(***************************************************************************)
(* The price of a market that is not run on the mock account: a Pyth update   *)
(* account that anybody may overwrite with another signed update, and what    *)
(* oracle.rs makes of it.  Its value is a mantissa times a power of ten; the   *)
(* program holds prices in units of 10^-PRICE_EXPONENT.                      *)
(***************************************************************************)
EXTENDS PerpMath

CONSTANTS
    PRICE_EXPONENT,      \* log10 of PRICE_PRECISION
    MaxFeedAge,          \* State.max_oracle_staleness_seconds
    MaxFeedConfBps,      \* State.max_oracle_confidence_bps
    Feeds, MarketFeed,   \* feed ids, and the market's
    Mantissas, Exponents, FeedConfs,
    LastSecond           \* bound: when time stops

ASSUME FeedAssumption ==
    /\ PRICE_EXPONENT \in Nat /\ MarketFeed \in Feeds /\ Mantissas \subseteq Int /\ Exponents \subseteq Int
    /\ FeedConfs \subseteq Nat /\ MaxFeedConfBps \in Nat
    /\ {MaxFeedAge, LastSecond} \subseteq Int

VARIABLES
    update,   \* the PriceUpdateV2 account
    now       \* the cluster's clock

feedVars == <<update, now>>

Updates(t) ==
    [feed : Feeds, price : Mantissas, conf : FeedConfs, exponent : Exponents, at : {t}]

PythInit == now = 0 /\ update \in Updates(0)

\* Pyth's receiver stores any signed update; it may have been published a while ago, or
\* by a clock a second ahead of the cluster's.
Post ==
    /\ \E t \in now - 1 .. now + 1 : update' \in Updates(t)
    /\ UNCHANGED now

Second == now < LastSecond /\ now' = now + 1 /\ UNCHANGED update

PythNext == Post \/ Second

PythSpec == PythInit /\ [][PythNext]_feedVars

---------------------------------------------------------------------------
(* oracle.rs.                                                              *)

TargetExponent(u) == u.exponent + PRICE_EXPONENT

\* 10u128.checked_pow(k)
PowerOfTen[k \in Nat] == IF k = 0 THEN 1 ELSE 10 * PowerOfTen[k - 1]

\* normalize_to_price_precision
Normalized(value, u) ==
    LET t == TargetExponent(u)
    IN  IF t >= 0 THEN value * PowerOfTen[t] ELSE value \div PowerOfTen[-t]

\* mutant of NormalizedConf: the interval is compared in the feed's own exponent
RawConf(u) == u.conf

NormalizedConf(u) == Normalized(u.conf, u)

\* get_oracle_price succeeds.  get_price_no_older_than accepts an update from the future.
PythUsable(u) ==
    /\ u.feed = MarketFeed
    /\ u.at + MaxFeedAge >= now
    /\ u.price > 0
    /\ NormalizedConf(u) <= (Normalized(u.price, u) * MaxFeedConfBps) \div BPS_DENOMINATOR

---------------------------------------------------------------------------
(* Properties.                                                             *)

\* An update the program accepts is the market's, is fresh, and is as narrow as asked
\* for: the interval and the price are truncated before they are compared, and the bound
\* once more, yet the published interval exceeds the share of the published price that
\* the protocol allows by less than one unit of PRICE_PRECISION.
AcceptedPriceIsNarrow ==
    PythUsable(update) =>
        LET t    == TargetExponent(update)
            unit == IF t >= 0 THEN 1 ELSE PowerOfTen[-t]   \* the feed's steps in one unit
        IN  /\ update.feed = MarketFeed /\ now - update.at <= MaxFeedAge
            /\ update.conf * BPS_DENOMINATOR
                 <= update.price * MaxFeedConfBps + (unit - 1) * BPS_DENOMINATOR

===============================================================================
