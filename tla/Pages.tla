--------------------------------- MODULE Pages ---------------------------------
(***************************************************************************)
(* The parts of the web application that poll for something the user has     *)
(* selected: Positions, the Portfolio page and OrderTicket's collateral for  *)
(* a wallet, the History page and OrderTicket's market for a market.  A load *)
(* is a chain of calls; each answer lands in the state of the component,     *)
(* guarded by its effect's `active` flag or not.  What is read is a number:  *)
(* how often the data of the key had changed.                               *)
(***************************************************************************)
EXTENDS Naturals, Sequences, SequencesExt

CONSTANTS
    Keys,            \* wallets or markets
    NoKey,           \* no wallet is connected
    MaxSelections,   \* bound: selections of a key, the first included
    MaxDataChanges,  \* bound: changes of the data of a key, those of the page included
    MaxLoadFaults    \* bound: calls that fail

ASSUME PagesAssumption ==
    /\ Keys # {} /\ NoKey \notin Keys
    /\ MaxSelections \in Nat \ {0} /\ MaxDataChanges \in Nat /\ MaxLoadFaults \in Nat

VARIABLES
    page,      \* the component
    chosen,    \* chosen[e]: the key selected when effect e began; the last is active
    facts,     \* facts[k]: the changes the data of key k has seen (external)
    calls,     \* the loads under way: their effect and what they have read so far
    parts,     \* the component's state: what each of its parts was read as
    failed,    \* the error it shows in place of the parts
    sending,   \* the effect during which the user sent a transaction, or 0
    loadFaults

pageVars == <<page, chosen, facts, calls, parts, failed, sending, loadFaults>>

PageNames == {"Positions", "Portfolio", "Collateral", "History", "Market"}

\* The calls of one load, and so the parts: rows; collateral; collateral, then rows;
\* market, then fee; trades, funding and liquidations.
PartsOf(p) == CASE p \in {"Positions", "Collateral"} -> 1
                [] p \in {"Portfolio", "Market"} -> 2
                [] OTHER -> 3
OfWallet   == page \in {"Positions", "Portfolio", "Collateral"}

Active  == Len(chosen)
key     == chosen[Active]
Versions == 0 .. MaxDataChanges
MaxCalls == 2

\* A part: the key and version it was read as, or what stands for no data.
Read(k, v) == [key |-> k, version |-> v]
Blank      == Read(NoKey, 0)

PagesTypeOK ==
    /\ page \in PageNames
    /\ chosen \in Seq(Keys \cup {NoKey}) /\ Active \in 1 .. MaxSelections
    /\ facts \in [Keys -> Versions]
    /\ \A i \in DOMAIN calls : /\ calls[i].effect \in 1 .. Active
                               /\ calls[i].got \in Seq(Versions)
    /\ Len(calls) <= MaxCalls
    /\ parts \in [1 .. PartsOf(page) -> [key : Keys \cup {NoKey}, version : Versions]]
    /\ failed \in BOOLEAN
    /\ sending \in 0 .. Active
    /\ loadFaults \in 0 .. MaxLoadFaults

NothingRead == [j \in 1 .. PartsOf(page) |-> Blank]

PagesInit ==
    /\ page \in PageNames
    /\ chosen = <<CHOOSE k \in Keys : TRUE>>
    /\ facts = [k \in Keys |-> 0]
    /\ calls = <<>>
    /\ parts = NothingRead
    /\ failed = FALSE
    /\ sending = 0
    /\ loadFaults = 0

DataChanges(k) ==
    /\ facts[k] < MaxDataChanges
    /\ facts' = [facts EXCEPT ![k] = @ + 1]
    /\ UNCHANGED <<page, chosen, calls, parts, failed, sending, loadFaults>>

\* A load of effect e.  No load of Positions asks whether its effect is still active.
LoadOf(e, guarded) ==
    [effect |-> e, guarded |-> guarded /\ page # "Positions", got |-> <<facts'[chosen[e]]>>]

\* The effect or its interval begins a load; the first call reads at once.
BeginLoad ==
    /\ key # NoKey
    /\ Len(calls) < MaxCalls
    /\ UNCHANGED facts
    /\ calls' = Append(calls, LoadOf(Active, TRUE))
    /\ UNCHANGED <<page, chosen, parts, failed, sending, loadFaults>>

---------------------------------------------------------------------------
(* An answer lands.                                                        *)

\* mutant of Heard: `active` is not asked
HeardAnyway(c) == c.effect \in 1 .. Active

Heard(c) == c.effect = Active \/ ~c.guarded

\* The part that a load's latest answer fills: the History page waits for all three.
FilledParts(c) ==
    IF page = "History" /\ Len(c.got) < PartsOf(page) THEN {}
    ELSE IF page = "History" THEN 1 .. PartsOf(page)
    ELSE {Len(c.got)}

Ends(c) == Len(c.got) = PartsOf(page)

\* mutant of FailedAfter: an answer does not clear the error
FailedForGood(c) == failed

FailedAfter(c) == IF Heard(c) /\ Ends(c) THEN FALSE ELSE failed

AnswerLands(i) ==
    /\ i \in DOMAIN calls
    /\ LET c == calls[i]
           k == chosen[c.effect]
       IN  /\ parts' = [j \in DOMAIN parts |->
                           IF Heard(c) /\ j \in FilledParts(c) THEN Read(k, c.got[j]) ELSE parts[j]]
           /\ failed' = FailedAfter(c)
           /\ calls' = IF Ends(c) \/ ~Heard(c) THEN RemoveAt(calls, i)
                       ELSE [calls EXCEPT ![i].got = Append(@, facts[k])]
    /\ UNCHANGED <<page, chosen, facts, sending, loadFaults>>

\* A call throws.  Positions and the collateral take it for an account that does not
\* exist; the ticket forgets the market and goes on to the fee, of which it keeps what
\* it has; the pages show an error.
CallFails(i) ==
    /\ i \in DOMAIN calls
    /\ loadFaults < MaxLoadFaults
    /\ loadFaults' = loadFaults + 1
    /\ LET c == calls[i]
           lost == page \in {"Positions", "Collateral"} \/ (page = "Market" /\ ~Ends(c))
       IN  /\ parts' = IF lost /\ Heard(c) THEN [parts EXCEPT ![1] = Blank] ELSE parts
           /\ failed' = IF page \in {"Portfolio", "History"} /\ Heard(c) THEN TRUE ELSE failed
           /\ calls' = IF page = "Market" /\ ~Ends(c)
                       THEN [calls EXCEPT ![i].got = Append(@, facts[chosen[c.effect]])]
                       ELSE RemoveAt(calls, i)
    /\ UNCHANGED <<page, chosen, facts, sending>>

---------------------------------------------------------------------------
(* The user.                                                               *)

\* Another wallet or market, or no wallet.  Only for no wallet are the parts cleared.
Select(k) ==
    /\ k # key
    /\ k = NoKey => OfWallet
    /\ Active < MaxSelections
    /\ chosen' = Append(chosen, k)
    /\ parts' = IF k = NoKey THEN NothingRead ELSE parts
    /\ UNCHANGED <<page, facts, calls, failed, sending, loadFaults>>

\* With no wallet the interval of Positions goes on clearing the rows.
ClearRows ==
    /\ page = "Positions" /\ key = NoKey
    /\ parts' = NothingRead
    /\ UNCHANGED <<page, chosen, facts, calls, failed, sending, loadFaults>>

\* The Close button, or the ticket's buttons that claim and deposit.
PressSend ==
    /\ page \in {"Positions", "Collateral"} /\ key # NoKey /\ sending = 0
    /\ sending' = Active
    /\ UNCHANGED <<page, chosen, facts, calls, parts, failed, loadFaults>>

\* The transaction is confirmed and loads what it changed, for the wallet that sent
\* it: neither component guards this load.
SentConfirmed ==
    /\ sending # 0
    /\ facts[chosen[sending]] < MaxDataChanges
    /\ Len(calls) < MaxCalls
    /\ facts' = [facts EXCEPT ![chosen[sending]] = @ + 1]
    /\ calls' = Append(calls, LoadOf(sending, FALSE))
    /\ sending' = 0
    /\ UNCHANGED <<page, chosen, parts, failed, loadFaults>>

\* A read before it fails, or the program or the cluster refuses the transaction.
SentRefused ==
    /\ sending # 0
    /\ sending' = 0
    /\ UNCHANGED <<page, chosen, facts, calls, parts, failed, loadFaults>>

PagesNext ==
    \/ \E k \in Keys : DataChanges(k) \/ Select(k)
    \/ Select(NoKey) \/ ClearRows
    \/ BeginLoad
    \/ \E i \in 1 .. MaxCalls : AnswerLands(i) \/ CallFails(i)
    \/ PressSend \/ SentConfirmed \/ SentRefused

Polling == BeginLoad \/ AnswerLands(1) \/ ClearRows

PagesSpec == PagesInit /\ [][PagesNext]_pageVars /\ WF_pageVars(Polling)

---------------------------------------------------------------------------
(* Properties.                                                             *)

\* What a page with everything read shows.  The collateral loaded after a transaction
\* may outlive the connection of its wallet.
Settled ==
    IF key = NoKey THEN page = "Collateral" \/ parts = NothingRead
    ELSE ~failed /\ \A j \in DOMAIN parts : parts[j] = Read(key, facts[key])

\* What a step makes of a page whose loads are all guarded by their effect.
LandsAsSelected ==
    page \in {"Portfolio", "History", "Market"} =>
        /\ \A j \in DOMAIN parts :
              parts'[j] # parts[j] => parts'[j] = Blank \/ parts'[j].key = key'
        /\ page = "History" => \A i, j \in DOMAIN parts : parts'[i].key = parts'[j].key

\* Whatever loads of earlier selections are still under way, land late or fail: a part
\* of such a page only ever becomes data of what is selected now, or is cleared; and
\* the three lists of the History page are never of two markets.
OnlySelectedLands == [][LandsAsSelected]_pageVars

\* Loads overlap and land in any order, calls fail, the rows of another wallet land
\* where nothing guards them: every page comes to show what is selected, as it is,
\* and stays so.
PagesSettle == <>[]Settled

===============================================================================
