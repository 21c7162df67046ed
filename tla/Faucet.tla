-------------------------------- MODULE Faucet --------------------------------
(***************************************************************************)
(* services/faucet: mints development USDC to whoever asks, once per         *)
(* cooldown and wallet, and once per cooldown and IP address.  The wallet is *)
(* what the request names, the address where it comes from: anybody may name *)
(* any wallet.  The check and its record are one synchronous step before the *)
(* first await; the mint comes later and may fail.  Times enter the code     *)
(* only as the time since the last claim, so that is what the model keeps.   *)
(***************************************************************************)
EXTENDS Integers, FiniteSets

CONSTANTS
    Wallets,
    Clients,     \* who may ask: pages and scripts
    Addresses,   \* IP addresses
    Cooldown,    \* ticks of the clock in cooldownMs
    MaxFaucetFaults  \* bound: mints that fail and restarts of the service

ASSUME FaucetAssumption ==
    /\ Cooldown \in Nat \ {0}
    /\ Wallets \cap Addresses = {}
    /\ MaxFaucetFaults \in Nat

VARIABLES
    sinceClaim,  \* sinceClaim[k]: the time since key k was recorded, at most Cooldown
    granted,     \* the claims let through in the last Cooldown, with their age and number
    minting,     \* minting[w][c]: claims for w that c made, let through and not yet minted
    tokens,      \* tokens[w]: the grants in the token account of w
    faucetFaults

faucetVars == <<sinceClaim, granted, minting, tokens, faucetFaults>>

FaucetKeys == Wallets \cup Addresses
Ages       == 0 .. Cooldown

FaucetTypeOK ==
    /\ sinceClaim \in [FaucetKeys -> Ages]
    /\ granted \subseteq [wallet : Wallets, address : Addresses, age : Ages, nth : Nat]
    /\ minting \in [Wallets -> [Clients -> Nat]]
    /\ tokens \in [Wallets -> Nat]
    /\ faucetFaults \in 0 .. MaxFaucetFaults

NeverClaimed == [k \in FaucetKeys |-> Cooldown]
NoMint       == [w \in Wallets |-> [c \in Clients |-> 0]]

FaucetInit ==
    /\ sinceClaim = NeverClaimed
    /\ granted = {}
    /\ minting = NoMint
    /\ tokens = [w \in Wallets |-> 0]
    /\ faucetFaults = 0

Older(n) == IF n < Cooldown THEN n + 1 ELSE n

\* A tick of the clock.
FaucetTick ==
    /\ sinceClaim' = [k \in FaucetKeys |-> Older(sinceClaim[k])]
    /\ granted' = {[g EXCEPT !.age = @ + 1] : g \in {h \in granted : h.age + 1 < Cooldown}}
    /\ UNCHANGED <<minting, tokens, faucetFaults>>

---------------------------------------------------------------------------

RateLimited(k) == sinceClaim[k] < Cooldown

\* mutant of Recorded: only the wallet is recorded
RecordedWalletOnly(w, a) ==
    IF RateLimited(w) \/ RateLimited(a) THEN sinceClaim ELSE [sinceClaim EXCEPT ![w] = 0]

\* mutant of Recorded: only the address is recorded
RecordedAddressOnly(w, a) ==
    IF RateLimited(w) \/ RateLimited(a) THEN sinceClaim ELSE [sinceClaim EXCEPT ![a] = 0]

\* mutant of Recorded: a refusal starts the cooldown anew
RecordedAlways(w, a) == [sinceClaim EXCEPT ![w] = 0, ![a] = 0]

\* `rateLimited(w) || rateLimited(ip)`: each call records its key unless it refuses,
\* and the second is made only if the first does not refuse.
Recorded(w, a) ==
    CASE RateLimited(w) -> sinceClaim
      [] ~RateLimited(w) /\ RateLimited(a) -> [sinceClaim EXCEPT ![w] = 0]
      [] OTHER -> [sinceClaim EXCEPT ![w] = 0, ![a] = 0]

\* handleFaucet answers 429 to a request for wallet w from address a.
RefuseClaim(w, a) ==
    /\ RateLimited(w) \/ RateLimited(a)
    /\ sinceClaim' = Recorded(w, a)
    /\ UNCHANGED <<granted, minting, tokens, faucetFaults>>

\* handleFaucet goes on to the token account and the mint.
AcceptClaim(w, a, c) ==
    /\ ~RateLimited(w) /\ ~RateLimited(a)
    /\ sinceClaim' = Recorded(w, a)
    /\ granted' = granted \cup
          {[wallet |-> w, address |-> a, age |-> 0, nth |-> Cardinality(granted)]}
    /\ minting' = [minting EXCEPT ![w][c] = @ + 1]
    /\ UNCHANGED <<tokens, faucetFaults>>

Mint(w, c) ==
    /\ minting[w][c] > 0
    /\ minting' = [minting EXCEPT ![w][c] = @ - 1]
    /\ tokens' = [tokens EXCEPT ![w] = @ + 1]
    /\ UNCHANGED <<sinceClaim, granted, faucetFaults>>

\* The answer is 500; the transaction may have landed all the same, and the time of
\* the claim stays recorded.
MintFails(w, c) ==
    /\ minting[w][c] > 0
    /\ faucetFaults < MaxFaucetFaults
    /\ faucetFaults' = faucetFaults + 1
    /\ minting' = [minting EXCEPT ![w][c] = @ - 1]
    /\ tokens' = tokens \/ tokens' = [tokens EXCEPT ![w] = @ + 1]
    /\ UNCHANGED <<sinceClaim, granted>>

\* The service stops and starts again: lastClaim is only in memory.
FaucetRestarts ==
    /\ faucetFaults < MaxFaucetFaults
    /\ faucetFaults' = faucetFaults + 1
    /\ sinceClaim' = NeverClaimed
    /\ granted' = {}
    /\ minting' = NoMint
    /\ UNCHANGED tokens

\* The service, asked from any address for any wallet; Onboarding has two such clients.
FaucetNext ==
    \/ FaucetTick \/ FaucetRestarts
    \/ \E w \in Wallets, a \in Addresses : RefuseClaim(w, a)
    \/ \E w \in Wallets, a \in Addresses, c \in Clients : AcceptClaim(w, a, c)
    \/ \E w \in Wallets, c \in Clients : Mint(w, c) \/ MintFails(w, c)

FaucetSpec == FaucetInit /\ [][FaucetNext]_faucetVars

---------------------------------------------------------------------------
(* Properties.                                                             *)

\* Of two claims let through by one process in the time of a cooldown, neither the
\* wallet nor the address is the same, whoever asks from wherever for whichever wallet,
\* and whatever is refused or fails to mint in between.
GrantsAreRationed ==
    \A g, h \in granted : g.wallet = h.wallet \/ g.address = h.address => g = h

===============================================================================
