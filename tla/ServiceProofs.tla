----------------------------- MODULE ServiceProofs -----------------------------
(***************************************************************************)
(* For every value of the constants: the faucet never lets two claims of one *)
(* wallet, or of one address, through in the time of a cooldown, whoever asks *)
(* for which wallet; the indexer implements the event store, and what it      *)
(* serves of the tables is consistent and only widens; the scripts agree on   *)
(* one mint and leave no market without an oracle; the chart and the pages    *)
(* show what is selected.                                                   *)
(*                                                                         *)
(* None of these is inductive, and each section begins with the invariant it  *)
(* needs.  So GrantsAreRationed: nothing in it ties the claims let through    *)
(* to the times recorded.  FaucetInv does: a claim of age n left its wallet and *)
(* its address recorded at most n ago.                                      *)
(***************************************************************************)
EXTENDS MCServices, PerpMathLemmas

\* what the record of a claim that is still remembered looks like
GrantRecorded(g) ==
    /\ g.age < Cooldown
    /\ sinceClaim[g.wallet] <= g.age
    /\ sinceClaim[g.address] <= g.age

FaucetInv ==
    /\ FaucetTypeOK
    /\ IsFiniteSet(granted)
    /\ \A g \in granted : GrantRecorded(g)
    /\ GrantsAreRationed

Grants == [wallet : Wallets, address : Addresses, age : Ages, nth : Nat]

\* Wallets and addresses are keys, and no wallet is an address.
LEMMA KeysOfClaim ==
    ASSUME NEW w \in Wallets, NEW a \in Addresses
    PROVE  w \in FaucetKeys /\ a \in FaucetKeys /\ a # w
  BY FaucetAssumption DEF FaucetKeys

LEMMA GrantTypes ==
    ASSUME FaucetInv, NEW g \in granted
    PROVE  /\ g \in Grants /\ g.wallet \in Wallets /\ g.address \in Addresses
           /\ g.age \in Nat /\ g.age < Cooldown /\ Cooldown \in Nat
           /\ sinceClaim[g.wallet] <= g.age /\ sinceClaim[g.address] <= g.age
  BY FaucetAssumption DEF FaucetInv, FaucetTypeOK, GrantRecorded, Grants, Ages

LEMMA NoMintType == NoMint \in [Wallets -> [Clients -> Nat]]
  BY DEF NoMint

LEMMA FaucetInitInv == FaucetInit => FaucetInv
  <1> SUFFICES ASSUME FaucetInit PROVE FaucetInv
    OBVIOUS
  <1>1. FaucetTypeOK
    BY FaucetAssumption, NoMintType DEF FaucetInit, FaucetTypeOK, NeverClaimed, Ages
  <1> QED
    BY <1>1, FS_EmptySet DEF FaucetInit, FaucetInv, GrantsAreRationed

LEMMA TickInv ==
    ASSUME FaucetInv, FaucetTick
    PROVE  FaucetInv'
  <1> DEFINE kept     == {h \in granted : h.age + 1 < Cooldown}
             older(g) == [g EXCEPT !.age = @ + 1]
  <1>1. granted' = {older(g) : g \in kept}
    BY DEF FaucetTick
  <1>2. \A g \in granted : g \in Grants
    BY GrantTypes
  <1>3. \A g \in granted : /\ older(g).wallet = g.wallet /\ older(g).address = g.address
                           /\ older(g).age = g.age + 1
    BY <1>2 DEF Grants
  <1>4. \A k \in FaucetKeys : /\ sinceClaim'[k] = Older(sinceClaim[k])
                              /\ sinceClaim[k] \in Ages
    BY DEF FaucetTick, FaucetInv, FaucetTypeOK
  <1>5. FaucetTypeOK'
    <2>1. sinceClaim' \in [FaucetKeys -> Ages]
      BY <1>4, FaucetAssumption DEF FaucetTick, Older, Ages
    <2>2. \A g \in kept : older(g) \in Grants
      BY <1>2, FaucetAssumption DEF Ages, Grants
    <2>3. granted' \subseteq Grants
      BY <1>1, <2>2
    <2> QED
      BY <2>1, <2>3 DEF FaucetTick, FaucetTypeOK, FaucetInv, Grants
  <1>6. IsFiniteSet(granted')
    <2>1. IsFiniteSet(kept)
      BY FS_Subset DEF FaucetInv
    <2> DEFINE f == [g \in kept |-> older(g)]
    <2>2. f \in Surjection(kept, granted')
      BY <1>1 DEF Surjection
    <2> HIDE DEF kept, older, f
    <2> QED
      BY <2>1, <2>2, FS_Surjection
  <1>7. ASSUME NEW g \in kept PROVE GrantRecorded(older(g))'
    <2>1. /\ g.wallet \in FaucetKeys /\ g.address \in FaucetKeys
          /\ g.age \in Nat /\ g.age + 1 < Cooldown
          /\ sinceClaim[g.wallet] <= g.age /\ sinceClaim[g.address] <= g.age
      BY GrantTypes, KeysOfClaim
    <2>2. ASSUME NEW k \in FaucetKeys, sinceClaim[k] <= g.age
          PROVE  sinceClaim'[k] <= g.age + 1
      BY <1>4, <2>1, <2>2, FaucetAssumption DEF Older, Ages
    <2>3. sinceClaim'[g.wallet] <= g.age + 1 /\ sinceClaim'[g.address] <= g.age + 1
      BY <2>1, <2>2
    <2> QED
      BY <1>3, <2>1, <2>3 DEF GrantRecorded
  <1>8. GrantsAreRationed'
    <2> SUFFICES ASSUME NEW a \in granted', NEW b \in granted',
                        a.wallet = b.wallet \/ a.address = b.address
                 PROVE  a = b
      BY DEF GrantsAreRationed
    <2>1. PICK g \in kept, h \in kept : a = older(g) /\ b = older(h)
      BY <1>1
    <2>2. g.wallet = h.wallet \/ g.address = h.address
      BY <1>3, <2>1
    <2>3. g = h
      BY <2>2 DEF FaucetInv, GrantsAreRationed
    <2> QED
      BY <2>1, <2>3
  <1> QED
    BY <1>1, <1>5, <1>6, <1>7, <1>8 DEF FaucetInv

\* A refusal may record the wallet it names, whoever asks: that only lowers its time.
LEMMA RefuseInv ==
    ASSUME FaucetInv, NEW w \in Wallets, NEW a \in Addresses, RefuseClaim(w, a)
    PROVE  FaucetInv'
  <1>1. /\ sinceClaim' \in [FaucetKeys -> Ages]
        /\ \A k \in FaucetKeys : sinceClaim'[k] = sinceClaim[k] \/ sinceClaim'[k] = 0
    BY KeysOfClaim, FaucetAssumption DEF RefuseClaim, Recorded, FaucetInv, FaucetTypeOK, Ages
  <1>2. ASSUME NEW g \in granted PROVE GrantRecorded(g)'
    BY <1>1, GrantTypes, KeysOfClaim DEF GrantRecorded
  <1> QED
    BY <1>1, <1>2 DEF RefuseClaim, FaucetInv, FaucetTypeOK, GrantsAreRationed

\* A claim is let through only if neither the wallet nor the address was recorded in the
\* last Cooldown, and so no other of that wallet or of that address is remembered.
LEMMA AcceptInv ==
    ASSUME FaucetInv, NEW w \in Wallets, NEW a \in Addresses, NEW c \in Clients,
           AcceptClaim(w, a, c)
    PROVE  FaucetInv'
  <1> DEFINE new == [wallet |-> w, address |-> a, age |-> 0, nth |-> Cardinality(granted)]
  <1>1. /\ sinceClaim \in [FaucetKeys -> Ages]
        /\ sinceClaim' = [sinceClaim EXCEPT ![w] = 0, ![a] = 0]
        /\ sinceClaim' \in [FaucetKeys -> Ages]
    <2>1. sinceClaim \in [FaucetKeys -> Ages]
      BY DEF FaucetInv, FaucetTypeOK
    <2>2. sinceClaim' = [sinceClaim EXCEPT ![w] = 0, ![a] = 0]
      BY DEF AcceptClaim, Recorded
    <2>3. 0 \in Ages
      BY FaucetAssumption DEF Ages
    <2> QED
      BY <2>1, <2>2, <2>3, KeysOfClaim
  <1>2. /\ sinceClaim[w] \in Nat /\ sinceClaim[w] >= Cooldown
        /\ sinceClaim[a] \in Nat /\ sinceClaim[a] >= Cooldown
    BY KeysOfClaim, FaucetAssumption DEF AcceptClaim, RateLimited, FaucetInv, FaucetTypeOK, Ages
  <1>3. ASSUME NEW g \in granted PROVE g.wallet # w /\ g.address # a
    <2>1. /\ g.age \in Nat /\ g.age < Cooldown /\ Cooldown \in Nat
          /\ sinceClaim[g.wallet] <= g.age /\ sinceClaim[g.address] <= g.age
      BY GrantTypes
    <2>2. ASSUME g.wallet = w PROVE FALSE
      <3>1. sinceClaim[w] <= g.age
        BY <2>1, <2>2
      <3> QED
        BY <1>2, <2>1, <3>1
    <2>3. ASSUME g.address = a PROVE FALSE
      <3>1. sinceClaim[a] <= g.age
        BY <2>1, <2>3
      <3> QED
        BY <1>2, <2>1, <3>1
    <2> QED
      BY <2>2, <2>3
  <1>4. granted' = granted \cup {new}
    BY DEF AcceptClaim
  <1>5. new \in Grants
    BY FS_CardinalityType, FaucetAssumption DEF FaucetInv, Ages, Grants
  <1>6. minting' \in [Wallets -> [Clients -> Nat]]
    BY DEF AcceptClaim, FaucetInv, FaucetTypeOK
  <1>7. FaucetTypeOK'
    BY <1>1, <1>4, <1>5, <1>6 DEF AcceptClaim, FaucetInv, FaucetTypeOK, Grants
  <1>8. IsFiniteSet(granted')
    BY <1>4, FS_AddElement DEF FaucetInv
  <1>9. new.wallet = w /\ new.address = a /\ new.age = 0
    OBVIOUS
  <1> HIDE DEF new
  <1>10. ASSUME NEW g \in granted' PROVE GrantRecorded(g)'
    <2>1. CASE g \in granted
      <3>1. \A k \in FaucetKeys : sinceClaim'[k] = sinceClaim[k] \/ sinceClaim'[k] = 0
        BY <1>1
      <3>2. /\ g.wallet \in FaucetKeys /\ g.address \in FaucetKeys
            /\ g.age \in Nat /\ g.age < Cooldown
            /\ sinceClaim[g.wallet] <= g.age /\ sinceClaim[g.address] <= g.age
        BY <2>1, GrantTypes, KeysOfClaim
      <3> QED
        BY <3>1, <3>2 DEF GrantRecorded
    <2>2. CASE g = new
      <3>1. sinceClaim'[w] = 0 /\ sinceClaim'[a] = 0
        BY <1>1, KeysOfClaim
      <3> QED
        BY <1>9, <2>2, <3>1, FaucetAssumption DEF GrantRecorded
    <2> QED
      BY <1>4, <2>1, <2>2
  <1>11. GrantsAreRationed'
    BY <1>3, <1>4, <1>9 DEF FaucetInv, GrantsAreRationed
  <1> QED
    BY <1>7, <1>8, <1>10, <1>11 DEF FaucetInv

\* Mints touch neither the times nor the claims let through.
LEMMA MintInv ==
    ASSUME FaucetInv, NEW w \in Wallets, NEW c \in Clients, Mint(w, c) \/ MintFails(w, c)
    PROVE  FaucetInv'
  <1>1. /\ minting \in [Wallets -> [Clients -> Nat]] /\ tokens \in [Wallets -> Nat]
        /\ faucetFaults \in 0 .. MaxFaucetFaults
    BY DEF FaucetInv, FaucetTypeOK
  <1>2. /\ minting[w][c] > 0 /\ minting' = [minting EXCEPT ![w][c] = @ - 1]
        /\ tokens' = tokens \/ tokens' = [tokens EXCEPT ![w] = @ + 1]
    BY DEF Mint, MintFails
  <1>3. minting' \in [Wallets -> [Clients -> Nat]]
    <2>1. minting[w] \in [Clients -> Nat] /\ minting[w][c] \in Nat /\ minting[w][c] - 1 \in Nat
      BY <1>1, <1>2
    <2> DEFINE left == [minting[w] EXCEPT ![c] = @ - 1]
    <2>2. left \in [Clients -> Nat]
      BY <2>1
    <2>3. minting' = [minting EXCEPT ![w] = left]
      BY <1>1, <1>2, <2>1
    <2> HIDE DEF left
    <2> QED
      BY <1>1, <2>2, <2>3
  <1>4. tokens' \in [Wallets -> Nat]
    <2>1. tokens[w] \in Nat
      BY <1>1
    <2> QED
      BY <1>1, <1>2, <2>1
  <1>5. faucetFaults' \in 0 .. MaxFaucetFaults
    BY <1>1, FaucetAssumption DEF Mint, MintFails
  <1>6. UNCHANGED <<sinceClaim, granted>>
    BY DEF Mint, MintFails
  <1> QED
    BY <1>3, <1>4, <1>5, <1>6
       DEF FaucetInv, FaucetTypeOK, GrantRecorded, GrantsAreRationed

LEMMA FaucetNextInv == FaucetInv /\ [FaucetNext]_faucetVars => FaucetInv'
  <1> SUFFICES ASSUME FaucetInv, [FaucetNext]_faucetVars PROVE FaucetInv'
    OBVIOUS
  <1>1. ASSUME FaucetRestarts PROVE FaucetInv'
    <2>1. FaucetTypeOK'
      BY <1>1, FaucetAssumption, NoMintType
         DEF FaucetRestarts, FaucetInv, FaucetTypeOK, NeverClaimed, Ages
    <2> QED
      BY <1>1, <2>1, FS_EmptySet DEF FaucetRestarts, FaucetInv, GrantsAreRationed
  <1>2. CASE UNCHANGED faucetVars
    BY <1>2 DEF faucetVars, FaucetInv, FaucetTypeOK, GrantRecorded, GrantsAreRationed
  <1> QED
    BY <1>1, <1>2, TickInv, RefuseInv, AcceptInv, MintInv DEF FaucetNext

\* Whoever asks from whichever address for whichever wallet in whatever order, and
\* whichever mints fail, the service never lets two claims for one wallet or from one
\* address through within a cooldown.
THEOREM ClaimsAlwaysRationed == FaucetSpec => []GrantsAreRationed
  <1>1. FaucetInv => GrantsAreRationed
    BY DEF FaucetInv
  <1> QED
    BY <1>1, FaucetInitInv, FaucetNextInv, PTL DEF FaucetSpec

-----------------------------------------------------------------------------
(* Onboarding: the faucet with the page and a stranger for its clients. *)

OnboardingInv == OnboardingTypeOK /\ FaucetInv

Handlings == [goal : Goals, at : Steps, amount : Nat]

LEMMA OnboardingInitInv == OnboardingInit => OnboardingInv
  <1> SUFFICES ASSUME OnboardingInit PROVE OnboardingInv
    OBVIOUS
  <1>1. FaucetInv /\ FaucetTypeOK
    BY FaucetInitInv DEF OnboardingInit, FaucetInv
  <1>2. account \in BOOLEAN
    BY DEF OnboardingInit
  <1>3. deposited \in Nat /\ disturbances \in 0 .. MaxDisturbances
    BY OnboardingAssumption DEF OnboardingInit
  <1>4. tab \in [Tabs -> [goal : Goals, at : Steps, amount : Nat]]
    BY DEF OnboardingInit, Idle, Handling, Goals, Steps
  <1> QED
    BY <1>1, <1>2, <1>3, <1>4 DEF OnboardingInv, OnboardingTypeOK

\* A handler moves one tab on; a call that fails is counted.
TabMoves(t) ==
    /\ \E h \in Handlings : tab' = [tab EXCEPT ![t] = h]
    /\ account' \in BOOLEAN
    /\ NoFault \/ TabFault

LEMMA TabMovesType ==
    ASSUME OnboardingInv, FaucetInv', deposited' \in Nat, NEW t \in Tabs, TabMoves(t)
    PROVE  OnboardingInv'
  <1>1. tab \in [Tabs -> Handlings] /\ disturbances \in 0 .. MaxDisturbances
        /\ faucetFaults \in Nat
    BY DEF OnboardingInv, OnboardingTypeOK, FaucetTypeOK, Handlings
  <1>2. tab' \in [Tabs -> Handlings]
    BY <1>1 DEF TabMoves
  <1>3. disturbances' \in 0 .. MaxDisturbances
    BY <1>1, OnboardingAssumption DEF TabMoves, NoFault, TabFault, Quiet
  <1>4. account' \in BOOLEAN
    BY DEF TabMoves
  <1> QED
    BY <1>2, <1>3, <1>4 DEF OnboardingInv, OnboardingTypeOK, FaucetInv, Handlings

LEMMA FaucetUntouched ==
    ASSUME FaucetInv, UNCHANGED faucetVars
    PROVE  FaucetInv'
  BY FaucetNextInv

\* What a handler does of its tab.
LEMMA TabGoes ==
    ASSUME OnboardingInv, NEW t \in Tabs,
           \/ \E step \in Steps : GoesTo(t, step)
           \/ \E n \in Nat : WillDeposit(t, n)
           \/ Finishes(t)
           \/ HasAccount(t)
    PROVE  \E h \in Handlings : tab' = [tab EXCEPT ![t] = h]
  <1>1. tab \in [Tabs -> Handlings] /\ tab[t] \in Handlings
    BY DEF OnboardingInv, OnboardingTypeOK, Handlings
  <1>2. ASSUME NEW step \in Steps, GoesTo(t, step)
        PROVE  \E h \in Handlings : tab' = [tab EXCEPT ![t] = h]
    <2> DEFINE h == [tab[t] EXCEPT !.at = step]
    <2>1. h \in Handlings
      BY <1>1 DEF Handlings
    <2>2. tab' = [tab EXCEPT ![t] = h]
      BY <1>2 DEF GoesTo
    <2> QED
      BY <2>1, <2>2
  <1>3. ASSUME NEW n \in Nat, WillDeposit(t, n)
        PROVE  \E h \in Handlings : tab' = [tab EXCEPT ![t] = h]
    <2> DEFINE h == [tab[t] EXCEPT !.at = "deposit", !.amount = n]
    <2>1. h \in Handlings
      BY <1>1 DEF Handlings, Steps
    <2>2. tab' = [tab EXCEPT ![t] = h]
      BY <1>1, <1>3 DEF WillDeposit
    <2> QED
      BY <2>1, <2>2
  <1>4. ASSUME Finishes(t) PROVE \E h \in Handlings : tab' = [tab EXCEPT ![t] = h]
    <2>1. Idle \in Handlings
      BY DEF Idle, Handling, Handlings, Goals, Steps
    <2> QED
      BY <1>4, <2>1 DEF Finishes
  <1>5. HasAccount(t) => Finishes(t) \/ GoesTo(t, "state")
    BY DEF HasAccount
  <1>6. "state" \in Steps
    BY DEF Steps
  <1> QED
    BY <1>2, <1>3, <1>4, <1>5, <1>6

\* The steps that only read, and the one that creates the account.
LEMMA LookUpMoves ==
    ASSUME OnboardingInv, NEW t \in Tabs,
           EnsureLocalFeeSol(t) \/ LookUp(t) \/ Create(t) \/ Recheck(t) \/ ReadState(t)
    PROVE  OnboardingInv'
  <1>1. FaucetInv /\ deposited \in Nat /\ account \in BOOLEAN
    BY DEF OnboardingInv, OnboardingTypeOK
  <1>2. /\ UNCHANGED <<faucetVars, deposited>>
        /\ NoFault \/ TabFault
    BY DEF EnsureLocalFeeSol, LookUp, Create, Recheck, ReadState, programVars
  <1>3. account' \in BOOLEAN
    BY <1>1 DEF EnsureLocalFeeSol, LookUp, Create, Recheck, ReadState, programVars
  <1>4. \/ \E step \in Steps : GoesTo(t, step)
        \/ Finishes(t)
        \/ HasAccount(t)
    BY DEF EnsureLocalFeeSol, LookUp, Create, Recheck, ReadState, Steps
  <1>5. TabMoves(t)
    BY <1>2, <1>3, <1>4, TabGoes DEF TabMoves
  <1> QED
    BY <1>1, <1>2, <1>5, FaucetUntouched, TabMovesType

LEMMA ReadBalanceMoves ==
    ASSUME OnboardingInv, NEW t \in Tabs, ReadBalance(t)
    PROVE  OnboardingInv'
  <1>1. /\ FaucetInv /\ deposited \in Nat /\ account \in BOOLEAN /\ tokens[Owner] \in Nat
    BY OnboardingAssumption DEF OnboardingInv, OnboardingTypeOK, FaucetInv, FaucetTypeOK
  <1>2. /\ UNCHANGED <<faucetVars, account, deposited>>
        /\ NoFault \/ TabFault
    BY DEF ReadBalance, programVars
  <1>3. GoesTo(t, "ask") \/ WillDeposit(t, tokens[Owner])
    BY DEF ReadBalance
  <1>4. "ask" \in Steps
    BY DEF Steps
  <1>5. TabMoves(t)
    BY <1>1, <1>2, <1>3, <1>4, TabGoes DEF TabMoves
  <1> QED
    BY <1>1, <1>2, <1>5, FaucetUntouched, TabMovesType

LEMMA AskMoves ==
    ASSUME OnboardingInv, NEW t \in Tabs, Ask(t) \/ Answered(t)
    PROVE  OnboardingInv'
  <1>1. /\ FaucetInv /\ deposited \in Nat /\ account \in BOOLEAN
        /\ Owner \in Wallets /\ Home \in Addresses /\ t \in Clients
    BY OnboardingAssumption DEF OnboardingInv, OnboardingTypeOK
  <1>2. FaucetInv'
    <2>1. \/ RefuseClaim(Owner, Home) \/ AcceptClaim(Owner, Home, t)
          \/ Mint(Owner, t) \/ MintFails(Owner, t)
          \/ UNCHANGED faucetVars
      BY DEF Ask, Answered
    <2>2. [FaucetNext]_faucetVars
      BY <1>1, <2>1 DEF FaucetNext
    <2> QED
      BY <1>1, <2>2, FaucetNextInv
  <1>3. /\ UNCHANGED <<account, deposited>>
        /\ NoFault \/ TabFault
    BY DEF Ask, Answered, programVars
  <1>4. \/ GoesTo(t, "minting") \/ Finishes(t) \/ WillDeposit(t, 1)
    BY DEF Ask, Answered
  <1>5. "minting" \in Steps /\ 1 \in Nat
    BY DEF Steps
  <1>6. TabMoves(t)
    BY <1>1, <1>3, <1>4, <1>5, TabGoes DEF TabMoves
  <1> QED
    BY <1>1, <1>2, <1>3, <1>6, TabMovesType

\* A deposit takes no more than the wallet has.
LEMMA DepositMoves ==
    ASSUME OnboardingInv, NEW t \in Tabs, DepositTokens(t)
    PROVE  OnboardingInv'
  <1>1. /\ FaucetInv /\ FaucetTypeOK /\ deposited \in Nat /\ account \in BOOLEAN
        /\ tokens \in [Wallets -> Nat] /\ Owner \in Wallets /\ tab[t].amount \in Nat
    BY OnboardingAssumption DEF OnboardingInv, OnboardingTypeOK, FaucetInv, FaucetTypeOK
  <1>2. /\ UNCHANGED <<sinceClaim, granted, minting, faucetFaults, account>>
        /\ NoFault \/ TabFault
        /\ Finishes(t)
        /\ \/ /\ tab[t].amount <= tokens[Owner]
              /\ tokens' = [tokens EXCEPT ![Owner] = @ - tab[t].amount]
              /\ deposited' = deposited + tab[t].amount
           \/ UNCHANGED <<tokens, deposited>>
    BY DEF DepositTokens
  <1>3. tokens' \in [Wallets -> Nat] /\ deposited' \in Nat
    BY <1>1, <1>2
  <1>4. FaucetInv'
    BY <1>1, <1>2, <1>3 DEF FaucetInv, FaucetTypeOK, GrantRecorded, GrantsAreRationed
  <1>5. TabMoves(t)
    BY <1>1, <1>2, TabGoes DEF TabMoves
  <1> QED
    BY <1>3, <1>4, <1>5, TabMovesType

LEMMA PressMoves ==
    ASSUME OnboardingInv, NEW t \in Tabs, NEW g \in Goals, Press(t, g)
    PROVE  OnboardingInv'
  <1>1. FaucetInv /\ deposited \in Nat /\ account \in BOOLEAN
    BY DEF OnboardingInv, OnboardingTypeOK
  <1>2. /\ UNCHANGED <<faucetVars, account, deposited, disturbances>>
        /\ tab' = [tab EXCEPT ![t] = Handling(g, "fees")]
    BY DEF Press, programVars
  <1>3. Handling(g, "fees") \in Handlings
    BY DEF Handling, Handlings, Steps
  <1>4. TabMoves(t)
    BY <1>1, <1>2, <1>3 DEF TabMoves, NoFault
  <1> QED
    BY <1>1, <1>2, <1>4, FaucetUntouched, TabMovesType

\* A step of the faucet or of its other clients is none of the page's.
LEMMA ElsewhereMoves ==
    ASSUME OnboardingInv, FaucetInv', disturbances' \in 0 .. MaxDisturbances,
           UNCHANGED <<programVars, tab>>
    PROVE  OnboardingInv'
  BY DEF OnboardingInv, OnboardingTypeOK, FaucetInv, programVars

LEMMA OnboardingStep == OnboardingInv /\ [OnboardingNext]_onboardingVars => OnboardingInv'
  <1> SUFFICES ASSUME OnboardingInv, [OnboardingNext]_onboardingVars
               PROVE  OnboardingInv'
    OBVIOUS
  <1>1. /\ FaucetInv
        /\ disturbances \in 0 .. MaxDisturbances /\ faucetFaults \in Nat
    BY DEF OnboardingInv, OnboardingTypeOK, FaucetTypeOK
  <1>2. CASE UNCHANGED onboardingVars
    BY <1>1, <1>2, FaucetUntouched, ElsewhereMoves DEF onboardingVars, programVars
  <1>3. ASSUME NEW t \in Tabs, Handler(t) PROVE OnboardingInv'
    BY <1>3, LookUpMoves, ReadBalanceMoves, AskMoves, DepositMoves DEF Handler
  <1>4. ASSUME NEW w \in Wallets, NEW a \in Addresses, Elsewhere(StrangerAsks(w, a))
        PROVE  OnboardingInv'
    <2>1. [FaucetNext]_faucetVars
      BY <1>4, OnboardingAssumption DEF Elsewhere, StrangerAsks, FaucetNext
    <2>2. disturbances' \in 0 .. MaxDisturbances
      BY <1>1, <1>4, OnboardingAssumption DEF Elsewhere, StrangerAsks, Quiet
    <2> QED
      BY <1>1, <1>4, <2>1, <2>2, FaucetNextInv, ElsewhereMoves DEF Elsewhere
  <1>5. ASSUME NEW w \in Wallets, NEW c \in Clients, Elsewhere(AnswersNobody(w, c))
        PROVE  OnboardingInv'
    <2>1. [FaucetNext]_faucetVars /\ UNCHANGED disturbances
      BY <1>5 DEF Elsewhere, AnswersNobody, NoFault, FaucetNext
    <2> QED
      BY <1>1, <1>5, <2>1, FaucetNextInv, ElsewhereMoves DEF Elsewhere
  <1>6. ASSUME ClockTicks \/ ServiceRestarts PROVE OnboardingInv'
    <2>1. [FaucetNext]_faucetVars /\ UNCHANGED <<programVars, tab, disturbances>>
      BY <1>6 DEF ClockTicks, ServiceRestarts, Elsewhere, NoFault, FaucetNext
    <2> QED
      BY <1>1, <2>1, FaucetNextInv, ElsewhereMoves
  <1> QED
    BY <1>2, <1>3, <1>4, <1>5, <1>6, PressMoves DEF OnboardingNext

\* Tabs that ask for one wallet at once or give up on an answer, a stranger who asks for
\* any wallet from any address, the user's included, failed mints and restarts do not get
\* more out of the faucet than the service alone gives.
THEOREM OnboardingRationed == OnboardingSpec => []GrantsAreRationed
  <1>1. OnboardingInv => GrantsAreRationed
    BY DEF OnboardingInv, FaucetInv
  <1> QED
    BY <1>1, OnboardingInitInv, OnboardingStep, PTL DEF OnboardingSpec

-----------------------------------------------------------------------------
(* The indexer. *)

\* where a pass may stand: it visits confirmed transactions, and a fetched one has an
\* event left
PassOK ==
    /\ ToSet(todo) \subseteq ToSet(confirmed)
    /\ fetched => todo # <<>> /\ logIndex < Len(EventsOf[Head(todo)])
    /\ ~fetched => logIndex = 0
    /\ process # "passing" => ~fetched

IndexerInv == IndexerTypeOK /\ PassOK

LEMMA EventsAreSequences ==
    ASSUME NEW s \in Signatures
    PROVE  /\ Len(EventsOf[s]) \in Nat
           /\ EventsOf[s] # <<>> => Len(EventsOf[s]) > 0
  <1>1. EventsOf[s] \in Seq(Range(EventsOf[s]))
    BY IndexerAssumption
  <1> QED
    BY <1>1

\* Head and tail of a sequence, and one element more, as sets.
LEMMA SetOfParts ==
    ASSUME NEW S, NEW s \in Seq(S), NEW e \in S
    PROVE  /\ ToSet(Append(s, e)) = ToSet(s) \cup {e}
           /\ s # <<>> => /\ Head(s) \in ToSet(s) /\ Head(s) \in S
                          /\ Tail(s) \in Seq(S)
                          /\ ToSet(Tail(s)) \subseteq ToSet(s)
  <1>1. ToSet(Append(s, e)) = ToSet(s) \cup {e}
    <2>1. \A i \in 1 .. Len(s) : Append(s, e)[i] = s[i]
      OBVIOUS
    <2>2. /\ Append(s, e)[Len(s) + 1] = e
          /\ DOMAIN Append(s, e) = 1 .. Len(s) + 1 /\ DOMAIN s = 1 .. Len(s)
      OBVIOUS
    <2>3. 1 .. Len(s) + 1 = (1 .. Len(s)) \cup {Len(s) + 1}
      OBVIOUS
    <2> QED
      BY <2>1, <2>2, <2>3 DEF ToSet
  <1>2. ASSUME s # <<>>
        PROVE  /\ Head(s) \in ToSet(s) /\ Head(s) \in S
               /\ Tail(s) \in Seq(S)
               /\ ToSet(Tail(s)) \subseteq ToSet(s)
    <2>1. Head(s) = s[1] /\ 1 \in DOMAIN s /\ Tail(s) \in Seq(S)
      BY <1>2
    <2>2. \A i \in DOMAIN Tail(s) : Tail(s)[i] = s[i + 1] /\ i + 1 \in DOMAIN s
      BY <1>2
    <2> QED
      BY <2>1, <2>2 DEF ToSet
  <1> QED
    BY <1>1, <1>2

\* A pass reads a part of what is confirmed.
LEMMA WindowOfConfirmed ==
    ASSUME IndexerTypeOK
    PROVE  Window \in Seq(Signatures) /\ ToSet(Window) \subseteq ToSet(confirmed)
  <1>1. confirmed \in Seq(Signatures) /\ SIGNATURE_LIMIT \in Nat
    BY IndexerAssumption DEF IndexerTypeOK
  <1>2. CASE Len(confirmed) <= SIGNATURE_LIMIT
    BY <1>1, <1>2 DEF Window
  <1>3. CASE ~(Len(confirmed) <= SIGNATURE_LIMIT)
    <2> DEFINE first == Len(confirmed) - SIGNATURE_LIMIT + 1
               part  == SubSeq(confirmed, first, Len(confirmed))
    <2>1. first \in 1 .. Len(confirmed) + 1 /\ Window = part
      BY <1>1, <1>3 DEF Window
    <2> HIDE DEF first
    <2>2. part \in Seq(Signatures) /\ DOMAIN part = 1 .. Len(confirmed) - first + 1
      BY <1>1, <2>1
    <2>3. \A i \in DOMAIN part : /\ part[i] = confirmed[first + i - 1]
                                 /\ first + i - 1 \in DOMAIN confirmed
      BY <1>1, <2>1, <2>2
    <2> HIDE DEF part
    <2> QED
      BY <2>1, <2>2, <2>3 DEF ToSet
  <1> QED
    BY <1>2, <1>3

\* A row carries its key, so two rows of one key are the same, and Upsert leaves the
\* tables alone exactly when they hold the row.
LEMMA RowOfEntry ==
    ASSUME NEW s \in Signatures, NEW i \in 0 .. Len(EventsOf[s]) - 1, NEW S,
           s \in S, S \subseteq Signatures
    PROVE  Row(s, i) \in Entries(S)
  BY DEF Entries

LEMMA UpsertKeepsKeys ==
    ASSUME IndexerTypeOK, NEW s \in Signatures, NEW i \in 0 .. Len(EventsOf[s]) - 1
    PROVE  \/ Upsert(Row(s, i)) = tables
           \/ /\ Row(s, i) \notin ToSet(tables)
              /\ Upsert(Row(s, i)) = Append(tables, Row(s, i))
  <1>1. CASE Row(s, i) \in ToSet(tables)
    <2>1. PICK j \in DOMAIN tables : tables[j] = Row(s, i)
      BY <1>1 DEF ToSet
    <2> QED
      BY <2>1 DEF Upsert
  <1> QED
    BY <1>1 DEF Upsert

LEMMA IndexerInitInv == IndexerInit => IndexerInv
  <1> SUFFICES ASSUME IndexerInit PROVE IndexerInv
    OBVIOUS
  <1>1. ToSet(<<>>) = {}
    BY DEF ToSet
  <1>2. /\ confirmed = <<>> /\ tables = <<>> /\ todo = <<>> /\ fetched = FALSE
        /\ logIndex = 0 /\ readable = {} /\ process = "asleep" /\ stopping = FALSE
        /\ indexerFaults = 0
    BY DEF IndexerInit, NoPass
  <1>3. IndexerTypeOK
    <2>1. /\ confirmed \in Seq(Signatures) /\ todo \in Seq(Signatures)
          /\ tables \in Seq(Entries(Signatures))
      BY <1>2
    <2>2. readable \subseteq ToSet(confirmed)
      BY <1>2
    <2>3. logIndex \in Nat /\ indexerFaults \in 0 .. MaxIndexerFaults
      BY <1>2, IndexerAssumption
    <2> QED
      BY <1>2, <2>1, <2>2, <2>3 DEF IndexerTypeOK
  <1>4. PassOK
    BY <1>1, <1>2 DEF PassOK
  <1> QED
    BY <1>3, <1>4 DEF IndexerInv

\* What an abandoned pass leaves is a place where a pass may stand.
LEMMA AbandonInv ==
    ASSUME IndexerInv, NEW next \in {"down", "asleep"}, Abandon(next),
           stopping' \in BOOLEAN, indexerFaults' \in 0 .. MaxIndexerFaults
    PROVE  IndexerInv'
  <1>1. ToSet(<<>>) = {}
    BY DEF ToSet
  <1>2. /\ todo' = <<>> /\ fetched' = FALSE /\ logIndex' = 0 /\ process' = next
        /\ UNCHANGED <<confirmed, readable, tables>>
    BY DEF Abandon
  <1>3. PassOK'
    <2>1. ToSet(todo') = {}
      BY <1>1, <1>2
    <2> QED
      BY <1>2, <2>1 DEF PassOK
  <1>4. IndexerTypeOK'
    <2>1. todo' \in Seq(Signatures)
      BY <1>2
    <2>5. fetched' \in BOOLEAN /\ logIndex' \in Nat
      BY <1>2
    <2>2. process' \in {"down", "asleep", "passing"}
      BY <1>2
    <2>3. readable' \subseteq ToSet(confirmed')
      BY <1>2 DEF IndexerInv, IndexerTypeOK
    <2>4. confirmed' \in Seq(Signatures) /\ tables' \in Seq(Entries(Signatures))
      BY <1>2 DEF IndexerInv, IndexerTypeOK
    <2> QED
      BY <2>1, <2>2, <2>3, <2>4, <2>5 DEF IndexerTypeOK
  <1> QED
    BY <1>3, <1>4 DEF IndexerInv

\* A step of the indexer keeps IndexerInv, and is a step of the event store or none.
StoreStep == [Store!Next]_<<Entries(ToSet(confirmed)), tables>>

LEMMA ConfirmStep ==
    ASSUME IndexerInv, NEW s \in Signatures, Confirm(s)
    PROVE  IndexerInv' /\ StoreStep
  <1>1. confirmed \in Seq(Signatures)
    BY DEF IndexerInv, IndexerTypeOK
  <1>2. confirmed' \in Seq(Signatures) /\ ToSet(confirmed') = ToSet(confirmed) \cup {s}
    BY <1>1, SetOfParts DEF Confirm
  <1>3. IndexerInv'
    BY <1>2 DEF Confirm, passVars, IndexerInv, IndexerTypeOK, PassOK
  <1>4. Entries(ToSet(confirmed)) \subseteq Entries(ToSet(confirmed'))
    BY <1>2 DEF Entries
  <1> QED
    BY <1>3, <1>4 DEF Confirm, StoreStep, Store!Next, Store!Log

LEMMA ReadStep ==
    ASSUME IndexerInv, ReadTransaction
    PROVE  IndexerInv'
  <1>1. /\ todo \in Seq(Signatures) /\ todo # <<>>
        /\ Head(todo) \in Signatures
        /\ Tail(todo) \in Seq(Signatures) /\ ToSet(Tail(todo)) \subseteq ToSet(todo)
    BY SetOfParts DEF ReadTransaction, IndexerInv, IndexerTypeOK
  <1>2. logIndex = logIndex' /\ logIndex \in Nat
    BY DEF ReadTransaction, IndexerInv, IndexerTypeOK
  <1>3. CASE Head(todo) \in readable /\ EventsOf[Head(todo)] # <<>>
    <2>1. /\ fetched' = TRUE /\ todo' = todo /\ logIndex' = logIndex
          /\ UNCHANGED <<confirmed, readable, tables, process, stopping, indexerFaults>>
      BY <1>3 DEF ReadTransaction
    <2>2. logIndex = 0 /\ Len(EventsOf[Head(todo)]) > 0
      BY <1>1, <1>3, EventsAreSequences DEF ReadTransaction, IndexerInv, PassOK
    <2>3. PassOK'
      <3>1. process = "passing" /\ ToSet(todo) \subseteq ToSet(confirmed)
        BY DEF ReadTransaction, IndexerInv, PassOK
      <3>2. ToSet(todo') \subseteq ToSet(confirmed')
        BY <2>1, <3>1
      <3>3. logIndex' < Len(EventsOf[Head(todo')])
        BY <1>1, <2>1, <2>2, EventsAreSequences
      <3> QED
        BY <1>1, <2>1, <3>1, <3>2, <3>3 DEF PassOK
    <2>4. readable' \subseteq ToSet(confirmed')
      BY <2>1 DEF IndexerInv, IndexerTypeOK
    <2> QED
      BY <2>1, <2>3, <2>4 DEF IndexerInv, IndexerTypeOK
  <1>4. CASE ~(Head(todo) \in readable /\ EventsOf[Head(todo)] # <<>>)
    BY <1>1, <1>4 DEF ReadTransaction, IndexerInv, IndexerTypeOK, PassOK
  <1> QED
    BY <1>3, <1>4

LEMMA InsertStep ==
    ASSUME IndexerInv, InsertEvent
    PROVE  IndexerInv' /\ StoreStep
  <1> DEFINE s   == Head(todo)
             row == Row(s, logIndex)
  <1>1. /\ todo \in Seq(Signatures) /\ todo # <<>> /\ fetched
        /\ logIndex \in Nat /\ logIndex < Len(EventsOf[s])
    BY DEF InsertEvent, IndexerInv, IndexerTypeOK, PassOK
  <1>2. /\ s \in Signatures /\ s \in ToSet(todo)
        /\ Tail(todo) \in Seq(Signatures) /\ ToSet(Tail(todo)) \subseteq ToSet(todo)
    BY <1>1, SetOfParts
  <1>3. Len(EventsOf[s]) \in Nat
    BY <1>2, EventsAreSequences
  <1>4. logIndex \in 0 .. Len(EventsOf[s]) - 1
    BY <1>1, <1>3
  <1>5. s \in ToSet(confirmed) /\ ToSet(confirmed) \subseteq Signatures
    <2>1. s \in ToSet(confirmed)
      BY <1>2 DEF IndexerInv, PassOK
    <2>2. confirmed \in Seq(Signatures)
      BY DEF IndexerInv, IndexerTypeOK
    <2> QED
      BY <2>1, <2>2 DEF ToSet
  <1>6. row \in Entries(ToSet(confirmed)) /\ row \in Entries(Signatures)
    BY <1>2, <1>4, <1>5, RowOfEntry
  <1>7. \/ tables' = tables
        \/ row \notin ToSet(tables) /\ tables' = Append(tables, row)
    BY <1>2, <1>4, UpsertKeepsKeys DEF InsertEvent, IndexerInv
  <1>8. confirmed' = confirmed
    BY DEF InsertEvent
  <1> HIDE DEF row
  <1>9. StoreStep
    <2>1. CASE tables' = tables
      BY <1>8, <2>1 DEF StoreStep
    <2>2. CASE row \notin ToSet(tables) /\ tables' = Append(tables, row)
      <3>1. \E e \in Entries(ToSet(confirmed)) \ ToSet(tables) : tables' = Append(tables, e)
        BY <1>6, <2>2
      <3>2. Entries(ToSet(confirmed))' = Entries(ToSet(confirmed))
        BY <1>8
      <3>3. Store!ToSet(tables) = ToSet(tables)
        BY DEF ToSet, Store!ToSet
      <3>4. Store!Store
        BY <3>1, <3>2, <3>3 DEF Store!Store
      <3> QED
        BY <3>4 DEF StoreStep, Store!Next
    <2> QED
      BY <1>7, <2>1, <2>2
  <1>10. tables' \in Seq(Entries(Signatures))
    BY <1>6, <1>7 DEF IndexerInv, IndexerTypeOK
  <1>11. PassOK' /\ todo' \in Seq(Signatures) /\ fetched' \in BOOLEAN /\ logIndex' \in Nat
    <2>1. CASE logIndex + 1 = Len(EventsOf[s])
      <3>1. todo' = Tail(todo) /\ fetched' = FALSE /\ logIndex' = 0
        BY <2>1 DEF InsertEvent
      <3>2. ToSet(todo') \subseteq ToSet(confirmed')
        BY <1>2, <1>8, <3>1 DEF IndexerInv, PassOK
      <3> QED
        BY <1>2, <3>1, <3>2 DEF PassOK
    <2>2. CASE logIndex + 1 # Len(EventsOf[s])
      BY <1>1, <1>3, <1>8, <2>2 DEF InsertEvent, IndexerInv, IndexerTypeOK, PassOK
    <2> QED
      BY <2>1, <2>2
  <1>12. IndexerInv'
    BY <1>10, <1>11 DEF InsertEvent, IndexerInv, IndexerTypeOK
  <1> QED
    BY <1>9, <1>12

LEMMA IndexerStep == IndexerInv /\ [IndexerNext]_indexerVars => IndexerInv' /\ StoreStep
  <1> SUFFICES ASSUME IndexerInv, [IndexerNext]_indexerVars PROVE IndexerInv' /\ StoreStep
    OBVIOUS
  <1>1. ASSUME UNCHANGED <<confirmed, tables>> PROVE StoreStep
    BY <1>1 DEF StoreStep
  <1>2. ASSUME NEW s \in Signatures, BecomesReadable(s) PROVE IndexerInv' /\ StoreStep
    BY <1>1, <1>2 DEF BecomesReadable, passVars, IndexerInv, IndexerTypeOK, PassOK
  <1>3. ASSUME BeginPass PROVE IndexerInv' /\ StoreStep
    <2>1. /\ todo' = Window /\ process' = "passing"
          /\ UNCHANGED <<confirmed, readable, tables, stopping, fetched, logIndex, indexerFaults>>
      BY <1>3 DEF BeginPass
    <2>2. Window \in Seq(Signatures) /\ ToSet(Window) \subseteq ToSet(confirmed)
      BY WindowOfConfirmed DEF IndexerInv
    <2>3. ~fetched
      BY <1>3 DEF BeginPass, IndexerInv, PassOK
    <2>4. PassOK'
      BY <2>1, <2>2, <2>3 DEF IndexerInv, PassOK
    <2> QED
      BY <1>1, <2>1, <2>2, <2>4 DEF IndexerInv, IndexerTypeOK
  <1>4. ASSUME ReadTransaction PROVE IndexerInv' /\ StoreStep
    BY <1>1, <1>4, ReadStep DEF ReadTransaction
  <1>5. ASSUME EndPass PROVE IndexerInv' /\ StoreStep
    BY <1>1, <1>5 DEF EndPass, passVars, IndexerInv, IndexerTypeOK, PassOK
  <1>6. ASSUME FailPass \/ ProcessExits \/ Crash PROVE IndexerInv' /\ StoreStep
    <2>1. /\ stopping \in BOOLEAN /\ indexerFaults \in Nat /\ MaxIndexerFaults \in Nat
          /\ indexerFaults <= MaxIndexerFaults
      BY IndexerAssumption DEF IndexerInv, IndexerTypeOK
    <2>2. Abandon("down") \/ Abandon("asleep")
      BY <1>6 DEF FailPass, ProcessExits, Crash
    <2>3. stopping' \in BOOLEAN
      <3>1. stopping' = stopping \/ stopping' = FALSE
        BY <1>6 DEF FailPass, ProcessExits, Crash
      <3> QED
        BY <2>1, <3>1
    <2>4. indexerFaults' \in 0 .. MaxIndexerFaults
      <3>1. \/ indexerFaults' = indexerFaults
            \/ indexerFaults < MaxIndexerFaults /\ indexerFaults' = indexerFaults + 1
        BY <1>6 DEF FailPass, ProcessExits, Crash
      <3> QED
        BY <2>1, <3>1
    <2>5. \A next \in {"down", "asleep"} : Abandon(next) => IndexerInv'
      BY <2>3, <2>4, AbandonInv
    <2>6. UNCHANGED <<confirmed, tables>>
      BY <2>2 DEF Abandon
    <2> QED
      BY <1>1, <2>2, <2>5, <2>6
  <1>7. ASSUME ReceiveSignal PROVE IndexerInv' /\ StoreStep
    BY <1>1, <1>7, IndexerAssumption
       DEF ReceiveSignal, passVars, IndexerInv, IndexerTypeOK, PassOK
  <1>8. ASSUME Start PROVE IndexerInv' /\ StoreStep
    BY <1>1, <1>8 DEF Start, passVars, IndexerInv, IndexerTypeOK, PassOK
  <1>9. CASE UNCHANGED indexerVars
    BY <1>1, <1>9 DEF indexerVars, passVars, IndexerInv, IndexerTypeOK, PassOK
  <1> QED
    BY <1>2, <1>3, <1>4, <1>5, <1>6, <1>7, <1>8, <1>9, ConfirmStep, InsertStep
       DEF IndexerNext, Pass

\* For any chain, any logs and any size of the window, and however often passes fail or
\* the process dies, the indexer only ever does what the event store allows: it adds
\* logged entries it does not hold yet.
THEOREM IndexerImplementsEventStore == IndexerSpec => ImplementsEventStore
  <1>1. IndexerInit => Store!Init
    <2>1. Entries(ToSet(<<>>)) = {}
      BY DEF Entries, ToSet
    <2> QED
      BY <2>1 DEF IndexerInit, Store!Init
  <1>2. StoreStep => [Store!Next]_(Store!storeVars)
    BY DEF StoreStep, Store!storeVars
  <1> QED
    BY <1>1, <1>2, IndexerInitInv, IndexerStep, PTL
       DEF IndexerSpec, ImplementsEventStore, Store!Spec

-----------------------------------------------------------------------------
(* What the REST service answers from the tables *)

Above(T, t) == {u \in T : u > t}

\* There are n newest buckets, or all there are.
LEMMA NewestCount ==
    ASSUME NEW T, T \subseteq Int, IsFiniteSet(T), NEW n \in Nat, n <= Cardinality(T)
    PROVE  Cardinality(NewestOf(T, n)) = n
  <1> DEFINE Good == {k \in Nat : k <= Cardinality(T) => Cardinality(NewestOf(T, k)) = k}
  <1>1. \A t : IsFiniteSet(Above(T, t)) /\ Cardinality(Above(T, t)) \in Nat
    <2> SUFFICES ASSUME NEW t
                 PROVE  IsFiniteSet(Above(T, t)) /\ Cardinality(Above(T, t)) \in Nat
      OBVIOUS
    <2>1. Above(T, t) \subseteq T
      BY DEF Above
    <2> QED
      BY <2>1, FS_Subset, FS_CardinalityType
  <1>2. \A k : NewestOf(T, k) = {t \in T : Cardinality(Above(T, t)) < k}
    BY DEF NewestOf, Above
  <1>3. 0 \in Good
    <2>1. NewestOf(T, 0) = {}
      BY <1>1, <1>2
    <2> QED
      BY <2>1, FS_EmptySet
  <1>4. ASSUME NEW k \in Nat, k \in Good, k + 1 <= Cardinality(T)
        PROVE  Cardinality(NewestOf(T, k + 1)) = k + 1
    <2> DEFINE N == NewestOf(T, k)
               Rest == T \ N
    <2>1. Cardinality(T) \in Nat /\ k <= Cardinality(T) /\ Cardinality(T) # k
      BY <1>4, FS_CardinalityType
    <2>2. Cardinality(N) = k /\ N \subseteq T
      BY <1>2, <1>4, <2>1
    <2>3. Rest # {} /\ IsFiniteSet(Rest) /\ Rest \subseteq Int /\ IsFiniteSet(N)
      <3>1. IsFiniteSet(Rest) /\ IsFiniteSet(N)
        BY <2>2, FS_Subset
      <3>2. ASSUME Rest = {} PROVE FALSE
        <4>1. N = T
          BY <2>2, <3>2
        <4> QED
          BY <2>1, <2>2, <4>1
      <3> QED
        BY <3>1, <3>2
    <2>4. PICK x \in Rest : \A y \in Rest : x >= y
      BY <2>3, FiniteBounds
    <2>5. N \subseteq Above(T, x)
      <3> SUFFICES ASSUME NEW u \in N, ~(u > x) PROVE FALSE
        BY <2>2 DEF Above
      <3>1. u \in Int /\ x \in Int
        BY <2>2
      <3>2. Above(T, x) \subseteq Above(T, u)
        <4>1. \A y \in T : y > x => y > u
          <5> SUFFICES ASSUME NEW y \in T, y > x PROVE y > u
            OBVIOUS
          <5>1. y \in Int
            OBVIOUS
          <5> QED
            BY <3>1, <5>1
        <4> QED
          BY <4>1 DEF Above
      <3>3. Cardinality(Above(T, x)) <= Cardinality(Above(T, u))
        BY <1>1, <3>2, FS_Subset
      <3>4. Cardinality(Above(T, u)) < k
        BY <1>2
      <3>5. Cardinality(Above(T, x)) < k
        BY <1>1, <3>3, <3>4
      <3> QED
        BY <1>2, <3>5
    <2>6. Above(T, x) \subseteq N
      <3> SUFFICES ASSUME NEW u \in T, u > x, u \notin N PROVE FALSE
        BY DEF Above
      <3>1. u \in Rest /\ u \in Int /\ x \in Int
        OBVIOUS
      <3> QED
        BY <2>4, <3>1
    <2>7. Cardinality(Above(T, x)) = k
      BY <2>2, <2>5, <2>6
    <2>8. NewestOf(T, k + 1) = N \cup {x}
      <3>1. ASSUME NEW t \in N PROVE t \in NewestOf(T, k + 1)
        <4>1. t \in T /\ Cardinality(Above(T, t)) < k
          BY <1>2
        <4>2. Cardinality(Above(T, t)) < k + 1
          BY <1>1, <4>1
        <4> QED
          BY <1>2, <4>1, <4>2
      <3>2. x \in NewestOf(T, k + 1)
        BY <1>2, <2>7
      <3>3. ASSUME NEW t \in NewestOf(T, k + 1), t \notin N, t # x PROVE FALSE
        <4>1. t \in T /\ Cardinality(Above(T, t)) < k + 1
          BY <1>2
        <4>2. t \in Int /\ x \in Int /\ x > t
          BY <2>4, <3>3, <4>1
        <4>3. N \cup {x} \subseteq Above(T, t)
          <5>1. ASSUME NEW u \in N PROVE u \in T /\ u > t
            <6>1. u \in T /\ u > x
              BY <2>5 DEF Above
            <6>2. u \in Int
              BY <6>1
            <6> QED
              BY <4>2, <6>1, <6>2
          <5>2. x \in T /\ x > t
            BY <4>2
          <5> QED
            BY <5>1, <5>2 DEF Above
        <4>4. x \notin N /\ Cardinality(N \cup {x}) = k + 1
          BY <2>2, <2>3, FS_AddElement
        <4>5. Cardinality(N \cup {x}) <= Cardinality(Above(T, t))
          BY <1>1, <4>3, FS_Subset
        <4> QED
          BY <1>1, <4>1, <4>4, <4>5
      <3> QED
        BY <3>1, <3>2, <3>3
    <2> QED
      BY <2>2, <2>3, <2>8, FS_AddElement
  <1>5. \A k \in Nat : k \in Good => k + 1 \in Good
    <2> SUFFICES ASSUME NEW k \in Nat, k \in Good PROVE k + 1 \in Good
      OBVIOUS
    <2>1. k + 1 <= Cardinality(T) => Cardinality(NewestOf(T, k + 1)) = k + 1
      BY <1>4
    <2> QED
      BY <2>1
  <1>6. \A k \in Nat : k \in Good
    BY <1>3, <1>5, AllNumbers
  <1> QED
    BY <1>6

\* what a row of the table "trades" holds
TradeOK(r) ==
    /\ r.signature \in Signatures /\ r.logIndex \in Nat
    /\ r = Row(r.signature, r.logIndex)
    /\ r.columns.ts \in Nat /\ r.columns.price \in Nat /\ r.columns.base \in Nat

TradesOK(S) == IsFiniteSet(S) /\ \A r \in S : TradeOK(r)

LEMMA RowsAreTrades ==
    ASSUME NEW rows \in Seq(Entries(Signatures)), NEW m
    PROVE  TradesOK(RowsOf("trades", m, rows))
  <1>1. ASSUME NEW r \in RowsOf("trades", m, rows) PROVE TradeOK(r)
    <2>1. r \in Entries(Signatures) /\ r.table = "trades"
      BY DEF RowsOf, ToSet
    <2>2a. PICK s \in Signatures : r \in {Row(s, i) : i \in 0 .. Len(EventsOf[s]) - 1}
      BY <2>1 DEF Entries
    <2>2. PICK i \in 0 .. Len(EventsOf[s]) - 1 : r = Row(s, i)
      BY <2>2a
    <2>3. Len(EventsOf[s]) \in Nat /\ EventsOf[s] \in Seq(Range(EventsOf[s]))
      BY EventsAreSequences, IndexerAssumption
    <2>4. i \in Nat /\ i + 1 \in DOMAIN EventsOf[s]
      BY <2>3
    <2> DEFINE e == EventsOf[s][i + 1]
    <2>5. /\ r.table = TableOf(e.name) /\ r.signature = s /\ r.logIndex = i
          /\ r.columns = e
      BY <2>2 DEF Row
    <2>6. /\ e.name \in {"tradeRecord", "fundingRecord", "liquidationRecord"}
          /\ e.ts \in Nat
          /\ e.name = "tradeRecord" => e.price \in Nat /\ e.base \in Nat
      BY <2>4, HistoryAssumption
    <2> HIDE DEF e
    <2>7. e.name = "tradeRecord"
      BY <2>1, <2>5, <2>6 DEF TableOf
    <2> QED
      BY <2>2, <2>4, <2>5, <2>6, <2>7 DEF TradeOK
  <1>2. IsFiniteSet(RowsOf("trades", m, rows))
    <2>1. rows \in [1 .. Len(rows) -> Entries(Signatures)] /\ Len(rows) \in Nat
      OBVIOUS
    <2> DEFINE D == 1 .. Len(rows)
               Img == {rows[i] : i \in D}
    <2>2. IsFiniteSet(D)
      BY <2>1, FS_Interval
    <2>3. ToSet(rows) = Img
      BY <2>1 DEF ToSet
    <2>4. rows \in Surjection(D, Img)
      BY <2>1 DEF Surjection
    <2> HIDE DEF D, Img
    <2>5. IsFiniteSet(Img)
      BY <2>2, <2>4, FS_Surjection
    <2>6. RowsOf("trades", m, rows) \subseteq Img
      BY <2>3 DEF RowsOf
    <2> QED
      BY <2>5, <2>6, FS_Subset
  <1> QED
    BY <1>1, <1>2 DEF TradesOK

\* A set of trades that is not empty has one first and one last in the query's order.
LEMMA LastTrade ==
    ASSUME NEW S, TradesOK(S), S # {}
    PROVE  \E r \in S : \A q \in S \ {r} : Before(q, r)
  <1> DEFINE R == {p \in S \X S : Before(p[2], p[1])}
  <1>1. OrderOn(R, S)
    <2>1. ASSUME NEW x \in S, NEW y \in S, x # y PROVE <<x, y>> \in R \/ <<y, x>> \in R
      <3>1. TradeOK(x) /\ TradeOK(y)
        BY DEF TradesOK
      <3>2. x.signature # y.signature \/ x.logIndex # y.logIndex
        BY <2>1, <3>1 DEF TradeOK
      <3>3. /\ x.columns.ts \in Nat /\ y.columns.ts \in Nat
            /\ x.logIndex \in Nat /\ y.logIndex \in Nat
            /\ x.signature \in Signatures /\ y.signature \in Signatures
        BY <3>1 DEF TradeOK
      <3>4. /\ TextOrder[x.signature] \in Nat /\ TextOrder[y.signature] \in Nat
            /\ TextOrder[x.signature] = TextOrder[y.signature]
                 => x.signature = y.signature
        BY <3>3, HistoryAssumption
      <3>5. Before(x, y) \/ Before(y, x)
        BY <3>2, <3>3, <3>4 DEF Before
      <3> QED
        BY <3>5
    <2>2. ASSUME NEW x \in S, NEW y \in S, NEW z \in S, <<x, y>> \in R, <<y, z>> \in R
          PROVE  <<x, z>> \in R
      <3>1. TradeOK(x) /\ TradeOK(y) /\ TradeOK(z)
        BY DEF TradesOK
      <3>2. /\ x.columns.ts \in Nat /\ y.columns.ts \in Nat /\ z.columns.ts \in Nat
            /\ x.logIndex \in Nat /\ y.logIndex \in Nat /\ z.logIndex \in Nat
            /\ x.signature \in Signatures /\ y.signature \in Signatures
            /\ z.signature \in Signatures
        BY <3>1 DEF TradeOK
      <3>3. /\ TextOrder[x.signature] \in Nat /\ TextOrder[y.signature] \in Nat
            /\ TextOrder[z.signature] \in Nat
        BY <3>2, HistoryAssumption
      <3>4. Before(y, x) /\ Before(z, y)
        BY <2>2
      <3>5. Before(z, x)
        BY <3>2, <3>3, <3>4 DEF Before
      <3> QED
        BY <3>5
    <2> QED
      BY <2>1, <2>2 DEF OrderOn
  <1>2. \A p \in R : Before(p[2], p[1])
    OBVIOUS
  <1> HIDE DEF R
  <1>3. PICK r \in S : \A q \in S \ {r} : <<r, q>> \in R
    <2>1. IsFiniteSet(S)
      BY DEF TradesOK
    <2> QED
      BY <1>1, <2>1, FiniteFirst
  <1>4. ASSUME NEW q \in S \ {r} PROVE Before(q, r)
    <2>1. <<r, q>> \in R
      BY <1>3
    <2> QED
      BY <1>2, <2>1
  <1> QED
    BY <1>4

\* A later bucket holds later trades.
LEMMA BucketsInOrder ==
    ASSUME NEW r, TradeOK(r), NEW q, TradeOK(q), NEW res \in Resolutions
    PROVE  /\ Bucket(r, res) \in Nat
           /\ Bucket(q, res) > Bucket(r, res) => q.columns.ts > r.columns.ts
  <1> DEFINE d == res * MILLISECONDS
             x == r.columns.ts
             y == q.columns.ts
  <1>1. x \in Nat /\ y \in Nat /\ res \in Nat \ {0} /\ d \in Nat \ {0}
    BY HistoryAssumption DEF TradeOK
  <1>2. /\ Bucket(r, res) = (x \div d) * res
        /\ Bucket(q, res) = (y \div d) * res
    BY DEF Bucket
  <1> HIDE DEF d, x, y
  <1>3. x \div d \in Nat /\ y \div d \in Nat
    BY <1>1, DivOfNat
  <1>4. y <= x => y \div d <= x \div d
    BY <1>1, DivMonotone
  <1> DEFINE a == x \div d
             b == y \div d
  <1>5. a \in Nat /\ b \in Nat /\ (y <= x => b <= a)
    BY <1>3, <1>4
  <1> HIDE DEF a, b
  <1>6. b <= a => b * res <= a * res
    BY <1>1, <1>5
  <1>7. a * res \in Nat /\ b * res \in Nat
    BY <1>1, <1>5
  <1>8. b * res > a * res => y > x
    BY <1>1, <1>5, <1>6, <1>7
  <1> QED
    BY <1>2, <1>7, <1>8 DEF a, b, x, y

\* A candle spans the prices of its trades.
LEMMA CandleSpans ==
    ASSUME NEW S, TradesOK(S), S # {}, NEW t
    PROVE  /\ Candle(t, S).time = t
           /\ Candle(t, S).volume = Volume(S)
           /\ Candle(t, S).low \in PricesOf(S) /\ Candle(t, S).high \in PricesOf(S)
           /\ \A r \in S : r.columns.price \in Candle(t, S).low .. Candle(t, S).high
  <1> DEFINE P == PricesOf(S)
  <1>1. P \subseteq Nat /\ P # {}
    BY DEF PricesOf, TradesOK, TradeOK
  <1>2. IsFiniteSet(P)
    <2> DEFINE f == [r \in S |-> r.columns.price]
    <2>1. f \in Surjection(S, P)
      BY DEF Surjection, PricesOf
    <2>2. IsFiniteSet(S)
      BY DEF TradesOK
    <2> HIDE DEF f, P
    <2> QED
      BY <2>1, <2>2, FS_Surjection
  <1>3. \A r \in S : r.columns.price \in P
    BY DEF PricesOf
  <1>4. Candle(t, S).low = Min(P) /\ Candle(t, S).high = Max(P)
        /\ Candle(t, S).time = t /\ Candle(t, S).volume = Volume(S)
    BY DEF Candle
  <1> HIDE DEF P
  <1>5. P \subseteq Int
    BY <1>1
  <1>6. Max(P) \in P /\ \A y \in P : Max(P) >= y
    BY <1>1, <1>2, <1>5, FiniteBounds DEF Max
  <1>7. Min(P) \in P /\ \A y \in P : Min(P) <= y
    BY <1>1, <1>2, <1>5, FiniteBounds DEF Min
  <1>8. \A r \in S : r.columns.price \in Min(P) .. Max(P)
    <2> SUFFICES ASSUME NEW r \in S PROVE r.columns.price \in Min(P) .. Max(P)
      OBVIOUS
    <2> DEFINE p == r.columns.price
    <2>1. p \in P
      BY <1>3
    <2> HIDE DEF p
    <2>2. p \in Int /\ Min(P) \in Int /\ Max(P) \in Int /\ Min(P) <= p /\ p <= Max(P)
      BY <1>5, <1>6, <1>7, <2>1
    <2>3. p \in Min(P) .. Max(P)
      BY <2>2
    <2> QED
      BY <2>3 DEF p
  <1> QED
    BY <1>4, <1>6, <1>7, <1>8 DEF P

BucketsOf(S, res)   == {Bucket(r, res) : r \in S}
InBucket(S, res, t) == {r \in S : Bucket(r, res) = t}

\* Trades lie in no more buckets than there are trades.
LEMMA FewBuckets ==
    ASSUME NEW S, TradesOK(S), NEW res \in Resolutions
    PROVE  /\ BucketsOf(S, res) \subseteq Nat /\ IsFiniteSet(BucketsOf(S, res))
           /\ Cardinality(BucketsOf(S, res)) \in Nat /\ Cardinality(S) \in Nat
           /\ Cardinality(BucketsOf(S, res)) <= Cardinality(S)
  <1>1. BucketsOf(S, res) \subseteq Nat
    BY BucketsInOrder DEF BucketsOf, TradesOK
  <1>2. IsFiniteSet(S)
    BY DEF TradesOK
  <1> DEFINE f == [r \in S |-> Bucket(r, res)]
             B == BucketsOf(S, res)
  <1>3. f \in Surjection(S, B)
    BY DEF Surjection, BucketsOf
  <1> HIDE DEF f, B
  <1>4. IsFiniteSet(B) /\ Cardinality(B) <= Cardinality(S)
    BY <1>2, <1>3, FS_Surjection
  <1>5. Cardinality(B) \in Nat /\ Cardinality(S) \in Nat
    BY <1>2, <1>4, FS_CardinalityType
  <1> QED
    BY <1>1, <1>4, <1>5 DEF B

\* A bucket of trades holds trades.
LEMMA BucketOfTrades ==
    ASSUME NEW S, TradesOK(S), NEW res, NEW t \in BucketsOf(S, res)
    PROVE  TradesOK(InBucket(S, res, t)) /\ InBucket(S, res, t) # {}
  <1>1. InBucket(S, res, t) \subseteq S /\ InBucket(S, res, t) # {}
    BY DEF BucketsOf, InBucket
  <1> QED
    BY <1>1, FS_Subset DEF TradesOK

\* The newest trades, up to n of them, lie in the n newest buckets.
LEMMA PageInNewest ==
    ASSUME NEW all, TradesOK(all), NEW res \in Resolutions, NEW n \in Nat,
           NEW listed \in SUBSET all, Cardinality(listed) <= n,
           \A r \in listed, other \in all \ listed : r.columns.ts >= other.columns.ts,
           NEW r \in listed
    PROVE  Bucket(r, res) \in NewestOf(BucketsOf(all, res), n)
  <1> DEFINE b == Bucket(r, res)
             T == BucketsOf(all, res)
             rest == listed \ {r}
  <1>1. TradeOK(r) /\ b \in T
    BY DEF TradesOK, BucketsOf
  <1>2. TradesOK(rest) /\ IsFiniteSet(listed)
    BY FS_Subset DEF TradesOK
  <1>3. {u \in T : u > b} \subseteq BucketsOf(rest, res)
    <2> SUFFICES ASSUME NEW u \in T, u > b PROVE u \in BucketsOf(rest, res)
      OBVIOUS
    <2>1. PICK q \in all : u = Bucket(q, res)
      BY DEF BucketsOf
    <2>2. TradeOK(q) /\ Bucket(q, res) > Bucket(r, res)
      BY <2>1 DEF TradesOK
    <2>3. q.columns.ts > r.columns.ts
      BY <1>1, <2>2, BucketsInOrder
    <2>4. q.columns.ts \in Nat /\ r.columns.ts \in Nat
      BY <1>1, <2>2 DEF TradeOK
    <2>5. ~(r.columns.ts >= q.columns.ts) /\ q # r
      BY <2>3, <2>4
    <2>6. q \in listed
      BY <2>5
    <2>7. q \in rest
      BY <2>5, <2>6
    <2> QED
      BY <2>1, <2>7 DEF BucketsOf
  <1>4. /\ IsFiniteSet(BucketsOf(rest, res))
        /\ Cardinality(BucketsOf(rest, res)) \in Nat /\ Cardinality(rest) \in Nat
        /\ Cardinality(BucketsOf(rest, res)) <= Cardinality(rest)
    BY <1>2, FewBuckets
  <1>5. Cardinality(listed) \in Nat /\ Cardinality(rest) = Cardinality(listed) - 1
    BY <1>2, FS_RemoveElement, FS_CardinalityType
  <1> DEFINE U == {u \in T : u > b}
  <1>6. Cardinality(U) \in Nat /\ Cardinality(U) <= Cardinality(BucketsOf(rest, res))
    <2> HIDE DEF U
    <2>1. U \subseteq BucketsOf(rest, res)
      BY <1>3 DEF U
    <2> QED
      BY <1>4, <2>1, FS_Subset, FS_CardinalityType
  <1> HIDE DEF U
  <1>7. Cardinality(U) < n
    BY <1>4, <1>5, <1>6
  <1> HIDE DEF T, b
  <1>8. b \in NewestOf(T, n)
    BY <1>1, <1>7 DEF NewestOf, U
  <1> QED
    BY <1>8 DEF b, T

\* The newest of some trades.
LEMMA NewestTrade ==
    ASSUME NEW S, TradesOK(S), S # {}
    PROVE  \E r \in S : \A q \in S : r.columns.ts >= q.columns.ts
  <1>1. PICK r \in S : \A q \in S \ {r} : Before(q, r)
    BY LastTrade
  <1>2. ASSUME NEW q \in S PROVE r.columns.ts >= q.columns.ts
    <2>1. q.columns.ts \in Nat /\ r.columns.ts \in Nat
      BY DEF TradesOK, TradeOK
    <2>2. q = r \/ Before(q, r)
      BY <1>1
    <2>3. q = r \/ q.columns.ts <= r.columns.ts
      BY <2>1, <2>2 DEF Before
    <2> QED
      BY <2>1, <2>3
  <1> QED
    BY <1>2

\* A candle closes at the price of a trade of its last moment.
LEMMA CandleCloses ==
    ASSUME NEW S, TradesOK(S), S # {}, NEW t
    PROVE  \E x \in S : /\ x.columns.price = Candle(t, S).close
                        /\ \A q \in S : x.columns.ts >= q.columns.ts
  <1> DEFINE x == CHOOSE r \in S : \A q \in S \ {r} : Before(q, r)
  <1>1. x \in S /\ \A q \in S \ {x} : Before(q, x)
    BY LastTrade
  <1>2. Candle(t, S).close = x.columns.price
    BY DEF Candle
  <1> HIDE DEF x
  <1>3. ASSUME NEW q \in S PROVE x.columns.ts >= q.columns.ts
    <2>1. q.columns.ts \in Nat /\ x.columns.ts \in Nat
      BY <1>1 DEF TradesOK, TradeOK
    <2>2. q = x \/ Before(q, x)
      BY <1>1
    <2>3. q = x \/ q.columns.ts <= x.columns.ts
      BY <2>1, <2>2 DEF Before
    <2> QED
      BY <2>1, <2>3
  <1> QED
    BY <1>1, <1>2, <1>3

\* A page and the candles beside it agree in every state of the tables.
LEMMA PageAgrees == IndexerTypeOK => PageAndCandlesAgree
  <1> SUFFICES ASSUME IndexerTypeOK, NEW q \in Asked,
                      NEW listed \in PagesOf("trades", q[1], q[3], tables), listed # {}
               PROVE  LET served == CandlesOf(q[1], q[2], q[3], tables)
                      IN  /\ \A r \in listed : \E c \in served :
                                c.time = Bucket(r, q[2]) /\ r.columns.price \in c.low .. c.high
                          /\ \E r \in listed, c \in served :
                                /\ \A d \in served : c.time >= d.time
                                /\ \A other \in listed : r.columns.ts >= other.columns.ts
                                /\ \E x \in RowsOf("trades", q[1], tables) :
                                      x.columns.ts = r.columns.ts /\ x.columns.price = c.close
    BY DEF PageAndCandlesAgree
  <1> DEFINE m == q[1]
             res == q[2]
             n == q[3]
             all == RowsOf("trades", m, tables)
             served == CandlesOf(m, res, n, tables)
             T == BucketsOf(all, res)
             candle(t) == Candle(t, InBucket(all, res, t))
  <1>1. res \in Resolutions /\ n \in Nat \ {0} /\ tables \in Seq(Entries(Signatures))
    BY HistoryAssumption DEF Asked, IndexerTypeOK
  <1>2. TradesOK(all)
    BY <1>1, RowsAreTrades
  <1>3. /\ listed \in SUBSET all /\ Cardinality(listed) <= n
        /\ \A r \in listed, other \in all \ listed : r.columns.ts >= other.columns.ts
    <2>1. /\ listed \in SUBSET all
          /\ Cardinality(listed) = (IF Cardinality(all) < n THEN Cardinality(all) ELSE n)
          /\ \A r \in listed, other \in all \ listed : r.columns.ts >= other.columns.ts
      BY DEF PagesOf
    <2>2. Cardinality(all) \in Nat
      BY <1>2, FS_CardinalityType DEF TradesOK
    <2> HIDE DEF all, n
    <2> QED
      BY <1>1, <2>1, <2>2
  <1>3a. all = RowsOf("trades", m, tables) /\ served = CandlesOf(m, res, n, tables)
    OBVIOUS
  <1> HIDE DEF m, res, n, all, served
  <1>4. /\ served = {candle(t) : t \in NewestOf(T, n)}
        /\ \A t \in T : TradesOK(InBucket(all, res, t)) /\ InBucket(all, res, t) # {}
    <2>1. CandlesOf(m, res, n, tables) = {candle(t) : t \in NewestOf(T, n)}
      BY DEF CandlesOf, BucketsOf, InBucket, all
    <2>2. \A t \in T : TradesOK(InBucket(all, res, t)) /\ InBucket(all, res, t) # {}
      BY <1>2, BucketOfTrades
    <2> QED
      BY <1>3a, <2>1, <2>2
  <1>5. NewestOf(T, n) \subseteq T /\ T \subseteq Nat
    BY <1>1, <1>2, FewBuckets DEF NewestOf
  <1>6. \A t \in T : candle(t).time = t
    <2> SUFFICES ASSUME NEW t \in T PROVE candle(t).time = t
      OBVIOUS
    <2> QED
      BY <1>4, CandleSpans
  <1>7. ASSUME NEW r \in listed
        PROVE  /\ Bucket(r, res) \in NewestOf(T, n)
               /\ r \in InBucket(all, res, Bucket(r, res))
    <2>1. Bucket(r, res) \in NewestOf(T, n)
      BY <1>1, <1>2, <1>3, PageInNewest
    <2> QED
      BY <1>3, <2>1 DEF InBucket
  <1>8. ASSUME NEW r \in listed
        PROVE  \E c \in served : c.time = Bucket(r, res) /\ r.columns.price \in c.low .. c.high
    <2> DEFINE b == Bucket(r, res)
               S == InBucket(all, res, b)
    <2>1. b \in NewestOf(T, n) /\ b \in T /\ r \in S /\ TradesOK(S) /\ S # {}
      BY <1>4, <1>5, <1>7
    <2>2. Candle(b, S) \in served
      BY <1>4, <2>1
    <2> HIDE DEF S, b
    <2>3. Candle(b, S).time = b
          /\ r.columns.price \in Candle(b, S).low .. Candle(b, S).high
      BY <2>1, CandleSpans
    <2> QED
      BY <2>2, <2>3 DEF b
  <1>9. \E r \in listed, c \in served :
           /\ \A d \in served : c.time >= d.time
           /\ \A other \in listed : r.columns.ts >= other.columns.ts
           /\ \E x \in all : x.columns.ts = r.columns.ts /\ x.columns.price = c.close
    <2>1. TradesOK(listed)
      BY <1>2, <1>3, FS_Subset DEF TradesOK
    <2>2. PICK r \in listed : \A other \in listed : r.columns.ts >= other.columns.ts
      BY <2>1, NewestTrade
    <2>3. ASSUME NEW other \in all PROVE r.columns.ts >= other.columns.ts
      BY <1>3, <2>2, <2>3
    <2> DEFINE b == Bucket(r, res)
               S == InBucket(all, res, b)
               c == Candle(b, S)
    <2>4. b \in NewestOf(T, n) /\ b \in T /\ r \in S /\ TradesOK(S) /\ S # {}
      BY <1>4, <1>5, <1>7
    <2>5. c \in served /\ c.time = b
      <3>1. c \in served
        BY <1>4, <2>4
      <3> QED
        BY <1>6, <2>4, <3>1
    <2>6. ASSUME NEW d \in served PROVE c.time >= d.time
      <3>1. PICK t \in NewestOf(T, n) : d = candle(t)
        BY <1>4
      <3>2. t \in T /\ d.time = t
        BY <1>5, <1>6, <3>1
      <3>3. PICK o \in all : t = Bucket(o, res)
        BY <3>2 DEF BucketsOf
      <3>4. TradeOK(r) /\ TradeOK(o)
        BY <1>2, <1>3, <3>3 DEF TradesOK
      <3>5. ~(o.columns.ts > r.columns.ts)
        <4>1. o.columns.ts \in Nat /\ r.columns.ts \in Nat
          BY <3>4 DEF TradeOK
        <4> QED
          BY <2>3, <4>1
      <3>6. ~(t > b)
        BY <1>1, <3>3, <3>4, <3>5, BucketsInOrder
      <3>7. t \in Nat /\ b \in Nat
        BY <1>5, <2>4, <3>2
      <3> QED
        BY <2>5, <3>2, <3>6, <3>7
    <2>7. PICK x \in S : /\ x.columns.price = c.close
                         /\ \A o \in S : x.columns.ts >= o.columns.ts
      <3> HIDE DEF S, b
      <3> QED
        BY <2>4, CandleCloses
    <2>8. x \in all /\ x.columns.ts = r.columns.ts
      <3>1. x \in all /\ r \in all
        BY <1>3, <2>7 DEF InBucket
      <3>2. x.columns.ts \in Nat /\ r.columns.ts \in Nat
        BY <1>2, <3>1 DEF TradesOK, TradeOK
      <3>3. x.columns.ts >= r.columns.ts /\ r.columns.ts >= x.columns.ts
        BY <2>3, <2>4, <2>7, <3>1
      <3> QED
        BY <3>1, <3>2, <3>3
    <2> HIDE DEF c, S, b
    <2> QED
      BY <2>2, <2>5, <2>6, <2>7, <2>8
  <1> QED
    BY <1>8, <1>9 DEF m, res, n, all, served

\* Rows that were added widen a candle, keep it, or push it out by as many newer ones.
LEMMA CandlesWiden ==
    ASSUME NEW m, NEW res \in Resolutions, NEW n \in Limits,
           NEW old \in Seq(Entries(Signatures)), NEW new \in Seq(Entries(Signatures)),
           ToSet(old) \subseteq ToSet(new), NEW c \in CandlesOf(m, res, n, old)
    PROVE  LET then == CandlesOf(m, res, n, new)
           IN  \/ \E d \in then : /\ d.time = c.time /\ d.volume >= c.volume
                                  /\ c.low \in d.low .. d.high /\ c.high \in d.low .. d.high
               \/ Cardinality({d \in then : d.time > c.time}) = n
  <1> DEFINE then == CandlesOf(m, res, n, new)
             was == RowsOf("trades", m, old)
             all == RowsOf("trades", m, new)
             W == BucketsOf(was, res)
             T == BucketsOf(all, res)
  <1>1. TradesOK(was) /\ TradesOK(all) /\ was \subseteq all /\ n \in Nat \ {0}
    BY RowsAreTrades, HistoryAssumption DEF RowsOf
  <1>2. was = RowsOf("trades", m, old) /\ all = RowsOf("trades", m, new)
        /\ then = CandlesOf(m, res, n, new)
    OBVIOUS
  <1> HIDE DEF was, all, then
  <1>3. /\ CandlesOf(m, res, n, old)
              = {Candle(t, InBucket(was, res, t)) : t \in NewestOf(W, n)}
        /\ \A t \in W : TradesOK(InBucket(was, res, t)) /\ InBucket(was, res, t) # {}
    <2>1. CandlesOf(m, res, n, old)
              = {Candle(t, InBucket(was, res, t)) : t \in NewestOf(W, n)}
      BY DEF CandlesOf, BucketsOf, InBucket, was
    <2>2. \A t \in W : TradesOK(InBucket(was, res, t)) /\ InBucket(was, res, t) # {}
      BY <1>1, BucketOfTrades
    <2> QED
      BY <2>1, <2>2
  <1>4. /\ then = {Candle(t, InBucket(all, res, t)) : t \in NewestOf(T, n)}
        /\ \A t \in T : TradesOK(InBucket(all, res, t)) /\ InBucket(all, res, t) # {}
    <2>1. CandlesOf(m, res, n, new)
              = {Candle(t, InBucket(all, res, t)) : t \in NewestOf(T, n)}
      BY DEF CandlesOf, BucketsOf, InBucket, all
    <2>2. \A t \in T : TradesOK(InBucket(all, res, t)) /\ InBucket(all, res, t) # {}
      BY <1>1, BucketOfTrades
    <2> QED
      BY <1>2, <2>1, <2>2
  <1>5. /\ T \subseteq Nat /\ IsFiniteSet(T) /\ Cardinality(T) \in Nat
        /\ W \subseteq T
    BY <1>1, FewBuckets DEF BucketsOf
  <1>6. PICK t \in NewestOf(W, n) : c = Candle(t, InBucket(was, res, t))
    BY <1>3
  <1>7. t \in W /\ t \in T /\ t \in Nat
    BY <1>5, <1>6 DEF NewestOf
  <1> DEFINE S == InBucket(was, res, t)
             R == InBucket(all, res, t)
             d == Candle(t, R)
  <1>8. /\ TradesOK(S) /\ S # {} /\ TradesOK(R) /\ R # {} /\ S \subseteq R
        /\ c = Candle(t, S)
    BY <1>1, <1>3, <1>4, <1>6, <1>7 DEF InBucket
  <1>9. CASE t \in NewestOf(T, n)
    <2>1. d \in then
      BY <1>4, <1>9
    <2> HIDE DEF S, R
    <2>2. /\ d.time = t /\ d.volume = Volume(R)
          /\ \A r \in R : r.columns.price \in d.low .. d.high
      BY <1>8, CandleSpans
    <2>3. /\ c.time = t /\ c.volume = Volume(S)
          /\ c.low \in PricesOf(S) /\ c.high \in PricesOf(S)
      BY <1>8, CandleSpans
    <2>4. c.low \in d.low .. d.high /\ c.high \in d.low .. d.high
      BY <1>8, <2>2, <2>3 DEF PricesOf
    <2>5. Volume(R) >= Volume(S)
      <3> DEFINE f == [r \in R |-> r.columns.base]
                 g == [r \in S |-> r.columns.base]
      <3>1. f \in [R -> Nat] /\ g \in [S -> Nat] /\ \A x \in S : g[x] = f[x]
        BY <1>8 DEF TradesOK, TradeOK
      <3>2. Volume(R) = SumFunction(f) /\ Volume(S) = SumFunction(g)
        BY DEF Volume
      <3>3. IsFiniteSet(R) /\ IsFiniteSet(S)
        BY <1>8 DEF TradesOK
      <3> HIDE DEF f, g
      <3>4. SumFunction(g) <= SumFunction(f)
        BY <1>8, <3>1, <3>3, SumOfFewer
      <3>5. SumFunction(g) \in Nat /\ SumFunction(f) \in Nat
        BY <3>1, <3>3, SumOfNats
      <3> QED
        BY <3>2, <3>4, <3>5
    <2>6. d.time = c.time /\ d.volume >= c.volume
      BY <2>2, <2>3, <2>5
    <2> HIDE DEF d
    <2>7. \E e \in then : /\ e.time = c.time /\ e.volume >= c.volume
                          /\ c.low \in e.low .. e.high /\ c.high \in e.low .. e.high
      BY <2>1, <2>4, <2>6
    <2> QED
      BY <1>2, <2>7
  <1>10. CASE t \notin NewestOf(T, n)
    <2> DEFINE N == NewestOf(T, n)
               candle(u) == Candle(u, InBucket(all, res, u))
               newer == {e \in then : e.time > t}
               f == [u \in N |-> candle(u)]
    <2>1. N \subseteq T /\ IsFiniteSet(N)
      BY <1>5, FS_Subset DEF NewestOf
    <2>2. n <= Cardinality(T) /\ \A u \in N : u > t
      <3>1. Cardinality(Above(T, t)) >= n
        <4>1. Cardinality(Above(T, t)) \in Nat /\ Above(T, t) \subseteq T
          BY <1>5, FS_Subset, FS_CardinalityType DEF Above
        <4>2. ~(Cardinality(Above(T, t)) < n)
          BY <1>7, <1>10 DEF NewestOf, Above
        <4> QED
          BY <1>1, <4>1, <4>2
      <3>2. Cardinality(Above(T, t)) <= Cardinality(T) /\ Cardinality(Above(T, t)) \in Nat
        BY <1>5, FS_Subset, FS_CardinalityType DEF Above
      <3>3. ASSUME NEW u \in N, ~(u > t) PROVE FALSE
        <4>1. u \in Nat /\ u \in T
          BY <1>5, <2>1
        <4>2. \A y \in T : y > t => y > u
          <5> SUFFICES ASSUME NEW y \in T, y > t PROVE y > u
            OBVIOUS
          <5>1. y \in Nat
            BY <1>5
          <5> QED
            BY <1>7, <3>3, <4>1, <5>1
        <4>3. Above(T, t) \subseteq Above(T, u)
          BY <4>2 DEF Above
        <4>4. IsFiniteSet(Above(T, u))
          <5>1. Above(T, u) \subseteq T
            BY DEF Above
          <5> QED
            BY <1>5, <5>1, FS_Subset
        <4>5. Cardinality(Above(T, t)) <= Cardinality(Above(T, u))
              /\ Cardinality(Above(T, u)) \in Nat
          BY <4>3, <4>4, FS_Subset, FS_CardinalityType
        <4>6. Cardinality(Above(T, u)) < n
          BY DEF NewestOf, Above
        <4> QED
          BY <1>1, <3>1, <3>2, <4>5, <4>6
      <3>4. n <= Cardinality(T)
        BY <1>1, <1>5, <3>1, <3>2
      <3> QED
        BY <3>3, <3>4
    <2>3. Cardinality(N) = n
      <3>1. T \subseteq Int
        BY <1>5
      <3> HIDE DEF T
      <3> QED
        BY <1>1, <1>5, <2>2, <3>1, NewestCount
    <2>4. \A u \in N : candle(u).time = u
      <3> SUFFICES ASSUME NEW u \in N PROVE candle(u).time = u
        OBVIOUS
      <3>1. u \in T
        BY <2>1
      <3> QED
        BY <1>4, <3>1, CandleSpans
    <2>5. then = {candle(u) : u \in N}
      BY <1>4
    <2> HIDE DEF N, candle
    <2>6. newer = {candle(u) : u \in N}
      BY <2>2, <2>4, <2>5
    <2>7. f \in Bijection(N, newer)
      <3>1. f \in [N -> newer] /\ \A e \in newer : \E u \in N : f[u] = e
        BY <2>6
      <3>2. \A u, v \in N : f[u] = f[v] => u = v
        BY <2>4
      <3> HIDE DEF f, newer
      <3>3. f \in Injection(N, newer)
        BY <3>1, <3>2 DEF Injection, IsInjective
      <3>4. f \in Surjection(N, newer)
        BY <3>1 DEF Surjection
      <3> QED
        BY <3>3, <3>4 DEF Bijection
    <2> HIDE DEF f, newer
    <2>8. Cardinality(newer) = n
      <3>1. ExistsBijection(N, newer)
        BY <2>7 DEF ExistsBijection
      <3> QED
        BY <2>1, <2>3, <3>1, FS_Bijection
    <2>9. c.time = t
      <3> HIDE DEF S
      <3> QED
        BY <1>8, CandleSpans
    <2> QED
      BY <1>2, <2>8, <2>9 DEF newer
  <1> QED
    BY <1>9, <1>10

\* For any chain, logs, resolutions and limits, and whatever the indexer has managed to
\* store: the page of trades and the candles beside it tell one story (api.ts, candles.ts).
THEOREM PageAndCandlesAlwaysAgree == IndexerSpec => []PageAndCandlesAgree
  <1>1. IndexerInv => PageAndCandlesAgree
    BY PageAgrees DEF IndexerInv
  <1> QED
    BY <1>1, IndexerInitInv, IndexerStep, PTL DEF IndexerSpec

\* However late and out of order rows arrive, a candle that was served only widens, or
\* is pushed out by as many newer ones as were asked for.
THEOREM CandlesOnlyEverWiden == IndexerSpec => ServedCandlesOnlyWiden
  <1> DEFINE Widen ==
        \A q \in Asked :
          LET before  == CandlesOf(q[1], q[2], q[3], tables)
              then == CandlesOf(q[1], q[2], q[3], tables')
          IN  \A c \in before :
                 \/ \E d \in then : /\ d.time = c.time /\ d.volume >= c.volume
                                    /\ c.low \in d.low .. d.high /\ c.high \in d.low .. d.high
                 \/ Cardinality({d \in then : d.time > c.time}) = q[3]
  <1>1. IndexerInv /\ IndexerInv' /\ StoreStep => [Widen]_tables
    <2> SUFFICES ASSUME IndexerInv, IndexerInv', StoreStep, tables' # tables PROVE Widen
      OBVIOUS
    <2>1. tables \in Seq(Entries(Signatures)) /\ tables' \in Seq(Entries(Signatures))
      BY DEF IndexerInv, IndexerTypeOK
    <2>2. ToSet(tables) \subseteq ToSet(tables')
      <3>1. PICK e : tables' = Append(tables, e)
        BY DEF StoreStep, Store!Next, Store!Store, Store!Log
      <3>2. \A i \in DOMAIN tables : tables'[i] = tables[i] /\ i \in DOMAIN tables'
        BY <2>1, <3>1
      <3> QED
        BY <3>2 DEF ToSet
    <2> SUFFICES ASSUME NEW q \in Asked,
                        NEW c \in CandlesOf(q[1], q[2], q[3], tables)
                 PROVE  LET then == CandlesOf(q[1], q[2], q[3], tables')
                        IN  \/ \E d \in then :
                                 /\ d.time = c.time /\ d.volume >= c.volume
                                 /\ c.low \in d.low .. d.high /\ c.high \in d.low .. d.high
                            \/ Cardinality({d \in then : d.time > c.time}) = q[3]
      OBVIOUS
    <2>3. q[2] \in Resolutions /\ q[3] \in Limits
      BY DEF Asked
    <2> QED
      BY <2>1, <2>2, <2>3, CandlesWiden
  <1> QED
    BY <1>1, IndexerInitInv, IndexerStep, PTL DEF IndexerSpec, ServedCandlesOnlyWiden

-----------------------------------------------------------------------------
(* The operator's scripts. *)

TaskLayout  == [script : ScriptNames, step : ScriptSteps, mint : Nat, n : Nat]

\* create-usdc is about to make another mint, or to save it
MintsAnew == task.script = "create-usdc" /\ task.step \in {"create", "save"}

\* MintsAgree is not inductive: it says nothing of the script that is running.
\* bootstrap and faucet work with the cached mint; create-usdc makes a new one only
\* while neither the program nor a user has one, unless it misread the chain; and the
\* mints in use are mints the chain has, so a lookup that does not fail finds them.
MintsInv ==
    /\ task \in TaskLayout /\ issued \in Nat /\ cache \in Nat /\ misread \in BOOLEAN
    /\ task.script \in {"bootstrap", "faucet"} => task.mint = cache
    /\ MintsAnew /\ ~misread => stateMint = 0 /\ handedOut = 0
    /\ {stateMint, handedOut} \subseteq {0} \cup mints
    /\ ~misread => {stateMint, handedOut} \subseteq {0, cache}

\* What a step may make of the running script without being about mints.
TaskMovesOn ==
    \/ task' = task \/ task' = NoTask
    \/ task'.script = "airdrop" /\ task' \in TaskLayout
    \/ /\ task' \in TaskLayout /\ task.script # "create-usdc"
       /\ task'.script = task.script /\ task'.mint = task.mint

LEMMA NoTaskLayout ==
    NoTask \in TaskLayout /\ NoTask.script = "none" /\ NoTask.step = "none"
  <1>1. NoTask = [script |-> "none", step |-> "none", mint |-> 0, n |-> 0]
    BY DEF NoTask, At
  <1> QED
    BY <1>1 DEF TaskLayout, ScriptNames, ScriptSteps

LEMMA AtLayout ==
    ASSUME NEW script \in ScriptNames, NEW step \in ScriptSteps,
           NEW mint \in Nat, NEW n \in Nat
    PROVE  /\ At(script, step, mint, n) \in TaskLayout
           /\ At(script, step, mint, n).script = script
           /\ At(script, step, mint, n).step = step
           /\ At(script, step, mint, n).mint = mint
  BY DEF At, TaskLayout

LEMMA GoesKeeps ==
    ASSUME task \in TaskLayout, NEW step \in ScriptSteps, Goes(step)
    PROVE  /\ task' \in TaskLayout
           /\ task'.script = task.script /\ task'.mint = task.mint /\ task'.step = step
  BY DEF TaskLayout, Goes

LEMMA NextMarketMovesOn ==
    ASSUME task \in TaskLayout, task.script = "bootstrap", NextMarket
    PROVE  TaskMovesOn
  <1>1. CASE task' = NoTask
    BY <1>1 DEF TaskMovesOn
  <1>2. CASE task' = [task EXCEPT !.step = "oracle", !.n = @ + 1]
    <2>1. /\ task = [script |-> task.script, step |-> task.step, mint |-> task.mint,
                     n |-> task.n]
          /\ task.n + 1 \in Nat
      BY DEF TaskLayout
    <2>2. task' = [script |-> task.script, step |-> "oracle", mint |-> task.mint,
                   n |-> task.n + 1]
      BY <1>2, <2>1
    <2>3. /\ task' \in TaskLayout
          /\ task'.script = task.script /\ task'.mint = task.mint
      BY <2>1, <2>2 DEF TaskLayout, ScriptSteps
    <2> QED
      BY <2>3 DEF TaskMovesOn
  <1> QED
    BY <1>1, <1>2 DEF NextMarket

LEMMA GoesMovesOn ==
    ASSUME task \in TaskLayout, task.script # "create-usdc", NEW step \in ScriptSteps, Goes(step)
    PROVE  TaskMovesOn
  BY GoesKeeps DEF TaskMovesOn

LEMMA MintsFrame ==
    ASSUME MintsInv, TaskMovesOn, issued' = issued,
           UNCHANGED <<mints, stateMint, handedOut, cache, misread>>
    PROVE  MintsInv'
  <1>1. /\ task' \in TaskLayout
        /\ task'.script \in {"bootstrap", "faucet"} => task'.mint = cache'
    BY NoTaskLayout DEF TaskMovesOn, MintsInv
  <1>2. MintsAnew' => MintsAnew
    BY NoTaskLayout DEF TaskMovesOn, MintsAnew
  <1> QED
    BY <1>1, <1>2 DEF MintsInv

LEMMA MintsInitInv == DeploymentInit => MintsInv
  <1> SUFFICES ASSUME DeploymentInit PROVE MintsInv
    OBVIOUS
  <1>1. /\ task = NoTask /\ issued = 0 /\ cache = 0 /\ misread = FALSE
        /\ stateMint = 0 /\ handedOut = 0 /\ mints = {}
    BY DEF DeploymentInit
  <1>2. task \in TaskLayout /\ task.script = "none"
    BY <1>1, NoTaskLayout
  <1> QED
    BY <1>1, <1>2 DEF MintsInv, MintsAnew

\* A script that works with the cached mint starts.
LEMMA StartsWithCacheInv ==
    ASSUME MintsInv, NEW script \in {"bootstrap", "faucet"}, NEW step \in ScriptSteps,
           Run(script, step, cache, 0), issued' = issued,
           UNCHANGED <<mints, stateMint, handedOut, cache, misread>>
    PROVE  MintsInv'
  <1>1. /\ task' \in TaskLayout /\ task'.script = script /\ task'.mint = cache
    BY AtLayout DEF Run, MintsInv, ScriptNames
  <1>2. ~MintsAnew'
    BY <1>1 DEF MintsAnew
  <1> QED
    BY <1>1, <1>2 DEF MintsInv

\* create-usdc makes another mint at once only when the operator has none cached, and
\* then the program has none.
LEMMA RunCreateUsdcInv ==
    ASSUME MintsInv, RunCreateUsdc
    PROVE  MintsInv'
  <1> DEFINE step == IF cache = 0 THEN "create" ELSE "lookup"
  <1>1. step \in ScriptSteps /\ "create-usdc" \in ScriptNames
    BY DEF ScriptSteps, ScriptNames
  <1>2. task' = At("create-usdc", step, 0, 0)
    BY DEF RunCreateUsdc, Run
  <1> HIDE DEF step
  <1>3. task' \in TaskLayout /\ task'.script = "create-usdc" /\ task'.step = step
    BY <1>1, <1>2, AtLayout
  <1>4. /\ issued' = issued
        /\ UNCHANGED <<mints, stateMint, handedOut, cache, misread>>
    BY DEF RunCreateUsdc, chainVars
  <1>5. MintsAnew' /\ ~misread => stateMint = 0 /\ handedOut = 0
    <2> SUFFICES ASSUME MintsAnew', ~misread PROVE stateMint = 0 /\ handedOut = 0
      OBVIOUS
    <2>1. cache = 0
      BY <1>3 DEF MintsAnew, step
    <2> QED
      BY <2>1 DEF MintsInv
  <1> QED
    BY <1>3, <1>4, <1>5 DEF MintsInv

\* A lookup that goes on to create either found no such mint on the chain, and then
\* neither the program nor a user has one, or is remembered as a misreading.
LEMMA LookUpMintInv ==
    ASSUME MintsInv, LookUpMint
    PROVE  MintsInv'
  <1>1. /\ issued' = issued
        /\ UNCHANGED <<mints, stateMint, handedOut, cache>>
        /\ misread' = (misread \/ (cache \in mints /\ task'.step = "create"))
    BY DEF LookUpMint, chainVars
  <1>2. CASE task' = NoTask
    <2>1. misread' = misread
      <3>1. task'.step # "create"
        BY <1>2, NoTaskLayout
      <3> QED
        BY <1>1, <3>1 DEF MintsInv
    <2>2. TaskMovesOn
      BY <1>2 DEF TaskMovesOn
    <2> QED
      BY <1>1, <2>1, <2>2, MintsFrame
  <1>3. CASE Goes("create")
    <2>1. /\ task' \in TaskLayout /\ task'.script = "create-usdc"
          /\ task'.step = "create"
      BY <1>3, GoesKeeps DEF LookUpMint, In, MintsInv, ScriptSteps
    <2>2. /\ ~misread' => ~misread /\ cache \notin mints
          /\ misread' \in BOOLEAN
      BY <1>1, <2>1
    <2>3. ~misread' => stateMint = 0 /\ handedOut = 0
      BY <2>2 DEF MintsInv
    <2> QED
      BY <1>1, <2>1, <2>2, <2>3 DEF MintsInv
  <1> QED
    BY <1>2, <1>3 DEF LookUpMint, Probe, Exit

\* Whatever becomes of the transaction, at most one mint more is on the chain.
LEMMA CreateMintInv ==
    ASSUME MintsInv, CreateMint
    PROVE  MintsInv'
  <1>1. /\ UNCHANGED <<stateMint, handedOut, cache, misread>>
        /\ task.script = "create-usdc" /\ task.step = "create"
        /\ task \in TaskLayout /\ issued \in Nat
    BY DEF CreateMint, In, MintsInv
  <1>2. /\ issued' \in {issued, issued + 1}
        /\ mints \subseteq mints'
        /\ \/ task' = NoTask
           \/ task' = [task EXCEPT !.step = "save", !.mint = issued']
    BY DEF CreateMint, Send, Exit
  <1>3. issued' \in Nat
    BY <1>1, <1>2
  <1>4. ~misread => stateMint = 0 /\ handedOut = 0
    BY <1>1 DEF MintsInv, MintsAnew
  <1>5. task' \in TaskLayout /\ task'.script \in {"none", "create-usdc"}
    <2>1. CASE task' = NoTask
      BY <2>1, NoTaskLayout
    <2>2. CASE task' = [task EXCEPT !.step = "save", !.mint = issued']
      <3>1. task = [script |-> task.script, step |-> task.step, mint |-> task.mint,
                    n |-> task.n]
        BY <1>1 DEF TaskLayout
      <3>2. task' = [script |-> "create-usdc", step |-> "save", mint |-> issued',
                     n |-> task.n]
        BY <1>1, <2>2, <3>1
      <3>3. task.n \in Nat
        BY <1>1 DEF TaskLayout
      <3> QED
        BY <1>3, <3>2, <3>3 DEF TaskLayout, ScriptNames, ScriptSteps
    <2> QED
      BY <1>2, <2>1, <2>2
  <1> QED
    BY <1>1, <1>2, <1>3, <1>4, <1>5 DEF MintsInv

\* The new mint becomes the cached one while nobody has another, or after a misreading.
LEMMA SaveMintInv ==
    ASSUME MintsInv, SaveMint
    PROVE  MintsInv'
  <1>1. /\ issued' = issued /\ cache' = task.mint /\ task' = NoTask
        /\ UNCHANGED <<mints, stateMint, handedOut, misread>>
        /\ task \in TaskLayout
    BY DEF SaveMint, chainVars, Exit, MintsInv
  <1>2. ~misread => stateMint = 0 /\ handedOut = 0
    BY DEF SaveMint, In, MintsInv, MintsAnew
  <1>3. cache' \in Nat
    BY <1>1 DEF TaskLayout
  <1>4. task' \in TaskLayout /\ task'.script = "none"
    BY <1>1, NoTaskLayout
  <1> QED
    BY <1>1, <1>2, <1>3, <1>4 DEF MintsInv, MintsAnew

\* The program takes the cached mint, which the chain has.
LEMMA InitializeStateInv ==
    ASSUME MintsInv, InitializeState
    PROVE  MintsInv'
  <1>1. /\ issued' = issued /\ UNCHANGED <<mints, handedOut, cache, misread>>
        /\ task \in TaskLayout /\ task.script = "bootstrap" /\ task.mint = cache
    BY DEF InitializeState, In, MintsInv
  <1>2. \/ stateMint' = stateMint
        \/ stateMint' = cache /\ cache \in mints
    BY <1>1 DEF InitializeState, Send
  <1>3. TaskMovesOn
    <2>1. task' = NoTask \/ Goes("oracle")
      BY DEF InitializeState, Send, Exit
    <2> QED
      BY <1>1, <2>1, GoesMovesOn DEF TaskMovesOn, ScriptSteps
  <1>4. /\ task' \in TaskLayout /\ ~MintsAnew'
        /\ task'.script \in {"bootstrap", "faucet"} => task'.mint = cache'
    BY <1>1, <1>3, NoTaskLayout DEF TaskMovesOn, MintsAnew
  <1> QED
    BY <1>1, <1>2, <1>4 DEF MintsInv

\* So does the user who is handed tokens.
LEMMA MintToWalletInv ==
    ASSUME MintsInv, MintToWallet
    PROVE  MintsInv'
  <1>1. /\ issued' = issued /\ UNCHANGED <<mints, stateMint, cache, misread>>
        /\ task \in TaskLayout /\ task.script = "faucet" /\ task.mint = cache
    BY DEF MintToWallet, In, MintsInv
  <1>2. \/ handedOut' = handedOut
        \/ handedOut' = cache /\ cache \in mints
    BY <1>1 DEF MintToWallet, Send
  <1>3. task' = NoTask
    BY DEF MintToWallet, Send, Exit
  <1>4. task' \in TaskLayout /\ task'.script = "none"
    BY <1>3, NoTaskLayout
  <1> QED
    BY <1>1, <1>2, <1>4 DEF MintsInv, MintsAnew

\* An empty ledger has no mint, so nothing that was misread matters.
LEMMA ResetValidatorInv ==
    ASSUME MintsInv, ResetValidator
    PROVE  MintsInv'
  BY DEF ResetValidator, MintsInv, MintsAnew

LEMMA ScriptStepInv ==
    ASSUME MintsInv, ScriptStep
    PROVE  MintsInv'
  <1> USE DEF ScriptSteps
  <1>1. ASSUME RequestAirdrop \/ ConfirmAirdrop PROVE MintsInv'
    <2>1. /\ issued' = issued /\ UNCHANGED <<mints, stateMint, handedOut, cache, misread>>
          /\ task \in TaskLayout /\ task.script = "airdrop"
      BY <1>1 DEF RequestAirdrop, ConfirmAirdrop, In, chainVars, MintsInv
    <2>2. ASSUME AttemptFails PROVE TaskMovesOn
      <3>1. CASE task' = NoTask
        BY <3>1 DEF TaskMovesOn
      <3>2. CASE task' = [task EXCEPT !.step = "request", !.n = @ + 1]
        <4>1. /\ task = [script |-> task.script, step |-> task.step, mint |-> task.mint,
                         n |-> task.n]
              /\ task.n + 1 \in Nat
          BY <2>1 DEF TaskLayout
        <4>2. task' = [script |-> task.script, step |-> "request", mint |-> task.mint,
                       n |-> task.n + 1]
          BY <3>2, <4>1
        <4>3. task' \in TaskLayout /\ task'.script = "airdrop"
          BY <2>1, <4>1, <4>2 DEF TaskLayout
        <4> QED
          BY <4>3 DEF TaskMovesOn
      <3> QED
        BY <2>2, <3>1, <3>2 DEF AttemptFails
    <2>3. Goes("confirm") \/ AttemptFails \/ Exit
      BY <1>1 DEF RequestAirdrop, ConfirmAirdrop
    <2>4. TaskMovesOn
      <3>1. Goes("confirm") => TaskMovesOn
        BY <2>1, GoesMovesOn
      <3> QED
        BY <2>2, <2>3, <3>1 DEF Exit, TaskMovesOn
    <2> QED
      BY <2>1, <2>4, MintsFrame
  <1>2. ASSUME \/ FetchState \/ FetchOracle \/ InitializeMockOracle
               \/ FetchMarket \/ CreateMarket
        PROVE  MintsInv'
    <2>1. /\ issued' = issued /\ UNCHANGED <<mints, stateMint, handedOut, cache, misread>>
          /\ task \in TaskLayout /\ task.script = "bootstrap"
      BY <1>2 DEF FetchState, FetchOracle, InitializeMockOracle, FetchMarket, CreateMarket,
                  In, chainVars, MintsInv
    <2>2. \/ Goes("oracle") \/ Goes("initState") \/ Goes("market") \/ Goes("initOracle")
          \/ Goes("initMarket") \/ NextMarket \/ Exit
      BY <1>2 DEF FetchState, FetchOracle, InitializeMockOracle, FetchMarket, CreateMarket,
                  Probe, Send
    <2>3. ASSUME NEW step \in ScriptSteps, Goes(step) PROVE TaskMovesOn
      BY <2>1, <2>3, GoesMovesOn
    <2>4. NextMarket => TaskMovesOn
      BY <2>1, NextMarketMovesOn
    <2>5. TaskMovesOn
      BY <2>2, <2>3, <2>4 DEF Exit, TaskMovesOn
    <2> QED
      BY <2>1, <2>5, MintsFrame
  <1> QED
    BY <1>1, <1>2, LookUpMintInv, CreateMintInv, SaveMintInv, InitializeStateInv,
       MintToWalletInv DEF ScriptStep

LEMMA DeploymentNextInv == MintsInv /\ [DeploymentNext]_deploymentVars => MintsInv'
  <1> SUFFICES ASSUME MintsInv, [DeploymentNext]_deploymentVars PROVE MintsInv'
    OBVIOUS
  <1>1. ASSUME RunAirdrop PROVE MintsInv'
    <2>1. /\ "airdrop" \in ScriptNames /\ "request" \in ScriptSteps
          /\ 0 \in Nat /\ 1 \in Nat
      BY DEF ScriptNames, ScriptSteps
    <2>2. task' = At("airdrop", "request", 0, 1)
      BY <1>1 DEF RunAirdrop, Run
    <2>3. TaskMovesOn
      BY <2>1, <2>2, AtLayout DEF TaskMovesOn
    <2> QED
      BY <1>1, <2>3, MintsFrame DEF RunAirdrop, chainVars
  <1>2. ASSUME RunBootstrap \/ RunFaucet PROVE MintsInv'
    <2>1. issued' = issued /\ UNCHANGED <<mints, stateMint, handedOut, cache, misread>>
      BY <1>2 DEF RunBootstrap, RunFaucet, chainVars
    <2>2. \/ Run("bootstrap", "state", cache, 0) \/ Run("faucet", "mintTo", cache, 0)
      BY <1>2 DEF RunBootstrap, RunFaucet
    <2>3. {"state", "mintTo"} \subseteq ScriptSteps
      BY DEF ScriptSteps
    <2> QED
      BY <2>1, <2>2, <2>3, StartsWithCacheInv
  <1>3. ASSUME \/ StartPusher \/ StopPusher \/ PusherStep
               \/ \E m \in PerpMarkets : GoesStale(m)
               \/ UNCHANGED deploymentVars
        PROVE  MintsInv'
    <2>1. /\ issued' = issued /\ task' = task
          /\ UNCHANGED <<mints, stateMint, handedOut, cache, misread>>
      BY <1>3 DEF StartPusher, StopPusher, PusherStep, FetchPrice, UpdatePrice,
                  FireTimer, GoesStale, deploymentVars, chainVars
    <2> QED
      BY <2>1, MintsFrame DEF TaskMovesOn
  <1>4. ASSUME Interrupt PROVE MintsInv'
    BY <1>4, MintsFrame DEF Interrupt, Exit, chainVars, TaskMovesOn
  <1> QED
    BY <1>1, <1>2, <1>3, <1>4, RunCreateUsdcInv, ScriptStepInv, ResetValidatorInv
       DEF DeploymentNext

\* Whatever is interrupted, lost, reset or run again, the cached mint and the tokens
\* handed out are of the program's own mint, unless create-usdc took a failed lookup
\* for a mint that does not exist.
THEOREM MintsAlwaysAgree == DeploymentSpec => []MintsAgree
  <1>1. MintsInv => MintsAgree
    BY DEF MintsInv, MintsAgree
  <1> QED
    BY <1>1, MintsInitInv, DeploymentNextInv, PTL DEF DeploymentSpec

\* what the running script may be at: bootstrap counts markets, airdrop its attempts
TaskOK ==
    /\ task \in [script : ScriptNames, step : ScriptSteps,
                 mint : 0 .. issued, n : 0 .. MARKETS + MAX_ATTEMPTS]
    /\ task.script = "bootstrap" => task.n < MARKETS
    /\ task.script = "airdrop" => task.n \in 1 .. MAX_ATTEMPTS

\* bootstrap is about to look for a market, or to create it
AtMarket == task.script = "bootstrap" /\ task.step \in {"market", "initMarket"}

\* MarketsHaveOracles is not inductive: it says nothing of the market that is created
\* next.  While the state bootstrap found is still on the chain, the oracle of the
\* market it is at is there too; a chain that was reset has neither state nor markets,
\* and initialize_market refuses.
OraclesInv ==
    /\ DeploymentTypeOK /\ TaskOK
    /\ stateMint = 0 => created = 0
    /\ MarketsHaveOracles
    /\ AtMarket /\ stateMint # 0 => price[task.n] > 0

LEMMA DeploymentConstants ==
    /\ MARKETS \in Nat \ {0} /\ MAX_ATTEMPTS \in Nat \ {0} /\ MaxScriptFaults \in Nat
    /\ Scale \in Nat \ {0} /\ PriceCap \in Nat /\ Peg \in 1 .. PriceCap
    /\ \A m \in PerpMarkets : m \in 0 .. MARKETS - 1
    /\ \A m \in 0 .. MARKETS : m < MARKETS => m \in PerpMarkets
  BY DeploymentAssumption DEF PerpMarkets

\* the type of push-prices, apart from what its ticks are doing
Pushers == [numMarkets : 0 .. MARKETS, timer : BOOLEAN, ticks : [Ticks -> Tickings]]

LEMMA NoPusherType == NoPusher \in Pushers /\ NoTick \in Tickings /\ 1 \in Ticks
  <1>1. NoTick \in Tickings
    BY DeploymentConstants DEF NoTick, Tick, Tickings
  <1>2. [k \in Ticks |-> NoTick] \in [Ticks -> Tickings]
    BY <1>1
  <1>3. FALSE \in BOOLEAN
    OBVIOUS
  <1>4. 0 \in 0 .. MARKETS
    BY DeploymentConstants
  <1>5. NoPusher \in Pushers
    BY <1>2, <1>3, <1>4 DEF NoPusher, Pushers
  <1> QED
    BY <1>1, <1>5, DeploymentAssumption DEF Ticks

LEMMA OraclesInitInv == DeploymentInit => OraclesInv
  <1> SUFFICES ASSUME DeploymentInit PROVE OraclesInv
    OBVIOUS
  <1>1. /\ sol = 0 /\ issued = 0 /\ mints = {} /\ stateMint = 0 /\ price = NoOracles
        /\ fresh = {} /\ created = 0 /\ handedOut = 0 /\ cache = 0
        /\ misread = FALSE /\ scriptFaults = 0
        /\ task = [script |-> "none", step |-> "none", mint |-> 0, n |-> 0]
        /\ pusher = NoPusher
    BY DEF DeploymentInit, NoTask, At
  <1>2. price \in [PerpMarkets -> 0 .. PriceCap]
    BY <1>1, DeploymentConstants DEF NoOracles
  <1>3. TaskOK /\ ~AtMarket
    BY <1>1, DeploymentConstants DEF TaskOK, AtMarket, ScriptNames, ScriptSteps
  <1>4. mints \subseteq 1 .. issued /\ {stateMint, handedOut, cache} \subseteq 0 .. issued
    <2>1. mints \subseteq 1 .. issued
      BY <1>1
    <2>2. stateMint \in 0 .. issued /\ handedOut \in 0 .. issued /\ cache \in 0 .. issued
      BY <1>1
    <2> QED
      BY <2>1, <2>2
  <1>5. pusher \in Pushers
    BY <1>1, NoPusherType
  <1>6. /\ sol \in Nat /\ issued \in Nat /\ fresh \subseteq PerpMarkets /\ created \in 0 .. MARKETS
        /\ misread \in BOOLEAN /\ scriptFaults \in 0 .. MaxScriptFaults
    <2>1. misread \in BOOLEAN /\ fresh \subseteq PerpMarkets
      BY <1>1
    <2>2. created \in 0 .. MARKETS /\ scriptFaults \in 0 .. MaxScriptFaults
      BY <1>1, DeploymentConstants
    <2> QED
      BY <1>1, <2>1, <2>2
  <1>7. DeploymentTypeOK
    BY <1>2, <1>3, <1>4, <1>5, <1>6 DEF DeploymentTypeOK, TaskOK, Pushers
  <1>8. MarketsHaveOracles
    BY <1>1, DeploymentConstants DEF MarketsHaveOracles
  <1> QED
    BY <1>1, <1>3, <1>7, <1>8 DEF OraclesInv

\* What a step may make of the running script: nothing, the end, another step of the
\* same market or attempt, or what keeps the counters in their ranges.
LEMMA TaskStays ==
    ASSUME TaskOK, issued \in Nat, issued' = issued,
           \/ task' = task \/ task' = NoTask
           \/ \E step \in ScriptSteps : Goes(step)
    PROVE  /\ TaskOK'
           /\ task' = NoTask \/ (task'.script = task.script /\ task'.n = task.n)
  <1>1. ASSUME task' = NoTask
        PROVE  TaskOK'
    <2>1. task' = [script |-> "none", step |-> "none", mint |-> 0, n |-> 0]
      BY <1>1 DEF NoTask, At
    <2> QED
      BY <2>1, DeploymentConstants DEF TaskOK, ScriptNames, ScriptSteps
  <1>2. ASSUME NEW step \in ScriptSteps, Goes(step)
        PROVE  TaskOK' /\ task'.script = task.script /\ task'.n = task.n
    <2>1. task' = [script |-> task.script, step |-> step, mint |-> task.mint, n |-> task.n]
      BY <1>2 DEF Goes, TaskOK
    <2> QED
      BY <2>1 DEF TaskOK
  <1>3. ASSUME task' = task
        PROVE  TaskOK'
    BY <1>3 DEF TaskOK
  <1> QED
    BY <1>1, <1>2, <1>3

LEMMA NoTaskIsIdle == NoTask.script = "none" /\ NoTask.step = "none"
  BY DEF NoTask, At

\* A script starts.
LEMMA TaskStarts ==
    ASSUME TaskOK, issued \in Nat, issued' = issued,
           NEW script \in ScriptNames, NEW step \in ScriptSteps,
           NEW mint \in 0 .. issued, NEW n \in {0, 1},
           script = "airdrop" <=> n = 1,
           Run(script, step, mint, n)
    PROVE  TaskOK' /\ task'.step = step
  <1>1. task' = [script |-> script, step |-> step, mint |-> mint, n |-> n]
    BY DEF Run, At
  <1> QED
    BY <1>1, DeploymentConstants DEF TaskOK

LEMMA FaultCounted ==
    ASSUME DeploymentTypeOK, ScriptFault \/ Worked
    PROVE  scriptFaults' \in 0 .. MaxScriptFaults
  BY DeploymentConstants DEF DeploymentTypeOK, ScriptFault, Worked

\* A step of a script that changes nothing but where the script is.
LEMMA TaskFrame ==
    ASSUME OraclesInv, TaskOK', UNCHANGED <<chainVars, cache, pusher>>,
           misread' \in BOOLEAN, scriptFaults' \in 0 .. MaxScriptFaults,
           AtMarket' => (AtMarket /\ task'.n = task.n) \/ price[task'.n] > 0
    PROVE  OraclesInv'
  <1>1. DeploymentTypeOK'
    BY DEF OraclesInv, DeploymentTypeOK, TaskOK, chainVars
  <1>2. MarketsHaveOracles'
    BY DEF OraclesInv, MarketsHaveOracles, chainVars
  <1> QED
    BY <1>1, <1>2 DEF OraclesInv, chainVars

LEMMA StartInv ==
    ASSUME OraclesInv, RunAirdrop \/ RunCreateUsdc \/ RunBootstrap \/ RunFaucet
    PROVE  OraclesInv'
  <1>0. /\ TaskOK /\ issued \in Nat /\ cache \in 0 .. issued /\ misread \in BOOLEAN
        /\ scriptFaults \in 0 .. MaxScriptFaults
    BY DEF OraclesInv, DeploymentTypeOK
  <1>1. /\ UNCHANGED <<chainVars, cache, pusher, misread, scriptFaults>> /\ issued' = issued
    BY DEF RunAirdrop, RunCreateUsdc, RunBootstrap, RunFaucet, chainVars
  <1>2. TaskOK' /\ ~AtMarket'
    <2>1. ASSUME RunAirdrop PROVE TaskOK' /\ ~AtMarket'
      <3>1. Run("airdrop", "request", 0, 1)
        BY <2>1 DEF RunAirdrop
      <3> QED
        BY <1>0, <1>1, <3>1, TaskStarts DEF ScriptNames, ScriptSteps, AtMarket
    <2>2. ASSUME RunCreateUsdc PROVE TaskOK' /\ ~AtMarket'
      <3>1. PICK step \in {"create", "lookup"} : Run("create-usdc", step, 0, 0)
        BY <2>2 DEF RunCreateUsdc
      <3> QED
        BY <1>0, <1>1, <3>1, TaskStarts DEF ScriptNames, ScriptSteps, AtMarket
    <2>3. ASSUME RunBootstrap PROVE TaskOK' /\ ~AtMarket'
      <3>1. Run("bootstrap", "state", cache, 0)
        BY <2>3 DEF RunBootstrap
      <3> QED
        BY <1>0, <1>1, <3>1, TaskStarts DEF ScriptNames, ScriptSteps, AtMarket
    <2>4. ASSUME RunFaucet PROVE TaskOK' /\ ~AtMarket'
      <3>1. Run("faucet", "mintTo", cache, 0)
        BY <2>4 DEF RunFaucet
      <3> QED
        BY <1>0, <1>1, <3>1, TaskStarts DEF ScriptNames, ScriptSteps, AtMarket
    <2> QED
      BY <2>1, <2>2, <2>3, <2>4
  <1> QED
    BY <1>0, <1>1, <1>2, TaskFrame

\* The attempts of an airdrop are counted, and bounded.
LEMMA AttemptInv ==
    ASSUME TaskOK, issued \in Nat, issued' = issued, task.script = "airdrop", AttemptFails
    PROVE  TaskOK' /\ ~AtMarket'
  <1>1. CASE task.n = MAX_ATTEMPTS
    BY <1>1, TaskStays, NoTaskIsIdle DEF AttemptFails, AtMarket
  <1>2. CASE task.n # MAX_ATTEMPTS
    <2>1. task' = [script |-> "airdrop", step |-> "request", mint |-> task.mint, n |-> task.n + 1]
      BY <1>2 DEF AttemptFails, TaskOK
    <2>2. task.n + 1 \in 1 .. MAX_ATTEMPTS /\ task.n + 1 \in 0 .. MARKETS + MAX_ATTEMPTS
      BY <1>2, DeploymentConstants DEF TaskOK
    <2> QED
      BY <2>1, <2>2 DEF TaskOK, AtMarket, ScriptSteps
  <1> QED
    BY <1>1, <1>2

\* The conjuncts of the type that most steps leave alone.
LEMMA TypeKept ==
    ASSUME DeploymentTypeOK, TaskOK', sol' \in Nat, scriptFaults' \in 0 .. MaxScriptFaults,
           misread' \in BOOLEAN, price' \in [PerpMarkets -> 0 .. PriceCap],
           fresh' \subseteq PerpMarkets, created' \in 0 .. MARKETS,
           pusher' \in Pushers,
           issued' \in Nat, mints' \subseteq 1 .. issued',
           {stateMint', handedOut', cache'} \subseteq 0 .. issued'
    PROVE  DeploymentTypeOK'
  BY DEF DeploymentTypeOK, TaskOK, Pushers

LEMMA AirdropInv ==
    ASSUME OraclesInv, RequestAirdrop \/ ConfirmAirdrop
    PROVE  OraclesInv'
  <1>0. TaskOK /\ issued \in Nat /\ task.script = "airdrop" /\ DeploymentTypeOK /\ sol \in Nat
    BY DEF OraclesInv, DeploymentTypeOK, RequestAirdrop, ConfirmAirdrop, In
  <1>1. /\ UNCHANGED <<issued, mints, stateMint, price, fresh, created, handedOut, cache,
                       pusher, misread>>
        /\ sol' \in Nat
        /\ ScriptFault \/ Worked
    BY <1>0 DEF RequestAirdrop, ConfirmAirdrop, AttemptFails, chainVars
  <1>2. TaskOK' /\ ~AtMarket'
    <2>1. ASSUME Goes("confirm") \/ Exit PROVE TaskOK' /\ ~AtMarket'
      BY <1>0, <1>1, <2>1, TaskStays, NoTaskIsIdle DEF Exit, AtMarket, ScriptSteps
    <2> QED
      BY <1>0, <1>1, <2>1, AttemptInv DEF RequestAirdrop, ConfirmAirdrop
  <1>3. scriptFaults' \in 0 .. MaxScriptFaults
    BY <1>0, <1>1, FaultCounted
  <1>4. DeploymentTypeOK'
    BY <1>0, <1>1, <1>2, <1>3, TypeKept DEF DeploymentTypeOK, Pushers
  <1>5. MarketsHaveOracles'
    BY <1>1 DEF OraclesInv, MarketsHaveOracles
  <1> QED
    BY <1>1, <1>2, <1>4, <1>5 DEF OraclesInv

\* A script that is at no market makes its step, or ends.
LEMMA PlainStep ==
    ASSUME TaskOK, issued \in Nat, issued' = issued,
           NEW step \in ScriptSteps \ {"market", "initMarket"}, Goes(step) \/ Exit
    PROVE  TaskOK' /\ ~AtMarket'
  <1>1. ASSUME Exit PROVE TaskOK' /\ ~AtMarket'
    BY <1>1, TaskStays, NoTaskIsIdle DEF Exit, AtMarket
  <1>2. ASSUME Goes(step) PROVE TaskOK' /\ ~AtMarket'
    <2>1. TaskOK'
      BY <1>2, TaskStays
    <2>2. task'.step = step
      BY <1>2 DEF Goes, TaskOK
    <2> QED
      BY <2>1, <2>2 DEF AtMarket
  <1> QED
    BY <1>1, <1>2

LEMMA CreateUsdcInv ==
    ASSUME OraclesInv, LookUpMint \/ CreateMint \/ SaveMint
    PROVE  OraclesInv'
  <1>0. /\ TaskOK /\ issued \in Nat /\ DeploymentTypeOK /\ task.script = "create-usdc"
    BY DEF OraclesInv, DeploymentTypeOK, LookUpMint, CreateMint, SaveMint, In
  <1>1. ASSUME LookUpMint PROVE OraclesInv'
    <2>1. /\ UNCHANGED <<chainVars, cache, pusher>> /\ issued' = issued
          /\ misread' = (misread \/ (cache \in mints /\ task'.step = "create"))
          /\ Goes("create") \/ Exit
      BY <1>1 DEF LookUpMint, Probe, chainVars
    <2>2. ScriptFault \/ Worked
      BY <1>1 DEF LookUpMint, Probe
    <2>3. TaskOK' /\ ~AtMarket'
      BY <1>0, <2>1, PlainStep DEF ScriptSteps
    <2>4. misread' \in BOOLEAN
      BY <1>0, <2>1 DEF DeploymentTypeOK
    <2> QED
      BY <1>0, <2>1, <2>2, <2>3, <2>4, FaultCounted, TaskFrame
  <1>2. ASSUME CreateMint PROVE OraclesInv'
    <2>1. /\ UNCHANGED <<sol, stateMint, price, fresh, created, handedOut, cache, pusher,
                         misread>>
          /\ ScriptFault \/ Worked
          /\ \/ issued' = issued + 1 /\ mints' = mints \cup {issued'}
             \/ UNCHANGED <<issued, mints>>
          /\ Exit \/ (issued' = issued + 1 /\ task' = [task EXCEPT !.step = "save", !.mint = issued'])
      BY <1>2 DEF CreateMint, Send
    <2>2. /\ issued' \in Nat /\ issued <= issued' /\ mints' \subseteq 1 .. issued'
      BY <1>0, <2>1 DEF DeploymentTypeOK
    <2>3. TaskOK' /\ ~AtMarket'
      <3>1. ASSUME Exit PROVE TaskOK' /\ ~AtMarket'
        <4>1. task' = [script |-> "none", step |-> "none", mint |-> 0, n |-> 0]
          BY <3>1 DEF Exit, NoTask, At
        <4> QED
          BY <2>2, <4>1, DeploymentConstants DEF TaskOK, AtMarket, ScriptNames, ScriptSteps
      <3>2. ASSUME issued' = issued + 1, task' = [task EXCEPT !.step = "save", !.mint = issued']
            PROVE  TaskOK' /\ ~AtMarket'
        <4>1. task' = [script |-> "create-usdc", step |-> "save", mint |-> issued', n |-> task.n]
          BY <1>0, <3>2 DEF TaskOK
        <4> QED
          BY <1>0, <2>2, <4>1 DEF TaskOK, AtMarket, ScriptSteps
      <3> QED
        BY <2>1, <3>1, <3>2
    <2>4. {stateMint', handedOut', cache'} \subseteq 0 .. issued'
      BY <1>0, <2>1, <2>2 DEF DeploymentTypeOK
    <2>5. DeploymentTypeOK'
      BY <1>0, <2>1, <2>2, <2>3, <2>4, FaultCounted, TypeKept DEF DeploymentTypeOK, Pushers
    <2>6. MarketsHaveOracles'
      BY <2>1 DEF OraclesInv, MarketsHaveOracles
    <2> QED
      BY <2>1, <2>3, <2>5, <2>6 DEF OraclesInv
  <1>3. ASSUME SaveMint PROVE OraclesInv'
    <2>1. /\ UNCHANGED <<sol, issued, mints, stateMint, price, fresh, created, handedOut, pusher,
                         misread, scriptFaults>>
          /\ cache' = task.mint /\ Exit
      BY <1>3 DEF SaveMint, chainVars
    <2>2. TaskOK' /\ ~AtMarket'
      BY <1>0, <2>1, PlainStep DEF ScriptSteps
    <2>3. cache' \in 0 .. issued
      BY <1>0, <2>1 DEF TaskOK
    <2>4. DeploymentTypeOK'
      BY <1>0, <2>1, <2>2, <2>3, TypeKept DEF DeploymentTypeOK, Pushers
    <2>5. MarketsHaveOracles'
      BY <2>1 DEF OraclesInv, MarketsHaveOracles
    <2> QED
      BY <2>1, <2>2, <2>4, <2>5 DEF OraclesInv
  <1> QED
    BY <1>1, <1>2, <1>3


LEMMA NextMarketMoves ==
    ASSUME TaskOK, issued \in Nat, issued' = issued, task.script = "bootstrap", NextMarket
    PROVE  TaskOK' /\ ~AtMarket'
  <1>1. CASE task.n + 1 < MARKETS
    <2>1. task' = [script |-> "bootstrap", step |-> "oracle", mint |-> task.mint, n |-> task.n + 1]
      BY <1>1 DEF NextMarket, TaskOK
    <2>2. task.n + 1 \in 0 .. MARKETS + MAX_ATTEMPTS
      BY <1>1, DeploymentConstants DEF TaskOK
    <2> QED
      BY <1>1, <2>1, <2>2 DEF TaskOK, AtMarket, ScriptSteps
  <1>2. CASE ~(task.n + 1 < MARKETS)
    BY <1>2, TaskStays, NoTaskIsIdle DEF NextMarket, AtMarket
  <1> QED
    BY <1>1, <1>2

LEMMA FetchInv ==
    ASSUME OraclesInv, FetchState \/ FetchOracle \/ FetchMarket
    PROVE  OraclesInv'
  <1>0. /\ TaskOK /\ issued \in Nat /\ misread \in BOOLEAN /\ task.script = "bootstrap"
        /\ DeploymentTypeOK
    BY DEF OraclesInv, DeploymentTypeOK, FetchState, FetchOracle, FetchMarket, In
  <1>1. /\ UNCHANGED <<chainVars, cache, pusher, misread>> /\ issued' = issued
        /\ price' = price
    BY DEF FetchState, FetchOracle, FetchMarket, chainVars
  <1>2. ScriptFault \/ Worked
    BY DEF FetchState, FetchOracle, FetchMarket, Probe
  <1>3. scriptFaults' \in 0 .. MaxScriptFaults
    BY <1>0, <1>2, FaultCounted
  <1>4. ASSUME FetchState PROVE TaskOK' /\ ~AtMarket'
    <2>1. Goes("oracle") \/ Goes("initState")
      BY <1>4 DEF FetchState, Probe
    <2> QED
      BY <1>0, <1>1, <2>1, PlainStep DEF ScriptSteps
  <1>5. ASSUME FetchOracle
        PROVE  /\ TaskOK'
               /\ AtMarket' => (AtMarket /\ task'.n = task.n) \/ price[task'.n] > 0
    <2>1. \/ price[task.n] # 0 /\ Goes("market")
          \/ Goes("initOracle")
      BY <1>5 DEF FetchOracle, Probe
    <2>2. ASSUME price[task.n] # 0, Goes("market")
          PROVE  TaskOK' /\ price[task'.n] > 0
      <3>1. TaskOK' /\ task'.n = task.n
        <4>1. task' = [script |-> "bootstrap", step |-> "market", mint |-> task.mint, n |-> task.n]
          BY <1>0, <2>2 DEF Goes, TaskOK
        <4> QED
          BY <1>0, <1>1, <2>2, <4>1, TaskStays DEF ScriptSteps
      <3>2. task.n \in PerpMarkets
        BY <1>0, DeploymentConstants DEF TaskOK, PerpMarkets
      <3>3. price[task.n] \in 0 .. PriceCap
        BY <1>0, <3>2 DEF DeploymentTypeOK
      <3> QED
        BY <2>2, <3>1, <3>3, DeploymentConstants
    <2> QED
      BY <1>0, <1>1, <2>1, <2>2, PlainStep DEF ScriptSteps
  <1>6. ASSUME FetchMarket
        PROVE  /\ TaskOK'
               /\ AtMarket' => (AtMarket /\ task'.n = task.n) \/ price[task'.n] > 0
    <2>1. AtMarket
      BY <1>6 DEF FetchMarket, In, AtMarket
    <2>2. NextMarket \/ Goes("initMarket")
      BY <1>6 DEF FetchMarket, Probe
    <2>3. ASSUME Goes("initMarket") PROVE TaskOK' /\ task'.n = task.n
      <3>1. task' = [script |-> "bootstrap", step |-> "initMarket", mint |-> task.mint, n |-> task.n]
        BY <1>0, <2>3 DEF Goes, TaskOK
      <3>2. TaskOK'
        BY <1>0, <1>1, <2>3, TaskStays DEF ScriptSteps
      <3> QED
        BY <3>1, <3>2
    <2> QED
      BY <1>0, <1>1, <2>1, <2>2, <2>3, NextMarketMoves
  <1> QED
    BY <1>0, <1>1, <1>3, <1>4, <1>5, <1>6, TaskFrame

LEMMA InitializeStateKeeps ==
    ASSUME OraclesInv, InitializeState
    PROVE  OraclesInv'
  <1>0. /\ TaskOK /\ issued \in Nat /\ DeploymentTypeOK
    BY DEF OraclesInv, DeploymentTypeOK
  <1>1. /\ UNCHANGED <<sol, issued, mints, price, fresh, created, handedOut, cache, pusher,
                       misread>>
        /\ stateMint' = task.mint \/ stateMint' = stateMint
        /\ stateMint # 0 => stateMint' = stateMint
        /\ Goes("oracle") \/ Exit
        /\ ScriptFault \/ Worked
    BY DEF InitializeState, Send
  <1>2. TaskOK' /\ ~AtMarket'
    BY <1>0, <1>1, PlainStep DEF ScriptSteps
  <1>3. {stateMint', handedOut', cache'} \subseteq 0 .. issued'
    BY <1>0, <1>1 DEF DeploymentTypeOK, TaskOK
  <1>4. scriptFaults' \in 0 .. MaxScriptFaults
    BY <1>0, <1>1, FaultCounted
  <1>5. DeploymentTypeOK'
    BY <1>0, <1>1, <1>2, <1>3, <1>4, TypeKept DEF DeploymentTypeOK, Pushers
  <1>6. MarketsHaveOracles'
    BY <1>1 DEF OraclesInv, MarketsHaveOracles
  <1> QED
    BY <1>1, <1>2, <1>5, <1>6 DEF OraclesInv

\* A price that is there stays positive.
LEMMA OraclesStay ==
    ASSUME OraclesInv, price' \in [PerpMarkets -> 0 .. PriceCap],
           \A m \in PerpMarkets : price[m] > 0 => price'[m] > 0, created' = created
    PROVE  MarketsHaveOracles'
  BY DEF OraclesInv, MarketsHaveOracles

LEMMA InitializeOracleInv ==
    ASSUME OraclesInv, InitializeMockOracle
    PROVE  OraclesInv'
  <1>0. /\ TaskOK /\ issued \in Nat /\ DeploymentTypeOK /\ task.script = "bootstrap"
        /\ task.n \in 0 .. MARKETS /\ task.n < MARKETS
    BY DeploymentConstants
    DEF OraclesInv, DeploymentTypeOK, InitializeMockOracle, In, TaskOK
  <1>1. /\ UNCHANGED <<sol, issued, mints, stateMint, created, handedOut, cache, pusher, misread>>
        /\ ScriptFault \/ Worked
    BY DEF InitializeMockOracle, Send
  <1>2. \/ /\ price' = [price EXCEPT ![task.n] = Peg] /\ fresh' = fresh \cup {task.n}
           /\ Goes("market") \/ Exit
        \/ price' = price /\ fresh' = fresh /\ Exit
    BY DEF InitializeMockOracle, Send
  <1>3. task.n \in PerpMarkets
    BY <1>0, DeploymentConstants
  <1>4. /\ price' \in [PerpMarkets -> 0 .. PriceCap] /\ fresh' \subseteq PerpMarkets
        /\ \A m \in PerpMarkets : price[m] > 0 => price'[m] > 0
        /\ Exit \/ (Goes("market") /\ price'[task.n] > 0)
    BY <1>0, <1>2, <1>3, DeploymentConstants DEF DeploymentTypeOK
  <1>5. ASSUME Exit PROVE TaskOK' /\ ~AtMarket'
    BY <1>0, <1>1, <1>5, PlainStep DEF ScriptSteps
  <1>6. ASSUME Goes("market") PROVE TaskOK' /\ task'.n = task.n
    <2>1. task' = [script |-> "bootstrap", step |-> "market", mint |-> task.mint, n |-> task.n]
      BY <1>0, <1>6 DEF Goes, TaskOK
    <2> QED
      BY <1>0, <1>1, <1>6, <2>1, TaskStays DEF ScriptSteps
  <1>7. TaskOK' /\ (AtMarket' => price'[task'.n] > 0)
    BY <1>4, <1>5, <1>6
  <1>8. scriptFaults' \in 0 .. MaxScriptFaults
    BY <1>0, <1>1, FaultCounted
  <1>9. DeploymentTypeOK'
    BY <1>0, <1>1, <1>4, <1>7, <1>8, TypeKept DEF DeploymentTypeOK, Pushers
  <1>10. MarketsHaveOracles'
    BY <1>1, <1>4, OraclesStay
  <1> QED
    BY <1>1, <1>7, <1>9, <1>10 DEF OraclesInv

\* The market that is created is the one bootstrap is at, on a chain that still has the
\* state, and so the oracle.
LEMMA CreateMarketInv ==
    ASSUME OraclesInv, CreateMarket
    PROVE  OraclesInv'
  <1>0. /\ TaskOK /\ issued \in Nat /\ DeploymentTypeOK /\ task.script = "bootstrap" /\ AtMarket
        /\ task.n \in 0 .. MARKETS /\ task.n < MARKETS /\ created \in 0 .. MARKETS
    BY DeploymentConstants
    DEF OraclesInv, DeploymentTypeOK, CreateMarket, In, TaskOK, AtMarket
  <1>1. /\ UNCHANGED <<sol, issued, mints, stateMint, price, fresh, handedOut, cache, pusher,
                       misread>>
        /\ ScriptFault \/ Worked
        /\ NextMarket \/ Exit
        /\ \/ stateMint # 0 /\ task.n = created /\ created' = created + 1
           \/ created' = created
    BY DEF CreateMarket, Send
  <1>2. TaskOK' /\ ~AtMarket'
    BY <1>0, <1>1, NextMarketMoves, PlainStep DEF ScriptSteps
  <1>3. created' \in 0 .. MARKETS
    BY <1>0, <1>1, DeploymentConstants
  <1>4. scriptFaults' \in 0 .. MaxScriptFaults
    BY <1>0, <1>1, FaultCounted
  <1>5. DeploymentTypeOK'
    BY <1>0, <1>1, <1>2, <1>3, <1>4, TypeKept DEF DeploymentTypeOK, Pushers
  <1>6. MarketsHaveOracles'
    <2>1. SUFFICES ASSUME NEW m \in PerpMarkets, m < created' PROVE price'[m] > 0
      BY DEF MarketsHaveOracles
    <2>2. m \in 0 .. MARKETS - 1
      BY DeploymentConstants
    <2>3. CASE m < created
      BY <1>1, <2>3 DEF OraclesInv, MarketsHaveOracles
    <2>4. CASE ~(m < created)
      <3>1. stateMint # 0 /\ m = task.n
        BY <1>0, <1>1, <2>1, <2>2, <2>4
      <3> QED
        BY <1>0, <1>1, <3>1 DEF OraclesInv
    <2> QED
      BY <2>3, <2>4
  <1>7. stateMint' = 0 => created' = 0
    BY <1>1 DEF OraclesInv
  <1> QED
    BY <1>1, <1>2, <1>5, <1>6, <1>7 DEF OraclesInv

LEMMA MintToWalletKeeps ==
    ASSUME OraclesInv, MintToWallet
    PROVE  OraclesInv'
  <1>0. /\ TaskOK /\ issued \in Nat /\ DeploymentTypeOK
    BY DEF OraclesInv, DeploymentTypeOK
  <1>1. /\ UNCHANGED <<sol, issued, mints, stateMint, price, fresh, created, cache, pusher,
                       misread>>
        /\ ScriptFault \/ Worked
        /\ handedOut' = task.mint \/ handedOut' = handedOut
        /\ Exit
    BY DEF MintToWallet, Send
  <1>2. TaskOK' /\ ~AtMarket'
    BY <1>0, <1>1, PlainStep DEF ScriptSteps
  <1>3. {stateMint', handedOut', cache'} \subseteq 0 .. issued'
    BY <1>0, <1>1 DEF DeploymentTypeOK, TaskOK
  <1>4. scriptFaults' \in 0 .. MaxScriptFaults
    BY <1>0, <1>1, FaultCounted
  <1>5. DeploymentTypeOK'
    BY <1>0, <1>1, <1>2, <1>3, <1>4, TypeKept DEF DeploymentTypeOK, Pushers
  <1>6. MarketsHaveOracles'
    BY <1>1 DEF OraclesInv, MarketsHaveOracles
  <1> QED
    BY <1>1, <1>2, <1>5, <1>6 DEF OraclesInv

\* push-prices changes no more than the prices, and leaves them positive.
LEMMA PusherFrame ==
    ASSUME OraclesInv, pusher' \in Pushers,
           price' \in [PerpMarkets -> 0 .. PriceCap], fresh' \subseteq PerpMarkets,
           \A m \in PerpMarkets : price[m] > 0 => price'[m] > 0,
           scriptFaults' \in 0 .. MaxScriptFaults,
           UNCHANGED <<sol, issued, mints, stateMint, created, handedOut, cache, task, misread>>
    PROVE  OraclesInv'
  <1>1. TaskOK' /\ DeploymentTypeOK /\ (AtMarket' => AtMarket)
    BY DEF OraclesInv, TaskOK, AtMarket
  <1>2. DeploymentTypeOK'
    BY <1>1, TypeKept DEF DeploymentTypeOK, Pushers
  <1>3. MarketsHaveOracles'
    BY OraclesStay
  <1>4. AtMarket' /\ stateMint' # 0 => price'[task'.n] > 0
    <2>1. SUFFICES ASSUME AtMarket, stateMint # 0 PROVE price'[task.n] > 0
      BY <1>1
    <2>2. task.n \in 0 .. MARKETS /\ task.n < MARKETS
      BY <2>1, DeploymentConstants DEF OraclesInv, TaskOK, AtMarket
    <2>3. task.n \in PerpMarkets
      BY <2>2, DeploymentConstants
    <2> QED
      BY <2>1, <2>3 DEF OraclesInv
  <1> QED
    BY <1>1, <1>2, <1>3, <1>4 DEF OraclesInv

\* A walk of the price stays a price.
LEMMA WalkIsPositive ==
    ASSUME NEW p \in 0 .. PriceCap, p # 0, NEW j \in Jitters
    PROVE  Walk(p, j) \in Nat \ {0}
  <1>1. j \in Int /\ Scale \in Nat \ {0} /\ p \in Nat \ {0}
    BY DeploymentAssumption
  <1>2. p * (Scale + j) \in Int
    BY <1>1
  <1> DEFINE moved == (p * (Scale + j)) \div Scale
  <1>3. moved \in Int
    <2> DEFINE whole == p * (Scale + j)
    <2>1. whole \in Int
      BY <1>2
    <2>2. moved = whole \div Scale
      OBVIOUS
    <2> HIDE DEF moved, whole
    <2> QED
      BY <1>1, <2>1, <2>2
  <1>4. Walk(p, j) = IF moved <= 0 THEN p ELSE moved
    BY DEF Walk
  <1> HIDE DEF moved
  <1> QED
    BY <1>1, <1>3, <1>4

\* What the pusher does to one tick, and to nothing else, keeps its type.
LEMMA TickIsTyped ==
    ASSUME pusher \in Pushers, NEW k \in Ticks, NEW t \in Tickings,
           pusher' = [pusher EXCEPT !.ticks[k] = t]
    PROVE  pusher' \in Pushers
  <1> DEFINE new == [pusher.ticks EXCEPT ![k] = t]
  <1>1. pusher.ticks \in [Ticks -> Tickings] /\ pusher.numMarkets \in 0 .. MARKETS
    BY DEF Pushers
  <1>2. pusher.timer \in BOOLEAN
    BY DEF Pushers
  <1>3. new \in [Ticks -> Tickings]
    BY <1>1
  <1>4. pusher' = [numMarkets |-> pusher.numMarkets, timer |-> pusher.timer, ticks |-> new]
    BY DEF Pushers
  <1> HIDE DEF new
  <1> QED
    BY <1>1, <1>2, <1>3, <1>4 DEF Pushers

\* A tick that is done with its market goes to one that exists, or is over.
LEMMA NextInTickType ==
    ASSUME pusher \in Pushers, NEW k \in Ticks, NextInTick(k)
    PROVE  pusher' \in Pushers
  <1> DEFINE m == pusher.ticks[k].market + 1
  <1>1. pusher.ticks[k] \in Tickings /\ pusher.numMarkets \in 0 .. MARKETS
    BY DEF Pushers
  <1>2. m \in Nat
    BY <1>1, DeploymentConstants DEF Tickings
  <1>3. ASSUME m < pusher.numMarkets, pusher' = [pusher EXCEPT !.ticks[k] = Tick("fetch", m, 0)]
        PROVE  pusher' \in Pushers
    <2>1. m \in PerpMarkets
      BY <1>1, <1>2, <1>3, DeploymentConstants
    <2>2. Tick("fetch", m, 0) \in Tickings
      BY <2>1, DeploymentConstants DEF Tick, Tickings
    <2> QED
      BY <1>3, <2>2, TickIsTyped
  <1>4. ASSUME pusher' = [pusher EXCEPT !.ticks[k] = NoTick, !.timer = TRUE]
        PROVE  pusher' \in Pushers
    <2> DEFINE new == [pusher.ticks EXCEPT ![k] = NoTick]
    <2>1. new \in [Ticks -> Tickings]
      BY NoPusherType DEF Pushers
    <2>2. pusher' = [numMarkets |-> pusher.numMarkets, timer |-> TRUE, ticks |-> new]
      BY <1>4 DEF Pushers
    <2>3. TRUE \in BOOLEAN
      OBVIOUS
    <2> HIDE DEF new
    <2> QED
      BY <1>1, <2>1, <2>2, <2>3 DEF Pushers
  <1> QED
    BY <1>3, <1>4 DEF NextInTick

LEMMA FetchPriceInv ==
    ASSUME OraclesInv, NEW k \in Ticks, FetchPrice(k)
    PROVE  OraclesInv'
  <1> DEFINE m == pusher.ticks[k].market
  <1>0. /\ DeploymentTypeOK /\ pusher \in Pushers
        /\ price \in [PerpMarkets -> 0 .. PriceCap] /\ fresh \subseteq PerpMarkets
    BY DEF OraclesInv, DeploymentTypeOK, Pushers
  <1>1. m \in PerpMarkets
    BY <1>0 DEF Pushers, Tickings
  <1>2. /\ UNCHANGED <<sol, issued, mints, stateMint, price, fresh, created, handedOut, cache,
                       task, misread>>
        /\ ScriptFault \/ Worked
    BY DEF FetchPrice, chainVars
  <1>3. ASSUME NEW j \in Jitters, price[m] # 0, Walk(price[m], j) <= PriceCap,
               pusher' = [pusher EXCEPT !.ticks[k] = Tick("update", m, Walk(price[m], j))]
        PROVE  pusher' \in Pushers
    <2>1. price[m] \in 0 .. PriceCap
      BY <1>0, <1>1
    <2> DEFINE p == Walk(price[m], j)
    <2>2. p \in Nat \ {0}
      BY <1>3, <2>1, WalkIsPositive
    <2>3. p <= PriceCap /\ pusher' = [pusher EXCEPT !.ticks[k] = Tick("update", m, p)]
      BY <1>3
    <2> HIDE DEF p, m
    <2>4. p \in 0 .. PriceCap
      BY <2>2, <2>3, DeploymentConstants
    <2>5. Tick("update", m, p) \in Tickings
      BY <1>1, <2>4 DEF Tick, Tickings
    <2> QED
      BY <1>0, <2>3, <2>5, TickIsTyped
  <1>4. pusher' \in Pushers
    BY <1>0, <1>3, NextInTickType DEF FetchPrice
  <1>5. scriptFaults' \in 0 .. MaxScriptFaults
    BY <1>0, <1>2, FaultCounted
  <1> QED
    BY <1>0, <1>2, <1>4, <1>5, PusherFrame

\* Whatever was fetched, and whenever: what the program lets be written is positive.
LEMMA UpdatePriceInv ==
    ASSUME OraclesInv, NEW k \in Ticks, UpdatePrice(k)
    PROVE  OraclesInv'
  <1> DEFINE m == pusher.ticks[k].market
             p == pusher.ticks[k].price
  <1>0. /\ DeploymentTypeOK /\ pusher \in Pushers
        /\ price \in [PerpMarkets -> 0 .. PriceCap] /\ fresh \subseteq PerpMarkets
    BY DEF OraclesInv, DeploymentTypeOK, Pushers
  <1>1. m \in PerpMarkets /\ p \in 0 .. PriceCap
    BY <1>0 DEF Pushers, Tickings
  <1>2. /\ UNCHANGED <<sol, issued, mints, stateMint, created, handedOut, cache, task, misread>>
        /\ ScriptFault \/ Worked
        /\ NextInTick(k)
    BY DEF UpdatePrice
  <1>3. \/ price' = price /\ fresh' = fresh
        \/ p > 0 /\ price' = [price EXCEPT ![m] = p] /\ fresh' = fresh \cup {m}
    BY DEF UpdatePrice
  <1> HIDE DEF m, p
  <1>4. price' \in [PerpMarkets -> 0 .. PriceCap] /\ fresh' \subseteq PerpMarkets
    BY <1>0, <1>1, <1>3
  <1>5. \A n \in PerpMarkets : price[n] > 0 => price'[n] > 0
    BY <1>0, <1>1, <1>3
  <1>6. scriptFaults' \in 0 .. MaxScriptFaults
    BY <1>0, <1>2, FaultCounted
  <1>7. pusher' \in Pushers
    BY <1>0, <1>2, NextInTickType
  <1> QED
    BY <1>2, <1>4, <1>5, <1>6, <1>7, PusherFrame

LEMMA PusherInv ==
    ASSUME OraclesInv,
           \/ StartPusher \/ StopPusher
           \/ \E k \in Ticks : FireTimer(k)
           \/ \E m \in PerpMarkets : GoesStale(m)
    PROVE  OraclesInv'
  <1>0. /\ pusher \in Pushers /\ created \in 0 .. MARKETS
        /\ price \in [PerpMarkets -> 0 .. PriceCap] /\ fresh \subseteq PerpMarkets
        /\ scriptFaults \in 0 .. MaxScriptFaults
    BY DEF OraclesInv, DeploymentTypeOK, Pushers
  <1>1. /\ UNCHANGED <<sol, issued, mints, stateMint, price, created, handedOut, cache, task,
                       misread, scriptFaults>>
        /\ fresh' \subseteq fresh
    BY DEF StartPusher, StopPusher, FireTimer, GoesStale, chainVars
  <1>2. Tick("fetch", 0, 0) \in Tickings
    BY DeploymentConstants DEF Tick, Tickings
  <1>3. ASSUME StartPusher PROVE pusher' \in Pushers
    <2> DEFINE new == [[k \in Ticks |-> NoTick] EXCEPT ![1] = Tick("fetch", 0, 0)]
    <2>1. new \in [Ticks -> Tickings]
      BY <1>2, NoPusherType
    <2>2. pusher' = [numMarkets |-> created, timer |-> FALSE, ticks |-> new]
      BY <1>3 DEF StartPusher, NoPusher
    <2>3. FALSE \in BOOLEAN
      OBVIOUS
    <2> HIDE DEF new
    <2> QED
      BY <1>0, <2>1, <2>2, <2>3 DEF Pushers
  <1>4. ASSUME NEW k \in Ticks, FireTimer(k) PROVE pusher' \in Pushers
    BY <1>0, <1>2, <1>4, TickIsTyped DEF FireTimer
  <1>5. pusher' \in Pushers
    BY <1>0, <1>3, <1>4, NoPusherType DEF StopPusher, GoesStale
  <1> QED
    BY <1>0, <1>1, <1>5, PusherFrame

LEMMA InterruptInv ==
    ASSUME OraclesInv, Interrupt
    PROVE  OraclesInv'
  <1>0. /\ TaskOK /\ issued \in Nat /\ DeploymentTypeOK /\ misread \in BOOLEAN
    BY DEF OraclesInv, DeploymentTypeOK
  <1>1. /\ UNCHANGED <<chainVars, cache, pusher, misread>> /\ issued' = issued
        /\ ScriptFault /\ Exit
    BY DEF Interrupt, chainVars
  <1>2. TaskOK' /\ ~AtMarket'
    BY <1>0, <1>1, PlainStep DEF ScriptSteps
  <1> QED
    BY <1>0, <1>1, <1>2, FaultCounted, TaskFrame

LEMMA ResetInv ==
    ASSUME OraclesInv, ResetValidator
    PROVE  OraclesInv'
  <1>0. /\ TaskOK /\ issued \in Nat /\ DeploymentTypeOK
    BY DEF OraclesInv, DeploymentTypeOK
  <1>1. /\ sol' = 0 /\ mints' = {} /\ stateMint' = 0 /\ price' = NoOracles /\ fresh' = {}
        /\ created' = 0 /\ handedOut' = 0 /\ misread' = FALSE /\ ScriptFault
        /\ UNCHANGED <<issued, cache, task, pusher>>
    BY DEF ResetValidator
  <1>2. TaskOK'
    BY <1>0, <1>1 DEF TaskOK
  <1>3. price' \in [PerpMarkets -> 0 .. PriceCap]
    BY <1>1, DeploymentConstants DEF NoOracles
  <1>4. {stateMint', handedOut', cache'} \subseteq 0 .. issued'
    BY <1>0, <1>1 DEF DeploymentTypeOK
  <1>5. created' \in 0 .. MARKETS
    BY <1>1, DeploymentConstants
  <1>6. scriptFaults' \in 0 .. MaxScriptFaults
    BY <1>0, <1>1, FaultCounted
  <1>7. DeploymentTypeOK'
    BY <1>0, <1>1, <1>2, <1>3, <1>4, <1>5, <1>6, TypeKept DEF DeploymentTypeOK, Pushers
  <1>8. MarketsHaveOracles'
    BY <1>1, DeploymentConstants DEF MarketsHaveOracles
  <1> QED
    BY <1>1, <1>2, <1>7, <1>8 DEF OraclesInv

LEMMA OraclesStep == OraclesInv /\ [DeploymentNext]_deploymentVars => OraclesInv'
  <1> SUFFICES ASSUME OraclesInv, [DeploymentNext]_deploymentVars
               PROVE  OraclesInv'
    OBVIOUS
  <1>1. CASE UNCHANGED deploymentVars
    BY <1>1 DEF deploymentVars, chainVars, OraclesInv, DeploymentTypeOK, TaskOK, AtMarket,
                MarketsHaveOracles
  <1>2. ASSUME ScriptStep PROVE OraclesInv'
    BY <1>2, AirdropInv, CreateUsdcInv, FetchInv, InitializeStateKeeps, InitializeOracleInv,
       CreateMarketInv, MintToWalletKeeps DEF ScriptStep
  <1>3. ASSUME PusherStep PROVE OraclesInv'
    BY <1>3, FetchPriceInv, UpdatePriceInv, PusherInv DEF PusherStep
  <1> QED
    BY <1>1, <1>2, <1>3, StartInv, PusherInv, InterruptInv, ResetInv DEF DeploymentNext

\* initialize_market does not ask for its oracle, and bootstrap takes any failed fetch
\* for an account that is missing; yet every market has an oracle with a price, however
\* bootstrap is interrupted, refused or run again, and whatever push-prices makes of it.
THEOREM MarketsAlwaysHaveOracles == DeploymentSpec => []MarketsHaveOracles
  <1>1. OraclesInv => MarketsHaveOracles
    BY DEF OraclesInv
  <1> QED
    BY OraclesInitInv, OraclesStep, <1>1, PTL DEF DeploymentSpec

-----------------------------------------------------------------------------
(* The chart. *)

\* bars of one market that open and close within their range
SoundBars(m) ==
    {b \in Bars(MarketPrices(m)) : b.open \in b.low .. b.high /\ b.close \in b.low .. b.high}
DrawsMarket(bars, m) == \A t \in DOMAIN bars : bars[t] \in SoundBars(m)

\* ChartShowsSelected is not inductive: what is merged into the series next, the candles
\* and the live bars, has to be of the selected market too.
ChartInv ==
    /\ effect \in Nat
    /\ DrawsMarket(history, Market(effect))
    /\ DrawsMarket(liveBars, Market(effect))
    /\ chartStatus = "ready" => DrawsMarket(series, Market(effect))
    /\ lastMark \in {0} \cup MarketPrices(Market(effect))

LEMMA PricesArePositive ==
    ASSUME NEW g \in Nat
    PROVE  /\ MarketPrices(Market(g)) \subseteq Nat \ {0}
           /\ Market(g) \in {0, 1}
  <1>1. Market(g) \in {0, 1}
    BY DEF Market
  <1> QED
    BY <1>1, ChartAssumption DEF MarketPrices

\* Extending a sound bar of a market by another gives a sound bar of the market.
LEMMA ExtendedIsSound ==
    ASSUME NEW m, MarketPrices(m) \subseteq Nat \ {0},
           NEW old \in SoundBars(m), NEW new \in SoundBars(m)
    PROVE  Extended(old, new) \in SoundBars(m)
  <1>1. /\ old.open \in MarketPrices(m) /\ old.high \in MarketPrices(m)
        /\ old.low \in MarketPrices(m) /\ old.close \in MarketPrices(m)
        /\ new.open \in MarketPrices(m) /\ new.high \in MarketPrices(m)
        /\ new.low \in MarketPrices(m) /\ new.close \in MarketPrices(m)
    BY DEF SoundBars, Bars
  <1>2. /\ old.open \in Nat /\ old.high \in Nat /\ old.low \in Nat
        /\ new.close \in Nat /\ new.high \in Nat /\ new.low \in Nat
    BY <1>1
  <1>3. old.open \in old.low .. old.high /\ new.close \in new.low .. new.high
    BY DEF SoundBars
  <1> DEFINE high == Later(old.high, new.high)
             low  == Earlier(old.low, new.low)
  <1>4. high \in MarketPrices(m) /\ low \in MarketPrices(m)
    BY <1>1 DEF Later, Earlier
  <1>5. old.open \in low .. high /\ new.close \in low .. high
    BY <1>2, <1>3 DEF Later, Earlier
  <1>6. Extended(old, new) = [open |-> old.open, high |-> high, low |-> low,
                              close |-> new.close]
    BY DEF Extended
  <1> HIDE DEF high, low
  <1> QED
    BY <1>1, <1>4, <1>5, <1>6 DEF SoundBars, Bars

LEMMA MergedDrawsMarket ==
    ASSUME NEW m, MarketPrices(m) \subseteq Nat \ {0},
           NEW past, DrawsMarket(past, m), NEW later, DrawsMarket(later, m)
    PROVE  DrawsMarket(MergedBars(past, later), m)
  <1> SUFFICES ASSUME NEW t \in DOMAIN past \cup DOMAIN later
               PROVE  MergedBars(past, later)[t] \in SoundBars(m)
    BY DEF DrawsMarket, MergedBars
  <1>1. MergedBars(past, later)[t] =
            IF t \notin DOMAIN later THEN past[t]
            ELSE IF t \notin DOMAIN past THEN later[t]
            ELSE Extended(past[t], later[t])
    BY DEF MergedBars
  <1> QED
    BY <1>1, ExtendedIsSound DEF DrawsMarket

LEMMA NoBarsDraw == \A m : DrawsMarket(NoBars, m)
  BY DEF NoBars, DrawsMarket

\* A candle with a price of zero has a low of zero, and is dropped.
LEMMA ValidCandlesDraw ==
    ASSUME NEW m, MarketPrices(m) \subseteq Nat \ {0}, NEW c \in Candles(m)
    PROVE  DrawsMarket(ValidCandles(c), m)
  <1>1. CASE c = NoBars
    BY <1>1 DEF NoBars, ValidCandles, DrawsMarket
  <1>2. CASE c # NoBars
    <2> DEFINE one(b, p, q) == [t \in {b} |-> [open |-> p, high |-> Later(p, q),
                                              low |-> Earlier(p, q), close |-> q]]
    <2>0. Candles(m) = {NoBars} \cup {one(b, p, q) : b \in Buckets,
                            p \in MarketPrices(m) \cup {0}, q \in MarketPrices(m)}
      BY DEF Candles
    <2> HIDE DEF one
    <2>8. \E b \in Buckets, p \in MarketPrices(m) \cup {0}, q \in MarketPrices(m) :
             c = one(b, p, q)
      BY <1>2, <2>0
    <2> USE DEF one
    <2>1. PICK b \in Buckets, p \in MarketPrices(m) \cup {0}, q \in MarketPrices(m) :
             c = one(b, p, q)
      BY <2>8
    <2>2. p \in Nat /\ q \in Nat /\ q # 0
      OBVIOUS
    <2> SUFFICES ASSUME NEW t \in DOMAIN c, c[t].low > 0
                 PROVE  c[t] \in SoundBars(m)
      BY DEF ValidCandles, DrawsMarket
    <2>3. c[t] = [open |-> p, high |-> Later(p, q), low |-> Earlier(p, q), close |-> q]
      BY <2>1
    <2>4. Earlier(p, q) > 0
      BY <2>3
    <2>5. p \in MarketPrices(m)
      BY <2>2, <2>4 DEF Earlier
    <2>6. Later(p, q) \in MarketPrices(m) /\ Earlier(p, q) \in MarketPrices(m)
      BY <2>5 DEF Later, Earlier
    <2>7. p \in Earlier(p, q) .. Later(p, q) /\ q \in Earlier(p, q) .. Later(p, q)
      BY <2>2 DEF Later, Earlier
    <2> QED
      BY <2>3, <2>5, <2>6, <2>7 DEF SoundBars, Bars
  <1> QED
    BY <1>1, <1>2

LEMMA ChartInitInv == ChartInit => ChartInv
  BY NoBarsDraw DEF ChartInit, ChartInv

LEMMA ArrivalInv ==
    ASSUME ChartInv, NEW g, CandlesArrive(g)
    PROVE  ChartInv'
  <1>1. effect' = effect /\ liveBars' = liveBars /\ lastMark' = lastMark
    BY DEF CandlesArrive
  <1>2. MarketPrices(Market(effect)) \subseteq Nat \ {0}
    BY PricesArePositive DEF ChartInv
  <1>3. CASE g = effect
    <2>1. PICK c \in Candles(Market(effect)) : history' = ValidCandles(c)
      BY <1>3 DEF CandlesArrive
    <2>2. DrawsMarket(history', Market(effect))
      BY <1>2, <2>1, ValidCandlesDraw
    <2>3. series' = MergedBars(history', liveBars)
      BY <1>3 DEF CandlesArrive, ApplyBars
    <2>4. DrawsMarket(series', Market(effect))
      BY <1>2, <2>2, <2>3, MergedDrawsMarket DEF ChartInv
    <2> QED
      BY <1>1, <2>2, <2>4 DEF ChartInv
  <1>4. CASE g # effect
    BY <1>1, <1>4 DEF CandlesArrive, ChartInv
  <1> QED
    BY <1>3, <1>4

LEMMA SnapshotInv ==
    ASSUME ChartInv, NEW m, NEW p \in MarketPrices(m), NEW time, SnapshotShown(m, p, time)
    PROVE  ChartInv'
  <1> DEFINE bar == [open |-> p, high |-> p, low |-> p, close |-> p]
             one == [t \in {time} |-> bar]
  <1>1. /\ m = Market(effect) /\ effect' = effect /\ history' = history
        /\ lastMark' = p
        /\ liveBars' = MergedBars(liveBars, one)
        /\ series' = MergedBars(history, liveBars')
    BY DEF SnapshotShown, ApplyBars
  <1>2. MarketPrices(m) \subseteq Nat \ {0}
    BY <1>1, PricesArePositive DEF ChartInv
  <1>3. bar \in SoundBars(m)
    <2>1. p \in p .. p
      BY <1>2
    <2> QED
      BY <2>1 DEF SoundBars, Bars
  <1>4. DrawsMarket(one, m)
    BY <1>3 DEF DrawsMarket
  <1> HIDE DEF bar, one
  <1>5. DrawsMarket(liveBars, m) /\ DrawsMarket(history, m)
    BY <1>1 DEF ChartInv
  <1>6. DrawsMarket(liveBars', m)
    BY <1>1, <1>2, <1>4, <1>5, MergedDrawsMarket
  <1>7. DrawsMarket(series', m)
    BY <1>1, <1>2, <1>5, <1>6, MergedDrawsMarket
  <1> QED
    BY <1>1, <1>5, <1>6, <1>7 DEF ChartInv

LEMMA ChartNextInv == ChartInv /\ [ChartNext]_chartVars => ChartInv'
  <1> SUFFICES ASSUME ChartInv, [ChartNext]_chartVars PROVE ChartInv'
    OBVIOUS
  <1>1. ASSUME LoadCandles \/ UNCHANGED chartVars PROVE ChartInv'
    BY <1>1 DEF LoadCandles, chartVars, ChartInv
  <1>2. ASSUME NEW g, LoadThrows(g) PROVE ChartInv'
    BY <1>2 DEF LoadThrows, ChartInv
  <1>3. ASSUME ShowMarket PROVE ChartInv'
    BY <1>3, NoBarsDraw DEF ShowMarket, ChartInv
  <1> QED
    BY <1>1, <1>2, <1>3, ArrivalInv, SnapshotInv DEF ChartNext

\* A sound series of a market shows prices of that market alone, and proper candles.
LEMMA SoundSeriesShows ==
    ASSUME ChartInv
    PROVE  ChartShowsSelected
  <1> SUFFICES ASSUME chartStatus = "ready"
               PROVE  /\ PricesIn(series) \cup ({lastMark} \ {0})
                            \subseteq MarketPrices(Market(effect))
                      /\ \A t \in DOMAIN series :
                            {series[t].open, series[t].close}
                                \subseteq series[t].low .. series[t].high
    BY DEF ChartShowsSelected
  <1>1. \A t \in DOMAIN series :
           /\ {series[t].open, series[t].high, series[t].low, series[t].close}
                 \subseteq MarketPrices(Market(effect))
           /\ {series[t].open, series[t].close} \subseteq series[t].low .. series[t].high
    BY DEF ChartInv, DrawsMarket, SoundBars, Bars
  <1> QED
    BY <1>1 DEF PricesIn, ChartInv

\* Whatever loads and snapshots are under way when the user switches, a chart that says
\* it is ready draws proper candles of the selected market alone.
THEOREM ChartAlwaysShowsSelected == ChartSpec => []ChartShowsSelected
  BY ChartInitInv, ChartNextInv, SoundSeriesShows, PTL DEF ChartSpec

\* Bars of the markets' prices, whatever is merged.
LEMMA MergedIsBarMap ==
    ASSUME NEW past, NEW later, IsBarMap(past), IsBarMap(later)
    PROVE  IsBarMap(MergedBars(past, later))
  <1>1. DOMAIN MergedBars(past, later) = DOMAIN past \cup DOMAIN later
    BY DEF MergedBars
  <1> SUFFICES ASSUME NEW t \in DOMAIN past \cup DOMAIN later
               PROVE  MergedBars(past, later)[t] \in Bars(AllPrices)
    BY <1>1 DEF IsBarMap
  <1>2. MergedBars(past, later)[t] =
            IF t \notin DOMAIN later THEN past[t]
            ELSE IF t \notin DOMAIN past THEN later[t]
            ELSE Extended(past[t], later[t])
    BY DEF MergedBars
  <1>3. \A old, new \in Bars(AllPrices) : Extended(old, new) \in Bars(AllPrices)
    BY DEF Bars, Extended, Later, Earlier
  <1> QED
    BY <1>2, <1>3 DEF IsBarMap

LEMMA MarketOfAll ==
    ASSUME NEW g \in Nat
    PROVE  MarketPrices(Market(g)) \subseteq AllPrices
  <1>1. Market(g) \in {0, 1}
    BY PricesArePositive
  <1> QED
    BY <1>1 DEF AllPrices

LEMMA NoBarsIsBarMap == IsBarMap(NoBars)
  BY DEF NoBars, IsBarMap

\* What the indexer may answer, with the candles of a zero price dropped.
LEMMA ValidCandlesAreBars ==
    ASSUME NEW g \in Nat, NEW c \in Candles(Market(g))
    PROVE  IsBarMap(ValidCandles(c))
  <1>1. DOMAIN c \subseteq Buckets
    <2> DEFINE one(b, p, q) == [t \in {b} |-> [open |-> p, high |-> Later(p, q),
                                              low |-> Earlier(p, q), close |-> q]]
    <2>1. Candles(Market(g)) = {NoBars} \cup
             {one(b, p, q) : b \in Buckets, p \in MarketPrices(Market(g)) \cup {0},
                             q \in MarketPrices(Market(g))}
      BY DEF Candles
    <2>2. \A b, p, q : DOMAIN one(b, p, q) = {b}
      OBVIOUS
    <2>3. DOMAIN NoBars = {}
      BY DEF NoBars
    <2> HIDE DEF one
    <2>4. CASE c = NoBars
      BY <2>3, <2>4
    <2>5. CASE c # NoBars
      <3>1. \E b \in Buckets, p \in MarketPrices(Market(g)) \cup {0},
               q \in MarketPrices(Market(g)) : c = one(b, p, q)
        BY <2>1, <2>5
      <3>2. PICK b \in Buckets, p \in MarketPrices(Market(g)) \cup {0},
               q \in MarketPrices(Market(g)) : c = one(b, p, q)
        BY <3>1
      <3>3. DOMAIN one(b, p, q) = {b}
        BY <2>2
      <3>4. DOMAIN c = {b}
        BY <3>2, <3>3
      <3> QED
        BY <3>4
    <2> QED
      BY <2>4, <2>5
  <1>2. DrawsMarket(ValidCandles(c), Market(g))
    BY PricesArePositive, ValidCandlesDraw
  <1>3. DOMAIN ValidCandles(c) \subseteq Buckets
    BY <1>1 DEF ValidCandles
  <1>4. SoundBars(Market(g)) \subseteq Bars(AllPrices)
    BY MarketOfAll DEF SoundBars, Bars
  <1> QED
    BY <1>2, <1>3, <1>4 DEF DrawsMarket, IsBarMap

ChartTyped == ChartInv /\ ChartTypeOK

LEMMA ChartInitTyped == ChartInit => ChartTyped
  <1> SUFFICES ASSUME ChartInit PROVE ChartTypeOK
    BY ChartInitInv DEF ChartTyped
  <1>1. 0 \in 0 .. MaxSwitches
    BY ChartAssumption
  <1> QED
    BY <1>1, NoBarsIsBarMap DEF ChartInit, ChartTypeOK

LEMMA ChartTypedStep == ChartTyped /\ [ChartNext]_chartVars => ChartTyped'
  <1> SUFFICES ASSUME ChartTyped, [ChartNext]_chartVars PROVE ChartTypeOK'
    BY ChartNextInv DEF ChartTyped
  <1>0. /\ ChartTypeOK /\ effect \in Nat /\ effect \in 0 .. MaxSwitches
        /\ loading \subseteq 0 .. effect
        /\ IsBarMap(history) /\ IsBarMap(liveBars) /\ IsBarMap(series)
    BY DEF ChartTyped, ChartInv, ChartTypeOK
  <1>1. CASE UNCHANGED chartVars
    BY <1>0, <1>1 DEF chartVars, ChartTypeOK, IsBarMap
  <1>2. ASSUME LoadCandles PROVE ChartTypeOK'
    <2>1. effect \in 0 .. effect
      BY <1>0
    <2> QED
      BY <1>0, <1>2, <2>1 DEF LoadCandles, ChartTypeOK, IsBarMap
  <1>3. ASSUME NEW g, CandlesArrive(g) PROVE ChartTypeOK'
    <2>1. /\ effect' = effect /\ liveBars' = liveBars /\ lastMark' = lastMark
          /\ loading' \subseteq loading
      BY <1>3 DEF CandlesArrive
    <2>2. CASE g = effect
      <3>1. PICK c \in Candles(Market(effect)) : history' = ValidCandles(c)
        BY <1>3, <2>2 DEF CandlesArrive
      <3>2. IsBarMap(ValidCandles(c))
        BY <1>0, ValidCandlesAreBars
      <3>3. /\ series' = MergedBars(history', liveBars)
            /\ chartStatus' \in {"empty", "ready"}
        BY <1>3, <2>2 DEF CandlesArrive, ApplyBars
      <3>4. IsBarMap(MergedBars(ValidCandles(c), liveBars))
        BY <1>0, <3>2, MergedIsBarMap
      <3> QED
        BY <1>0, <2>1, <3>1, <3>2, <3>3, <3>4 DEF ChartTypeOK, IsBarMap
    <2>3. CASE g # effect
      <3>1. UNCHANGED <<history, series, chartStatus>>
        BY <1>3, <2>3 DEF CandlesArrive
      <3> QED
        BY <1>0, <2>1, <3>1 DEF ChartTypeOK, IsBarMap
    <2> QED
      BY <2>2, <2>3
  <1>4. ASSUME NEW g, LoadThrows(g) PROVE ChartTypeOK'
    <2>1. loading' \subseteq loading /\ chartStatus' \in {"error", chartStatus}
      BY <1>4 DEF LoadThrows
    <2> QED
      BY <1>0, <1>4, <2>1 DEF LoadThrows, ChartTypeOK, IsBarMap
  <1>5. ASSUME NEW m, NEW time \in Buckets, NEW p \in MarketPrices(m), SnapshotShown(m, p, time)
        PROVE  ChartTypeOK'
    <2> DEFINE bar == [open |-> p, high |-> p, low |-> p, close |-> p]
               one == [t \in {time} |-> bar]
    <2>1. /\ m = Market(effect) /\ UNCHANGED <<effect, loading, history>> /\ lastMark' = p
          /\ liveBars' = MergedBars(liveBars, one)
          /\ series' = MergedBars(history, liveBars')
          /\ chartStatus' \in {"empty", "ready"}
      BY <1>5 DEF SnapshotShown, ApplyBars
    <2>2. p \in AllPrices
      BY <1>0, <2>1, MarketOfAll
    <2>3. IsBarMap(one)
      BY <2>2 DEF IsBarMap, Bars
    <2> HIDE DEF bar, one
    <2>4. IsBarMap(MergedBars(liveBars, one))
      BY <1>0, <2>3, MergedIsBarMap
    <2>5. IsBarMap(MergedBars(history, MergedBars(liveBars, one)))
      BY <1>0, <2>4, MergedIsBarMap
    <2> QED
      BY <1>0, <2>1, <2>2, <2>4, <2>5 DEF ChartTypeOK, IsBarMap
  <1>6. ASSUME ShowMarket PROVE ChartTypeOK'
    <2>1. /\ effect' = effect + 1 /\ effect < MaxSwitches /\ loading' = loading \cup {effect'}
          /\ history' = NoBars /\ liveBars' = NoBars /\ series' = series
          /\ chartStatus' = "loading" /\ lastMark' = 0
      BY <1>6 DEF ShowMarket
    <2>2. effect' \in 0 .. MaxSwitches /\ loading' \subseteq 0 .. effect'
      BY <1>0, <2>1, ChartAssumption
    <2> QED
      BY <1>0, <2>1, <2>2, NoBarsIsBarMap DEF ChartTypeOK, IsBarMap
  <1> QED
    BY <1>1, <1>2, <1>3, <1>4, <1>5, <1>6 DEF ChartNext

-----------------------------------------------------------------------------
(* The pages. *)

GuardedPages == {"Portfolio", "History", "Market"}

CallType == [effect : Nat, guarded : BOOLEAN, got : Seq(Versions)]

\* loads of a key, begun by an effect there has been; on some pages all are guarded
SoundCalls ==
    {c \in CallType : /\ c.effect \in 1 .. Active
                      /\ chosen[c.effect] \in Keys
                      /\ page \in GuardedPages => c.guarded}

\* the lists of the History page were filled by one load
ListsOfOne == page = "History" => \A i, j \in DOMAIN parts : parts[i].key = parts[j].key

\* A load goes on to read data of the key it was begun for, so that must be a key; and
\* a page whose loads are guarded sends no transactions, whose loads are not.
PagesInv ==
    /\ PagesTypeOK
    /\ calls \in Seq(SoundCalls)
    /\ sending # 0 => chosen[sending] \in Keys /\ page \notin GuardedPages
    /\ ListsOfOne

LEMMA PartsAreFinite ==
    /\ \A p : PartsOf(p) \in 1 .. 3
    /\ PartsOf("History") = 3
  BY DEF PartsOf

LEMMA NothingReadType ==
    /\ NothingRead \in [1 .. PartsOf(page) -> [key : Keys \cup {NoKey}, version : Versions]]
    /\ \A j \in 1 .. PartsOf(page) : NothingRead[j] = Blank
    /\ Blank \in [key : Keys \cup {NoKey}, version : Versions]
  BY PagesAssumption DEF NothingRead, Blank, Read, Versions

LEMMA PagesInitInv == PagesInit => PagesInv
  <1> SUFFICES ASSUME PagesInit PROVE PagesInv
    OBVIOUS
  <1>1. /\ chosen \in Seq(Keys \cup {NoKey}) /\ Len(chosen) = 1 /\ Active = 1
    BY PagesAssumption DEF PagesInit, Active
  <1>2. /\ facts \in [Keys -> Versions] /\ calls = <<>> /\ sending = 0 /\ failed \in BOOLEAN
        /\ loadFaults \in 0 .. MaxLoadFaults /\ page \in PageNames /\ parts = NothingRead
    <2>1. 0 \in Versions /\ 0 \in 0 .. MaxLoadFaults
      BY PagesAssumption DEF Versions
    <2> QED
      BY <2>1 DEF PagesInit
  <1>3. PagesTypeOK
    BY <1>1, <1>2, NothingReadType, PagesAssumption DEF PagesTypeOK, MaxCalls
  <1>4. ListsOfOne
    BY <1>2, NothingReadType DEF ListsOfOne, NothingRead
  <1> QED
    BY <1>2, <1>3, <1>4 DEF PagesInv

\* While nothing is selected, the loads that were sound still are.
LEMMA CallsStaySound ==
    ASSUME UNCHANGED <<page, chosen>>
    PROVE  SoundCalls' = SoundCalls
  BY DEF SoundCalls, Active, CallType, Versions

LEMMA DataChangesInv ==
    ASSUME PagesInv, NEW k \in Keys, DataChanges(k)
    PROVE  PagesInv' /\ parts' = parts
  <1>1. facts' \in [Keys -> Versions]
    <2>1. facts[k] \in Versions /\ facts[k] + 1 \in Versions
      BY PagesAssumption DEF PagesInv, PagesTypeOK, DataChanges, Versions
    <2> QED
      BY <2>1 DEF PagesInv, PagesTypeOK, DataChanges
  <1>2. UNCHANGED <<page, chosen, calls, parts, failed, sending, loadFaults>>
    BY DEF DataChanges
  <1>3. PagesTypeOK'
    BY <1>1, <1>2 DEF PagesInv, PagesTypeOK, Active, Versions
  <1> QED
    BY <1>2, <1>3, CallsStaySound DEF PagesInv, ListsOfOne

\* Another load of an effect is under way, begun by the page or after a transaction.
LEMMA LoadAddedInv ==
    ASSUME PagesInv, NEW e \in 1 .. Active, NEW g \in BOOLEAN, chosen[e] \in Keys,
           page \in GuardedPages => g,
           Len(calls) < MaxCalls, calls' = Append(calls, LoadOf(e, g)),
           facts' \in [Keys -> Versions],
           sending' = sending \/ sending' = 0,
           UNCHANGED <<page, chosen, parts, failed, loadFaults>>
    PROVE  PagesInv'
  <1> DEFINE load == LoadOf(e, g)
  <1>1. /\ load = [effect |-> e, guarded |-> g /\ page # "Positions",
                   got |-> <<facts'[chosen[e]]>>]
        /\ facts'[chosen[e]] \in Versions /\ Active \in Nat
    BY DEF LoadOf, PagesInv, PagesTypeOK, Active
  <1>2. load \in SoundCalls
    BY <1>1 DEF SoundCalls, CallType, GuardedPages
  <1>0. calls' = Append(calls, load)
    OBVIOUS
  <1> HIDE DEF load
  <1>3. calls' \in Seq(SoundCalls) /\ Len(calls') <= MaxCalls
    <2>1. calls \in Seq(SoundCalls) /\ Len(calls) \in Nat
      BY DEF PagesInv
    <2>2. calls' \in Seq(SoundCalls) /\ Len(calls') = Len(calls) + 1
      BY <1>0, <1>2, <2>1
    <2> QED
      BY <2>1, <2>2 DEF MaxCalls
  <1>4. calls' \in Seq(SoundCalls')
    BY <1>3, CallsStaySound
  <1>5. \A i \in DOMAIN calls' : calls'[i] \in SoundCalls
    BY <1>3
  <1>6. sending' \in 0 .. Active /\ (sending' # 0 => sending' = sending)
    BY <1>1 DEF PagesInv, PagesTypeOK
  <1>7. PagesTypeOK'
    BY <1>3, <1>5, <1>6 DEF PagesInv, PagesTypeOK, Active, SoundCalls, CallType, Versions
  <1> QED
    BY <1>4, <1>6, <1>7 DEF PagesInv, ListsOfOne

LEMMA BeginLoadInv ==
    ASSUME PagesInv, BeginLoad
    PROVE  PagesInv' /\ parts' = parts
  <1>1. /\ Active \in 1 .. Active /\ chosen[Active] \in Keys
    <2>1. chosen \in Seq(Keys \cup {NoKey}) /\ Active = Len(chosen) /\ Active \in Nat \ {0}
      BY PagesAssumption DEF PagesInv, PagesTypeOK, Active
    <2> QED
      BY <2>1 DEF BeginLoad, key
  <1>2. /\ Len(calls) < MaxCalls /\ calls' = Append(calls, LoadOf(Active, TRUE))
        /\ UNCHANGED <<facts, page, chosen, parts, failed, sending, loadFaults>>
    BY DEF BeginLoad
  <1>3. facts' \in [Keys -> Versions]
    BY <1>2 DEF PagesInv, PagesTypeOK
  <1> QED
    BY <1>1, <1>2, <1>3, LoadAddedInv

LEMMA SentConfirmedInv ==
    ASSUME PagesInv, SentConfirmed
    PROVE  PagesInv' /\ parts' = parts
  <1>1. /\ sending \in 1 .. Active /\ chosen[sending] \in Keys /\ page \notin GuardedPages
    BY PagesAssumption DEF PagesInv, PagesTypeOK, SentConfirmed
  <1>2. facts' \in [Keys -> Versions]
    <2>1. /\ facts[chosen[sending]] \in Versions /\ facts[chosen[sending]] + 1 \in Versions
      BY <1>1, PagesAssumption DEF PagesInv, PagesTypeOK, SentConfirmed, Versions
    <2> QED
      BY <1>1, <2>1 DEF PagesInv, PagesTypeOK, SentConfirmed
  <1>3. /\ Len(calls) < MaxCalls /\ calls' = Append(calls, LoadOf(sending, FALSE))
        /\ sending' = 0 /\ UNCHANGED <<page, chosen, parts, failed, loadFaults>>
    BY DEF SentConfirmed
  <1> QED
    BY <1>1, <1>2, <1>3, LoadAddedInv

\* An answer of a load that is heard.
LEMMA HeardAnswer ==
    ASSUME PagesInv, NEW i \in DOMAIN calls
    PROVE  /\ calls[i] \in SoundCalls
           /\ calls[i].got \in Seq(Versions) /\ calls[i].effect \in 1 .. Active
           /\ chosen[calls[i].effect] \in Keys /\ facts[chosen[calls[i].effect]] \in Versions
           /\ page \in GuardedPages /\ Heard(calls[i]) => chosen[calls[i].effect] = key
  <1>1. calls[i] \in SoundCalls
    BY DEF PagesInv
  <1>2. page \in GuardedPages /\ Heard(calls[i]) => calls[i].effect = Active
    BY <1>1 DEF SoundCalls, CallType, Heard
  <1> QED
    BY <1>1, <1>2 DEF SoundCalls, CallType, PagesInv, PagesTypeOK, key

\* The next call of a load is under way, or the load is over.
LEMMA LoadMovesOn ==
    ASSUME PagesInv, NEW i \in DOMAIN calls,
           \/ calls' = RemoveAt(calls, i)
           \/ calls' = [calls EXCEPT ![i].got = Append(@, facts[chosen[calls[i].effect]])]
    PROVE  /\ calls' \in Seq(SoundCalls) /\ Len(calls') <= MaxCalls
           /\ \A j \in DOMAIN calls' : /\ calls'[j].effect \in 1 .. Active
                                       /\ calls'[j].got \in Seq(Versions)
  <1>1. calls \in Seq(SoundCalls) /\ Len(calls) <= MaxCalls /\ Len(calls) \in Nat
    BY DEF PagesInv, PagesTypeOK
  <1>2. ASSUME calls' = RemoveAt(calls, i)
        PROVE  calls' \in Seq(SoundCalls) /\ Len(calls') <= MaxCalls
    <2>1. RemoveAt(calls, i) \in Seq(SoundCalls) /\ Len(RemoveAt(calls, i)) = Len(calls) - 1
      BY <1>1, RemoveAtType
    <2> QED
      BY <1>1, <1>2, <2>1 DEF MaxCalls
  <1>3. ASSUME calls' = [calls EXCEPT ![i].got = Append(@, facts[chosen[calls[i].effect]])]
        PROVE  calls' \in Seq(SoundCalls) /\ Len(calls') <= MaxCalls
    <2> DEFINE next == [calls[i] EXCEPT !.got = Append(@, facts[chosen[calls[i].effect]])]
    <2>1. /\ calls[i] \in SoundCalls /\ calls[i].got \in Seq(Versions)
          /\ facts[chosen[calls[i].effect]] \in Versions
      BY HeardAnswer
    <2>2. Append(calls[i].got, facts[chosen[calls[i].effect]]) \in Seq(Versions)
      BY <2>1
    <2>3. next \in SoundCalls
      BY <2>1, <2>2 DEF SoundCalls, CallType
    <2>4. calls' = [calls EXCEPT ![i] = next]
      BY <1>3
    <2> HIDE DEF next
    <2>5. calls' \in Seq(SoundCalls) /\ Len(calls') = Len(calls)
      BY <1>1, <2>3, <2>4
    <2> QED
      BY <1>1, <2>5
  <1>4. calls' \in Seq(SoundCalls) /\ Len(calls') <= MaxCalls
    BY <1>2, <1>3
  <1>5. \A j \in DOMAIN calls' : calls'[j] \in SoundCalls
    BY <1>4
  <1> QED
    BY <1>4, <1>5 DEF SoundCalls, CallType

\* What the invariant asks of a step that moves a load on.
LEMMA LoadStepInv ==
    ASSUME PagesInv, calls' \in Seq(SoundCalls), Len(calls') <= MaxCalls,
           \A j \in DOMAIN calls' : /\ calls'[j].effect \in 1 .. Active
                                    /\ calls'[j].got \in Seq(Versions),
           parts' \in [1 .. PartsOf(page) -> [key : Keys \cup {NoKey}, version : Versions]],
           page = "History" => \A j, k \in DOMAIN parts' : parts'[j].key = parts'[k].key,
           failed' \in BOOLEAN, loadFaults' \in 0 .. MaxLoadFaults,
           UNCHANGED <<page, chosen, facts, sending>>
    PROVE  PagesInv'
  <1>1. SoundCalls' = SoundCalls
    BY CallsStaySound
  <1>2. PagesTypeOK'
    BY DEF PagesInv, PagesTypeOK, Active, Versions
  <1> QED
    BY <1>1, <1>2 DEF PagesInv, ListsOfOne

LEMMA AnswerLandsInv ==
    ASSUME PagesInv, NEW i, AnswerLands(i)
    PROVE  PagesInv' /\ LandsAsSelected
  <1> DEFINE c == calls[i]
             k == chosen[c.effect]
  <1>1. /\ i \in DOMAIN calls /\ UNCHANGED <<page, chosen, facts, sending, loadFaults>>
        /\ failed' = FailedAfter(c)
        /\ parts' = [j \in DOMAIN parts |->
                        IF Heard(c) /\ j \in FilledParts(c) THEN Read(k, c.got[j]) ELSE parts[j]]
        /\ calls' = IF Ends(c) \/ ~Heard(c) THEN RemoveAt(calls, i)
                    ELSE [calls EXCEPT ![i].got = Append(@, facts[k])]
    BY DEF AnswerLands
  <1>2. /\ c \in SoundCalls /\ c.got \in Seq(Versions) /\ c.effect \in 1 .. Active /\ k \in Keys
        /\ page \in GuardedPages /\ Heard(c) => k = key
    BY <1>1, HeardAnswer
  <1>3. /\ calls' \in Seq(SoundCalls) /\ Len(calls') <= MaxCalls
        /\ \A j \in DOMAIN calls' : /\ calls'[j].effect \in 1 .. Active
                                    /\ calls'[j].got \in Seq(Versions)
    BY <1>1, LoadMovesOn
  <1>4. /\ DOMAIN parts = 1 .. PartsOf(page)
        /\ parts \in [1 .. PartsOf(page) -> [key : Keys \cup {NoKey}, version : Versions]]
        /\ PartsOf(page) \in 1 .. 3 /\ failed \in BOOLEAN
    BY PartsAreFinite DEF PagesInv, PagesTypeOK
  <1> HIDE DEF c, k
  <1>5. ASSUME NEW j \in FilledParts(c), j \in 1 .. PartsOf(page)
        PROVE  c.got[j] \in Versions
    <2>1. j \in 1 .. Len(c.got)
      BY <1>2, <1>4, <1>5 DEF FilledParts
    <2> QED
      BY <1>2, <2>1
  <1>6. parts' \in [1 .. PartsOf(page) -> [key : Keys \cup {NoKey}, version : Versions]]
    <2>1. ASSUME NEW j \in 1 .. PartsOf(page), Heard(c), j \in FilledParts(c)
          PROVE  Read(k, c.got[j]) \in [key : Keys \cup {NoKey}, version : Versions]
      BY <1>2, <1>5, <2>1 DEF Read
    <2> QED
      BY <1>1, <1>4, <2>1
  <1>7. page = "History" => \A j, n \in DOMAIN parts' : parts'[j].key = parts'[n].key
    <2> SUFFICES ASSUME page = "History", NEW j \in DOMAIN parts', NEW n \in DOMAIN parts'
                 PROVE  parts'[j].key = parts'[n].key
      OBVIOUS
    <2>1. parts[j].key = parts[n].key /\ j \in DOMAIN parts /\ n \in DOMAIN parts
      BY <1>1 DEF PagesInv, ListsOfOne
    <2>2. FilledParts(c) = {} \/ (j \in FilledParts(c) /\ n \in FilledParts(c))
      BY <1>4, <2>1 DEF FilledParts
    <2> QED
      BY <1>1, <2>1, <2>2 DEF Read
  <1>8. failed' \in BOOLEAN /\ loadFaults' \in 0 .. MaxLoadFaults
    BY <1>1, <1>4 DEF FailedAfter, PagesInv, PagesTypeOK
  <1>9. PagesInv'
    BY <1>1, <1>3, <1>6, <1>7, <1>8, LoadStepInv
  <1>10. ASSUME page \in GuardedPages, NEW j \in DOMAIN parts, parts'[j] # parts[j]
         PROVE  parts'[j].key = key'
    <2>1. Heard(c) /\ parts'[j] = Read(k, c.got[j])
      BY <1>1, <1>10
    <2>2. k = key /\ key' = key
      BY <1>1, <1>2, <1>10, <2>1 DEF key, Active
    <2> QED
      BY <2>1, <2>2 DEF Read
  <1>11. DOMAIN parts' = DOMAIN parts
    BY <1>1
  <1> QED
    BY <1>7, <1>9, <1>10, <1>11 DEF LandsAsSelected, GuardedPages

LEMMA CallFailsInv ==
    ASSUME PagesInv, NEW i, CallFails(i)
    PROVE  PagesInv' /\ LandsAsSelected
  <1> DEFINE c    == calls[i]
             lost == page \in {"Positions", "Collateral"} \/ (page = "Market" /\ ~Ends(c))
  <1>1. /\ i \in DOMAIN calls /\ UNCHANGED <<page, chosen, facts, sending>>
        /\ loadFaults < MaxLoadFaults /\ loadFaults' = loadFaults + 1
        /\ parts' = IF lost /\ Heard(c) THEN [parts EXCEPT ![1] = Blank] ELSE parts
        /\ failed' = (IF page \in {"Portfolio", "History"} /\ Heard(c) THEN TRUE ELSE failed)
        /\ calls' = IF page = "Market" /\ ~Ends(c)
                    THEN [calls EXCEPT ![i].got = Append(@, facts[chosen[c.effect]])]
                    ELSE RemoveAt(calls, i)
    BY DEF CallFails
  <1>2. /\ calls' \in Seq(SoundCalls) /\ Len(calls') <= MaxCalls
        /\ \A j \in DOMAIN calls' : /\ calls'[j].effect \in 1 .. Active
                                    /\ calls'[j].got \in Seq(Versions)
    BY <1>1, LoadMovesOn
  <1>3. page = "History" => parts' = parts
    BY <1>1
  <1>4. parts' = parts \/ parts' = [parts EXCEPT ![1] = Blank]
    BY <1>1
  <1> HIDE DEF c, lost
  <1>5. parts \in [1 .. PartsOf(page) -> [key : Keys \cup {NoKey}, version : Versions]]
    BY DEF PagesInv, PagesTypeOK
  <1>6. parts' \in [1 .. PartsOf(page) -> [key : Keys \cup {NoKey}, version : Versions]]
    BY <1>4, <1>5, NothingReadType
  <1>7. page = "History" => \A j, n \in DOMAIN parts' : parts'[j].key = parts'[n].key
    BY <1>3 DEF PagesInv, ListsOfOne
  <1>8. loadFaults' \in 0 .. MaxLoadFaults
    BY <1>1, PagesAssumption DEF PagesInv, PagesTypeOK
  <1>9. failed' \in BOOLEAN
    BY <1>1 DEF PagesInv, PagesTypeOK
  <1>10. PagesInv'
    BY <1>1, <1>2, <1>6, <1>7, <1>8, <1>9, LoadStepInv
  <1>11. \A j \in DOMAIN parts : parts'[j] # parts[j] => parts'[j] = Blank
    BY <1>4, <1>5
  <1>12. DOMAIN parts' = DOMAIN parts
    BY <1>5, <1>6
  <1> QED
    BY <1>7, <1>10, <1>11, <1>12 DEF LandsAsSelected

LEMMA SelectInv ==
    ASSUME PagesInv, NEW k \in Keys \cup {NoKey}, Select(k)
    PROVE  PagesInv' /\ (parts' = parts \/ parts' = NothingRead)
  <1>1. /\ Active < MaxSelections /\ chosen' = Append(chosen, k)
        /\ parts' = (IF k = NoKey THEN NothingRead ELSE parts)
        /\ UNCHANGED <<page, facts, calls, failed, sending, loadFaults>>
    BY DEF Select
  <1>2. /\ chosen \in Seq(Keys \cup {NoKey}) /\ Active = Len(chosen) /\ Active \in Nat
    BY DEF PagesInv, PagesTypeOK, Active
  <1>3. /\ chosen' \in Seq(Keys \cup {NoKey}) /\ Active' = Active + 1
        /\ \A e \in 1 .. Active : chosen'[e] = chosen[e]
    BY <1>1, <1>2 DEF Active
  <1>4. SoundCalls \subseteq SoundCalls'
    <2>1. \A e \in 1 .. Active : e \in 1 .. Active'
      BY <1>2, <1>3
    <2> QED
      BY <1>1, <1>3, <2>1 DEF SoundCalls, CallType, Versions
  <1>5. calls' \in Seq(SoundCalls')
    BY <1>1, <1>4 DEF PagesInv
  <1>6. /\ Active' \in 1 .. MaxSelections /\ sending' \in 0 .. Active'
        /\ \A i \in DOMAIN calls' : calls'[i].effect \in 1 .. Active'
    BY <1>1, <1>2, <1>3, PagesAssumption DEF PagesInv, PagesTypeOK
  <1>7. parts' \in [1 .. PartsOf(page) -> [key : Keys \cup {NoKey}, version : Versions]]
    BY <1>1, NothingReadType DEF PagesInv, PagesTypeOK
  <1>8. PagesTypeOK'
    BY <1>1, <1>3, <1>6, <1>7 DEF PagesInv, PagesTypeOK, Versions
  <1>9. sending' # 0 => chosen'[sending'] \in Keys /\ page' \notin GuardedPages
    BY <1>1, <1>2, <1>3 DEF PagesInv, PagesTypeOK
  <1>10. ListsOfOne'
    BY <1>1, NothingReadType DEF PagesInv, ListsOfOne, NothingRead
  <1> QED
    BY <1>1, <1>5, <1>8, <1>9, <1>10 DEF PagesInv

\* The user's other steps: the rows are cleared, or a transaction is sent or refused.
LEMMA OtherPageStepInv ==
    ASSUME PagesInv, ClearRows \/ PressSend \/ SentRefused \/ UNCHANGED pageVars
    PROVE  PagesInv' /\ (parts' = parts \/ parts' = NothingRead)
  <1>1. /\ UNCHANGED <<page, chosen, facts, calls, failed, loadFaults>>
        /\ parts' = parts \/ parts' = NothingRead
        /\ \/ sending' = sending
           \/ sending' = 0
           \/ sending' = Active /\ key # NoKey /\ page \in {"Positions", "Collateral"}
    BY DEF ClearRows, PressSend, SentRefused, pageVars
  <1>2. /\ chosen \in Seq(Keys \cup {NoKey}) /\ Active = Len(chosen) /\ Active \in Nat \ {0}
    BY PagesAssumption DEF PagesInv, PagesTypeOK, Active
  <1>3. /\ sending' \in 0 .. Active
        /\ sending' # 0 => chosen[sending'] \in Keys /\ page \notin GuardedPages
    BY <1>1, <1>2 DEF PagesInv, PagesTypeOK, key, GuardedPages
  <1>4. /\ SoundCalls' = SoundCalls
        /\ parts' \in [1 .. PartsOf(page) -> [key : Keys \cup {NoKey}, version : Versions]]
    BY <1>1, CallsStaySound, NothingReadType DEF PagesInv, PagesTypeOK
  <1>5. PagesTypeOK'
    BY <1>1, <1>3, <1>4 DEF PagesInv, PagesTypeOK, Active, Versions
  <1>6. ListsOfOne'
    BY <1>1, NothingReadType DEF PagesInv, ListsOfOne, NothingRead
  <1> QED
    BY <1>1, <1>3, <1>4, <1>5, <1>6 DEF PagesInv

\* A step that leaves the parts alone, or clears them all, lands nothing.
LEMMA NothingLands ==
    ASSUME PagesInv, PagesInv', page' = page, parts' = parts \/ parts' = NothingRead
    PROVE  LandsAsSelected
  <1>1. /\ DOMAIN parts' = DOMAIN parts /\ DOMAIN parts = 1 .. PartsOf(page)
    BY DEF PagesInv, PagesTypeOK
  <1>2. page = "History" => \A i, j \in DOMAIN parts : parts'[i].key = parts'[j].key
    BY <1>1 DEF PagesInv, ListsOfOne
  <1> QED
    BY <1>1, <1>2, NothingReadType DEF LandsAsSelected

LEMMA PagesStep == PagesInv /\ [PagesNext]_pageVars => PagesInv' /\ LandsAsSelected
  <1> SUFFICES ASSUME PagesInv, [PagesNext]_pageVars PROVE PagesInv' /\ LandsAsSelected
    OBVIOUS
  <1>1. ASSUME \/ \E k \in Keys : DataChanges(k) \/ Select(k)
               \/ Select(NoKey) \/ ClearRows \/ BeginLoad
               \/ PressSend \/ SentConfirmed \/ SentRefused \/ UNCHANGED pageVars
        PROVE  PagesInv' /\ LandsAsSelected
    <2>1. PagesInv' /\ (parts' = parts \/ parts' = NothingRead)
      BY <1>1, DataChangesInv, SelectInv, BeginLoadInv, SentConfirmedInv, OtherPageStepInv
    <2>2. page' = page
      BY <1>1 DEF DataChanges, Select, ClearRows, BeginLoad, PressSend, SentConfirmed,
                  SentRefused, pageVars
    <2> QED
      BY <2>1, <2>2, NothingLands
  <1> QED
    BY <1>1, AnswerLandsInv, CallFailsInv DEF PagesNext

\* On a page whose loads are guarded, a late answer of an earlier selection never lands.
THEOREM OnlySelectedEverLands == PagesSpec => OnlySelectedLands
  <1>1. PagesInv /\ [PagesNext]_pageVars => PagesInv' /\ [LandsAsSelected]_pageVars
    BY PagesStep
  <1> QED
    BY <1>1, PagesInitInv, PTL DEF PagesSpec, OnlySelectedLands

-----------------------------------------------------------------------------
(* The scenes. *)

\* The scenes of MCServices in one state space are runs of the modules, and nothing
\* else: whatever is true of a module on its own is true of it there.
ServicesPlay ==
    /\ IndexerInit /\ [][IndexerNext]_indexerVars
    /\ ChartInit /\ [][ChartNext]_chartVars
    /\ PagesInit /\ [][PagesNext]_pageVars
    /\ OnboardingInit /\ [][OnboardingNext]_onboardingVars
    /\ (DeploymentInit \/ Bootstrapped) /\ [][DeploymentNext]_deploymentVars
    /\ PreviewInit /\ [][PreviewNext]_previewVars
    /\ PythInit /\ [][PythNext]_feedVars

\* A chain bootstrap has finished with is in order too.
LEMMA BootstrappedInv == Bootstrapped => OraclesInv
  <1> SUFFICES ASSUME Bootstrapped PROVE OraclesInv
    OBVIOUS
  <1>1. /\ sol = 1 /\ issued = 1 /\ mints = {1} /\ stateMint = 1 /\ cache = 1
        /\ price = [m \in PerpMarkets |-> Peg] /\ fresh = PerpMarkets /\ created = MARKETS
        /\ handedOut = 0 /\ pusher = NoPusher /\ misread = FALSE /\ scriptFaults = 0
        /\ task = [script |-> "none", step |-> "none", mint |-> 0, n |-> 0]
    BY DEF Bootstrapped, NoTask, At
  <1>2. Peg \in 0 .. PriceCap /\ Peg > 0
    BY DeploymentConstants
  <1>3. price \in [PerpMarkets -> 0 .. PriceCap]
    BY <1>1, <1>2
  <1>4. TaskOK /\ ~AtMarket
    BY <1>1, DeploymentConstants DEF TaskOK, AtMarket, ScriptNames, ScriptSteps
  <1>5. mints \subseteq 1 .. issued /\ {stateMint, handedOut, cache} \subseteq 0 .. issued
    <2>1. 1 \in 1 .. 1 /\ 1 \in 0 .. 1 /\ 0 \in 0 .. 1
      OBVIOUS
    <2> QED
      BY <1>1, <2>1
  <1>6. pusher \in Pushers /\ fresh \subseteq PerpMarkets
    BY <1>1, NoPusherType
  <1>7. misread \in BOOLEAN
    BY <1>1
  <1>8. /\ sol \in Nat /\ issued \in Nat /\ created \in 0 .. MARKETS
        /\ scriptFaults \in 0 .. MaxScriptFaults
    BY <1>1, DeploymentConstants
  <1>9. DeploymentTypeOK
    BY <1>3, <1>4, <1>5, <1>6, <1>7, <1>8 DEF DeploymentTypeOK, TaskOK, Pushers
  <1>10. MarketsHaveOracles
    BY <1>1, <1>2 DEF MarketsHaveOracles
  <1> QED
    BY <1>1, <1>4, <1>9, <1>10 DEF OraclesInv

LEMMA ServicesStep ==
    ASSUME [ServicesNext]_servicesVars
    PROVE  /\ [IndexerNext]_indexerVars /\ [ChartNext]_chartVars /\ [PagesNext]_pageVars
           /\ [OnboardingNext]_onboardingVars /\ [DeploymentNext]_deploymentVars
           /\ [PreviewNext]_previewVars /\ [PythNext]_feedVars
  <1>1. CASE UNCHANGED servicesVars
    BY <1>1 DEF servicesVars
  <1>2. CASE ServicesNext
    BY <1>2 DEF ServicesNext, InHistory, OnChart, OnPages, InOnboarding, InDeployment,
                InPreview, AtPyth
  <1> QED
    BY <1>1, <1>2

\* What TLC explores in one run is each of the modules.
LEMMA ServicesPlayTheModules == ServicesSpec => ServicesPlay
  <1>1. ServicesInit => /\ IndexerInit /\ ChartInit /\ PagesInit /\ OnboardingInit
                        /\ (DeploymentInit \/ Bootstrapped) /\ PreviewInit /\ PythInit
    BY DEF ServicesInit
  <1> QED
    BY <1>1, ServicesStep, PTL DEF ServicesSpec, ServicesPlay

\* In every scene and whatever its bounds, the variables of all modules keep their types.
THEOREM ServicesTypeCorrect == ServicesSpec => []ServicesTypeOK
  <1>1. IndexerInv /\ ChartTyped /\ PagesInv /\ OnboardingInv /\ OraclesInv => ServicesTypeOK
    BY DEF IndexerInv, ChartTyped, PagesInv, OnboardingInv, OraclesInv, ServicesTypeOK
  <1>2. PagesInv /\ [PagesNext]_pageVars => PagesInv'
    BY PagesStep
  <1>3. IndexerInv /\ [IndexerNext]_indexerVars => IndexerInv'
    BY IndexerStep
  <1> QED
    BY <1>1, <1>2, <1>3, IndexerInitInv, ChartInitTyped, ChartTypedStep, PagesInitInv,
       OnboardingInitInv, OnboardingStep, OraclesInitInv, BootstrappedInv,
       OraclesStep, ServicesPlayTheModules, PTL DEF ServicesPlay

=============================================================================
