---------------------------- MODULE CreditsProofs ---------------------------
(***************************************************************************)
(* Coins and plays are conserved for every setting of the coin switches    *)
(* and any number of coins.                                                *)
(***************************************************************************)
EXTENDS Credits, BcdProofs

(* Before the switches are read nothing has been counted, because          *)
(* COIN_VALID starts as 0; afterwards they hold possible settings.         *)
Boot == /\ ~Loaded => /\ coinsPerCredit = 0 /\ playsPerCredit = 0 /\ coinValid = 0
                      /\ pending = 0 /\ numPlays = 0
                      /\ coins = 0 /\ credits = 0 /\ granted = 0 /\ started = 0
        /\ Loaded => coinsPerCredit \in 1 .. 5 /\ playsPerCredit \in 1 .. 4

CreditsInv == TypeOK /\ PlaysConserved /\ CoinsConserved /\ StartIsPaidFor /\ Boot

(* What the switches give. *)
LEMMA DipRanges ==
  ASSUME NEW mode \in CoinModes
  PROVE  CoinsOf(mode) \in 1 .. 5 /\ PlaysOf(mode) \in 1 .. 4
  BY CoinModesAssumption DEF CoinsOf, PlaysOf

LEMMA DecimalZero ==
  ASSUME NEW x, IsBcd(x)
  PROVE  /\ Decimal(x) \in 0 .. 99
         /\ Decimal(x) = 0 <=> x = 0
         /\ Decimal(x) = 1 <=> x = 1
         /\ x < PlaysLimit <=> Decimal(x) < 90
  BY DEF IsBcd, Decimal, Hi, Lo, Bytes, PlaysLimit

(* The coin check adds to NUM_PLAYS exactly what it grants. *)
LEMMA PlaysAfterCoin ==
  ASSUME CreditsInv, NEW coin \in BOOLEAN, CheckForCoin(coin)
  PROVE  /\ IsBcd(PlaysAfter(coin))
         /\ granted' \in Nat
         /\ Decimal(PlaysAfter(coin)) + started = granted'
         /\ Decimal(PlaysAfter(coin)) <= 89 + playsPerCredit
         /\ numPlays # 0 => PlaysAfter(coin) # 0
         /\ ~Loaded => PlaysAfter(coin) = 0 /\ granted' = 0
<1> USE DEF CreditsInv
<1>1. CASE Granted(coin)
  <2>1. Loaded /\ playsPerCredit \in 1 .. 4 /\ Decimal(numPlays) < 90 /\ Decimal(numPlays) \in 0 .. 99
    BY <1>1, DecimalZero DEF Granted, Complete, Counted, Boot, TypeOK
  <2>2. IsBcd(playsPerCredit) /\ Decimal(playsPerCredit) = playsPerCredit
    BY <2>1 DEF IsBcd, Decimal, Hi, Lo, Bytes
  <2> DEFINE r == AddDaa(numPlays, playsPerCredit, 0)
  <2>3. /\ IsBcd(r.byte) /\ r.carry \in {0, 1} /\ Decimal(r.byte) \in 0 .. 99
        /\ Decimal(r.byte) + 100 * r.carry = Decimal(numPlays) + playsPerCredit
    BY <2>2, AddDaaIsDecimal, DecimalZero DEF TypeOK
  <2>4. Decimal(r.byte) = Decimal(numPlays) + playsPerCredit
    BY <2>1, <2>3
  <2>5. PlaysAfter(coin) = r.byte /\ granted' = granted + playsPerCredit
    BY <1>1 DEF PlaysAfter, CheckForCoin
  <2>6. r.byte # 0
    BY <2>1, <2>3, <2>4, DecimalZero
  <2> QED BY <2>1, <2>3, <2>4, <2>5, <2>6 DEF PlaysConserved, TypeOK
<1>2. CASE ~Granted(coin)
  BY <1>2 DEF PlaysAfter, CheckForCoin, PlaysConserved, TypeOK, Boot
<1> QED BY <1>1, <1>2

(* The coin check keeps the coins accounted for. *)
LEMMA CoinsAfterCoin ==
  ASSUME CreditsInv, NEW coin \in BOOLEAN, CheckForCoin(coin)
  PROVE  /\ pending' \in 0 .. 4 /\ coins' \in Nat /\ credits' \in Nat /\ coinValid' \in {0, 1}
         /\ coins' = coinsPerCredit * credits' + pending'
         /\ Loaded => pending' < coinsPerCredit
         /\ ~Loaded => pending' = 0 /\ coins' = 0 /\ credits' = 0
<1> USE DEF CreditsInv
<1>1. CASE ~Loaded
  BY <1>1 DEF CheckForCoin, Counted, Complete, Boot, TypeOK
<1>2. CASE Loaded
  <2>1. /\ coinsPerCredit \in 1 .. 5 /\ pending \in 0 .. 4 /\ pending < coinsPerCredit
        /\ coins \in Nat /\ credits \in Nat /\ coins = coinsPerCredit * credits + pending
    BY <1>2 DEF Boot, CoinsConserved, TypeOK
  <2>2. CASE Complete(coin)
    <3>1. coins' = coins + 1 /\ credits' = credits + 1 /\ pending' = 0 /\ coinsPerCredit = pending + 1
      BY <2>2 DEF CheckForCoin, Complete
    <3>2. coinsPerCredit * (credits + 1) = coinsPerCredit * credits + coinsPerCredit
      BY <2>1
    <3> QED BY <1>2, <2>1, <3>1, <3>2 DEF CheckForCoin
  <2>3. CASE ~Complete(coin) /\ Counted(coin)
    <3>1. coins' = coins + 1 /\ credits' = credits /\ pending' = pending + 1 /\ coinsPerCredit # pending + 1
      BY <2>3 DEF CheckForCoin, Complete
    <3>2. coinsPerCredit * credits \in Nat
      BY <2>1
    <3> QED BY <1>2, <2>1, <3>1, <3>2 DEF CheckForCoin
  <2>4. CASE ~Counted(coin)
    BY <1>2, <2>1, <2>4 DEF CheckForCoin, Complete
  <2> QED BY <2>2, <2>3, <2>4
<1> QED BY <1>1, <1>2

LEMMA CreditsInit == Init => CreditsInv
  BY DEF Init, CreditsInv, TypeOK, PlaysConserved, CoinsConserved, StartIsPaidFor, Boot, Loaded,
         IsBcd, Decimal, Hi, Lo, Bytes, BeginAttract, WaitStart

(* The routines that leave the plays as the coin check left them. *)
Quiet(n) == \/ PromptForStart(n) \/ AttractShow(n) \/ DisplayPushStart(n)
            \/ PlayOn(n) \/ RestartGame(n)
            \/ \E buttons \in SUBSET {1, 2} : WaitForButton(n, buttons)

LEMMA QuietStep ==
  ASSUME CreditsInv, NEW coin \in BOOLEAN, CheckForCoin(coin), Quiet(PlaysAfter(coin))
  PROVE  CreditsInv'
<1> DEFINE n == PlaysAfter(coin)
<1> USE DEF CreditsInv, Attract, WaitStart, Play, BeginAttract
<1>1. /\ Loaded /\ Loaded' /\ numPlays' = n /\ UNCHANGED <<dipVars, started>>
      /\ gameState' \in {Attract, WaitStart, Play} /\ substate' \in {0, 1}
      /\ noCoins' \in {0, 1} /\ twoPlayers' \in {0, 1}
      /\ gameState' = WaitStart => gameState = WaitStart \/ n # 0
  BY DEF Quiet, PromptForStart, AttractShow, DisplayPushStart, PlayOn, RestartGame,
         WaitForButton, KeepPlays, Loaded, TypeOK, gameVars
<1>2. UNCHANGED <<coinsPerCredit, playsPerCredit, started>>
  BY <1>1 DEF dipVars
<1>3. TypeOK'
  BY <1>1, <1>2, PlaysAfterCoin, CoinsAfterCoin DEF TypeOK
<1>4. PlaysConserved' /\ CoinsConserved' /\ Boot'
  BY <1>1, <1>2, PlaysAfterCoin, CoinsAfterCoin DEF PlaysConserved, CoinsConserved, Boot
<1>5. StartIsPaidFor'
  BY <1>1, PlaysAfterCoin DEF StartIsPaidFor
<1> QED BY <1>3, <1>4, <1>5

LEMMA InitAttractStep ==
  ASSUME CreditsInv, NEW coin \in BOOLEAN, CheckForCoin(coin), InitAttractMode(PlaysAfter(coin))
  PROVE  CreditsInv'
<1> USE DEF CreditsInv, Attract, WaitStart, Play, BeginAttract
<1>1. /\ ~Loaded /\ Loaded' /\ gameState' = Attract
      /\ numPlays' = PlaysAfter(coin) /\ started' = started
      /\ coinsPerCredit' \in 1 .. 5 /\ playsPerCredit' \in 1 .. 4
  BY DipRanges DEF InitAttractMode, KeepPlays, Loaded
<1>2. /\ numPlays' = 0 /\ started' = 0 /\ granted' = 0
      /\ pending' = 0 /\ coins' = 0 /\ credits' = 0
  BY <1>1, PlaysAfterCoin, CoinsAfterCoin DEF Boot
<1>3. IsBcd(0) /\ Decimal(0) = 0
  BY DEF IsBcd, Decimal, Hi, Lo, Bytes
<1>4. TypeOK'
  BY <1>1, <1>2, <1>3, CoinsAfterCoin DEF TypeOK, InitAttractMode
<1>5. PlaysConserved' /\ Boot' /\ StartIsPaidFor'
  BY <1>1, <1>2, <1>3 DEF PlaysConserved, Boot, StartIsPaidFor
<1>6. CoinsConserved'
  <2>1. \A c \in 1 .. 5 : 0 = c * 0 + 0 /\ 0 < c
    OBVIOUS
  <2>2. coins' = coinsPerCredit' * credits' + pending' /\ pending' < coinsPerCredit'
    BY <1>1, <1>2, <2>1
  <2> QED BY <2>2 DEF CoinsConserved
<1> QED BY <1>4, <1>5, <1>6

(* Starting a game spends plays that are there. *)
LEMMA StartStep ==
  ASSUME CreditsInv, NEW coin \in BOOLEAN, CheckForCoin(coin), NEW buttons \in SUBSET {1, 2},
         \/ StartOnePlayer(PlaysAfter(coin), buttons)
         \/ StartTwoPlayers(PlaysAfter(coin), buttons)
  PROVE  CreditsInv'
<1> DEFINE n == PlaysAfter(coin)
<1> USE DEF CreditsInv, Attract, WaitStart, Play, BeginAttract
<1>1. /\ Loaded /\ Loaded' /\ gameState = WaitStart /\ gameState' = Play
      /\ UNCHANGED <<coinsPerCredit, playsPerCredit, noCoins>>
      /\ substate' \in {0, 1} /\ twoPlayers' \in {0, 1}
  BY DEF StartOnePlayer, StartTwoPlayers, Loaded, dipVars
<1>2. /\ IsBcd(n) /\ n # 0 /\ Decimal(n) \in 1 .. 99
      /\ Decimal(n) + started = granted' /\ Decimal(n) <= 89 + playsPerCredit
  BY <1>1, PlaysAfterCoin, DecimalZero DEF StartIsPaidFor
<1>3. IsBcd(numPlays') /\ Decimal(numPlays') + started' = granted' /\ Decimal(numPlays') <= Decimal(n)
      /\ started' \in Nat
  <2>1. CASE StartOnePlayer(n, buttons)
    BY <1>2, <2>1, Add99IsDecrement DEF StartOnePlayer, SubtractOnePlay, TypeOK
  <2>2. CASE StartTwoPlayers(n, buttons)
    <3> DEFINE m == SubtractOnePlay(n)
    <3>1. n # 1
      BY <2>2 DEF StartTwoPlayers, StartButtons
    <3>2. IsBcd(m) /\ Decimal(m) = Decimal(n) - 1 /\ m # 0
      BY <1>2, <3>1, Add99IsDecrement, DecimalZero DEF SubtractOnePlay
    <3>3. numPlays' = SubtractOnePlay(m) /\ started' = started + 2
      BY <2>2 DEF StartTwoPlayers
    <3>4. IsBcd(numPlays') /\ Decimal(numPlays') = Decimal(m) - 1
      BY <3>2, <3>3, Add99IsDecrement DEF SubtractOnePlay
    <3> QED BY <1>2, <3>2, <3>3, <3>4 DEF TypeOK
  <2> QED BY <2>1, <2>2
<1>4. TypeOK'
  BY <1>1, <1>3, PlaysAfterCoin, CoinsAfterCoin DEF TypeOK
<1>5. Decimal(numPlays') \in 0 .. 99
  BY <1>3, DecimalZero
<1>6. PlaysConserved' /\ CoinsConserved' /\ Boot' /\ StartIsPaidFor'
  BY <1>1, <1>2, <1>3, <1>5, CoinsAfterCoin DEF PlaysConserved, CoinsConserved, Boot, StartIsPaidFor, TypeOK
<1> QED BY <1>4, <1>6

LEMMA CreditsStep == CreditsInv /\ [Next]_vars => CreditsInv'
<1> SUFFICES ASSUME CreditsInv, [Next]_vars PROVE CreditsInv'
  OBVIOUS
<1>1. ASSUME NEW coin \in BOOLEAN, NEW buttons \in SUBSET {1, 2}, Interrupt(coin, buttons)
      PROVE  CreditsInv'
  <2>1. CheckForCoin(coin) /\ Dispatch(PlaysAfter(coin), buttons)
    BY <1>1 DEF Interrupt
  <2> QED BY <2>1, QuietStep, InitAttractStep, StartStep DEF Dispatch, Quiet
<1>2. CASE UNCHANGED vars
  BY <1>2 DEF vars, gameVars, coinVars, dipVars, CreditsInv, TypeOK, PlaysConserved,
              CoinsConserved, StartIsPaidFor, Boot, Loaded
<1> QED BY <1>1, <1>2 DEF Next

THEOREM CreditsInvHolds == Spec => []CreditsInv
  BY CreditsInit, CreditsStep, PTL DEF Spec

(* NUM_PLAYS is always two decimal digits, and is granted minus spent. *)
THEOREM PlaysAlwaysConserved == Spec => [](TypeOK /\ PlaysConserved)
<1>1. CreditsInv => TypeOK /\ PlaysConserved
  BY DEF CreditsInv
<1> QED BY <1>1, CreditsInvHolds, PTL

(* Every coin is in a credit or pending. *)
THEOREM CoinsAlwaysConserved == Spec => []CoinsConserved
<1>1. CreditsInv => CoinsConserved
  BY DEF CreditsInv
<1> QED BY <1>1, CreditsInvHolds, PTL

(* The start screen is never up without a paid play. *)
THEOREM StartAlwaysPaidFor == Spec => []StartIsPaidFor
<1>1. CreditsInv => StartIsPaidFor
  BY DEF CreditsInv
<1> QED BY <1>1, CreditsInvHolds, PTL
=============================================================================
