------------------------------- MODULE Credits ------------------------------
(***************************************************************************)
(* Coins, paid-for plays and the start buttons.  One step is one run of    *)
(* the interrupt handler: L_CHECK_FOR_COIN first, then the routine of the  *)
(* current GAME_STATE.  Events added for display are left to ActionBuffer, *)
(* the game itself to GameFlow: here it only ends, at a moment of its own. *)
(***************************************************************************)
EXTENDS Bcd

CONSTANTS CoinModes,  \* settings of DIP switches 4-6 (0 .. 7 in the cabinet)
          MaxCoins    \* bound of the model: coins put in

ASSUME CoinModesAssumption == CoinModes \subseteq 0 .. 7
ASSUME MaxCoinsAssumption  == MaxCoins \in Nat

VARIABLES gameState,      \* GAME_STATE
          substate,       \* GAME_SUBSTATE, in the waiting-for-start state
          noCoins,        \* NO_COINS_INSERTED: inputs are ignored
          twoPlayers,     \* TWO_PLAYERS
          coinValid,      \* COIN_VALID: the coin switch has been released
          pending,        \* NUM_COINS_PENDING
          numPlays,       \* NUM_PLAYS, two decimal digits
          coinsPerCredit, \* DIP_COINS_PER_CREDIT
          playsPerCredit, \* DIP_PLAYS_PER_CREDIT
          coinsFor1P,     \* NUM_COINS_FOR_1P: the prices on display
          coinsFor2P,     \* NUM_COINS_FOR_2P
          coins,          \* ghost: coins counted
          credits,        \* ghost: credits they bought
          granted,        \* ghost: plays added for them
          started         \* ghost: plays spent on games

dipVars == <<coinsPerCredit, playsPerCredit, coinsFor1P, coinsFor2P>>
gameVars == <<gameState, substate, noCoins, twoPlayers>>
coinVars == <<coinValid, pending, coins, credits, granted>>
vars == <<gameVars, coinVars, dipVars, numPlays, started>>

BeginAttract == 0   \* L_INIT_ATTRACT_MODE
Attract      == 1   \* L_IMPLEMENT_ATTRACT_MODE
WaitStart    == 2   \* L_WAITING_FOR_START_MODE
Play         == 3   \* L_IMPLEMENT_GAME_PLAY

PlaysLimit == 16 * 9   \* cp $90

(* The values L_LOAD_DIP_SETTINGS derives from the switches: every second  *)
(* setting asks for several coins a credit, the others give several plays. *)
CoinsOf(mode) == IF mode % 2 = 1 THEN mode \div 2 + 2 ELSE 1
PlaysOf(mode) == IF mode % 2 = 0 /\ mode # 0 THEN mode \div 2 + 1 ELSE 1
CoinsFor1P(mode) == CoinsOf(mode)
CoinsFor2P(mode) == IF mode = 0 THEN 2
                    ELSE IF mode % 2 = 1 THEN 2 * CoinsOf(mode) ELSE 1

(* RAM is cleared by L_INIT_GAME. *)
Init == /\ gameState = BeginAttract /\ substate = 0
        /\ noCoins = 0 /\ twoPlayers = 0
        /\ coinValid = 0 /\ pending = 0 /\ numPlays = 0
        /\ coinsPerCredit = 0 /\ playsPerCredit = 0
        /\ coinsFor1P = 0 /\ coinsFor2P = 0
        /\ coins = 0 /\ credits = 0 /\ granted = 0 /\ started = 0

-----------------------------------------------------------------------------
(* L_CHECK_FOR_COIN, for the position of the coin switch. *)

Counted(coin) == coin /\ coinValid = 1
Complete(coin) == Counted(coin) /\ coinsPerCredit = pending + 1
Granted(coin) == Complete(coin) /\ numPlays < PlaysLimit

PlaysAfter(coin) == IF Granted(coin) THEN AddDaa(numPlays, playsPerCredit, 0).byte
                                     ELSE numPlays

(* Faulty variant: the coins of a complete credit stay pending. *)
CheckForCoinKeepsPending(coin) ==
  /\ Counted(coin) => coins < MaxCoins
  /\ coinValid' = IF coin THEN 0 ELSE 1
  /\ pending' = IF Counted(coin) THEN pending + 1 ELSE pending
  /\ coins' = IF Counted(coin) THEN coins + 1 ELSE coins
  /\ credits' = IF Complete(coin) THEN credits + 1 ELSE credits
  /\ granted' = IF Granted(coin) THEN granted + playsPerCredit ELSE granted

CheckForCoin(coin) ==
  /\ Counted(coin) => coins < MaxCoins
  /\ coinValid' = IF coin THEN 0 ELSE 1
  /\ pending' = IF Complete(coin) THEN 0
                ELSE IF Counted(coin) THEN pending + 1 ELSE pending
  /\ coins' = IF Counted(coin) THEN coins + 1 ELSE coins
  /\ credits' = IF Complete(coin) THEN credits + 1 ELSE credits
  /\ granted' = IF Granted(coin) THEN granted + playsPerCredit ELSE granted

-----------------------------------------------------------------------------
(* The routine of the game state, with n the plays after the coin check.   *)

KeepPlays(n) == numPlays' = n /\ UNCHANGED started

InitAttractMode(n) ==
  /\ gameState = BeginAttract
  /\ \E mode \in CoinModes :
        /\ coinsPerCredit' = CoinsOf(mode) /\ playsPerCredit' = PlaysOf(mode)
        /\ coinsFor1P' = CoinsFor1P(mode) /\ coinsFor2P' = CoinsFor2P(mode)
  /\ noCoins' = 1 /\ gameState' = Attract /\ substate' = 0
  /\ KeepPlays(n)
  /\ UNCHANGED twoPlayers

(* Faulty variant: the start screen comes up without a play. *)
PromptForStartUnpaid(n) == /\ gameState = Attract
                           /\ gameState' = WaitStart /\ substate' = 0
                           /\ KeepPlays(n)
                           /\ UNCHANGED <<dipVars, noCoins, twoPlayers>>

PromptForStart(n) == /\ gameState = Attract /\ n # 0
                     /\ gameState' = WaitStart /\ substate' = 0
                     /\ KeepPlays(n)
                     /\ UNCHANGED <<dipVars, noCoins, twoPlayers>>

AttractShow(n) == /\ gameState = Attract /\ n = 0
                  /\ KeepPlays(n)
                  /\ UNCHANGED <<gameVars, dipVars>>

(* Faulty variant: the substate is not advanced. *)
DisplayPushStartForever(n) == /\ gameState = WaitStart /\ substate = 0
                              /\ noCoins' = 0
                              /\ KeepPlays(n)
                              /\ UNCHANGED <<gameState, substate, dipVars, twoPlayers>>

DisplayPushStart(n) == /\ gameState = WaitStart /\ substate = 0
                       /\ noCoins' = 0 /\ substate' = 1
                       /\ KeepPlays(n)
                       /\ UNCHANGED <<gameState, dipVars, twoPlayers>>

(* Faulty variant: both buttons count whatever is paid for. *)
StartButtonsUnmasked(n, buttons) == buttons

(* Only the one-player button counts when a single play is paid for, and   *)
(* two buttons at once count as none.                                      *)
StartButtons(n, buttons) == IF n = 1 THEN buttons \cap {1} ELSE buttons

SubtractOnePlay(n) == AddDaa(153, n, 0).byte

StartOnePlayer(n, buttons) ==
  /\ gameState = WaitStart /\ substate = 1
  /\ StartButtons(n, buttons) = {1}
  /\ numPlays' = SubtractOnePlay(n) /\ started' = started + 1
  /\ twoPlayers' = 0 /\ gameState' = Play /\ substate' = 0
  /\ UNCHANGED <<dipVars, noCoins>>

StartTwoPlayers(n, buttons) ==
  /\ gameState = WaitStart /\ substate = 1
  /\ StartButtons(n, buttons) = {2}
  /\ numPlays' = SubtractOnePlay(SubtractOnePlay(n)) /\ started' = started + 2
  /\ twoPlayers' = 1 /\ gameState' = Play /\ substate' = 0
  /\ UNCHANGED <<dipVars, noCoins>>

WaitForButton(n, buttons) ==
  /\ gameState = WaitStart /\ substate = 1
  /\ StartButtons(n, buttons) \notin {{1}, {2}}
  /\ KeepPlays(n)
  /\ UNCHANGED <<gameVars, dipVars>>

PlayOn(n) == /\ gameState = Play
             /\ KeepPlays(n)
             /\ UNCHANGED <<gameVars, dipVars>>

(* L_RESTART_GAME, at the end of a game. *)
RestartGame(n) == /\ gameState = Play
                  /\ gameState' = Attract /\ substate' = 0 /\ noCoins' = 1
                  /\ KeepPlays(n)
                  /\ UNCHANGED <<dipVars, twoPlayers>>

Dispatch(n, buttons) ==
  \/ InitAttractMode(n)
  \/ PromptForStart(n)
  \/ AttractShow(n)
  \/ DisplayPushStart(n)
  \/ StartOnePlayer(n, buttons)
  \/ StartTwoPlayers(n, buttons)
  \/ WaitForButton(n, buttons)
  \/ PlayOn(n)
  \/ RestartGame(n)

Interrupt(coin, buttons) == CheckForCoin(coin) /\ Dispatch(PlaysAfter(coin), buttons)

Next == \E coin \in BOOLEAN, buttons \in SUBSET {1, 2} : Interrupt(coin, buttons)

(* The interrupt comes with every video frame. *)
Spec == Init /\ [][Next]_vars /\ WF_vars(Next)

-----------------------------------------------------------------------------
Loaded == gameState # BeginAttract

TypeOK == /\ gameState \in {BeginAttract, Attract, WaitStart, Play}
          /\ substate \in {0, 1}
          /\ noCoins \in {0, 1} /\ twoPlayers \in {0, 1} /\ coinValid \in {0, 1}
          /\ pending \in 0 .. 4 /\ IsBcd(numPlays)
          /\ coinsPerCredit \in 0 .. 5 /\ playsPerCredit \in 0 .. 4
          /\ coins \in Nat /\ credits \in Nat /\ granted \in Nat /\ started \in Nat

(* The byte NUM_PLAYS holds exactly the plays granted and not yet spent:   *)
(* neither the two-digit limit nor the decimal subtraction of a start ever *)
(* makes it wrap (a wrap would give 99 free games), and it ends up at most *)
(* one credit above 89.                                                    *)
PlaysConserved == /\ Decimal(numPlays) + started = granted
                  /\ Decimal(numPlays) <= 89 + playsPerCredit

(* No coin is lost or counted twice on the way to a credit. *)
CoinsConserved == /\ coins = coinsPerCredit * credits + pending
                  /\ Loaded => pending < coinsPerCredit

(* The start screen is only up while a play is paid for, so a start button *)
(* always has something to spend.                                          *)
StartIsPaidFor == gameState = WaitStart => numPlays # 0

(* A player who has paid is eventually offered a game, unless one is on. *)
PaidIsOffered ==
  (gameState # Play /\ numPlays # 0) ~> (gameState = WaitStart /\ substate = 1)
=============================================================================
