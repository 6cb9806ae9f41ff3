------------------------------- MODULE Scores -------------------------------
(***************************************************************************)
(* The nine bytes from PREV_P1_SCORE on: the scores of player 1, player 2  *)
(* and the high score, three bytes of two decimal digits each, lowest      *)
(* first.  The main loop changes them when it takes L_AWARD_POINTS,        *)
(* L_PROCESS_TIMER and L_ZERO_SCORES events from the action buffer.        *)
(***************************************************************************)
EXTENDS Bcd

CONSTANTS Awards,     \* table entries awarded by name (1, 3, 5, 8 in the code)
          Timers,     \* values of ONSCREEN_TIMER at the end of a stage
          MaxAwards   \* bound of the model: awards in all games

ASSUME AwardsAssumption == Awards \subseteq 0 .. 9
ASSUME TimersAssumption == \A t \in Timers : IsBcd(t) /\ t <= 128
ASSUME BoundAssumption  == MaxAwards \in Nat

VARIABLES mem,            \* the nine bytes
          currentPlayer,  \* CURRENT_PLAYER
          twoPlayers,     \* TWO_PLAYERS
          noCoins,        \* NO_COINS_INSERTED: attract mode
          toZero,         \* L_ZERO_SCORES events in the action buffer
          awards          \* awards so far, up to MaxAwards

scoresVars == <<mem, currentPlayer, twoPlayers, noCoins, toZero, awards>>

P1 == 0
P2 == 1
High == 2
Places == 0 .. 8
At(id) == 3 * id     \* the lowest byte of a score

(* L_INITIAL_SCORE_DATA: 003700, blank, 007650. *)
InitialScores == <<0, 55, 0, 170, 170, 170, 80, 118, 0>>

(* L_POINT_AWARD_TABLE and the three bytes behind it, which belong to      *)
(* L_DEFAULT_HIGH_SCORE_DATA.                                              *)
Table(n) == IF n <= 9 THEN n
            ELSE IF n <= 19 THEN 16 * (n - 10)
            ELSE <<148, 119, 1>>[n - 19]

ScoresInit ==
  /\ mem = [i \in Places |-> InitialScores[i + 1]]
  /\ currentPlayer = P1 /\ twoPlayers = 0 /\ noCoins = 1
  /\ toZero = {} /\ awards = 0

-----------------------------------------------------------------------------
(* Faulty variant: add in place of adc. *)
SecondSumWithoutCarry(m, p, n) == AddDaa(m[At(p) + 1], Table(n + 1), 0)

(* L_AWARD_POINTS.  Three bytes of the table from entry n on are added     *)
(* with carry to the three bytes of the score of player p ...              *)

FirstSum(m, p, n)  == AddDaa(m[At(p)], Table(n), 0)
SecondSum(m, p, n) == AddDaa(m[At(p) + 1], Table(n + 1), FirstSum(m, p, n).carry)
ThirdSum(m, p, n)  == AddDaa(m[At(p) + 2], Table(n + 2), SecondSum(m, p, n).carry)

(* ... and a fourth, the pointers having moved on, to the fifth byte.      *)
AddPoints(m, p, n) ==
  [m EXCEPT ![At(p)]     = FirstSum(m, p, n).byte,
            ![At(p) + 1] = SecondSum(m, p, n).byte,
            ![At(p) + 2] = ThirdSum(m, p, n).byte,
            ![At(p) + 4] = AddDaa(m[At(p) + 4], Table(n + 3), 0).byte]

(* The three bytes compared with the high score, from the top, lie one     *)
(* score above p's.                                                        *)
Compared(m, p) == [k \in 0 .. 2 |-> m[At(p) + 3 + k]]

(* At the first difference the comparison ends; if the byte is the greater *)
(* one, as many bytes are copied as were left to compare.                  *)
UpdateHighScore(m, p) ==
  LET differ == {k \in 0 .. 2 : Compared(m, p)[k] # m[At(High) + k]}
      top    == CHOOSE k \in differ : \A j \in differ : j <= k
      copied == IF differ # {} /\ Compared(m, p)[top] > m[At(High) + top] THEN 0 .. top ELSE {}
  IN  [i \in Places |-> IF i - At(High) \in copied THEN m[At(p) + i - At(High)] ELSE m[i]]

Awarded(m, p, n) == UpdateHighScore(AddPoints(m, p, n), p)

(* The player's score, as a number of points. *)
Value(m, id) == Decimal(m[At(id)]) + 100 * Decimal(m[At(id) + 1]) + 10000 * Decimal(m[At(id) + 2])

AwardPoints(n) == /\ toZero = {} /\ awards < MaxAwards
                  /\ noCoins = 0
                  /\ mem' = Awarded(mem, currentPlayer, n)
                  /\ awards' = awards + 1
                  /\ UNCHANGED <<currentPlayer, twoPlayers, noCoins, toZero>>

(* L_PROCESS_TIMER at the end of a stage: the ones of the timer, then its  *)
(* tens, from the second half of the table.                                *)
PointsForTimer(t) ==
  /\ toZero = {} /\ awards < MaxAwards
  /\ noCoins = 0
  /\ mem' = Awarded(Awarded(mem, currentPlayer, Lo(t)), currentPlayer, 10 + Hi(t))
  /\ awards' = awards + 1
  /\ UNCHANGED <<currentPlayer, twoPlayers, noCoins, toZero>>

ZeroScores(id) ==
  /\ id \in toZero
  /\ mem' = [i \in Places |-> IF i \in At(id) .. At(id) + 2 THEN 0 ELSE mem[i]]
  /\ toZero' = toZero \ {id}
  /\ UNCHANGED <<currentPlayer, twoPlayers, noCoins, awards>>

-----------------------------------------------------------------------------
(* What GameFlow does to the variables read here. *)

(* Faulty variant: the second player's event is forgotten. *)
StartGameZeroesFirst(n) == /\ noCoins = 1
                           /\ noCoins' = 0 /\ twoPlayers' = n - 1
                           /\ toZero' = {P1}
                           /\ UNCHANGED <<mem, currentPlayer, awards>>

StartGame(n) == /\ noCoins = 1
                /\ noCoins' = 0 /\ twoPlayers' = n - 1
                /\ toZero' = 0 .. n - 1
                /\ UNCHANGED <<mem, currentPlayer, awards>>

SwitchPlayer == /\ noCoins = 0 /\ twoPlayers = 1 /\ toZero = {}
                /\ currentPlayer' = 1 - currentPlayer
                /\ UNCHANGED <<mem, twoPlayers, noCoins, toZero, awards>>

RestartGame == /\ noCoins = 0 /\ toZero = {}
               /\ noCoins' = 1 /\ currentPlayer' = P1
               /\ UNCHANGED <<mem, twoPlayers, toZero, awards>>

ScoresNext ==
  \/ \E n \in Awards : AwardPoints(n)
  \/ \E t \in Timers : PointsForTimer(t)
  \/ \E id \in {P1, P2} : ZeroScores(id)
  \/ \E n \in {1, 2} : StartGame(n)
  \/ SwitchPlayer
  \/ RestartGame

ScoresSpec == ScoresInit /\ [][ScoresNext]_scoresVars

-----------------------------------------------------------------------------
(* The scores of those who play are decimal numbers, whatever bytes are    *)
(* added to them: the blank score, which is none, is zeroed in time.       *)
PlayedScoresAreDecimal ==
  noCoins = 0 /\ toZero = {} =>
    \A id \in 0 .. twoPlayers, k \in 0 .. 2 : IsBcd(mem[At(id) + k])

(* Three daa additions with the carry handed on add the three bytes of the *)
(* table, as one six-digit decimal number, to the score.                   *)
TableValue(n) == Decimal(Table(n)) + 100 * Decimal(Table(n + 1)) + 10000 * Decimal(Table(n + 2))

AwardIsDecimalSum ==
  [][\A n \in Awards :
       AwardPoints(n) => Value(mem', currentPlayer) =
                           (Value(mem, currentPlayer) + TableValue(n)) % 1000000]_scoresVars

(* L_AWARD_POINTS as its comments have it: n hundred points are added "to  *)
(* the player's score", the other player's is left alone, and the player's *)
(* becomes the high score if it "is higher than the high score".           *)
PointsAsDocumented ==
  [][\A n \in Awards : AwardPoints(n) =>
       LET own  == (Value(mem, currentPlayer) + 100 * n) % 1000000
           high == Value(mem, High) IN
       /\ Value(mem', currentPlayer) = own
       /\ Value(mem', 1 - currentPlayer) = Value(mem, 1 - currentPlayer)
       /\ Value(mem', High) = IF own > high THEN own ELSE high]_scoresVars
=============================================================================
