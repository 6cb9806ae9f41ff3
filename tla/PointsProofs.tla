---------------------------- MODULE PointsProofs ----------------------------
(***************************************************************************)
(* Theorems about the scores and about the bonus timer, for every table    *)
(* entry awarded, every timer and every level.                             *)
(***************************************************************************)
EXTENDS Scores, StageTimer, BcdProofs

(***************************************************************************)
(* Scores.  The blank score of the second player is no decimal number; it  *)
(* does no harm as long as nobody plays with it.                           *)
(***************************************************************************)
DecimalScore(m, id) == \A k \in 0 .. 2 : IsBcd(m[At(id) + k])

ScoresType == /\ mem \in [Places -> Bytes]
              /\ currentPlayer \in {P1, P2} /\ twoPlayers \in {0, 1} /\ noCoins \in {0, 1}

PlayersAre == /\ currentPlayer <= twoPlayers
              /\ noCoins = 1 => currentPlayer = P1 /\ toZero = {}

ZeroedOrDecimal ==
  noCoins = 0 => \A id \in 0 .. twoPlayers : id \in toZero \/ DecimalScore(mem, id)

ScoresInv == ScoresType /\ PlayersAre /\ ZeroedOrDecimal

(* All that lies in the table where L_AWARD_POINTS reads it is decimal.    *)
LEMMA TableIsDecimal == \A n \in 0 .. 22 : IsBcd(Table(n))
<1> SUFFICES ASSUME NEW n \in 0 .. 22 PROVE IsBcd(Table(n))
  OBVIOUS
<1>1. CASE n <= 9
  BY <1>1 DEF Table, IsBcd, Hi, Lo, Bytes
<1>2. CASE n \in 10 .. 19
  <2>1. Table(n) = 16 * (n - 10) + 0 /\ n - 10 \in 0 .. 9
    BY <1>2 DEF Table
  <2> QED BY <2>1, FromDigits
<1>3. CASE n \in {20, 21, 22}
  <2>1. Table(n) \in {148, 119, 1}
    BY <1>3 DEF Table
  <2> QED BY <2>1 DEF IsBcd, Hi, Lo, Bytes
<1> QED BY <1>1, <1>2, <1>3

LEMMA DecimalRange ==
  ASSUME NEW x, IsBcd(x)
  PROVE  x \in Bytes /\ Decimal(x) \in 0 .. 99
  BY Digits DEF IsBcd, Decimal

(* Whatever the bytes, the result is a byte. *)
LEMMA AddDaaByte ==
  ASSUME NEW x \in Bytes, NEW y \in Bytes, NEW c \in {0, 1}
  PROVE  AddDaa(x, y, c).byte \in Bytes
  BY DEF AddDaa, Bytes

(* What the four additions do to the bytes of the scores. *)
LEMMA AddPointsBytes ==
  ASSUME NEW m \in [Places -> Bytes], NEW p \in {P1, P2}, NEW n \in 0 .. 19, DecimalScore(m, p)
  PROVE  /\ AddPoints(m, p, n) \in [Places -> Bytes]
         /\ AddPoints(m, p, n)[At(p)] = FirstSum(m, p, n).byte
         /\ AddPoints(m, p, n)[At(p) + 1] = SecondSum(m, p, n).byte
         /\ AddPoints(m, p, n)[At(p) + 2] = ThirdSum(m, p, n).byte
         /\ AddPoints(m, p, n)[At(p) + 4] = AddDaa(m[At(p) + 4], Table(n + 3), 0).byte
         /\ \A i \in Places \ {At(p), At(p) + 1, At(p) + 2, At(p) + 4} :
               AddPoints(m, p, n)[i] = m[i]
         /\ FirstSum(m, p, n).carry \in {0, 1} /\ SecondSum(m, p, n).carry \in {0, 1}
<1>1. /\ At(p) \in {0, 3}
      /\ IsBcd(m[At(p)]) /\ IsBcd(m[At(p) + 1]) /\ IsBcd(m[At(p) + 2])
  <2>1. At(p) \in {0, 3} /\ At(p) + 0 = At(p)
    BY DEF At, P1, P2
  <2> QED BY <2>1 DEF DecimalScore
<1>2. IsBcd(Table(n)) /\ IsBcd(Table(n + 1)) /\ IsBcd(Table(n + 2)) /\ IsBcd(Table(n + 3))
  BY TableIsDecimal
<1>3. IsBcd(FirstSum(m, p, n).byte) /\ FirstSum(m, p, n).carry \in {0, 1}
  BY <1>1, <1>2, AddDaaIsDecimal DEF FirstSum
<1>4. IsBcd(SecondSum(m, p, n).byte) /\ SecondSum(m, p, n).carry \in {0, 1}
  BY <1>1, <1>2, <1>3, AddDaaIsDecimal DEF SecondSum
<1>5. IsBcd(ThirdSum(m, p, n).byte)
  BY <1>1, <1>2, <1>4, AddDaaIsDecimal DEF ThirdSum
<1>6. AddDaa(m[At(p) + 4], Table(n + 3), 0).byte \in Bytes
  <2>1. m[At(p) + 4] \in Bytes
    BY <1>1 DEF Places
  <2> QED BY <1>2, <2>1, AddDaaByte, DecimalRange
<1>7. /\ FirstSum(m, p, n).byte \in Bytes /\ SecondSum(m, p, n).byte \in Bytes
      /\ ThirdSum(m, p, n).byte \in Bytes
  BY <1>3, <1>4, <1>5, DecimalRange
<1>8. {At(p), At(p) + 1, At(p) + 2, At(p) + 4} \subseteq Places
  BY <1>1 DEF Places
<1> QED BY <1>1, <1>3, <1>4, <1>6, <1>7, <1>8 DEF AddPoints

(* The score grows by the number in the table. *)
LEMMA AddPointsScore ==
  ASSUME NEW m \in [Places -> Bytes], NEW p \in {P1, P2}, NEW n \in 0 .. 19, DecimalScore(m, p)
  PROVE  /\ DecimalScore(AddPoints(m, p, n), p)
         /\ Value(AddPoints(m, p, n), p) = (Value(m, p) + TableValue(n)) % 1000000
<1> DEFINE a1 == m[At(p)]  a2 == m[At(p) + 1]  a3 == m[At(p) + 2]
           r1 == FirstSum(m, p, n)  r2 == SecondSum(m, p, n)  r3 == ThirdSum(m, p, n)
<1>1. /\ At(p) + 0 = At(p) /\ At(p) \in {0, 3}
      /\ IsBcd(a1) /\ IsBcd(a2) /\ IsBcd(a3)
  <2>1. At(p) \in {0, 3} /\ At(p) + 0 = At(p)
    BY DEF At, P1, P2
  <2> QED BY <2>1 DEF DecimalScore
<1>2. IsBcd(Table(n)) /\ IsBcd(Table(n + 1)) /\ IsBcd(Table(n + 2))
  BY TableIsDecimal
<1>3. /\ IsBcd(r1.byte) /\ r1.carry \in {0, 1}
      /\ Decimal(r1.byte) + 100 * r1.carry = Decimal(a1) + Decimal(Table(n)) + 0
  BY <1>1, <1>2, AddDaaIsDecimal DEF FirstSum
<1>4. /\ IsBcd(r2.byte) /\ r2.carry \in {0, 1}
      /\ Decimal(r2.byte) + 100 * r2.carry = Decimal(a2) + Decimal(Table(n + 1)) + r1.carry
  BY <1>1, <1>2, <1>3, AddDaaIsDecimal DEF SecondSum
<1>5. /\ IsBcd(r3.byte) /\ r3.carry \in {0, 1}
      /\ Decimal(r3.byte) + 100 * r3.carry = Decimal(a3) + Decimal(Table(n + 2)) + r2.carry
  BY <1>1, <1>2, <1>4, AddDaaIsDecimal DEF ThirdSum
<1>6. /\ AddPoints(m, p, n)[At(p)] = r1.byte /\ AddPoints(m, p, n)[At(p) + 1] = r2.byte
      /\ AddPoints(m, p, n)[At(p) + 2] = r3.byte
  BY AddPointsBytes
<1>7. DecimalScore(AddPoints(m, p, n), p)
  BY <1>1, <1>3, <1>4, <1>5, <1>6 DEF DecimalScore
<1>8. Value(AddPoints(m, p, n), p)
        = Decimal(r1.byte) + 100 * Decimal(r2.byte) + 10000 * Decimal(r3.byte)
  BY <1>6, SMT DEF Value
<1>9. /\ Decimal(r1.byte) \in 0 .. 99 /\ Decimal(r2.byte) \in 0 .. 99
      /\ Decimal(r3.byte) \in 0 .. 99 /\ Decimal(a1) \in 0 .. 99 /\ Decimal(a2) \in 0 .. 99
      /\ Decimal(a3) \in 0 .. 99 /\ Decimal(Table(n)) \in 0 .. 99
      /\ Decimal(Table(n + 1)) \in 0 .. 99 /\ Decimal(Table(n + 2)) \in 0 .. 99
  BY <1>1, <1>2, <1>3, <1>4, <1>5, DecimalRange
<1>10. Value(m, p) = Decimal(a1) + 100 * Decimal(a2) + 10000 * Decimal(a3)
  BY SMT DEF Value
<1> HIDE DEF a1, a2, a3, r1, r2, r3
(* Three steps with a carry are one step with six digits. *)
<1>11. Decimal(r1.byte) + 100 * Decimal(r2.byte) + 10000 * Decimal(r3.byte)
         = (Value(m, p) + TableValue(n)) % 1000000
  <2>1. PICK a, b, c \in 0 .. 99 : a = Decimal(a1) /\ b = Decimal(a2) /\ c = Decimal(a3)
    BY <1>9
  <2>2. PICK d, e, f \in 0 .. 99 :
          d = Decimal(Table(n)) /\ e = Decimal(Table(n + 1)) /\ f = Decimal(Table(n + 2))
    BY <1>9
  <2>3. PICK g, h, i \in 0 .. 99 :
          g = Decimal(r1.byte) /\ h = Decimal(r2.byte) /\ i = Decimal(r3.byte)
    BY <1>9
  <2>4. PICK j, k, l \in {0, 1} : j = r1.carry /\ k = r2.carry /\ l = r3.carry
    BY <1>3, <1>4, <1>5
  <2>5. g + 100 * j = a + d + 0 /\ h + 100 * k = b + e + j /\ i + 100 * l = c + f + k
    BY <1>3, <1>4, <1>5, <2>1, <2>2, <2>3, <2>4
  <2>6. g + 100 * h + 10000 * i
          = ((a + 100 * b + 10000 * c) + (d + 100 * e + 10000 * f)) % 1000000
    BY <2>5, SMT
  <2> QED BY <1>10, <2>1, <2>2, <2>3, <2>6, SMT DEF TableValue
<1> QED BY <1>7, <1>8, <1>11, SMT

(* The high score is all that the comparison can change. *)
LEMMA UpdateHighScoreBytes ==
  ASSUME NEW m \in [Places -> Bytes], NEW p \in {P1, P2}
  PROVE  /\ UpdateHighScore(m, p) \in [Places -> Bytes]
         /\ \A i \in 0 .. 5 : UpdateHighScore(m, p)[i] = m[i]
<1> DEFINE differ == {k \in 0 .. 2 : Compared(m, p)[k] # m[At(High) + k]}
           top    == CHOOSE k \in differ : \A j \in differ : j <= k
           copied == IF differ # {} /\ Compared(m, p)[top] > m[At(High) + top]
                       THEN 0 .. top ELSE {}
<1>1. copied \subseteq 0 .. 2
  <2>1. CASE differ = {}
    BY <2>1
  <2>2. CASE differ # {}
    <3>1. \E k \in differ : \A j \in differ : j <= k
      <4> HIDE DEF differ
      <4>1. differ \subseteq {0, 1, 2} /\ differ # {}
        BY <2>2 DEF differ
      <4>2. CASE 2 \in differ
        BY <4>1, <4>2
      <4>3. CASE 2 \notin differ /\ 1 \in differ
        BY <4>1, <4>3
      <4>4. CASE 2 \notin differ /\ 1 \notin differ
        <5>1. differ = {0}
          BY <4>1, <4>4
        <5> QED BY <5>1
      <4> QED BY <4>2, <4>3, <4>4
    <3>2. top \in differ
      <4> HIDE DEF differ
      <4> QED BY <3>1
    <3>3. top \in 0 .. 2
      BY <3>2
    <3> HIDE DEF top
    <3> QED BY <3>3
  <2> QED BY <2>1, <2>2
<1>2. UpdateHighScore(m, p) =
        [i \in Places |-> IF i - At(High) \in copied THEN m[At(p) + i - At(High)] ELSE m[i]]
  BY DEF UpdateHighScore
<1> HIDE DEF copied
<1>3. \A i \in Places : i - At(High) \in copied => i \in 6 .. 8 /\ At(p) + i - At(High) \in Places
  BY <1>1 DEF At, High, Places, P1, P2
<1> QED BY <1>2, <1>3 DEF Places

(* An award, with the copy to the high score. *)
LEMMA AwardedScores ==
  ASSUME NEW m \in [Places -> Bytes], NEW p \in {P1, P2}, NEW n \in 0 .. 19, DecimalScore(m, p)
  PROVE  /\ Awarded(m, p, n) \in [Places -> Bytes]
         /\ DecimalScore(Awarded(m, p, n), p)
         /\ \A i \in 0 .. 5 : Awarded(m, p, n)[i] = AddPoints(m, p, n)[i]
         /\ \A id \in {P1, P2} : DecimalScore(m, id) => DecimalScore(Awarded(m, p, n), id)
<1> DEFINE added == AddPoints(m, p, n)
<1>1. added \in [Places -> Bytes]
  BY AddPointsBytes
<1>2. /\ Awarded(m, p, n) \in [Places -> Bytes]
      /\ \A i \in 0 .. 5 : Awarded(m, p, n)[i] = added[i]
  BY <1>1, UpdateHighScoreBytes DEF Awarded
<1>3. \A id \in {P1, P2}, k \in 0 .. 2 : At(id) + k \in 0 .. 5
  BY DEF At, P1, P2
<1>4. \A id \in {P1, P2} : DecimalScore(added, id) => DecimalScore(Awarded(m, p, n), id)
  BY <1>2, <1>3 DEF DecimalScore
<1>5. ASSUME NEW id \in {P1, P2}, id # p, DecimalScore(m, id) PROVE DecimalScore(added, id)
  <2>1. CASE p = P1
    <3>1. /\ At(p) = 0 /\ At(id) = 3
          /\ IsBcd(m[3]) /\ IsBcd(m[4]) /\ IsBcd(m[5])
      <4>1. At(p) = 0 /\ At(id) = 3 /\ 3 + 0 = 3 /\ 3 + 1 = 4 /\ 3 + 2 = 5
        BY <1>5, <2>1 DEF At, P1, P2
      <4> QED BY <1>5, <4>1 DEF DecimalScore
    <3>2. added[4] = AddDaa(m[4], Table(n + 3), 0).byte /\ added[3] = m[3] /\ added[5] = m[5]
      BY <3>1, AddPointsBytes DEF Places
    <3>3. IsBcd(added[4])
      BY <3>1, <3>2, TableIsDecimal, AddDaaIsDecimal
    <3>4. \A k \in 0 .. 2 : 3 + k \in {3, 4, 5}
      OBVIOUS
    <3> QED BY <3>1, <3>2, <3>3, <3>4 DEF DecimalScore
  <2>2. CASE p = P2
    <3>1. At(p) = 3 /\ At(id) = 0
      BY <1>5, <2>2 DEF At, P1, P2
    <3>2. \A k \in 0 .. 2 : added[At(id) + k] = m[At(id) + k]
      BY <3>1, AddPointsBytes DEF Places
    <3> QED BY <1>5, <3>2 DEF DecimalScore
  <2> QED BY <2>1, <2>2
<1>6. DecimalScore(added, p)
  BY AddPointsScore, SMT
<1> QED BY <1>2, <1>4, <1>5, <1>6

LEMMA AwardedValue ==
  ASSUME NEW m \in [Places -> Bytes], NEW p \in {P1, P2}, NEW n \in 0 .. 19, DecimalScore(m, p)
  PROVE  Value(Awarded(m, p, n), p) = (Value(m, p) + TableValue(n)) % 1000000
<1>1. \A i \in 0 .. 5 : Awarded(m, p, n)[i] = AddPoints(m, p, n)[i]
  BY AwardedScores
<1>2. At(p) \in 0 .. 5 /\ At(p) + 1 \in 0 .. 5 /\ At(p) + 2 \in 0 .. 5
  BY DEF At, P1, P2
<1>3. Value(Awarded(m, p, n), p) = Value(AddPoints(m, p, n), p)
  BY <1>1, <1>2, SMT DEF Value
<1> QED BY <1>3, AddPointsScore, SMT

(* An award to the player who plays. *)
LEMMA AwardStep ==
  ASSUME ScoresInv, noCoins = 0, toZero = {}, NEW n \in 0 .. 19,
         NEW m \in [Places -> Bytes], \A id \in 0 .. twoPlayers : DecimalScore(m, id)
  PROVE  /\ Awarded(m, currentPlayer, n) \in [Places -> Bytes]
         /\ \A id \in 0 .. twoPlayers : DecimalScore(Awarded(m, currentPlayer, n), id)
<1>1. /\ currentPlayer \in {P1, P2} /\ currentPlayer \in 0 .. twoPlayers
      /\ 0 .. twoPlayers \subseteq {P1, P2}
  BY DEF ScoresInv, ScoresType, PlayersAre, P1, P2
<1> QED BY <1>1, AwardedScores

LEMMA ScoresStep == ScoresInv /\ [ScoresNext]_scoresVars => ScoresInv'
<1> SUFFICES ASSUME ScoresInv, [ScoresNext]_scoresVars PROVE ScoresInv'
  OBVIOUS
<1> DEFINE AllDecimal(m) == \A id \in 0 .. twoPlayers : DecimalScore(m, id)
<1>1. noCoins = 0 /\ toZero = {} => mem \in [Places -> Bytes] /\ AllDecimal(mem)
  BY DEF ScoresInv, ScoresType, ZeroedOrDecimal
<1>2. ASSUME noCoins = 0, toZero = {}, mem' \in [Places -> Bytes], AllDecimal(mem'),
             UNCHANGED <<currentPlayer, twoPlayers, noCoins, toZero>>
      PROVE  ScoresInv'
  BY <1>2 DEF ScoresInv, ScoresType, PlayersAre, ZeroedOrDecimal
<1>3. ASSUME NEW n \in Awards, AwardPoints(n) PROVE ScoresInv'
  <2>1. n \in 0 .. 19 /\ noCoins = 0 /\ toZero = {} /\ mem' = Awarded(mem, currentPlayer, n)
    BY <1>3, AwardsAssumption DEF AwardPoints
  <2> QED BY <1>1, <1>2, <1>3, <2>1, AwardStep DEF AwardPoints
<1>4. ASSUME NEW t \in Timers, PointsForTimer(t) PROVE ScoresInv'
  <2> DEFINE once == Awarded(mem, currentPlayer, Lo(t))
  <2>1. Lo(t) \in 0 .. 19 /\ 10 + Hi(t) \in 0 .. 19
    BY TimersAssumption, Digits
  <2>2. noCoins = 0 /\ toZero = {} /\ mem' = Awarded(once, currentPlayer, 10 + Hi(t))
    BY <1>4 DEF PointsForTimer
  <2>3. once \in [Places -> Bytes] /\ AllDecimal(once)
    BY <1>1, <2>1, <2>2, AwardStep
  <2> HIDE DEF once
  <2> QED BY <1>2, <1>4, <2>1, <2>2, <2>3, AwardStep DEF PointsForTimer
<1>5. ASSUME NEW id \in {P1, P2}, ZeroScores(id) PROVE ScoresInv'
  <2>1. mem' \in [Places -> Bytes]
    BY <1>5 DEF ZeroScores, ScoresInv, ScoresType, Bytes
  <2>2. DecimalScore(mem', id)
    <3>1. \A k \in 0 .. 2 : mem'[At(id) + k] = 0
      BY <1>5 DEF ZeroScores, At, Places, P1, P2
    <3> QED BY <3>1 DEF DecimalScore, IsBcd, Hi, Lo, Bytes
  <2>3. \A j \in {P1, P2} \ {id} : DecimalScore(mem, j) => DecimalScore(mem', j)
    <3>1. \A j \in {P1, P2} \ {id}, k \in 0 .. 2 : mem'[At(j) + k] = mem[At(j) + k]
      BY <1>5 DEF ZeroScores, At, Places, P1, P2
    <3> QED BY <3>1 DEF DecimalScore
  <2>4. noCoins = 1 => toZero = {}
    BY DEF ScoresInv, PlayersAre
  <2>5. ScoresType' /\ PlayersAre'
    BY <1>5, <2>1, <2>4 DEF ZeroScores, ScoresInv, ScoresType, PlayersAre
  <2>6. ZeroedOrDecimal'
    <3> SUFFICES ASSUME noCoins = 0, NEW j \in 0 .. twoPlayers
                 PROVE  j \in toZero' \/ DecimalScore(mem', j)
      BY <1>5 DEF ZeroScores, ZeroedOrDecimal
    <3>1. j \in {P1, P2}
      BY DEF ScoresInv, ScoresType, P1, P2
    <3>2. j \in toZero \/ DecimalScore(mem, j)
      BY DEF ScoresInv, ZeroedOrDecimal
    <3> QED BY <1>5, <2>2, <2>3, <3>1, <3>2 DEF ZeroScores
  <2> QED BY <2>5, <2>6 DEF ScoresInv
<1>6. ASSUME NEW n \in {1, 2}, StartGame(n) PROVE ScoresInv'
  BY <1>6 DEF StartGame, ScoresInv, ScoresType, PlayersAre, ZeroedOrDecimal, P1, P2
<1>7. CASE SwitchPlayer
  BY <1>7 DEF SwitchPlayer, ScoresInv, ScoresType, PlayersAre, ZeroedOrDecimal, P1, P2
<1>8. CASE RestartGame
  BY <1>8 DEF RestartGame, ScoresInv, ScoresType, PlayersAre, ZeroedOrDecimal, P1, P2
<1>9. CASE UNCHANGED scoresVars
  BY <1>9 DEF scoresVars, ScoresInv, ScoresType, PlayersAre, ZeroedOrDecimal
<1> QED BY <1>3, <1>4, <1>5, <1>6, <1>7, <1>8, <1>9 DEF ScoresNext

(* The inductive invariant holds in every reachable state. *)
THEOREM ScoresInvHolds == ScoresSpec => []ScoresInv
<1>1. ScoresInit => ScoresInv
  <2> SUFFICES ASSUME ScoresInit PROVE ScoresInv
    OBVIOUS
  <2>1. \A i \in Places : InitialScores[i + 1] \in Bytes
    BY DEF InitialScores, Places, Bytes
  <2> QED
    BY <2>1 DEF ScoresInit, ScoresInv, ScoresType, PlayersAre, ZeroedOrDecimal, P1, P2
<1> QED BY <1>1, ScoresStep, PTL DEF ScoresSpec

(* The scores of those who play are decimal numbers at every award, for    *)
(* every entry of the table L_AWARD_POINTS is called with and every timer  *)
(* L_PROCESS_TIMER takes apart.                                            *)
THEOREM PlayedScoresStayDecimal == ScoresSpec => []PlayedScoresAreDecimal
<1>1. ScoresInv => PlayedScoresAreDecimal
  BY DEF ScoresInv, ZeroedOrDecimal, DecimalScore, PlayedScoresAreDecimal
<1> QED BY <1>1, ScoresInvHolds, PTL

(* Every award adds the number in the table to the player's score, with    *)
(* the carry through all six digits.                                       *)
THEOREM AwardsAddUp == ScoresSpec => AwardIsDecimalSum
<1> DEFINE AddsUp == \A n \in Awards : AwardPoints(n) =>
                       Value(mem', currentPlayer) =
                         (Value(mem, currentPlayer) + TableValue(n)) % 1000000
<1>1. ScoresInv /\ [ScoresNext]_scoresVars => [AddsUp]_scoresVars
  <2> SUFFICES ASSUME ScoresInv, NEW n \in Awards, AwardPoints(n)
               PROVE  Value(mem', currentPlayer) =
                        (Value(mem, currentPlayer) + TableValue(n)) % 1000000
    BY SMT
  <2>1. /\ n \in 0 .. 19 /\ noCoins = 0 /\ toZero = {}
        /\ mem' = Awarded(mem, currentPlayer, n)
    BY AwardsAssumption DEF AwardPoints
  <2>2. /\ currentPlayer \in {P1, P2} /\ currentPlayer \in 0 .. twoPlayers
        /\ mem \in [Places -> Bytes]
    BY DEF ScoresInv, ScoresType, PlayersAre, P1, P2
  <2>3. DecimalScore(mem, currentPlayer)
    BY <2>1, <2>2 DEF ScoresInv, ZeroedOrDecimal
  <2> QED BY <2>1, <2>2, <2>3, AwardedValue, SMT
<1> HIDE DEF AddsUp
<1>2. ScoresSpec => [][AddsUp]_scoresVars
  BY <1>1, ScoresInvHolds, PTL DEF ScoresSpec
<1> QED BY <1>2, PTL DEF AddsUp, AwardIsDecimalSum

-----------------------------------------------------------------------------
(***************************************************************************)
(* The bonus timer.                                                        *)
(***************************************************************************)
TimerType == /\ level \in Levels /\ internal = InitialTimer(level)
             /\ left \in 0 .. 255 /\ outState \in 0 .. 3 /\ ranDown \in {0, 1}
             /\ pending \in Nat

(* As long as the end has not been seen there is time left. *)
TimeIsLeft == outState = 0 => left > 0

ClockInv == TimerType /\ TimeIsLeft

TrackInv == ClockInv /\ OnscreenTracksTimer

(* The four timers L_INIT_CURRENT_STAGE means to make. *)
FullTimers == {50, 60, 70, 80}

(* They are all there is up to level 21, at which the byte is 250; at      *)
(* level 22 it has wrapped to 4.                                           *)
LEMMA TimersUpTo21 == \A n \in 1 .. 21 : InitialTimer(n) \in FullTimers
  BY DEF InitialTimer, LevelTimes10Plus40, FullTimers

(* The first frame of every stage has time left. *)
LEMMA InitialTimerRange == \A n \in 1 .. 99 : InitialTimer(n) \in 1 .. 80
  BY DEF InitialTimer, LevelTimes10Plus40

LEMMA TicksOnce ==
  ASSUME ClockInv, NEW tick \in BOOLEAN, Ticks(tick)
  PROVE  /\ left' \in 0 .. 255 /\ pending' \in Nat
         /\ outState # 0 => ~RunsOut(tick)
         /\ outState = 0 /\ ~RunsOut(tick) => left' > 0 /\ left' + pending' = left + pending
<1>1. left \in 0 .. 255 /\ pending \in Nat
  BY DEF ClockInv, TimerType
<1>2. CASE tick
  <2>1. left' = (left + 255) % 256 /\ pending' = pending + 1
    BY <1>2 DEF Ticks, LeftAfter
  <2>2. outState # 0 => left # 1
    BY <1>1, <1>2, LateAssumption DEF Ticks
  <2>3. RunsOut(tick) <=> left = 1
    BY <1>1, <1>2 DEF RunsOut, LeftAfter
  <2> QED BY <1>1, <2>1, <2>2, <2>3 DEF ClockInv, TimeIsLeft
<1>3. CASE ~tick
  BY <1>1, <1>3 DEF Ticks, LeftAfter, RunsOut, ClockInv, TimeIsLeft
<1> QED BY <1>2, <1>3

(* What a frame does to the state machine of the end. *)
LEMMA FrameOnward ==
  ASSUME ClockInv, NEW tick \in BOOLEAN, Goes(tick) \/ TimedOut(tick) \/ Won(tick)
  PROVE  /\ Ticks(tick) /\ UNCHANGED <<level, internal, onscreen, ranDown>>
         /\ outState' \in 0 .. 3 /\ outState' >= outState
         /\ RunsOut(tick) => outState' # 0
<1>1. Ticks(tick) /\ UNCHANGED <<level, internal, onscreen, ranDown>>
  BY DEF Goes, TimedOut, Won, stageVars, shownVars
<1>2. outState \in 0 .. 3 /\ (outState # 0 => ~RunsOut(tick))
  BY <1>1, TicksOnce DEF ClockInv, TimerType
<1>3. \A s \in 0 .. 3 : TimeOutState(s) \in 0 .. 3 /\ TimeOutState(s) >= s
  BY DEF TimeOutState
<1> DEFINE Onward == /\ outState' \in 0 .. 3 /\ outState' >= outState
                     /\ RunsOut(tick) => outState' # 0
<1>4. ASSUME Goes(tick), barrels = 1 PROVE Onward
  <2>1. CASE RunsOut(tick)
    <3>1. outState' = TimeOutState(1) /\ outState = 0
      BY <1>2, <1>4, <2>1 DEF Goes
    <3> QED BY <1>3, <3>1
  <2>2. CASE ~RunsOut(tick)
    <3>1. outState' = TimeOutState(outState)
      BY <1>4, <2>2 DEF Goes
    <3> QED BY <1>2, <1>3, <2>2, <3>1
  <2> QED BY <2>1, <2>2
<1>5. ASSUME Goes(tick), barrels # 1 PROVE Onward
  <2>1. CASE RunsOut(tick)
    <3>1. outState' = 1 /\ outState = 0
      BY <1>2, <1>5, <2>1 DEF Goes
    <3> QED BY <3>1
  <2>2. CASE ~RunsOut(tick)
    <3>1. outState' = TimeOutState(outState)
      BY <1>5, <2>2 DEF Goes
    <3> QED BY <1>2, <1>3, <2>2, <3>1
  <2> QED BY <2>1, <2>2
<1>6. ASSUME TimedOut(tick) PROVE Onward
  BY <1>2, <1>6 DEF TimedOut
<1>7. ASSUME Won(tick) PROVE Onward
  <2>1. outState' = IF RunsOut(tick) THEN 1 ELSE outState
    BY <1>7 DEF Won
  <2> QED BY <1>2, <2>1
<1> QED BY <1>1, <1>4, <1>5, <1>6, <1>7

LEMMA ClockInit == TimerInit => ClockInv
  BY InitialTimerRange, LevelsAssumption DEF TimerInit, ClockInv, TimerType, TimeIsLeft

(* One step of the timer, for every level. *)
LEMMA ClockStep ==
  ASSUME ClockInv, [TimerNext]_timerVars
  PROVE  ClockInv' /\ outState' >= outState /\ ranDown' >= ranDown
<1>1. ASSUME NEW tick \in BOOLEAN, Goes(tick) \/ TimedOut(tick) \/ Won(tick)
      PROVE  ClockInv' /\ outState' >= outState /\ ranDown' >= ranDown
  BY <1>1, FrameOnward, TicksOnce DEF ClockInv, TimerType, TimeIsLeft
<1>2. CASE ProcessTimer
  BY <1>2 DEF ProcessTimer, ShowTimer, CountDown, StayAtZero, ClockInv, TimerType,
              TimeIsLeft, stageVars, clockVars, shownVars
<1>3. CASE UNCHANGED timerVars
  BY <1>3 DEF timerVars, stageVars, clockVars, shownVars, ClockInv, TimerType, TimeIsLeft
<1> QED BY <1>1, <1>2, <1>3 DEF TimerNext, Frame

(* The inductive invariant holds on every level. *)
THEOREM ClockInvHolds == TimerSpec => []ClockInv
<1>1. ClockInv /\ [TimerNext]_timerVars => ClockInv'
  BY ClockStep
<1> QED BY <1>1, ClockInit, PTL DEF TimerSpec

(* Ticks after the end of the timer do not start it again, on any level    *)
(* and on either side of the state machine at l1a07.                       *)
THEOREM TheEndIsFinal == TimerSpec => TimeOutIsFinal
<1>1. ClockInv /\ [TimerNext]_timerVars => [outState' >= outState /\ ranDown' >= ranDown]_timerVars
  BY ClockStep
<1> QED BY <1>1, ClockInvHolds, PTL DEF TimerSpec, TimeOutIsFinal

-----------------------------------------------------------------------------
(* The loop that subtracts 10 counts the tens of a full timer. *)
LEMMA TensOfFull ==
  ASSUME NEW t \in FullTimers
  PROVE  \E b \in 5 .. 8 : t = 10 * b /\ Tens(t) = b
<1>1. PICK b \in 5 .. 8 : t = 10 * b
  BY DEF FullTimers
<1> DEFINE First(c) == (10 * c) % 256 = t /\ \A a \in 1 .. c - 1 : (10 * a) % 256 # t
<1>2. b \in 1 .. 256 /\ First(b)
  BY <1>1
<1>3. \A c \in 1 .. 256 : First(c) => c = b
  <2> SUFFICES ASSUME NEW c \in 1 .. 256, First(c) PROVE c = b
    OBVIOUS
  <2>1. ~(c < b)
    BY <1>2
  <2>2. ~(b < c)
    BY <1>2
  <2> QED BY <2>1, <2>2
<1>4. Tens(t) = CHOOSE c \in 1 .. 256 : First(c)
  BY DEF Tens
<1> HIDE DEF First
<1> QED BY <1>1, <1>2, <1>3, <1>4

(* A full timer is shown as what it is. *)
LEMMA ShownInDecimal ==
  ASSUME NEW t \in FullTimers
  PROVE  IsBcd(InitialOnscreen(t)) /\ InitialOnscreen(t) # 0 /\ Decimal(InitialOnscreen(t)) = t
<1>1. PICK b \in 5 .. 8 : t = 10 * b /\ Tens(t) = b
  BY TensOfFull
<1>2. InitialOnscreen(t) = 16 * b + 0
  BY <1>1 DEF InitialOnscreen, Lo, Hi
<1> QED BY <1>1, <1>2, FromDigits

LEMMA TrackStep ==
  ASSUME \A n \in Levels : InitialTimer(n) \in FullTimers, TrackInv, [TimerNext]_timerVars
  PROVE  TrackInv'
<1>1. ClockInv /\ ClockInv'
  BY ClockStep DEF TrackInv
<1>2. CASE outState' # 0
  BY <1>1, <1>2 DEF TrackInv, OnscreenTracksTimer
<1>3. CASE outState' = 0
  <2>1. outState = 0 /\ left \in 1 .. 255 /\ left' \in 1 .. 255 /\ pending \in Nat
    BY <1>1, <1>3, ClockStep DEF ClockInv, TimerType, TimeIsLeft
  <2>2. \/ IsBcd(onscreen) /\ onscreen # 0 /\ Decimal(onscreen) = left + pending
        \/ onscreen = 0 /\ ranDown = 0 /\ internal + 1 = left + pending
    BY <2>1 DEF TrackInv, OnscreenTracksTimer
  <2>3. ASSUME UNCHANGED <<onscreen, ranDown, internal>>, left' + pending' = left + pending
        PROVE  TrackInv'
    BY <1>1, <2>2, <2>3 DEF TrackInv, OnscreenTracksTimer
  <2>4. ASSUME NEW tick \in BOOLEAN, Goes(tick) \/ TimedOut(tick) \/ Won(tick)
        PROVE  TrackInv'
    BY <1>1, <1>3, <2>1, <2>3, <2>4, FrameOnward, TicksOnce
  <2>5. CASE ProcessTimer
    <3>1. left' = left /\ pending' = pending - 1 /\ internal' = internal
      BY <2>5 DEF ProcessTimer, clockVars, stageVars
    <3>2. CASE ShowTimer
      <4>1. internal \in FullTimers
        BY <1>1 DEF ClockInv, TimerType
      <4>2. IsBcd(onscreen') /\ onscreen' # 0 /\ Decimal(onscreen') = internal
        BY <3>2, <4>1, ShownInDecimal DEF ShowTimer
      <4>3. internal + 1 = left + pending
        BY <2>2, <3>2 DEF ShowTimer
      <4>4. internal = left + pending - 1
        BY <2>1, <4>1, <4>3 DEF FullTimers
      <4>5. Decimal(onscreen') = left' + pending'
        BY <2>1, <3>1, <4>2, <4>4
      <4> QED BY <1>1, <4>2, <4>5 DEF TrackInv, OnscreenTracksTimer
    <3>3. CASE CountDown
      <4>1. IsBcd(onscreen) /\ onscreen # 0 /\ Decimal(onscreen) = left + pending
        BY <2>2, <3>3 DEF CountDown
      <4>2. IsBcd(onscreen') /\ Decimal(onscreen') = left + pending - 1
        <5>1. onscreen' = SubDaa(onscreen, 1)
          BY <3>3 DEF CountDown
        <5>2. /\ IsBcd(SubDaa(onscreen, 1))
              /\ Decimal(SubDaa(onscreen, 1)) = Decimal(onscreen) - 1
          BY <4>1, SubDaaIsDecrement
        <5> QED BY <2>1, <4>1, <5>1, <5>2
      <4>3. Decimal(onscreen') = left' + pending' /\ Decimal(onscreen') # 0
        <5>1. pending > 0
          BY <2>5 DEF ProcessTimer
        <5> QED BY <2>1, <3>1, <4>2, <5>1
      <4>4. onscreen' # 0
        BY <4>3 DEF Decimal, Hi, Lo
      <4> QED BY <1>1, <4>2, <4>3, <4>4 DEF TrackInv, OnscreenTracksTimer
    <3>4. ~StayAtZero
      BY <2>2 DEF StayAtZero
    <3> QED BY <2>5, <3>2, <3>3, <3>4 DEF ProcessTimer
  <2>6. CASE UNCHANGED timerVars
    BY <2>3, <2>6 DEF timerVars, stageVars, clockVars, shownVars
  <2> QED BY <2>4, <2>5, <2>6 DEF TimerNext, Frame
<1> QED BY <1>2, <1>3

(* The timer on the screen and the timer that kills never drift apart, on  *)
(* any set of levels on which L_INIT_CURRENT_STAGE makes a full timer.     *)
THEOREM ScreenFollowsTimer ==
  (\A n \in Levels : InitialTimer(n) \in FullTimers) => (TimerSpec => []OnscreenTracksTimer)
<1> SUFFICES ASSUME \A n \in Levels : InitialTimer(n) \in FullTimers
             PROVE  TimerSpec => []OnscreenTracksTimer
  OBVIOUS
<1>1. TimerInit => TrackInv
  <2> SUFFICES ASSUME TimerInit PROVE OnscreenTracksTimer
    BY ClockInit DEF TrackInv
  <2>1. internal = left /\ internal \in FullTimers
    BY DEF TimerInit
  <2> QED BY <2>1 DEF TimerInit, OnscreenTracksTimer, FullTimers
<1>2. TrackInv /\ [TimerNext]_timerVars => TrackInv'
  BY TrackStep
<1>3. TrackInv => OnscreenTracksTimer
  BY DEF TrackInv
<1> QED BY <1>1, <1>2, <1>3, PTL DEF TimerSpec
=============================================================================
