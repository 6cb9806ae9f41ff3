------------------------------ MODULE GameFlow ------------------------------
(***************************************************************************)
(* The course of a game: L_IMPLEMENT_ATTRACT_MODE, the start buttons and   *)
(* the 24 substates of L_IMPLEMENT_GAME_PLAY, with the data of the two     *)
(* players, and the two routines of the main loop that meddle with them    *)
(* (L_ZERO_SCORES, L_AWARD_BONUS_LIFE).  One action is what a routine does *)
(* when the timer it waits for (rst $18, rst $20) has run down; the frames *)
(* it waits are stuttering steps.  What happens during a stage is reduced  *)
(* to its outcome: Mario dies, or wins, perhaps by the escape ladders.     *)
(***************************************************************************)
EXTENDS Integers

CONSTANTS NumLives,   \* DIP_NUM_LIVES (3 .. 6 in the cabinet)
          ByteSize,   \* values of a byte: 256 in the code
          Cabinets,   \* CABINET_TYPE: 0 cocktail, 1 upright
          Starts,     \* the start buttons used: a subset of {1, 2}
          MaxLevel    \* bound of the model: no level beyond it is begun, by
                      \* the value of TWO_PLAYERS

ASSUME NumLivesAssumption == NumLives \in Nat \ {0}
ASSUME ByteAssumption     == ByteSize \in Nat /\ NumLives + 1 < ByteSize
ASSUME CabinetAssumption  == Cabinets \subseteq {0, 1}
ASSUME StartsAssumption   == Starts \subseteq {1, 2}
ASSUME MaxLevelAssumption == MaxLevel \in [{0, 1} -> 1 .. 99]

VARIABLES gameState,     \* GAME_STATE
          substate,      \* GAME_SUBSTATE
          cabinet,       \* CABINET_TYPE
          orientation,   \* SCREEN_ORIENTATION
          twoPlayers,    \* TWO_PLAYERS
          currentPlayer, \* CURRENT_PLAYER
          secondPlayer,  \* SECOND_PLAYER
          saved,         \* P1_DATA and P2_DATA, as saved[0] and saved[1]
          cp,            \* CP_DATA
          stage,         \* CURRENT_STAGE
          secret,        \* ACTIVATE_SECRET_STAGE at the end of a stage
          unnamed,       \* entries of each player in the high score table
                         \* that still wait for initials
          reached,       \* the players whose score has reached DIP_BONUS_LIFE
          toZero,        \* L_ZERO_SCORES events in the action buffer
          deaths,        \* ghost: lives each player has lost
          lastDead       \* ghost: who died last in this game, or None

screenVars == <<cabinet, orientation>>
playerVars == <<twoPlayers, currentPlayer, secondPlayer>>
stageVars  == <<stage, secret>>
scoreVars  == <<unnamed, reached, toZero>>
ghostVars  == <<deaths, lastDead>>
vars == <<gameState, substate, screenVars, playerVars, saved, cp, stageVars,
          scoreVars, ghostVars>>

P1 == 0
P2 == 1
Players == {P1, P2}
None == 2
Other(p) == 1 - p

(* L_STAGE_ORDER_TABLE: 1 barrels, 2 mixer, 3 elevators, 4 rivets.  A      *)
(* stage order pointer is an index into it (0: not set).                   *)
StageOrder == <<1, 4,  1, 3, 4,  1, 2, 3, 4,  1, 2, 1, 3, 4,  1, 2, 1, 3, 1, 4, 127>>
EndMark == 127
LastLevelStart == 15   \* L_STAGE_ORDER_TABLE_LAST
Pointers == 1 .. 20
Rivets == 4
Secret == 5

InitialPlayerData ==
  [lives |-> NumLives, level |-> 1, ptr |-> 1, intro |-> 1, bonus |-> 0,
   height |-> 0, lag |-> 0]
NoPlayerData ==
  [lives |-> 0, level |-> 0, ptr |-> 0, intro |-> 0, bonus |-> 0,
   height |-> 0, lag |-> 0]

BeginAttract == 0
Attract      == 1
WaitStart    == 2
Play         == 3

Init == /\ gameState = BeginAttract /\ substate = 0
        /\ cabinet \in Cabinets /\ orientation = 1
        /\ twoPlayers = 0 /\ currentPlayer = P1 /\ secondPlayer = P1
        /\ saved = [p \in Players |-> NoPlayerData]
        /\ cp = NoPlayerData
        /\ stage = 0 /\ secret = 0
        /\ unnamed = [p \in Players |-> 0]
        /\ reached = {} /\ toZero = {}
        /\ deaths = [p \in Players |-> 0] /\ lastDead = None

-----------------------------------------------------------------------------
(* Attract mode. *)

AttractStep(s, t) == /\ gameState = Attract /\ substate = s
                     /\ substate' = t
                     /\ UNCHANGED <<gameState, screenVars, playerVars, saved, scoreVars, ghostVars>>

InitAttractMode == /\ gameState = BeginAttract
                   /\ gameState' = Attract /\ substate' = 0
                   /\ orientation' = 1 /\ stage' = 1
                   /\ cp' = [cp EXCEPT !.level = 1, !.lives = 1]
                   /\ UNCHANGED <<cabinet, playerVars, saved, secret, scoreVars, ghostVars>>

InsertCoinsScreen == AttractStep(0, 1) /\ UNCHANGED <<cp, stageVars>>

PrepareDemoMode == /\ AttractStep(1, 2)
                   /\ stage' = 1 /\ secret' = 0
                   /\ cp' = [cp EXCEPT !.level = 1, !.lives = 1]

InitDemoMario == AttractStep(2, 3) /\ UNCHANGED <<cp, stageVars>>

(* The recorded input of the demonstration never wins the stage. *)
DemoDies == AttractStep(3, 4) /\ UNCHANGED <<cp, stageVars>>

(* L_IMPLEMENT_DEATH_ANIM is shared with the game and steps over a         *)
(* substate when the second player is up.                                  *)
DemoDeathAnim == AttractStep(4, 5 + secondPlayer) /\ UNCHANGED <<cp, stageVars>>

CleanUpDemoMode == AttractStep(5, 6) /\ UNCHANGED <<cp, stageVars>>
FlashTitleScreen == AttractStep(6, 7) /\ UNCHANGED <<cp, stageVars>>
FreezeTitleScreen == AttractStep(7, 0) /\ UNCHANGED <<cp, stageVars>>

(* As soon as a play is paid for. *)
PromptForStart == /\ gameState = Attract
                  /\ gameState' = WaitStart /\ substate' = 0
                  /\ UNCHANGED <<screenVars, playerVars, saved, cp, stageVars, scoreVars, ghostVars>>

-----------------------------------------------------------------------------
(* The start buttons: n is the number of players. *)

DisplayPushStart == /\ gameState = WaitStart /\ substate = 0
                    /\ substate' = 1
                    /\ UNCHANGED <<gameState, screenVars, playerVars, saved, cp, stageVars,
                                   scoreVars, ghostVars>>

StartGame(n) ==
  /\ gameState = WaitStart /\ substate = 1
  /\ gameState' = Play /\ substate' = 0
  /\ saved' = [p \in Players |-> IF p < n THEN InitialPlayerData ELSE NoPlayerData]
  /\ secondPlayer' = P1 /\ twoPlayers' = n - 1
  /\ toZero' = toZero \cup 0 .. n - 1
  /\ deaths' = [p \in Players |-> 0] /\ lastDead' = None
  /\ UNCHANGED <<screenVars, currentPlayer, cp, stageVars, unnamed, reached>>

-----------------------------------------------------------------------------
(* The game: from substate s to substate t, with the variables that most   *)
(* routines leave alone.                                                   *)

PlayStep(s, t) == /\ gameState = Play /\ substate = s
                  /\ substate' = t
                  /\ UNCHANGED <<cabinet, reached, toZero>>

Quiet == UNCHANGED <<gameState, orientation, playerVars, saved, unnamed, ghostVars>>

OrientScreen ==
  /\ PlayStep(0, IF secondPlayer = P1 THEN 1 ELSE 3)
  /\ orientation' = IF secondPlayer = P2 /\ cabinet = 0 THEN 0 ELSE 1
  /\ UNCHANGED <<gameState, playerVars, saved, cp, stageVars, unnamed, ghostVars>>

LoadPlayer(p) == /\ cp' = saved[p]
                 /\ stage' = StageOrder[saved[p].ptr]
                 /\ UNCHANGED secret

InitP1 == PlayStep(1, IF twoPlayers = 1 THEN 2 ELSE 5) /\ LoadPlayer(P1) /\ Quiet
P1PromptScreen == PlayStep(2, 5) /\ Quiet /\ UNCHANGED <<cp, stageVars>>
InitP2 == PlayStep(3, 4) /\ LoadPlayer(P2) /\ Quiet
P2PromptScreen == PlayStep(4, 5) /\ Quiet /\ UNCHANGED <<cp, stageVars>>
DisplayTurnData == PlayStep(5, 6) /\ Quiet /\ UNCHANGED <<cp, stageVars>>

PrepareScreenForTurn == /\ PlayStep(6, IF cp.intro # 0 THEN 7 ELSE 8)
                        /\ Quiet /\ UNCHANGED <<cp, stageVars>>
ImplementIntroStage == PlayStep(7, 8) /\ Quiet /\ UNCHANGED <<cp, stageVars>>

(* The height index is limited to 5 and then goes up if the player has     *)
(* completed a stage since the last intermission.                          *)
CapHeight(h) == IF h < 6 THEN h ELSE 5
ClimbedTo(d) == CapHeight(d.height) + (IF d.lag = d.ptr THEN 0 ELSE 1)

DisplayIntermission ==
  /\ PlayStep(8, 10)
  /\ cp' = [cp EXCEPT !.height = ClimbedTo(cp), !.lag = cp.ptr]
  /\ Quiet /\ UNCHANGED stageVars

(* L_INIT_CURRENT_STAGE clears the stage data, the secret stage's flag     *)
(* among them.                                                             *)
DisplayCurrentStage == PlayStep(10, 11) /\ secret' = 0 /\ Quiet /\ UNCHANGED <<cp, stage>>

InitMario == PlayStep(11, 12) /\ Quiet /\ UNCHANGED <<cp, stageVars>>

(* The outcomes of L_RUN_GAME. *)
MarioDies == PlayStep(12, 13) /\ Quiet /\ UNCHANGED <<cp, stageVars>>

(* Barrels and elevators (bit 0 of the stage number set, bit 2 clear) can  *)
(* be left by the escape ladders, which lead to the secret stage.  Rivets  *)
(* share the flag's byte with the count of rivets, then 0.                 *)
StageWon == \E escape \in {0, 1} :
              /\ PlayStep(12, 22)
              /\ escape = 1 => stage \in {1, 3}
              /\ stage = Rivets => cp.level < MaxLevel[twoPlayers]
              /\ secret' = escape
              /\ Quiet /\ UNCHANGED <<cp, stage>>

(* Faulty variant: the end of the table is not looked for. *)
NextPtrUnchecked(ptr) == ptr + 1

NextPtr(ptr) == IF StageOrder[ptr + 1] = EndMark THEN LastLevelStart ELSE ptr + 1

(* L_ADVANCE_TO_NEXT_STAGE, at the end of the win animation of every stage *)
(* but the rivets: to the secret stage, ...                                *)
AdvanceToSecretStage ==
  /\ stage # Rivets /\ secret = 1
  /\ PlayStep(22, 8)
  /\ cp' = [cp EXCEPT !.lag = @ - 1]
  /\ stage' = Secret
  /\ Quiet /\ UNCHANGED secret

(* ... or to the next stage of the level; ... *)
AdvanceToNextStage ==
  /\ stage # Rivets /\ secret = 0
  /\ PlayStep(22, 8)
  /\ LET next == NextPtr(cp.ptr)
     IN  /\ cp' = [cp EXCEPT !.ptr = next, !.lag = IF stage = Secret THEN next ELSE @]
         /\ stage' = StageOrder[next]
  /\ Quiet /\ UNCHANGED secret

(* ... the rivets lead to the next level. *)
AdvanceToNextLevel ==
  /\ stage = Rivets
  /\ PlayStep(22, 8)
  /\ LET next == NextPtr(cp.ptr)
     IN  /\ cp' = [cp EXCEPT !.ptr = next, !.level = @ + 1, !.height = 0]
         /\ stage' = StageOrder[next]
  /\ Quiet /\ UNCHANGED secret

(* L_CLEAN_UP_DEATH_ANIMATION *)
ImplementDeathAnim == /\ PlayStep(13, 14 + secondPlayer)
                      /\ Quiet /\ UNCHANGED <<cp, stageVars>>

-----------------------------------------------------------------------------
(* The end of a turn. *)

(* Faulty variant: the data are not copied back. *)
LoseLifeUnsaved(p) ==
  /\ cp' = [cp EXCEPT !.intro = 0, !.lives = (@ + ByteSize - 1) % ByteSize]
  /\ deaths' = [deaths EXCEPT ![p] = @ + 1]
  /\ lastDead' = p
  /\ UNCHANGED saved

LoseLife(p) ==
  /\ cp' = [cp EXCEPT !.intro = 0, !.lives = (@ + ByteSize - 1) % ByteSize]
  /\ saved' = [saved EXCEPT ![p] = cp']
  /\ deaths' = [deaths EXCEPT ![p] = @ + 1]
  /\ lastDead' = p

(* L_ADD_SCORE_TO_HS_TABLE, as much as is seen of it outside the table. *)
Names == INSTANCE PendingNames WITH NEntries <- 5
AddScoreToHsTable(p) == Names!Add(p)

PostDeathContinue(p, s, t) ==
  /\ PlayStep(s, t)
  /\ LoseLife(p) /\ cp'.lives # 0
  /\ UNCHANGED <<gameState, orientation, playerVars, stageVars, unnamed>>

PostDeathGameOver(p, s, t) ==
  /\ PlayStep(s, t)
  /\ LoseLife(p) /\ cp'.lives = 0
  /\ AddScoreToHsTable(p)
  /\ UNCHANGED <<gameState, orientation, playerVars, stageVars>>

(* Faulty variant: the player who died goes on. *)
AfterP1DeathStays == 8

AfterP1Death == IF twoPlayers = 1 THEN 23 ELSE 8
AfterP2Death == IF saved[P1].lives # 0 THEN 23 ELSE 8

PostDeathProcessingP1 == \/ PostDeathContinue(P1, 14, AfterP1Death)
                         \/ PostDeathGameOver(P1, 14, 16)

PostDeathProcessingP2 == \/ PostDeathContinue(P2, 15, AfterP2Death)
                         \/ PostDeathGameOver(P2, 15, 17)

(* Faulty variant: the other player goes on, whatever lives he has. *)
AdvAfterUnchecked(p) == IF twoPlayers = 1 THEN 23 ELSE 20

(* Faulty variant: the lives of the player who is out are looked at. *)
AdvAfterOwnLives(p) == IF saved[p].lives # 0 THEN 23 ELSE 20

AdvAfter(p) == IF saved[Other(p)].lives # 0 THEN 23 ELSE 20
AdvFromP1GameOver == PlayStep(16, AdvAfter(P1)) /\ Quiet /\ UNCHANGED <<cp, stageVars>>
AdvFromP2GameOver == PlayStep(17, AdvAfter(P2)) /\ Quiet /\ UNCHANGED <<cp, stageVars>>

PrepForNextPlayer == PlayStep(23, 18 + secondPlayer) /\ Quiet /\ UNCHANGED <<cp, stageVars>>

Activate(p) == currentPlayer' = p /\ secondPlayer' = p /\ UNCHANGED twoPlayers

PrepareForP2Turn == /\ PlayStep(18, 0)
                    /\ Activate(P2) /\ orientation' = cabinet
                    /\ UNCHANGED <<gameState, saved, cp, stageVars, unnamed, ghostVars>>

PrepareForP1Turn == /\ PlayStep(19, 0)
                    /\ Activate(P1) /\ orientation' = 1
                    /\ UNCHANGED <<gameState, saved, cp, stageVars, unnamed, ghostVars>>

-----------------------------------------------------------------------------
(* The end of the game. *)

(* Faulty variant: the initials are asked of the player who was up last. *)
CheckForHsInitialsOfLast(p) ==
  /\ PlayStep(20, 21)
  /\ unnamed[p] > 0 /\ (p = P2 => unnamed[P1] = 0)
  /\ orientation' = IF p = P1 \/ cabinet = 1 THEN 1 ELSE 0
  /\ UNCHANGED <<gameState, playerVars, saved, cp, stageVars, unnamed, ghostVars>>

CheckForHsInitials(p) ==
  /\ PlayStep(20, 21)
  /\ unnamed[p] > 0 /\ (p = P2 => unnamed[P1] = 0)
  /\ Activate(p)
  /\ orientation' = IF p = P1 \/ cabinet = 1 THEN 1 ELSE 0
  /\ UNCHANGED <<gameState, saved, cp, stageVars, unnamed, ghostVars>>

(* Faulty variant: the entry goes on waiting for a name. *)
HsInitialEntryForgets ==
  /\ PlayStep(21, 20)
  /\ UNCHANGED <<gameState, orientation, playerVars, saved, cp, stageVars, unnamed, ghostVars>>

(* Back to L_CHECK_FOR_HS_INITIALS when the name of the player who is up   *)
(* has been entered, or the time for it is over.                           *)
HsInitialEntry ==
  /\ PlayStep(21, 20)
  /\ unnamed' = [unnamed EXCEPT ![secondPlayer] = IF @ = 0 THEN 0 ELSE @ - 1]
  /\ UNCHANGED <<gameState, orientation, playerVars, saved, cp, stageVars, ghostVars>>

(* Faulty variant: attract mode is left to the player who was up last. *)
RestartGameAsIs ==
  /\ PlayStep(20, 0)
  /\ \A p \in Players : unnamed[p] = 0
  /\ gameState' = Attract /\ orientation' = 1
  /\ UNCHANGED <<playerVars, saved, cp, stageVars, unnamed, ghostVars>>

(* L_CHECK_FOR_HS_INITIALS finds nobody and jumps to L_RESTART_GAME. *)
RestartGame ==
  /\ PlayStep(20, 0)
  /\ \A p \in Players : unnamed[p] = 0
  /\ gameState' = Attract /\ orientation' = 1
  /\ Activate(P1)
  /\ UNCHANGED <<saved, cp, stageVars, unnamed, ghostVars>>

-----------------------------------------------------------------------------
(* The main loop.  It looks at the bonus life only when the action buffer  *)
(* is empty.  An award is one step: it is over long before the interrupt   *)
(* can come to a copy of CP_DATA, many frames after the last points.       *)

ZeroScores(p) == /\ p \in toZero
                 /\ toZero' = toZero \ {p} /\ reached' = reached \ {p}
                 /\ UNCHANGED <<gameState, substate, screenVars, playerVars, saved, cp, stageVars,
                                unnamed, ghostVars>>

(* L_AWARD_POINTS: points of the stage, of the death animation or of the   *)
(* timer bring the current player's score to the threshold.                *)
ScoreReachesBonus ==
  /\ gameState = Play /\ substate \in {8, 12, 13, 22} /\ toZero = {}
  /\ currentPlayer \notin reached
  /\ reached' = reached \cup {currentPlayer}
  /\ UNCHANGED <<gameState, substate, screenVars, playerVars, saved, cp, stageVars, unnamed,
                 toZero, ghostVars>>

(* Faulty variant: the main loop looks at the score every time round. *)
BufferUnchecked == TRUE

BufferIsEmpty == toZero = {}

AwardBonusLife ==
  /\ BufferIsEmpty
  /\ cp.bonus = 0 /\ currentPlayer \in reached
  /\ cp' = [cp EXCEPT !.bonus = 1, !.lives = (@ + 1) % ByteSize]
  /\ UNCHANGED <<gameState, substate, screenVars, playerVars, saved, stageVars, scoreVars, ghostVars>>

-----------------------------------------------------------------------------
AttractMode == \/ InitAttractMode \/ InsertCoinsScreen \/ PrepareDemoMode \/ InitDemoMario
               \/ DemoDies \/ DemoDeathAnim \/ CleanUpDemoMode \/ FlashTitleScreen
               \/ FreezeTitleScreen

StartMode == PromptForStart \/ DisplayPushStart \/ \E n \in Starts : StartGame(n)

GamePlay == \/ OrientScreen \/ InitP1 \/ P1PromptScreen \/ InitP2 \/ P2PromptScreen
            \/ DisplayTurnData \/ PrepareScreenForTurn \/ ImplementIntroStage
            \/ DisplayIntermission \/ DisplayCurrentStage \/ InitMario
            \/ MarioDies \/ StageWon
            \/ AdvanceToSecretStage \/ AdvanceToNextStage \/ AdvanceToNextLevel
            \/ ImplementDeathAnim \/ PostDeathProcessingP1 \/ PostDeathProcessingP2
            \/ AdvFromP1GameOver \/ AdvFromP2GameOver
            \/ PrepForNextPlayer \/ PrepareForP2Turn \/ PrepareForP1Turn
            \/ (\E p \in Players : CheckForHsInitials(p))
            \/ HsInitialEntry \/ RestartGame

MainLoop == (\E p \in Players : ZeroScores(p)) \/ ScoreReachesBonus \/ AwardBonusLife

Next == AttractMode \/ StartMode \/ GamePlay \/ MainLoop

(* The interrupt drives the game on: every timer runs down, and the bonus  *)
(* timer of a stage ends in a death at the latest.                         *)
Spec == Init /\ [][Next]_vars /\ WF_vars(GamePlay)

-----------------------------------------------------------------------------
PlaySubstates == (0 .. 23) \ {9}

(* The substates in which CP_DATA is the copy in use of a player's data.   *)
CpLoaded == gameState = Play /\ substate \in {2, 22} \cup 4 .. 15
Data(p) == IF CpLoaded /\ currentPlayer = p THEN cp ELSE saved[p]
InGame(p) == gameState = Play /\ p <= twoPlayers

(* No life is lost or won by the copies between CP_DATA and the two        *)
(* players' data, nor by a bonus life awarded while they are being         *)
(* switched (the main loop then sees one player's score and the other's    *)
(* data): each player has the lives of the DIP switches, plus the one      *)
(* bonus life, minus the deaths.                                           *)
LivesConserved ==
  \A p \in Players :
    InGame(p) => Data(p).lives + deaths[p] = NumLives + Data(p).bonus

(* The score left over from the previous game, zeroed through the action   *)
(* buffer, never earns a bonus life in the new one.                        *)
BonusEarned ==
  \A p \in Players : InGame(p) /\ Data(p).bonus = 1 => toZero = {} /\ p \in reached

(* Mario is never brought on without a life.  After a death of player 1    *)
(* L_POST_DEATH_PROCESSING_P1 goes on to player 2 without a look at the    *)
(* lives he has left.  That is right only because player 1 plays first,    *)
(* the turns alternate and there is one bonus life: when player 2 is out,  *)
(* player 1 has at most one life left.  Otherwise player 2 would come back *)
(* with no life, and the next death would leave him 255.                   *)
InPlay == gameState = Play /\ substate \in {11, 12}
GameOverIsFinal == InPlay => cp.lives \in 1 .. NumLives + 1

(* Two players with lives left take turns: whoever plays again right after *)
(* a death of his own is the only one left.                                *)
TurnsAlternate ==
  InPlay /\ InGame(P2) /\ lastDead = currentPlayer => saved[Other(currentPlayer)].lives = 0

(* Attract mode and one-player games run as player 1 (L_IMPLEMENT_DEATH_   *)
(* ANIM would otherwise skip a substate of the demonstration), the two     *)
(* bytes that say who is up never disagree, and the picture is upside down *)
(* exactly when the interrupt handler reads player 2's side of a cocktail  *)
(* cabinet.                                                                *)
SelectorsAgree == /\ secondPlayer = currentPlayer
                  /\ ~InGame(P2) => currentPlayer = P1
                  /\ orientation = 0 <=> (cabinet = 0 /\ secondPlayer = P2)

(* The level number and the stage agree with the stage order pointer; from *)
(* level 5 on the pointer goes round in the last order.                    *)
LevelStart == <<1, 3, 6, 10, LastLevelStart>>
LevelOf(ptr) ==
  CHOOSE n \in 1 .. 5 : LevelStart[n] <= ptr /\ (n = 5 \/ ptr < LevelStart[n + 1])
LevelMatchesOrder ==
  CpLoaded => /\ cp.ptr \in Pointers
              /\ LevelOf(cp.ptr) = (IF cp.level < 5 THEN cp.level ELSE 5)
              /\ stage \in {StageOrder[cp.ptr], Secret}

(* The heights stacked up on the intermission screen (L_HEIGHT_STRING_     *)
(* TABLE) end with the height of the next stage: its place in the level,   *)
(* and one more for the secret stage behind it.                            *)
HeightOfStage == cp.ptr - LevelStart[LevelOf(cp.ptr)] + 1 + (IF stage = Secret THEN 1 ELSE 0)
HeightIsStageNumber == InPlay => cp.height = HeightOfStage

(* The player whose initials are asked for has an entry that waits for     *)
(* them; the search for it does not look whether it finds one.             *)
RegistersOwnEntry == gameState = Play /\ substate = 21 => unnamed[secondPlayer] > 0

(* A game comes to its end, and so do the initials.                        *)
GameEnds == (gameState = Play) ~> (gameState = Attract)

(* A player who waits with lives left plays again.                         *)
WaitingPlayerPlays ==
  \A p \in Players :
    (InGame(P2) /\ currentPlayer # p /\ saved[p].lives # 0) ~> (InPlay /\ currentPlayer = p)

-----------------------------------------------------------------------------
(* The inductive invariant behind LivesConserved, GameOverIsFinal and      *)
(* TurnsAlternate.                                                         *)

PlayerRecord == [lives : 0 .. ByteSize - 1, level : Int, ptr : Int, intro : Int,
                 bonus : {0, 1}, height : Int, lag : Int]

Shapes == /\ cabinet \in {0, 1}
          /\ gameState \in {BeginAttract, Attract, WaitStart, Play}
          /\ gameState = Play => substate \in PlaySubstates
          /\ twoPlayers \in {0, 1} /\ currentPlayer \in Players
          /\ saved \in [Players -> PlayerRecord] /\ cp \in PlayerRecord
          /\ deaths \in [Players -> Nat]
          /\ unnamed \in [Players -> Nat]

(* Each routine of one player runs while that player is up, and another    *)
(* player is only called on when there is one.                             *)
PlayerOfRoutine ==
  gameState = Play =>
    /\ substate \in {1, 2, 14, 16, 18} => currentPlayer = P1
    /\ substate \in {3, 4, 15, 17, 19} => currentPlayer = P2
    /\ substate \in {18, 19, 23} => twoPlayers = 1

(* L_CHECK_FOR_HS_INITIALS never finds a player who was not in the game.   *)
EntriesOfPlayers == \A p \in Players : unnamed[p] > 0 => InGame(p)

(* The start of a one-player game clears player 2's lives.                 *)
AbsentHasNoLives == gameState = Play /\ twoPlayers = 0 => saved[P2].lives = 0

(* From the start of a turn to the routine that takes the life there is    *)
(* one; the next player is called on only if he has one.                   *)
SomeoneLives ==
  gameState = Play =>
    /\ substate \in {22} \cup 0 .. 15 => Data(currentPlayer).lives > 0
    /\ substate \in {18, 19, 23} => saved[Other(currentPlayer)].lives > 0
    /\ substate = 16 => saved[P1].lives = 0
    /\ substate = 17 => saved[P2].lives = 0

(* Player 1 is never more than one death ahead while he lives.             *)
Rounds ==
  gameState = Play /\ twoPlayers = 1 =>
    IF currentPlayer = P1
      THEN /\ substate \in {22} \cup 0 .. 15 => deaths[P1] = deaths[P2]
           /\ substate \in {18, 23} => deaths[P1] = deaths[P2] + 1 \/ saved[P1].lives = 0
      ELSE /\ substate \in {22} \cup 0 .. 15 => \/ deaths[P1] = deaths[P2] + 1
                                               \/ saved[P1].lives = 0
           /\ substate \in {17, 19, 23} => deaths[P1] = deaths[P2] \/ saved[P1].lives = 0

LastToDie ==
  gameState = Play /\ twoPlayers = 1 =>
    /\ substate \in {16, 17, 18, 19, 23} => lastDead = currentPlayer
    /\ substate \in {22} \cup 0 .. 15 /\ lastDead = currentPlayer =>
         saved[Other(currentPlayer)].lives = 0

TurnInv == /\ Shapes /\ SelectorsAgree /\ PlayerOfRoutine /\ EntriesOfPlayers
           /\ AbsentHasNoLives /\ LivesConserved /\ SomeoneLives /\ Rounds /\ LastToDie
=============================================================================
