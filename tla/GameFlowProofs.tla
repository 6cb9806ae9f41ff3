--------------------------- MODULE GameFlowProofs ---------------------------
(* Proofs about GameFlow, for every number of lives, every size of a byte  *)
(* that holds them, and both cabinets.                                     *)
EXTENDS GameFlow, TLAPS

(* A byte that is not 0 counts down, one below its end counts up. *)
LEMMA ByteSteps ==
  /\ \A l \in 1 .. ByteSize - 1 : (l + ByteSize - 1) % ByteSize = l - 1
  /\ \A l \in 0 .. ByteSize - 2 : (l + 1) % ByteSize = l + 1
  /\ \A l \in 0 .. ByteSize - 1 : (l + 1) % ByteSize \in 0 .. ByteSize - 1
  BY ByteAssumption, NumLivesAssumption

(* What the routines write into a player's record keeps its shape, and the *)
(* lives and the bonus flag unless they are what is written.               *)
LEMMA RecordFields ==
  ASSUME NEW d \in PlayerRecord
  PROVE  d.lives \in 0 .. ByteSize - 1 /\ d.bonus \in {0, 1} /\ d.level \in Int
         /\ d.ptr \in Int /\ d.lag \in Int /\ d.height \in Int
  BY DEF PlayerRecord

LEMMA DemoRecord ==
  ASSUME NEW d \in PlayerRecord, NEW n \in Int, NEW l \in 0 .. ByteSize - 1
  PROVE  [d EXCEPT !.level = n, !.lives = l] \in PlayerRecord
<1>1. [d EXCEPT !.level = n] \in PlayerRecord
  BY DEF PlayerRecord
<1> QED
  BY <1>1 DEF PlayerRecord

LEMMA HeightRecord ==
  ASSUME NEW d \in PlayerRecord, NEW h \in Int, NEW g \in Int
  PROVE  LET e == [d EXCEPT !.height = h, !.lag = g]
         IN  e \in PlayerRecord /\ e.lives = d.lives /\ e.bonus = d.bonus
             /\ e.ptr = d.ptr /\ e.level = d.level
<1>1. [d EXCEPT !.height = h] \in PlayerRecord
  BY DEF PlayerRecord
<1> QED
  BY <1>1 DEF PlayerRecord

LEMMA StageRecord ==
  ASSUME NEW d \in PlayerRecord, NEW q \in Int, NEW g \in Int
  PROVE  LET e == [d EXCEPT !.ptr = q, !.lag = g]
         IN  e \in PlayerRecord /\ e.lives = d.lives /\ e.bonus = d.bonus
             /\ e.ptr = q /\ e.level = d.level
<1>1. [d EXCEPT !.ptr = q] \in PlayerRecord
  BY DEF PlayerRecord
<1> QED
  BY <1>1 DEF PlayerRecord

LEMMA LevelRecord ==
  ASSUME NEW d \in PlayerRecord, NEW q \in Int, NEW n \in Int
  PROVE  LET e == [d EXCEPT !.ptr = q, !.level = n, !.height = 0]
         IN  e \in PlayerRecord /\ e.lives = d.lives /\ e.bonus = d.bonus
             /\ e.ptr = q /\ e.level = n
<1>1. [d EXCEPT !.ptr = q] \in PlayerRecord
  BY DEF PlayerRecord
<1>2. /\ [d EXCEPT !.ptr = q, !.level = n] \in PlayerRecord
      /\ [d EXCEPT !.ptr = q, !.level = n].lives = d.lives
      /\ [d EXCEPT !.ptr = q, !.level = n].bonus = d.bonus
      /\ [d EXCEPT !.ptr = q, !.level = n].ptr = q
      /\ [d EXCEPT !.ptr = q, !.level = n].level = n
  BY <1>1 DEF PlayerRecord
<1>3. ASSUME NEW f \in PlayerRecord
      PROVE  LET e == [f EXCEPT !.height = 0]
             IN  e \in PlayerRecord /\ e.lives = f.lives /\ e.bonus = f.bonus
                 /\ e.ptr = f.ptr /\ e.level = f.level
  BY DEF PlayerRecord
<1> QED
  BY <1>2, <1>3

LEMMA DeathRecord ==
  ASSUME NEW d \in PlayerRecord, NEW l \in 0 .. ByteSize - 1
  PROVE  LET e == [d EXCEPT !.intro = 0, !.lives = l]
         IN  e \in PlayerRecord /\ e.lives = l /\ e.bonus = d.bonus
             /\ e.ptr = d.ptr /\ e.level = d.level
<1>1. [d EXCEPT !.intro = 0] \in PlayerRecord
  BY DEF PlayerRecord
<1> QED
  BY <1>1 DEF PlayerRecord

LEMMA BonusRecord ==
  ASSUME NEW d \in PlayerRecord, NEW l \in 0 .. ByteSize - 1
  PROVE  LET e == [d EXCEPT !.bonus = 1, !.lives = l]
         IN  e \in PlayerRecord /\ e.lives = l /\ e.bonus = 1
             /\ e.ptr = d.ptr /\ e.level = d.level
<1>1. [d EXCEPT !.bonus = 1] \in PlayerRecord
  BY DEF PlayerRecord
<1> QED
  BY <1>1 DEF PlayerRecord

LEMMA InitTurn == Init => TurnInv
  BY NumLivesAssumption, ByteAssumption, CabinetAssumption
  DEF Init, TurnInv, Shapes, SelectorsAgree, PlayerOfRoutine, EntriesOfPlayers,
      AbsentHasNoLives, LivesConserved, SomeoneLives, Rounds, LastToDie, PlayerRecord,
      NoPlayerData, Players, P1, P2, InGame, BeginAttract, Play

LEMMA TurnStep == TurnInv /\ [Next]_vars => TurnInv'
<1> SUFFICES ASSUME TurnInv, [Next]_vars PROVE TurnInv'
  OBVIOUS
<1> USE ByteSteps, NumLivesAssumption, ByteAssumption, StartsAssumption
      DEF TurnInv, Shapes, SelectorsAgree, PlayerOfRoutine, EntriesOfPlayers, AbsentHasNoLives,
          LivesConserved, SomeoneLives, Rounds, LastToDie, PlayerRecord, PlaySubstates,
          Data, CpLoaded, InGame, Players, P1, P2, None, Other, BeginAttract, Attract,
          WaitStart, Play
<1>1. ASSUME InitAttractMode PROVE TurnInv'
  <2>1. 1 \in 0 .. ByteSize - 1 /\ 1 \in Int
    OBVIOUS
  <2>2. cp' \in PlayerRecord
    BY <1>1, <2>1, DemoRecord DEF InitAttractMode
  <2> QED
    BY <1>1, <2>2
    DEF InitAttractMode, screenVars, playerVars, stageVars, ghostVars, scoreVars
<1>2. ASSUME InsertCoinsScreen PROVE TurnInv'
  BY <1>2
  DEF InsertCoinsScreen, AttractStep, screenVars, playerVars, stageVars, scoreVars,
      ghostVars
<1>3. ASSUME PrepareDemoMode PROVE TurnInv'
  <2>1. 1 \in 0 .. ByteSize - 1 /\ 1 \in Int
    OBVIOUS
  <2>2. cp' \in PlayerRecord
    BY <1>3, <2>1, DemoRecord DEF PrepareDemoMode
  <2> QED
    BY <1>3, <2>2
    DEF PrepareDemoMode, AttractStep, screenVars, playerVars, stageVars, ghostVars,
        scoreVars
<1>4. ASSUME InitDemoMario PROVE TurnInv'
  BY <1>4
  DEF InitDemoMario, AttractStep, screenVars, playerVars, stageVars, scoreVars,
      ghostVars
<1>5. ASSUME DemoDies PROVE TurnInv'
  BY <1>5
  DEF DemoDies, AttractStep, screenVars, playerVars, stageVars, scoreVars, ghostVars
<1>6. ASSUME DemoDeathAnim PROVE TurnInv'
  BY <1>6
  DEF DemoDeathAnim, AttractStep, screenVars, playerVars, stageVars, scoreVars,
      ghostVars
<1>7. ASSUME CleanUpDemoMode PROVE TurnInv'
  BY <1>7
  DEF CleanUpDemoMode, AttractStep, screenVars, playerVars, stageVars, scoreVars,
      ghostVars
<1>8. ASSUME FlashTitleScreen PROVE TurnInv'
  BY <1>8
  DEF FlashTitleScreen, AttractStep, screenVars, playerVars, stageVars, scoreVars,
      ghostVars
<1>9. ASSUME FreezeTitleScreen PROVE TurnInv'
  BY <1>9
  DEF FreezeTitleScreen, AttractStep, screenVars, playerVars, stageVars, scoreVars,
      ghostVars
<1>10. ASSUME PromptForStart PROVE TurnInv'
  BY <1>10
  DEF PromptForStart, screenVars, playerVars, stageVars, scoreVars, ghostVars
<1>11. ASSUME DisplayPushStart PROVE TurnInv'
  BY <1>11
  DEF DisplayPushStart, screenVars, playerVars, stageVars, scoreVars, ghostVars
<1>12. ASSUME NEW n \in Starts, StartGame(n) PROVE TurnInv'
  BY <1>12 DEF StartGame, InitialPlayerData, NoPlayerData, screenVars, stageVars
<1>13. ASSUME OrientScreen PROVE TurnInv'
  BY <1>13 DEF OrientScreen, PlayStep, screenVars, playerVars, stageVars, ghostVars
<1>14. ASSUME InitP1 PROVE TurnInv'
  BY <1>14
  DEF InitP1, PlayStep, LoadPlayer, Quiet, screenVars, playerVars, stageVars,
      ghostVars
<1>15. ASSUME P1PromptScreen PROVE TurnInv'
  BY <1>15
  DEF P1PromptScreen, PlayStep, Quiet, screenVars, playerVars, stageVars, ghostVars
<1>16. ASSUME InitP2 PROVE TurnInv'
  BY <1>16
  DEF InitP2, PlayStep, LoadPlayer, Quiet, screenVars, playerVars, stageVars,
      ghostVars
<1>17. ASSUME P2PromptScreen PROVE TurnInv'
  BY <1>17
  DEF P2PromptScreen, PlayStep, Quiet, screenVars, playerVars, stageVars, ghostVars
<1>18. ASSUME DisplayTurnData PROVE TurnInv'
  BY <1>18
  DEF DisplayTurnData, PlayStep, Quiet, screenVars, playerVars, stageVars, ghostVars
<1>19. ASSUME PrepareScreenForTurn PROVE TurnInv'
  BY <1>19
  DEF PrepareScreenForTurn, PlayStep, Quiet, screenVars, playerVars, stageVars,
      ghostVars
<1>20. ASSUME ImplementIntroStage PROVE TurnInv'
  BY <1>20
  DEF ImplementIntroStage, PlayStep, Quiet, screenVars, playerVars, stageVars,
      ghostVars
<1>21. ASSUME DisplayIntermission PROVE TurnInv'
  <2>1. ClimbedTo(cp) \in Int /\ cp.ptr \in Int
    BY <1>21, RecordFields DEF ClimbedTo, CapHeight
  <2>2. cp' \in PlayerRecord /\ cp'.lives = cp.lives /\ cp'.bonus = cp.bonus
    BY <1>21, <2>1, HeightRecord DEF DisplayIntermission
  <2> QED
    BY <1>21, <2>2
    DEF DisplayIntermission, PlayStep, Quiet, screenVars, playerVars, stageVars,
        ghostVars
<1>22. ASSUME DisplayCurrentStage PROVE TurnInv'
  BY <1>22
  DEF DisplayCurrentStage, PlayStep, Quiet, screenVars, playerVars, stageVars,
      ghostVars
<1>23. ASSUME InitMario PROVE TurnInv'
  BY <1>23
  DEF InitMario, PlayStep, Quiet, screenVars, playerVars, stageVars, ghostVars
<1>24. ASSUME MarioDies PROVE TurnInv'
  BY <1>24
  DEF MarioDies, PlayStep, Quiet, screenVars, playerVars, stageVars, ghostVars
<1>25. ASSUME StageWon PROVE TurnInv'
  BY <1>25
  DEF StageWon, PlayStep, Quiet, screenVars, playerVars, stageVars, ghostVars
<1>26. ASSUME AdvanceToSecretStage PROVE TurnInv'
  BY <1>26
  DEF AdvanceToSecretStage, PlayStep, Quiet, screenVars, playerVars, stageVars,
      ghostVars
<1>27. ASSUME AdvanceToNextStage PROVE TurnInv'
  <2>1. NextPtr(cp.ptr) \in Int /\ cp.lag \in Int
    BY <1>27, RecordFields DEF NextPtr, LastLevelStart
  <2>2. cp' \in PlayerRecord /\ cp'.lives = cp.lives /\ cp'.bonus = cp.bonus
    BY <1>27, <2>1, StageRecord DEF AdvanceToNextStage
  <2> QED
    BY <1>27, <2>2
    DEF AdvanceToNextStage, PlayStep, Quiet, screenVars, playerVars, stageVars,
        ghostVars
<1>28. ASSUME AdvanceToNextLevel PROVE TurnInv'
  <2>1. NextPtr(cp.ptr) \in Int /\ cp.level + 1 \in Int
    BY <1>28, RecordFields DEF NextPtr, LastLevelStart
  <2>2. cp' \in PlayerRecord /\ cp'.lives = cp.lives /\ cp'.bonus = cp.bonus
    BY <1>28, <2>1, LevelRecord DEF AdvanceToNextLevel
  <2> QED
    BY <1>28, <2>2
    DEF AdvanceToNextLevel, PlayStep, Quiet, screenVars, playerVars, stageVars,
        ghostVars
<1>29. ASSUME ImplementDeathAnim PROVE TurnInv'
  BY <1>29
  DEF ImplementDeathAnim, PlayStep, Quiet, screenVars, playerVars, stageVars,
      ghostVars
<1>30. ASSUME PostDeathProcessingP1 PROVE TurnInv'
  <2>1. /\ gameState = Play /\ substate = 14 /\ LoseLife(P1)
        /\ UNCHANGED <<gameState, playerVars>>
    BY <1>30
    DEF PostDeathProcessingP1, PostDeathContinue, PostDeathGameOver, PlayStep
  <2>2. currentPlayer = P1 /\ cp.lives \in 1 .. ByteSize - 1 /\ deaths[P1] \in Nat
    BY <2>1, RecordFields
  <2>3. (cp.lives + ByteSize - 1) % ByteSize = cp.lives - 1
    BY <2>2
  <2>4. cp' \in PlayerRecord /\ cp'.lives = cp.lives - 1 /\ cp'.bonus = cp.bonus
    <3>1. cp' = [cp EXCEPT !.intro = 0, !.lives = (@ + ByteSize - 1) % ByteSize]
      BY <2>1 DEF LoseLife
    <3>2. cp' = [cp EXCEPT !.intro = 0, !.lives = (cp.lives + ByteSize - 1) % ByteSize]
      BY <3>1
    <3>3. cp.lives - 1 \in 0 .. ByteSize - 1 /\ cp \in PlayerRecord
      BY <2>2
    <3> QED
      BY <2>3, <3>2, <3>3, DeathRecord
  <2>5. /\ saved' \in [Players -> PlayerRecord]
        /\ saved'[P1] = cp' /\ saved'[Other(P1)] = saved[Other(P1)]
        /\ deaths' \in [Players -> Nat]
        /\ deaths'[P1] = deaths[P1] + 1 /\ deaths'[Other(P1)] = deaths[Other(P1)]
        /\ lastDead' = P1
    BY <2>1, <2>4 DEF LoseLife
  <2>6. CASE PostDeathContinue(P1, 14, AfterP1Death)
    BY <2>1, <2>2, <2>4, <2>5, <2>6
    DEF PostDeathContinue, PlayStep, AfterP1Death, playerVars, stageVars
  <2>7. CASE PostDeathGameOver(P1, 14, 16)
    BY <2>1, <2>2, <2>4, <2>5, <2>7
    DEF PostDeathGameOver, PlayStep, AddScoreToHsTable, Names!Add, Names!Owners,
        Players, playerVars, stageVars
  <2> QED
    BY <1>30, <2>6, <2>7 DEF PostDeathProcessingP1
<1>31. ASSUME PostDeathProcessingP2 PROVE TurnInv'
  <2>1. /\ gameState = Play /\ substate = 15 /\ LoseLife(P2)
        /\ UNCHANGED <<gameState, playerVars>>
    BY <1>31
    DEF PostDeathProcessingP2, PostDeathContinue, PostDeathGameOver, PlayStep
  <2>2. currentPlayer = P2 /\ cp.lives \in 1 .. ByteSize - 1 /\ deaths[P2] \in Nat
    BY <2>1, RecordFields
  <2>3. (cp.lives + ByteSize - 1) % ByteSize = cp.lives - 1
    BY <2>2
  <2>4. cp' \in PlayerRecord /\ cp'.lives = cp.lives - 1 /\ cp'.bonus = cp.bonus
    <3>1. cp' = [cp EXCEPT !.intro = 0, !.lives = (@ + ByteSize - 1) % ByteSize]
      BY <2>1 DEF LoseLife
    <3>2. cp' = [cp EXCEPT !.intro = 0, !.lives = (cp.lives + ByteSize - 1) % ByteSize]
      BY <3>1
    <3>3. cp.lives - 1 \in 0 .. ByteSize - 1 /\ cp \in PlayerRecord
      BY <2>2
    <3> QED
      BY <2>3, <3>2, <3>3, DeathRecord
  <2>5. /\ saved' \in [Players -> PlayerRecord]
        /\ saved'[P2] = cp' /\ saved'[Other(P2)] = saved[Other(P2)]
        /\ deaths' \in [Players -> Nat]
        /\ deaths'[P2] = deaths[P2] + 1 /\ deaths'[Other(P2)] = deaths[Other(P2)]
        /\ lastDead' = P2
    BY <2>1, <2>4 DEF LoseLife
  <2>6. CASE PostDeathContinue(P2, 15, AfterP2Death)
    BY <2>1, <2>2, <2>4, <2>5, <2>6
    DEF PostDeathContinue, PlayStep, AfterP2Death, playerVars, stageVars
  <2>7. CASE PostDeathGameOver(P2, 15, 17)
    BY <2>1, <2>2, <2>4, <2>5, <2>7
    DEF PostDeathGameOver, PlayStep, AddScoreToHsTable, Names!Add, Names!Owners,
        Players, playerVars, stageVars
  <2> QED
    BY <1>31, <2>6, <2>7 DEF PostDeathProcessingP2
<1>32. ASSUME AdvFromP1GameOver PROVE TurnInv'
  BY <1>32
  DEF AdvFromP1GameOver, PlayStep, AdvAfter, Quiet, screenVars, playerVars,
      stageVars, ghostVars
<1>33. ASSUME AdvFromP2GameOver PROVE TurnInv'
  BY <1>33
  DEF AdvFromP2GameOver, PlayStep, AdvAfter, Quiet, screenVars, playerVars,
      stageVars, ghostVars
<1>34. ASSUME PrepForNextPlayer PROVE TurnInv'
  BY <1>34
  DEF PrepForNextPlayer, PlayStep, Quiet, screenVars, playerVars, stageVars,
      ghostVars
<1>35. ASSUME PrepareForP2Turn PROVE TurnInv'
  BY <1>35
  DEF PrepareForP2Turn, PlayStep, Activate, screenVars, playerVars, stageVars,
      ghostVars
<1>36. ASSUME PrepareForP1Turn PROVE TurnInv'
  BY <1>36
  DEF PrepareForP1Turn, PlayStep, Activate, screenVars, playerVars, stageVars,
      ghostVars
<1>37. ASSUME NEW p \in Players, CheckForHsInitials(p) PROVE TurnInv'
  BY <1>37
  DEF CheckForHsInitials, PlayStep, Activate, screenVars, playerVars, stageVars,
      ghostVars
<1>38. ASSUME HsInitialEntry PROVE TurnInv'
  BY <1>38
  DEF HsInitialEntry, PlayStep, screenVars, playerVars, stageVars, ghostVars
<1>39. ASSUME RestartGame PROVE TurnInv'
  BY <1>39
  DEF RestartGame, PlayStep, Activate, screenVars, playerVars, stageVars, ghostVars
<1>40. ASSUME NEW p \in Players, ZeroScores(p) PROVE TurnInv'
  BY <1>40 DEF ZeroScores, screenVars, playerVars, stageVars, ghostVars
<1>41. ASSUME ScoreReachesBonus PROVE TurnInv'
  BY <1>41 DEF ScoreReachesBonus, screenVars, playerVars, stageVars, ghostVars
<1>42. ASSUME AwardBonusLife PROVE TurnInv'
  <2>1. (cp.lives + 1) % ByteSize \in 0 .. ByteSize - 1 /\ cp.bonus = 0
    BY <1>42, RecordFields DEF AwardBonusLife
  <2>2. /\ cp' \in PlayerRecord /\ cp'.bonus = 1
        /\ cp'.lives = (cp.lives + 1) % ByteSize
    BY <1>42, <2>1, BonusRecord DEF AwardBonusLife
  <2>3. CpLoaded /\ InGame(currentPlayer) => cp'.lives = cp.lives + 1
    <3> SUFFICES ASSUME CpLoaded, InGame(currentPlayer) PROVE cp'.lives = cp.lives + 1
      OBVIOUS
    <3>1. cp.lives + deaths[currentPlayer] = NumLives + cp.bonus
      OBVIOUS
    <3>2. deaths[currentPlayer] \in Nat /\ cp.lives \in 0 .. ByteSize - 1
      BY RecordFields
    <3>3. cp.lives + 1 \in 1 .. ByteSize - 1
      BY <2>1, <3>1, <3>2
    <3> QED
      BY <2>2, <3>3
  <2>4. /\ UNCHANGED <<gameState, substate, twoPlayers, currentPlayer, secondPlayer,
                       cabinet, orientation, saved, deaths, lastDead, unnamed>>
        /\ cp' \in PlayerRecord /\ cp'.bonus = 1
    BY <1>42, <2>2
    DEF AwardBonusLife, screenVars, playerVars, ghostVars, scoreVars
  <2>5. SelectorsAgree' /\ Shapes'
    BY <2>4
  <2>6. LivesConserved' /\ SomeoneLives'
    BY <1>42, <2>1, <2>2, <2>3, <2>4 DEF AwardBonusLife
  <2> QED
    BY <2>4, <2>5, <2>6
<1>43. ASSUME UNCHANGED vars PROVE TurnInv'
  BY <1>43 DEF vars, screenVars, playerVars, stageVars, scoreVars, ghostVars
<1> QED
  BY <1>1, <1>2, <1>3, <1>4, <1>5, <1>6, <1>7, <1>8, <1>9, <1>10, <1>11, <1>12,
     <1>13, <1>14, <1>15, <1>16, <1>17, <1>18, <1>19, <1>20, <1>21, <1>22, <1>23,
     <1>24, <1>25, <1>26, <1>27, <1>28, <1>29, <1>30, <1>31, <1>32, <1>33, <1>34,
     <1>35, <1>36, <1>37, <1>38, <1>39, <1>40, <1>41, <1>42, <1>43
  DEF Next, AttractMode, StartMode, GamePlay, MainLoop

(* TurnInv is an inductive invariant.  It carries what the routines do not *)
(* check: that player 1 plays first, that the turns alternate, and that    *)
(* each player has at most one life more than the DIP switches say.        *)
THEOREM TurnInvHolds == Spec => []TurnInv
<1>1. Init => TurnInv
  BY InitTurn
<1>2. TurnInv /\ [Next]_vars => TurnInv'
  BY TurnStep
<1> QED
  BY <1>1, <1>2, PTL DEF Spec

(* However the two players' data are copied back and forth, and whenever   *)
(* the bonus life comes in between, no life is lost or won: P1_DATA,       *)
(* P2_DATA and CP_DATA agree with the deaths there have been.              *)
THEOREM LivesAlwaysConserved == Spec => []LivesConserved
<1>1. TurnInv => LivesConserved
  BY DEF TurnInv
<1> QED
  BY <1>1, TurnInvHolds, PTL

(* No player is brought on without a life, although                        *)
(* L_POST_DEATH_PROCESSING_P1 does not look at those of player 2.          *)
THEOREM NobodyPlaysWithoutALife == Spec => []GameOverIsFinal
<1>1. TurnInv => GameOverIsFinal
  <2> SUFFICES ASSUME TurnInv, InPlay PROVE cp.lives \in 1 .. NumLives + 1
    BY DEF GameOverIsFinal
  <2>1. CpLoaded /\ currentPlayer \in Players /\ InGame(currentPlayer)
    BY DEF TurnInv, Shapes, SelectorsAgree, InPlay, CpLoaded, InGame, Players, P1,
       P2
  <2>2. cp \in PlayerRecord /\ deaths[currentPlayer] \in Nat
    BY <2>1 DEF TurnInv, Shapes
  <2>3. cp.lives \in 0 .. ByteSize - 1 /\ cp.bonus \in {0, 1}
    BY <2>2, RecordFields
  <2>4. cp.lives > 0
    BY <2>1 DEF TurnInv, SomeoneLives, Data, InPlay
  <2>5. cp.lives + deaths[currentPlayer] = NumLives + cp.bonus
    BY <2>1 DEF TurnInv, LivesConserved, Data
  <2> QED
    BY <2>2, <2>3, <2>4, <2>5, NumLivesAssumption, ByteAssumption
<1> QED
  BY <1>1, TurnInvHolds, PTL

(* As long as both players have lives, the turns alternate.                *)
THEOREM TurnsAlwaysAlternate == Spec => []TurnsAlternate
<1>1. TurnInv => TurnsAlternate
  BY DEF TurnInv, Shapes, LastToDie, TurnsAlternate, InPlay, InGame, Players, P1, P2
<1> QED
  BY <1>1, TurnInvHolds, PTL

(* SECOND_PLAYER and CURRENT_PLAYER agree, both name player 1 in attract   *)
(* mode and in a game of one player, and the screen is turned to the one   *)
(* they name (L_ORIENT_SCREEN and its three copies).                       *)
THEOREM SelectorsAlwaysAgree == Spec => []SelectorsAgree
<1>1. TurnInv => SelectorsAgree
  BY DEF TurnInv
<1> QED
  BY <1>1, TurnInvHolds, PTL

(***************************************************************************)
(* The stage order.  The pointer of a player fits his level, and the stage *)
(* in play is the one it points to or the secret stage, which only stages  *)
(* other than the rivets lead to.                                          *)
(***************************************************************************)
Fits(d) == /\ d.ptr \in Pointers /\ d.level \in Int /\ d.level >= 1
           /\ LevelOf(d.ptr) = (IF d.level < 5 THEN d.level ELSE 5)

OnStage == stage = StageOrder[cp.ptr] \/ (stage = Secret /\ StageOrder[cp.ptr] # Rivets)

OrderInv == /\ \A p \in Players : InGame(p) => Fits(saved[p])
            /\ CpLoaded => Fits(cp) /\ OnStage
            /\ gameState = Play /\ substate = 22 /\ secret = 1 => stage \in {1, 3}

LEMMA LevelOfPointer ==
  ASSUME NEW ptr \in Pointers
  PROVE  LevelOf(ptr) = IF ptr < 3 THEN 1 ELSE IF ptr < 6 THEN 2
                        ELSE IF ptr < 10 THEN 3 ELSE IF ptr < 15 THEN 4 ELSE 5
<1> DEFINE level == IF ptr < 3 THEN 1 ELSE IF ptr < 6 THEN 2
                    ELSE IF ptr < 10 THEN 3 ELSE IF ptr < 15 THEN 4 ELSE 5
           Holds(n) == LevelStart[n] <= ptr /\ (n = 5 \/ ptr < LevelStart[n + 1])
<1>1. /\ LevelStart[1] = 1 /\ LevelStart[2] = 3 /\ LevelStart[3] = 6
      /\ LevelStart[4] = 10 /\ LevelStart[5] = 15
  BY DEF LevelStart, LastLevelStart
<1>2. ptr \in Int /\ ptr >= 1
  BY DEF Pointers
<1>3. level \in 1 .. 5 /\ Holds(level)
  BY <1>1, <1>2
<1>4. \A n \in 1 .. 5 : Holds(n) => n = level
  BY <1>1, <1>2
<1>5. LevelOf(ptr) = CHOOSE n \in 1 .. 5 : Holds(n)
  BY DEF LevelOf
<1> HIDE DEF level, Holds
<1>6. LevelOf(ptr) = level
  BY <1>3, <1>4, <1>5
<1> QED
  BY <1>6 DEF level

LEMMA NextStage ==
  ASSUME NEW ptr \in Pointers
  PROVE  /\ NextPtr(ptr) \in Pointers
         /\ StageOrder[NextPtr(ptr)] \in 1 .. 4
         /\ StageOrder[ptr] # Rivets => LevelOf(NextPtr(ptr)) = LevelOf(ptr)
         /\ StageOrder[ptr] = Rivets =>
              LevelOf(NextPtr(ptr)) = (IF LevelOf(ptr) < 5 THEN LevelOf(ptr) + 1 ELSE 5)
<1>1. NextPtr(ptr) = IF ptr = 20 THEN 15 ELSE ptr + 1
  BY DEF NextPtr, StageOrder, EndMark, LastLevelStart, Pointers
<1>2. NextPtr(ptr) \in Pointers
  BY <1>1 DEF Pointers
<1>3. StageOrder[ptr] = Rivets <=> ptr \in {2, 5, 9, 14, 20}
  BY DEF StageOrder, Rivets, Pointers
<1>4. \A q \in Pointers : StageOrder[q] \in 1 .. 4
  BY DEF StageOrder, Pointers
<1>5. /\ LevelOf(ptr) = IF ptr < 3 THEN 1 ELSE IF ptr < 6 THEN 2
                        ELSE IF ptr < 10 THEN 3 ELSE IF ptr < 15 THEN 4 ELSE 5
      /\ LevelOf(NextPtr(ptr)) =
           IF NextPtr(ptr) < 3 THEN 1 ELSE IF NextPtr(ptr) < 6 THEN 2
           ELSE IF NextPtr(ptr) < 10 THEN 3 ELSE IF NextPtr(ptr) < 15 THEN 4 ELSE 5
  BY <1>2, LevelOfPointer
<1> HIDE DEF NextPtr, StageOrder, LevelOf
<1> QED
  BY <1>1, <1>2, <1>3, <1>4, <1>5 DEF Pointers

(* What a routine needs to keep when it leaves the players' data alone. *)
LEMMA OrderKept ==
  ASSUME OrderInv, UNCHANGED <<saved, cp, stage, twoPlayers>>,
         gameState' = Play => gameState = Play,
         CpLoaded' => CpLoaded,
         gameState' = Play /\ substate' = 22 /\ secret' = 1 => stage \in {1, 3}
  PROVE  OrderInv'
  BY DEF OrderInv, InGame, Fits, OnStage

LEMMA OrderStep == TurnInv /\ OrderInv /\ [Next]_vars => OrderInv'
<1> SUFFICES ASSUME TurnInv, OrderInv, [Next]_vars PROVE OrderInv'
  OBVIOUS
<1> USE DEF Play, BeginAttract, Attract, WaitStart
<1>1. Shapes /\ SelectorsAgree /\ PlayerOfRoutine
  BY DEF TurnInv
<1>2. CASE AttractMode
  <2>1. gameState' # Play
    BY <1>2
    DEF AttractMode, InitAttractMode, InsertCoinsScreen, PrepareDemoMode, InitDemoMario,
        DemoDies, DemoDeathAnim, CleanUpDemoMode, FlashTitleScreen, FreezeTitleScreen,
        AttractStep
  <2> QED
    BY <2>1 DEF OrderInv, InGame, CpLoaded
<1>3. CASE PromptForStart \/ DisplayPushStart
  <2>1. gameState' # Play
    BY <1>3 DEF PromptForStart, DisplayPushStart
  <2> QED
    BY <2>1 DEF OrderInv, InGame, CpLoaded
<1>4. ASSUME NEW n \in Starts, StartGame(n) PROVE OrderInv'
  <2>1. Fits(InitialPlayerData)
    BY LevelOfPointer DEF Fits, InitialPlayerData, Pointers
  <2>2. ASSUME NEW p \in Players, InGame(p)' PROVE Fits(saved[p])'
    <3>1. n \in {1, 2} /\ p \in {0, 1} /\ p <= n - 1
      BY <1>4, <2>2, StartsAssumption DEF StartGame, InGame, Players, P1, P2
    <3>2. saved'[p] = InitialPlayerData
      BY <1>4, <3>1 DEF StartGame
    <3> QED
      BY <2>1, <3>2 DEF Fits
  <2>3. ~CpLoaded' /\ substate' = 0
    BY <1>4 DEF StartGame, CpLoaded
  <2> QED
    BY <2>2, <2>3 DEF OrderInv
<1>5. CASE InitP1 \/ InitP2
  <2>1. PICK p \in Players : /\ InGame(p) /\ cp' = saved[p]
                             /\ stage' = StageOrder[saved[p].ptr]
    BY <1>1, <1>5
    DEF InitP1, InitP2, LoadPlayer, PlayStep, Shapes, SelectorsAgree, PlayerOfRoutine,
        InGame, Players, P1, P2
  <2>2. Fits(saved[p])
    BY <2>1 DEF OrderInv
  <2>3. UNCHANGED <<gameState, saved, twoPlayers>> /\ substate' \in {2, 4, 5}
    BY <1>5 DEF InitP1, InitP2, PlayStep, Quiet, playerVars
  <2> QED
    BY <2>1, <2>2, <2>3 DEF OrderInv, InGame, Fits, OnStage
<1>6. CASE DisplayIntermission
  <2>1. /\ gameState = Play /\ substate = 8 /\ substate' = 10
        /\ UNCHANGED <<gameState, saved, twoPlayers, stage, secret>>
    BY <1>6 DEF DisplayIntermission, PlayStep, Quiet, playerVars, stageVars
  <2>2. ClimbedTo(cp) \in Int /\ cp.ptr \in Int /\ cp \in PlayerRecord
    BY <1>1, RecordFields DEF ClimbedTo, CapHeight, Shapes
  <2>3. cp'.ptr = cp.ptr /\ cp'.level = cp.level
    BY <1>6, <2>2, HeightRecord DEF DisplayIntermission
  <2> QED
    BY <2>1, <2>3 DEF OrderInv, InGame, CpLoaded, Fits, OnStage
<1>7. CASE AdvanceToSecretStage
  <2>1. /\ gameState = Play /\ substate = 22 /\ substate' = 8 /\ secret = 1 /\ stage' = Secret
        /\ UNCHANGED <<gameState, saved, twoPlayers>>
    BY <1>7 DEF AdvanceToSecretStage, PlayStep, Quiet, playerVars
  <2>2. cp'.ptr = cp.ptr /\ cp'.level = cp.level
    BY <1>1, <1>7 DEF AdvanceToSecretStage, Shapes, PlayerRecord
  <2>3. Fits(cp) /\ OnStage /\ stage \in {1, 3}
    BY <2>1 DEF OrderInv, CpLoaded
  <2>4. StageOrder[cp.ptr] # Rivets
    BY <2>3 DEF OnStage, Rivets, Secret
  <2> QED
    BY <2>1, <2>2, <2>3, <2>4 DEF OrderInv, InGame, Fits, OnStage
<1>8. CASE AdvanceToNextStage
  <2>1. /\ gameState = Play /\ substate = 22 /\ substate' = 8 /\ stage # Rivets
        /\ UNCHANGED <<gameState, saved, twoPlayers>>
        /\ stage' = StageOrder[NextPtr(cp.ptr)]
    BY <1>8 DEF AdvanceToNextStage, PlayStep, Quiet, playerVars
  <2>2. Fits(cp) /\ OnStage /\ cp \in PlayerRecord
    BY <1>1, <2>1 DEF OrderInv, CpLoaded, Shapes
  <2>3. StageOrder[cp.ptr] # Rivets
    BY <2>1, <2>2 DEF OnStage
  <2>4. /\ NextPtr(cp.ptr) \in Pointers
        /\ LevelOf(NextPtr(cp.ptr)) = LevelOf(cp.ptr)
    BY <2>2, <2>3, NextStage DEF Fits
  <2>5. cp'.ptr = NextPtr(cp.ptr) /\ cp'.level = cp.level
    <3>1. NextPtr(cp.ptr) \in Int /\ cp.lag \in Int
      BY <2>2, <2>4, RecordFields DEF Pointers
    <3>2. PICK g \in Int : cp' = [cp EXCEPT !.ptr = NextPtr(cp.ptr), !.lag = g]
      BY <1>8, <3>1 DEF AdvanceToNextStage
    <3> QED
      BY <2>2, <3>2 DEF PlayerRecord
  <2> QED
    BY <2>1, <2>2, <2>4, <2>5 DEF OrderInv, InGame, Fits, OnStage
<1>9. CASE AdvanceToNextLevel
  <2>1. /\ gameState = Play /\ substate = 22 /\ substate' = 8 /\ stage = Rivets
        /\ UNCHANGED <<gameState, saved, twoPlayers>>
        /\ stage' = StageOrder[NextPtr(cp.ptr)]
    BY <1>9 DEF AdvanceToNextLevel, PlayStep, Quiet, playerVars
  <2>2. Fits(cp) /\ OnStage /\ cp \in PlayerRecord
    BY <1>1, <2>1 DEF OrderInv, CpLoaded, Shapes
  <2>3. StageOrder[cp.ptr] = Rivets
    BY <2>1, <2>2 DEF OnStage, Rivets, Secret
  <2>4. /\ NextPtr(cp.ptr) \in Pointers
        /\ LevelOf(NextPtr(cp.ptr)) = (IF LevelOf(cp.ptr) < 5 THEN LevelOf(cp.ptr) + 1 ELSE 5)
    BY <2>2, <2>3, NextStage DEF Fits
  <2>5. cp'.ptr = NextPtr(cp.ptr) /\ cp'.level = cp.level + 1
    <3>1. NextPtr(cp.ptr) \in Int /\ cp.level + 1 \in Int
      BY <2>2, <2>4, RecordFields DEF Pointers
    <3>2. cp' = [cp EXCEPT !.ptr = NextPtr(cp.ptr), !.level = cp.level + 1, !.height = 0]
      BY <1>9 DEF AdvanceToNextLevel
    <3> QED
      BY <2>2, <3>2 DEF PlayerRecord
  <2>6. Fits(cp')
    BY <2>2, <2>4, <2>5 DEF Fits
  <2> QED
    BY <2>1, <2>5, <2>6 DEF OrderInv, InGame, Fits, OnStage
<1>10. CASE PostDeathProcessingP1 \/ PostDeathProcessingP2
  <2>1. PICK p \in Players :
          /\ LoseLife(p) /\ gameState = Play /\ substate \in {14, 15} /\ substate' # 22
          /\ UNCHANGED <<gameState, twoPlayers, stage>>
    BY <1>10
    DEF PostDeathProcessingP1, PostDeathProcessingP2, PostDeathContinue, PostDeathGameOver,
        AfterP1Death, AfterP2Death, PlayStep, playerVars, stageVars, Players, P1, P2
  <2>2. Fits(cp) /\ OnStage /\ cp \in PlayerRecord
    BY <1>1, <2>1 DEF OrderInv, CpLoaded, Shapes
  <2>3. cp'.ptr = cp.ptr /\ cp'.level = cp.level
    <3>1. (cp.lives + ByteSize - 1) % ByteSize \in 0 .. ByteSize - 1
      BY <2>2, RecordFields, ByteAssumption, NumLivesAssumption
    <3> QED
      BY <2>1, <2>2, <3>1, DeathRecord DEF LoseLife
  <2>4. Fits(cp') /\ OnStage'
    BY <2>1, <2>2, <2>3 DEF Fits, OnStage
  <2>5. \A q \in Players : InGame(q) => Fits(saved'[q])
    BY <1>1, <2>1, <2>4 DEF LoseLife, OrderInv, Shapes
  <2> QED
    BY <2>1, <2>4, <2>5 DEF OrderInv, InGame, Fits
<1>11. CASE StageWon
  BY <1>11, OrderKept DEF StageWon, PlayStep, Quiet, playerVars, CpLoaded
<1>12. CASE \/ P1PromptScreen \/ P2PromptScreen \/ DisplayTurnData \/ PrepareScreenForTurn
            \/ ImplementIntroStage \/ DisplayCurrentStage \/ InitMario \/ MarioDies
            \/ ImplementDeathAnim
  <2>1. /\ UNCHANGED <<saved, cp, stage, twoPlayers, gameState>>
        /\ gameState = Play /\ CpLoaded /\ substate' # 22
    BY <1>1, <1>12
    DEF P1PromptScreen, P2PromptScreen, DisplayTurnData, PrepareScreenForTurn,
        ImplementIntroStage, DisplayCurrentStage, InitMario, MarioDies, ImplementDeathAnim,
        PlayStep, Quiet, playerVars, stageVars, CpLoaded, P1, P2, Players, Shapes,
        SelectorsAgree
  <2> QED
    BY <2>1, OrderKept
<1>13. CASE \/ OrientScreen \/ AdvFromP1GameOver \/ AdvFromP2GameOver \/ PrepForNextPlayer
            \/ PrepareForP2Turn \/ PrepareForP1Turn \/ HsInitialEntry \/ RestartGame
            \/ \E p \in Players : CheckForHsInitials(p)
  <2>1. /\ UNCHANGED <<saved, cp, stage, twoPlayers>>
        /\ gameState = Play /\ ~CpLoaded' /\ substate' # 22
    BY <1>1, <1>13
    DEF OrientScreen, AdvFromP1GameOver, AdvFromP2GameOver, PrepForNextPlayer, AdvAfter,
        PrepareForP2Turn, PrepareForP1Turn, HsInitialEntry, RestartGame,
        CheckForHsInitials, Activate, PlayStep, Quiet, playerVars, stageVars, CpLoaded,
        P1, P2, Players, Shapes, SelectorsAgree
  <2> QED
    BY <2>1, OrderKept
<1>14. CASE \/ ScoreReachesBonus \/ UNCHANGED vars \/ \E p \in Players : ZeroScores(p)
  <2>1. UNCHANGED <<saved, cp, stage, secret, twoPlayers, gameState, substate>>
    BY <1>14 DEF ScoreReachesBonus, ZeroScores, vars, playerVars, stageVars
  <2>2. CpLoaded' <=> CpLoaded
    BY <2>1 DEF CpLoaded
  <2> QED
    BY <2>1, <2>2, OrderKept DEF OrderInv
<1>15. CASE AwardBonusLife
  <2>1. UNCHANGED <<saved, stage, secret, twoPlayers, gameState, substate>>
    BY <1>15 DEF AwardBonusLife, playerVars, stageVars
  <2>2. cp'.ptr = cp.ptr /\ cp'.level = cp.level
    <3>1. (cp.lives + 1) % ByteSize \in 0 .. ByteSize - 1 /\ cp \in PlayerRecord
      BY <1>1, RecordFields, ByteSteps DEF Shapes
    <3> QED
      BY <1>15, <3>1, BonusRecord DEF AwardBonusLife
  <2> QED
    BY <2>1, <2>2 DEF OrderInv, InGame, CpLoaded, Fits, OnStage
<1> QED
  BY <1>2, <1>3, <1>4, <1>5, <1>6, <1>7, <1>8, <1>9, <1>10, <1>11, <1>12, <1>13, <1>14, <1>15
  DEF Next, StartMode, GamePlay, MainLoop

(* The pointers of both players always fit their levels, whoever is up.    *)
THEOREM OrderInvHolds == Spec => []OrderInv
<1>1. Init => OrderInv
  BY DEF Init, OrderInv, InGame, CpLoaded, BeginAttract, Play
<1>2. TurnInv /\ TurnInv' /\ OrderInv /\ [Next]_vars => OrderInv'
  BY OrderStep
<1> QED
  BY <1>1, <1>2, TurnInvHolds, PTL DEF Spec

(* Level, stage and stage order pointer agree in any game: the end mark of *)
(* L_STAGE_ORDER_TABLE is never taken for a stage.                         *)
THEOREM LevelAlwaysMatchesOrder == Spec => []LevelMatchesOrder
<1>1. OrderInv => LevelMatchesOrder
  BY DEF OrderInv, LevelMatchesOrder, Fits, OnStage
<1> QED
  BY <1>1, OrderInvHolds, PTL

(***************************************************************************)
(* The bonus life and the initials.                                        *)
(***************************************************************************)
(* What a routine needs to keep when it awards nothing. *)
LEMMA BonusKept ==
  ASSUME BonusEarned, UNCHANGED <<twoPlayers, reached, toZero>>,
         \A p \in Players : InGame(p)' => InGame(p) /\ Data(p)'.bonus = Data(p).bonus
  PROVE  BonusEarned'
  BY DEF BonusEarned

LEMMA BonusStep == TurnInv /\ BonusEarned /\ [Next]_vars => BonusEarned'
<1> SUFFICES ASSUME TurnInv, BonusEarned, [Next]_vars PROVE BonusEarned'
  OBVIOUS
<1> USE DEF Play, BeginAttract, Attract, WaitStart
<1>1. Shapes /\ SelectorsAgree /\ PlayerOfRoutine
  BY DEF TurnInv
<1>2. CASE AttractMode \/ PromptForStart \/ DisplayPushStart
  <2>1. gameState' # Play
    BY <1>2
    DEF AttractMode, InitAttractMode, InsertCoinsScreen, PrepareDemoMode, InitDemoMario,
        DemoDies, DemoDeathAnim, CleanUpDemoMode, FlashTitleScreen, FreezeTitleScreen,
        AttractStep, PromptForStart, DisplayPushStart
  <2> QED
    BY <2>1 DEF BonusEarned, InGame
<1>3. ASSUME NEW n \in Starts, StartGame(n) PROVE BonusEarned'
  <2>1. ~CpLoaded' /\ \A p \in Players : saved'[p].bonus = 0
    BY <1>3 DEF StartGame, CpLoaded, InitialPlayerData, NoPlayerData
  <2> QED
    BY <2>1 DEF BonusEarned, Data
<1>4. CASE InitP1 \/ InitP2
  <2>1. /\ UNCHANGED <<gameState, twoPlayers, currentPlayer, saved, reached, toZero>>
        /\ ~CpLoaded /\ cp' = saved[currentPlayer]
    BY <1>1, <1>4
    DEF InitP1, InitP2, LoadPlayer, PlayStep, Quiet, playerVars, CpLoaded, PlayerOfRoutine
  <2>2. \A p \in Players : InGame(p)' => InGame(p) /\ Data(p)'.bonus = Data(p).bonus
    BY <2>1 DEF InGame, Data
  <2> QED
    BY <2>1, <2>2, BonusKept
<1>5. CASE \/ P1PromptScreen \/ P2PromptScreen \/ DisplayTurnData \/ PrepareScreenForTurn
           \/ ImplementIntroStage \/ DisplayCurrentStage \/ InitMario \/ MarioDies
           \/ ImplementDeathAnim \/ StageWon
  <2>1. /\ UNCHANGED <<saved, cp, twoPlayers, currentPlayer, gameState, reached, toZero>>
        /\ CpLoaded /\ CpLoaded'
    BY <1>1, <1>5
    DEF P1PromptScreen, P2PromptScreen, DisplayTurnData, PrepareScreenForTurn,
        ImplementIntroStage, DisplayCurrentStage, InitMario, MarioDies, ImplementDeathAnim,
        StageWon, PlayStep, Quiet, playerVars, stageVars, CpLoaded, P1, P2, Players,
        Shapes, SelectorsAgree
  <2>2. \A p \in Players : InGame(p)' => InGame(p) /\ Data(p)'.bonus = Data(p).bonus
    BY <2>1 DEF InGame, Data
  <2> QED
    BY <2>1, <2>2, BonusKept
<1>6. CASE \/ DisplayIntermission \/ AdvanceToSecretStage \/ AdvanceToNextStage
           \/ AdvanceToNextLevel
  <2>1. /\ UNCHANGED <<saved, twoPlayers, currentPlayer, gameState, reached, toZero>>
        /\ CpLoaded /\ CpLoaded'
    BY <1>6
    DEF DisplayIntermission, AdvanceToSecretStage, AdvanceToNextStage, AdvanceToNextLevel,
        PlayStep, Quiet, playerVars, CpLoaded
  <2>2. cp'.bonus = cp.bonus
    BY <1>1, <1>6
    DEF DisplayIntermission, AdvanceToSecretStage, AdvanceToNextStage, AdvanceToNextLevel,
        Shapes, PlayerRecord
  <2>3. \A p \in Players : InGame(p)' => InGame(p) /\ Data(p)'.bonus = Data(p).bonus
    BY <2>1, <2>2 DEF InGame, Data
  <2> QED
    BY <2>1, <2>3, BonusKept
<1>7. CASE PostDeathProcessingP1 \/ PostDeathProcessingP2
  <2>1. PICK p \in Players :
          /\ LoseLife(p) /\ currentPlayer = p /\ CpLoaded
          /\ UNCHANGED <<gameState, twoPlayers, currentPlayer, reached, toZero>>
    BY <1>1, <1>7
    DEF PostDeathProcessingP1, PostDeathProcessingP2, PostDeathContinue, PostDeathGameOver,
        PlayStep, playerVars, PlayerOfRoutine, CpLoaded, Players, P1, P2
  <2>2. cp'.bonus = cp.bonus /\ saved' = [saved EXCEPT ![p] = cp']
    BY <1>1, <2>1 DEF LoseLife, Shapes, PlayerRecord
  <2>3. \A q \in Players : InGame(q)' => InGame(q) /\ Data(q)'.bonus = Data(q).bonus
    BY <1>1, <2>1, <2>2 DEF InGame, Data, Shapes
  <2> QED
    BY <2>1, <2>3, BonusKept
<1>8. CASE \/ OrientScreen \/ AdvFromP1GameOver \/ AdvFromP2GameOver \/ PrepForNextPlayer
           \/ PrepareForP2Turn \/ PrepareForP1Turn \/ HsInitialEntry \/ RestartGame
           \/ \E p \in Players : CheckForHsInitials(p)
  <2>1. /\ UNCHANGED <<saved, twoPlayers, reached, toZero>>
        /\ gameState = Play /\ ~CpLoaded /\ ~CpLoaded'
    BY <1>1, <1>8
    DEF OrientScreen, AdvFromP1GameOver, AdvFromP2GameOver, PrepForNextPlayer, AdvAfter,
        PrepareForP2Turn, PrepareForP1Turn, HsInitialEntry, RestartGame,
        CheckForHsInitials, Activate, PlayStep, Quiet, playerVars, stageVars, CpLoaded,
        P1, P2, Players, Shapes, SelectorsAgree
  <2>2. \A p \in Players : InGame(p)' => InGame(p) /\ Data(p)'.bonus = Data(p).bonus
    BY <2>1 DEF InGame, Data
  <2> QED
    BY <2>1, <2>2, BonusKept
<1>9. CASE UNCHANGED vars
  BY <1>9 DEF BonusEarned, InGame, Data, CpLoaded, vars, playerVars, scoreVars
<1>10. ASSUME NEW p \in Players, ZeroScores(p) PROVE BonusEarned'
  <2>1. /\ toZero # {}
        /\ UNCHANGED <<gameState, substate, twoPlayers, currentPlayer, saved, cp>>
    BY <1>10 DEF ZeroScores, playerVars
  <2> QED
    BY <2>1 DEF BonusEarned, InGame, Data, CpLoaded
<1>11. CASE ScoreReachesBonus
  <2>1. /\ reached \subseteq reached'
        /\ UNCHANGED <<toZero, gameState, substate, twoPlayers, currentPlayer, saved, cp>>
    BY <1>11 DEF ScoreReachesBonus, playerVars
  <2> QED
    BY <2>1 DEF BonusEarned, InGame, Data, CpLoaded
<1>12. CASE AwardBonusLife
  <2>1. /\ toZero = {} /\ currentPlayer \in reached
        /\ UNCHANGED <<gameState, substate, twoPlayers, currentPlayer, saved, reached, toZero>>
    BY <1>12 DEF AwardBonusLife, BufferIsEmpty, playerVars, scoreVars
  <2> QED
    BY <2>1 DEF BonusEarned, InGame, Data, CpLoaded
<1> QED
  BY <1>2, <1>3, <1>4, <1>5, <1>6, <1>7, <1>8, <1>9, <1>10, <1>11, <1>12
  DEF Next, StartMode, GamePlay, MainLoop

(* A bonus life is only had by the player whose score of this game earned  *)
(* it: the main loop zeroes the old scores before it looks at them.        *)
THEOREM BonusAlwaysEarned == Spec => []BonusEarned
<1>1. Init => BonusEarned
  BY DEF Init, BonusEarned, InGame, BeginAttract, Play
<1>2. TurnInv /\ TurnInv' /\ BonusEarned /\ [Next]_vars => BonusEarned'
  BY BonusStep
<1> QED
  BY <1>1, <1>2, TurnInvHolds, PTL DEF Spec

LEMMA EntryStep == TurnInv /\ RegistersOwnEntry /\ [Next]_vars => RegistersOwnEntry'
<1> SUFFICES ASSUME TurnInv, RegistersOwnEntry, [Next]_vars,
                    gameState' = Play, substate' = 21
             PROVE  unnamed'[secondPlayer'] > 0
  BY DEF RegistersOwnEntry
<1> USE DEF Play, BeginAttract, Attract, WaitStart
<1>1. Shapes /\ SelectorsAgree
  BY DEF TurnInv
<1>2. CASE AttractMode \/ StartMode
  BY <1>2
  DEF AttractMode, InitAttractMode, InsertCoinsScreen, PrepareDemoMode, InitDemoMario,
      DemoDies, DemoDeathAnim, CleanUpDemoMode, FlashTitleScreen, FreezeTitleScreen,
      AttractStep, StartMode, PromptForStart, DisplayPushStart, StartGame
<1>3. ASSUME NEW p \in Players, CheckForHsInitials(p) PROVE unnamed'[secondPlayer'] > 0
  BY <1>3 DEF CheckForHsInitials, Activate
<1>4. CASE GamePlay /\ ~\E p \in Players : CheckForHsInitials(p)
  <2>1. substate' # 21
    BY <1>1, <1>4
    DEF GamePlay, OrientScreen, InitP1, P1PromptScreen, InitP2, P2PromptScreen,
        DisplayTurnData, PrepareScreenForTurn, ImplementIntroStage, DisplayIntermission,
        DisplayCurrentStage, InitMario, MarioDies, StageWon, AdvanceToSecretStage,
        AdvanceToNextStage, AdvanceToNextLevel, ImplementDeathAnim, PostDeathProcessingP1,
        PostDeathProcessingP2, PostDeathContinue, PostDeathGameOver, AfterP1Death,
        AfterP2Death, AdvFromP1GameOver, AdvFromP2GameOver, AdvAfter, PrepForNextPlayer,
        PrepareForP2Turn, PrepareForP1Turn, HsInitialEntry, RestartGame, PlayStep,
        Shapes, SelectorsAgree, Players, P1, P2
  <2> QED
    BY <2>1
<1>5. CASE MainLoop \/ UNCHANGED vars
  BY <1>5
  DEF MainLoop, ZeroScores, ScoreReachesBonus, AwardBonusLife, RegistersOwnEntry, vars,
      playerVars, scoreVars
<1> QED
  BY <1>2, <1>3, <1>4, <1>5 DEF Next

(* L_HS_INITIAL_ENTRY always has an entry of the player who is up to put   *)
(* the initials into: its search of the table ends at one.                 *)
THEOREM EntryAlwaysThere == Spec => []RegistersOwnEntry
<1>1. Init => RegistersOwnEntry
  BY DEF Init, RegistersOwnEntry, BeginAttract, Play
<1>2. TurnInv /\ TurnInv' /\ RegistersOwnEntry /\ [Next]_vars => RegistersOwnEntry'
  BY EntryStep
<1> QED
  BY <1>1, <1>2, TurnInvHolds, PTL DEF Spec
=============================================================================
