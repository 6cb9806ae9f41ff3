# A TLA+ model of Donkey Kong Plus

This directory holds TLA+ specifications of the arcade program "Donkey Kong
Plus" (Z80 assembler, `src/code/dkong+.asm` with `vars+.h` and
`constants+.h`), configurations that check them with TLC, and proofs that
TLAPS checks.  Other assembler files under `src/code` are older states of the
program; `src/mng` (a video converter with vendored libraries), the assembler,
the ROM images and the documents are not part of the game.

Line numbers below are those of `src/code/dkong+.asm`.

## 1. The system

Two activities share the RAM.

* The **interrupt handler** (177), once a video frame: reads the controls,
  counts timers down, looks for a coin (421), plays sounds, and then runs the
  routine of the current `GAME_STATE` (0 initialise attract mode, 1 attract
  mode, 2 wait for start, 3 play), which in turn runs the routine of
  `GAME_SUBSTATE`.  It masks further interrupts, so it runs to its end.
* The **main loop** (691) takes events from the action buffer (points,
  zeroing of scores, strings, credits, the timer on the screen, lives).  When
  the buffer is empty it flashes "1UP", awards the bonus life (839), raises
  the difficulty and animates the barrel fire.

| component | state | operations | hard behaviours |
|---|---|---|---|
| action buffer | `$60c0-$60ff`, read and write positions | `L_ADD_EVENT` (interrupt), `L_PROCESS_ACTION_BUFFER` (main loop) | the interrupt between any two accesses of the main loop; a full buffer drops events |
| coins and credits | `COIN_VALID`, `NUM_COINS_PENDING`, `NUM_PLAYS`, DIP settings | coin check, start buttons, `L_SUBTRACT_ONE_PLAY` | debouncing, two-digit decimal bytes, the limit of 90 |
| game flow | `GAME_STATE`, `GAME_SUBSTATE`, `CURRENT_PLAYER`, `SECOND_PLAYER`, `TWO_PLAYERS`, `P1_DATA`, `P2_DATA`, `CP_DATA`, `CURRENT_STAGE` | 8 substates of attract mode, 24 of play | two players' data copied back and forth; the main loop at the lives meanwhile; the stage order table |
| scores | nine bytes from `PREV_P1_SCORE` | `L_AWARD_POINTS`, `L_ZERO_SCORES`, points for the timer | decimal carries; points that arrive by events |
| bonus timer | `$62b1`, `ONSCREEN_TIMER`, `TIMER_HAS_RUN_DOWN`, `$6386`, `$6387` | ticks, `L_PROCESS_TIMER`, time-out | two copies of one timer, one of them late |
| high score table | five entries of 34 bytes, `$61c6` buffer | insertion, initials | player marks that must be found again |
| elevators | six structures, spawn timer, `MARIO_ON_ELEVATOR`; `SECRET_ELEVATOR_*` | `L_IMPLEMENT_ELEVATORS`, `L_IMPLEMENT_SECRET_ELEVATORS` | Mario and the platforms know nothing of each other; reversal in mid-course |
| retracting ladders | state, delays, row of the moving part; `MARIO_Y`, `$620f`, `$621a`, `$6222` | `L_IMPLEMENT_RET_LADDERS`, climbing in `l1ac3` | two routines move Mario, one compares for equality |
| awards | one slot (`POINT_AWARD_STATE`, `_TYPE`), `SMASH_ANIMATION_*`, `CAGE_BARS_REMAINING`, `REMAINING_RIVETS` | prizes, jumps, rivets, hits with the hammer, cage triggers | several requests in one frame; an animation that stops everything else |
| barrels, fireballs, pies | structures of 32 or 16 bytes, triggers, counters | `l2c03`, `l2c8f`, `L_SPAWN_FIREBALLS`, `l2523`, collisions | structures used again, requests that wait, limits compared for equality |
| Mario's walk, jumps and falls; the ways of barrels, fireballs, springs; hammers | coordinates, sprites | one routine each per frame (`L_RUN_GAME`, 6458-6484) | pixel geometry of the platforms |
| intro, win and death animations, sounds, display | animation states, timers, tiles | | sequences on timers |

The parts of a stage meet in `L_RUN_GAME`, which calls them in a fixed order
once a frame: award, Mario, barrels, fireballs, ..., elevators, prizes and
triggers, collisions, bonus timer.  They share Mario's coordinates, the slot
for awards and the structures of enemies.

What makes each correct is stated as properties of its module (section 3) or
listed as a hazard without a property (section 6).

## 2. Modules

| module | what it is |
|---|---|
| `EventQueue` | abstract: a bounded queue of events with one consumer |
| `ActionBuffer` | the ring of two-byte slots, the main loop one access at a time |
| `Bcd` | `add`/`sub` followed by `daa` |
| `Credits` | coins, plays, start buttons; a step is one interrupt |
| `GameFlow` | states and substates, players' data, stage order, bonus life |
| `Scores` | the nine score bytes |
| `PendingNames` | abstract: how many entries of the high score table wait for initials |
| `HighScores` | the high score table, its insertion, the entry of initials frame by frame |
| `StageTimer` | both timers of a stage and the time-out |
| `Elevators` | the two columns of the elevators stage and Mario's ride |
| `SecretElevators` | the secret stage: elevators on a diamond, cage triggers |
| `RetractingLadder` | one ladder of the mixer stage and Mario climbing it |
| `Awards` | the slot for awards, prizes, rivets, the smash animation |
| `Barrels` | Donkey Kong's decisions and gestures, the barrel structures |
| `Fireballs` | the five places for fireballs and their limit |
| `Pies` | pies and Mario on the bottom conveyer, and their collision |
| `MC*` | the instances for TLC |
| `*Proofs` | theorems for TLAPS |

**ActionBuffer.** `kind[s]` and `arg[s]` are the two bytes of slot `s`;
`Free` is `$ff`.  `Fetch`, `ClearKind`, `ReadArg`, `ClearArg`, `Advance` and
`Run` are the main loop's loads and stores in their order (691-767);
`AddEvent` is a whole call of `L_ADD_EVENT`, which no interrupt can divide.
`sent` is a ghost: the accepted events not yet run.

**Credits.** `Interrupt(coin, buttons)` is one run of the handler: the coin
check, then the routine of the game state.  `coins`, `credits`, `granted` and
`started` are ghosts that count what went in and what was spent.

**GameFlow.** One action per substate routine, named after it.  Routines wait
for `MINOR_TIMER` or `MAJOR_TIMER` (`rst $18`, `rst $20`); the frames they wait
are stuttering steps.  Records `saved[P1]`, `saved[P2]`, `cp` are `P1_DATA`,
`P2_DATA`, `CP_DATA`; pointers into the stage order table are indices, and the
lagging copy, of which only the low byte is ever compared, is an index too.
What happens during a stage is its outcome: `MarioDies` or `StageWon`.
`reached` says whose score has come to the bonus threshold, `toZero` which
`L_ZERO_SCORES` events are in the action buffer.  `unnamed` counts the entries
of the high score table that still carry a player's mark.  `deaths` and
`lastDead` are ghosts.  `AwardBonusLife` is one step: the routine takes a small
part of a frame, and the score it looks at last changes at least 64 frames
before `CP_DATA` is saved, so the interrupt that saves it does not fall
between its two stores (see section 6).

**Scores.** `AwardPoints` adds four bytes with `daa` as the code does, the
last one where the pointers have moved to, then compares and copies the high
score the way the pointers stand.

**HighScores.** The code puts a new score behind the table and exchanges it
upwards until it meets a higher one; `EntryAfter` gives what each entry is
after that: itself if the loop did not come so far (`Passes`), the one before
it, or the new one.  `EntryFrame` is one call of
`L_IMPLEMENT_HS_INITIAL_ENTRY`.  `owner` is a ghost.  `GameFlow` uses
`PendingNames` in place of the table, and `HighScores` implements it.

**StageTimer.** `Frame` is what one frame does to the timers, in the order
l2c8f (barrels), win, l1a07, l2fcb (other stages); `ProcessTimer` is the main
loop at one event.  Other deaths only end the stage and are left out.

**Elevators.** `RunElevators` is a frame: what Mario does on his own
(`MarioMoves`: stay, land on a platform, jump off, walk off the column), then
`L_IMPLEMENT_ELEVATORS` (9447-9491), which moves the platforms in odd frames
and Mario in even ones.  `Trip` is how far a platform has come since it was
spawned.  `under`, the platform he stepped on, is a ghost.

**SecretElevators.** `RunSecretStage` is a frame: the sprite of the last award
is hidden, the elevators move (9717-9848), a trigger may be reached.  `lost` is
a ghost that counts the moves an elevator missed.

**RetractingLadder.** `LadderNext` is a frame: Mario's part (`ClimberMoves`,
6790-7249), then, every second frame, one of the four handlers of the ladder
(8232-8463).  The ghost `drawn` says whether the ladder has moved Mario since
`$6222` last fitted his row.  Nobody is followed who has climbed past an end
(`Followed`; see the finding `ladder_missed`).

**Awards.** `GameFrame` takes every combination of a jump, a rivet, a prize, a
hit, a death and a win that one frame can bring, in the order of `L_RUN_GAME`;
`SmashFrame` is a frame of `L_CHECK_FOR_SMASH_ANIM`; `AnimationFrame` one of an
animation that still pays.  `owed`, `killed` and `paid` are ghosts.  A second
award of one frame replaces the first.  A hit in the frame of Mario's death or
of a win, and an award of the frame of a win other than by rivets, are lost:
the code never gets back to them, and `owed` and `killed` start anew with the
stage (`AwardsAgain`).

**Barrels.** `BarrelFrame` is a frame: barrels that have rolled away free their
structures (a free choice), l2c8f takes, holds or lets go a barrel, l2c03
decides about the next.  **Fireballs.** `Updated` is the pass of
`L_SPAWN_FIREBALLS` through the five places; the other actions are what changes
places, trigger and difficulty in between.  **Pies.** `PieFrame` releases and
moves pies, moves the conveyer and Mario, and looks for a collision.

Operators marked *faulty variant* in the modules are not part of any
specification.  Each is a definition with a plausible mistake in it, and
`PROJECT.json` says which property notices when it takes the place of the
right one.

## 3. Runs

| run | instance | what it shows |
|---|---|---|
| `action_buffer` | 3 slots, 2 events, 2 arguments | events run in order (`KindsIntact`), each with its argument unless a slot is reused while its argument is being taken (`ArgsIntact`); every event is run; the ring implements `EventQueue` |
| `credits` | all 8 coin settings, 25 coins | plays and coins are conserved, `NUM_PLAYS` never wraps, a start is always paid for, what is paid for is offered |
| `game` | cocktail cabinet, 3 lives; 1 player through 6 levels, 2 players through 1 | level, stage and pointer agree; lives conserved across switches; bonus lives only for earned scores; nobody plays without a life; turns alternate; selectors and the orientation of the screen agree; initials go to an entry of one's own; the game ends, the waiting player plays |
| `points` | 3 awards, entries 1, 3, 5, 8, five timers; levels 1-5 and 21, at most 3 ticks waiting | decimal sums with carry, scores of those who play are decimal; the screen never drifts from the timer that kills, after the end neither starts again |
| `high_scores` | 4 entries, scores 0-3 with ties, any number of games | the table stays in order; name, mark and score stay together; marks are unique and the search finds the right one; the entry of initials ends; `PendingNames` is implemented |
| `stages` | see the bounds | platforms keep their distance (`EvenlySpaced`) and one is always free in time (`SpawnsInTime`); a rider stands on his platform (`RidesOnTop`); secret elevators stay on their diamond (`StaysOnDiamond`); a trigger takes one bar (`BarsMatchTriggers`); only a climber whom a retracting ladder has moved misses one of its ends (`OnlyDrawnMissEnds`); the slot holds what was earned (`OwedIsPending`), prizes are paid once (`PrizePaidOnce`), hits are paid for (`KillSettled`); Donkey Kong holds one barrel, of the type asked for (`HoldsOneBarrel`), and lets it go (`EveryBarrelThrown`); an oil barrel is missed only when all structures are in use (`OilMissedOnlyWhenFull`); no more fireballs than the difficulty (`WithinDifficulty`) |

The parts of `MCStages` have no variable in common (the code keeps them apart
too, except for Mario's coordinates, which each part chooses freely), and so
have those of `MCPoints`; the run takes one part at a time, from the initial
states of all.

Six runs end in a violation; each is a disagreement between the code and its
own comments (listed under `findings`):

* `height_secret_death`: after a death in the secret stage of a two-player
  game the stage before it comes back with the secret stage's height.  The
  same property also fails from level 5 on, after a death in the sixth stage:
  the index is limited before it is raised (2900-2916).
* `score_points`: the point table has one byte an entry (13006-13046), but
  `L_AWARD_POINTS` still adds three bytes of it, adds a fourth into the other
  player's score, and compares the wrong bytes with the high score, which can
  fall.  The conversion is half done.  `PointsAsDocumented` states the contract
  in three conjuncts; each of them fails.
* `stage_timer_levels`: at level 22 the product wraps and the timer is 4.
* `secret_elevator_drift`: when Mario walks off the edge of a secret elevator,
  the code that makes him fall returns in place of moving that elevator, which
  is out of step with the other from then on.
* `ladder_missed`: the ends of a ladder are compared with Mario's row for
  equality, at every second step.  A ladder that goes down draws him with it by
  single rows and leaves `$6222` as it is, until he is at its lower part; from
  where he is then a comparison misses the end and he climbs on beyond it.
  Neither odd input nor a long wait is needed: it also happens to a player who
  only ever presses up, when the last rows of the ladder bring him to row 104
  and no further move of it sets `$6222`.  The bug needs the program's waits:
  with a wait much shorter than a climb of 16 rows nobody is ever on the upper
  part when it leaves, and the model shows nothing.
  `OnlyDrawnMissEnds` (in `stages`, and proved) says what is true of the ends.
* `pie_collision`: the routine sets one byte of the size of a pie's data and
  has the other from a jump, so that only the first pie is looked at.

Three comments are wrong without any effect on behaviour: those on
`INTRO_NOT_DISPLAYED` (vars+.h:222 and 2514) say the opposite of what the flag
means, and entry 16 of the point table is called 001500.  Line 5920 stores
`hl` into the one byte `CP_STAGE_ORDER_POINTER_LAG`; the high byte goes to
`$6230`, which nothing uses by name, so the models leave it out.

### Bounds

* `NSlots = 3` in place of 32: fills, wraps and is reused while the main loop
  stands between any two steps.  The proofs hold for every number.
* `MaxCoins = 25`: four plays a coin pass the limit of 90.
* `ByteSize = 8` in place of 256 in `GameFlow`: lives go to 4, and one below 0
  is 7.  `MaxLevel` limits the levels begun: 6 lets the pointer go round in the
  last order; with two players 1 is enough, since the level plays no part in
  the turns.  The cabinet is a cocktail one, where the picture turns; the
  theorems hold for both.
* `NEntries = 4` in place of 5, `NLetters = 2` in place of 28, and time for
  eight inputs: enough to type too many letters, or to get to RUB and back.
  The proofs hold for any number of entries.
* `MaxAwards = 3`: two awards bring a carry, the third is checked with it.
* `Grace = 4` in place of 256 frames, `MaxLate = 8` ticks after the end (ticks
  are at least 40 frames apart, so fewer than 255 fit before Mario lands),
  `MaxPending = 3` ticks in the buffer.  Deadlock is not checked in `points`:
  a stage ends and its clock with it.
* `Elevators` has the program's six platforms, rows and delay.
* `SecretElevators` has its coordinates, 24 moves a side and 16 frames of rest,
  with 2 triggers of 4 and one walk-off (`MaxWalkOffs`): two triggers reverse
  in any two frames, also twice before one corner.
* `RetractingLadder` has the program's rows, delays and waits, those of the
  right ladder (16 moves at first, 128 later); the left one moves in the other
  frames and waits 256 moves first.
* `Awards`: 2 prizes (a second one while the first is shown), 2 rivets of 8,
  and 8 frames of display in place of 64, so that awards fall into, and after,
  the display of others.
* `Barrels`: 3 structures of 10, a timer of 12 in place of 50-80 (two oil
  barrels come due), 6 frames between gestures in place of 24.
* `Fireballs` has the program's five places and difficulties.
* `Pies` has the program's six pies and timers, with Mario on the right of the
  bottom conveyer; the run ends at the first contact that is missed.

### Fairness

* `ActionBuffer`: weak fairness of the main loop, which always runs on after
  an interrupt.  The handler owes nothing.
* `Credits`: weak fairness of the interrupt, which the video hardware raises.
  Buttons and coins are free choices inside it.
* `GameFlow`: weak fairness of `GamePlay`: every timer a routine waits for
  runs down, and a stage ends at the latest with its timer.  Nothing is assumed
  of coins, buttons, or whether Mario wins.
* `HighScores`: weak fairness of the routines of the end of a game, which the
  interrupt runs in every frame whatever the buttons do.
* `Awards`, `Barrels`: weak fairness of `SmashFrame` and of `BarrelFrame`: the
  interrupt runs a frame of the stage.  Whether the stage ends is left open.

## 4. What is proved

All theorems are checked by TLAPS to the last leaf, from the named assumptions
on the constants only (in each module behind its CONSTANTS).

* **ActionBufferProofs**, for any number of slots.  The inductive invariant
  `RingInv` says that the used slots are the circular interval from the oldest
  event to the write position, that the event being worked on is the one
  fetched, and that the ghost sequence is the event in flight followed by the
  used slots.  That the slots have no hole (`RingShape`) is not inductive alone,
  since the slot at the read position must be known to be in use when it is
  cleared.  From it:
  `TypeCorrect`, `RingHasNoHoles`, `DropsOnlyWhenFull`, `EventsRunInOrder`,
  `WaitingEventsUntouched`, and `RingImplementsQueue` (initial states map to
  initial states, every step to a step of the queue or a stutter).
  `EventsKeepTheirArgs` needs a second invariant, `SentMatchesArgs`.  The main
  loop frees a slot with its first store of `$ff` and reads and clears the
  argument after it.  An interrupt in between that fills the buffer puts its
  event into that slot (`ReuseFills`), and an argument is lost.  The ghosts
  `torn` and `runTorn` mark the two events this can happen to, the one that
  fills the buffer and the one being taken; the invariant says that every other
  event has the argument of its place in the ghost sequence, whether the buffer
  has been full before or not, and that an event in the slot being cleared is
  marked.
* **BcdProofs**: `daa` arithmetic is decimal arithmetic, for all bytes.
* **CreditsProofs**, for any set of coin settings and any number of coins:
  `PlaysAlwaysConserved`, `CoinsAlwaysConserved`, `StartAlwaysPaidFor`.
* **HighScoresProofs**, for any number of entries and any scores.  `TableInv`
  is inductive: order, `NamesAreOwners`, one entry per mark, and `Turns`, which
  says when a player may have an entry that waits (not before his game is over
  and not after the initials).  From it `TableAlwaysSorted`,
  `NamesAlwaysOwners`, `MarksAlwaysUnique`, `FoundAlwaysMarked`,
  `PlacesNeverFall`.  `Insertion` states what the loop does to one entry.
  `TableImplementsCounts`: under the mapping that counts the entries with a
  player's mark, every step is one of `PendingNames` or a stutter.  The counts
  are 0 or 1 by the invariant (`CountsMatch`), and an insertion that marks no
  entry leaves the table as it is (`EntersOrNothing`).
* **GameFlowProofs**, for any number of lives a byte can hold with one to spare,
  any bound on the levels, any set of cabinets and start buttons.  The point is
  a test the code does not make: after a death of player 1 it goes on to
  player 2 (4700-4709) without looking at his lives.  `TurnInv` carries the
  reason.  `Rounds`: while player 1 lives he is never more than one death ahead
  of player 2.  `LivesConserved`: lives are what the DIP switches give, plus at
  most one bonus life, minus deaths.  Together, when player 2 is out player 1
  has at most one life, so his next death ends his game.  `SomeoneLives` is the
  conclusion in inductive form, `AbsentHasNoLives` and `PlayerOfRoutine` cover
  one-player games, `EntriesOfPlayers` the initials.  Theorems:
  `LivesAlwaysConserved`, `NobodyPlaysWithoutALife`, `TurnsAlwaysAlternate`,
  `SelectorsAlwaysAgree` (with the orientation of the screen).  On top of it
  three invariants inductive relative to `TurnInv`: `OrderInv` says that the
  stage order pointer of every player in the game, loaded or saved, fits his
  level and that only stages other than the rivets lead to the secret stage
  (from it `LevelAlwaysMatchesOrder`; `LevelOfPointer` and `NextStage` are the
  lemmas about the table); `BonusAlwaysEarned`; and `EntryAlwaysThere`.
* **PointsProofs.**  For any awards and any play, `PlayedScoresStayDecimal`:
  `ScoresInv` adds (`ZeroedOrDecimal`) that once a game is paid for the score of
  each of its players is decimal or about to be zeroed.  `AwardsAddUp` takes three bytes of `add`, `adc` and
  `daa` together (`AddPointsScore`, from the lemmas of `BcdProofs`): the sum of
  the decimal numbers, modulo 1000000.  For any ticks under way and any stage
  end, `TheEndIsFinal` and `ScreenFollowsTimer`.  The latter has a hypothesis:
  the levels' timers are of 50, 60, 70 and 80.  `TimersUpTo21` proves it of
  levels 1 to 21; for level 22 it is false, and so is the property, as the run
  `stage_timer_levels` shows.
* **MachineryProofs**, elevators.  For any set of platforms, any shaft and any
  delay, `PlatformsAlwaysSpaced`: spacing alone is not inductive, since a
  platform spawned has trip 0 and needs the others to be a delay away;
  `SpacingInv` adds `RoomForNext`, that every active platform has come at least
  as far as the spawn timer has counted.  `AlwaysSpawnsInTime` then counts: active
  platforms have trips a delay apart, within the length of both columns
  (`ShaftInv`), so that with one more platform than fits (`EnoughPlatforms`) one
  is free (`OneIsFree`: the function from a platform to the delays it has come is
  one-to-one into fewer numbers).  `AlwaysRidesOnTop`: `RideInv` says where Mario
  is above his platform in odd and in even frames; that the code finds the same
  platform again, by its row alone, needs the spacing, and that he dies before
  the end of the column takes the platform away needs `DeadlyEnds`, that the rows
  at which a ride kills are inside the shaft.
* **MachineryProofs**, secret elevators.  For any diamond that fits the screen,
  `AlwaysOnDiamond`: `MotionInv` says with `AlongX`, `AlongY` where quadrant,
  direction and moves put an elevator; `CornersMeet` is the lemma about the end
  of a quadrant, with a reversal or without.  For any set of triggers,
  `BarsAlwaysMatch`.
* **MachineryProofs**, ladders.  For any waits, `OnlyDrawnClimbPast` and
  `DownIsBlocked`.  `LadderInv`: for a climber who was not moved `StepFits`: his row
  modulo 4 is twice the bit `$6222` (`StepOfRow`: two rows change both), which at
  both ends means that the comparison is due; `BitOfRow` shows that what
  `L_LADDER_STATE_1` makes of a row is this bit.  Who is not climbing has it 0.
* **EnemiesProofs.**  `FireballsWithinDifficulty`: the count is compared for
  equality, so the invariant is about places: on the mixer stage none beyond
  the one numbered by the difficulty is in use.  `AlwaysHoldsOneBarrel`, for any
  number of structures, any timer and pause: `BarrelInv` adds (`ReadyToTake`) that he
  is ready for the next: all of the drawing data is there and a request brings
  more than one gesture, so that a barrel is not let go in the frame in which it
  is taken.  From the same invariant, and because the search finds the first free
  structure if there is one (`SearchEnds`), `OilWaitsForRoom`.  For any prizes, any
  number of rivets and any display time, `AwardsInv` joins the slot to what is
  owed, and says (`SmashInv`) what the animation of a hit has done with the type
  of the slot: from its second frame on it is that of the enemy hit.  From it
  `OwedAlwaysPending` and `PrizesPaidOnce`.

`DropsOnlyWhenFull`, `WaitingEventsUntouched`, `PlacesNeverFall` and
`DownIsBlocked` (nobody climbs with the way up open while the upper part of the
ladder is away) state
properties that have no run of their own.

## 5. Only model-checked

Every invariant and every action property of the passing runs is proved.
Liveness (`EventuallyRun`, `EntryEnds`, `PaidIsOffered`, `GameEnds`,
`WaitingPlayerPlays`, `KillSettled`, `EveryBarrelThrown`, and the liveness part
of `ImplementsQueue`) is out of the prover's reach and rests on the runs, with
their bounds.  So do the six violations, which are counterexamples.

## 6. Not modelled

The program is its assembler source: `dkong+.asm` and the two files of names it
includes.  The C and C++ files of the repository, by far the larger part of its
lines, are a converter of recorded video with third-party libraries, which no
part of the game uses; none of them is modelled.  Of the game are left out: the
coordinates of walking, jumping and falling, of rolling barrels, fireballs and
springs against the tables of platforms; the swing of the hammers; the digits in
the high score table, sounds, tiles and palettes; the sequences of sprites of
the introduction and of a win; the demonstration's input table; the test switch
that restarts the machine (189-191); and memory beyond the variables named.
`PROJECT.json` lists every component with the reason.

Two hazards have no property: the two stores of `L_AWARD_BONUS_LIFE` (870-872)
and the end of the demonstration's input table (8201).  The first would need a
model with frames and single stores of the main loop; the model takes the
routine as one step for the reason given under `GameFlow`.

## 7. What could follow

1. `TurnOrder`: an abstract game of two players that take turns, implemented by
   `GameFlow` under a refinement mapping.
2. `BonusLife`: the routine of 839-873 store by store against the interrupt,
   with the frames that separate scoring from the saving of `CP_DATA`.
3. The state of a jump, springs and hammers, over an abstract table of
   platforms.
4. A ladder that is right: `$6222` set to fit the row at the last move of the
   ladder too, with the proof that `ClimbStaysOnLadder` then holds, as a check
   of a correction of the program.
