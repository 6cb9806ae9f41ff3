----------------------------- MODULE HighScores -----------------------------
(***************************************************************************)
(* The high score table and the screen on which the initials are entered:  *)
(* L_ADD_SCORE_TO_HS_TABLE at the end of each player's game,               *)
(* L_CHECK_FOR_HS_INITIALS and L_IMPLEMENT_HS_INITIAL_ENTRY (one step is   *)
(* one frame) when the games of all players are over.  A name is reduced   *)
(* to who typed it, the tiles of the screen to letter or no letter.        *)
(***************************************************************************)
EXTENDS Integers, FiniteSets

CONSTANTS NEntries,  \* entries of the table (5 in the code)
          Points,    \* the scores of the model
          Default,   \* the scores of L_DEFAULT_HIGH_SCORE_DATA
          NLetters,  \* characters to choose from (28), before RUB and END
          Seconds,   \* INITIALS_TIMER_VALUE at the start (30)
          Delay,     \* frames it shows each value (62)
          Repeat     \* JOYSTICK_INPUT_DELAY (10)

ASSUME NEntriesAssumption == NEntries \in Nat \ {0}
ASSUME PointsAssumption   == Points \subseteq Nat
ASSUME DefaultAssumption  ==
  /\ Default \in [1 .. NEntries -> Points]
  /\ \A i \in 2 .. NEntries : Default[i - 1] >= Default[i]
ASSUME TimesAssumption    ==
  /\ NLetters \in Nat \ {0} /\ Seconds \in Nat \ {0}
  /\ Delay \in Nat \ {0} /\ Repeat \in Nat \ {0}

VARIABLES phase,    \* "attract", "play", "check" (substate 20), "entry" (21)
          two,      \* TWO_PLAYERS
          over,     \* the players whose game is over
          table,    \* HIGH_SCORE_TABLE; owner is a ghost: whose score it is
          up,       \* SECOND_PLAYER
          started,  \* MINOR_TIMER, 0 when the screen has just come up
          pos,      \* the entry PLAYER_ID_ADDRESS points to
          editor    \* what is typed, and the timers, see Begin

vars == <<phase, two, over, table, up, started, pos, editor>>

P1 == 0
P2 == 1
Players == {P1, P2}
Nobody == 2
NoName == 3
Mark(p) == 2 * p + 1   \* the player ID in an entry, 0 if it needs no name

NameLength == 3
Rub == NLetters
End == NLetters + 1

(* The editor when the screen comes up.  The cursor is INITIALS_COORD; the *)
(* three places show a dash.                                               *)
Begin == [selected |-> 0, cursor |-> 1, tiles |-> [k \in 1 .. NameLength |-> "-"],
          timer |-> Seconds, delay |-> Delay, stick |-> Repeat]

Init == /\ phase = "attract" /\ two = 0 /\ over = {}
        /\ table = [i \in 1 .. NEntries |->
                      [score |-> Default[i], id |-> 0, name |-> Nobody, owner |-> Nobody]]
        /\ up = P1 /\ started = 0 /\ pos = 1 /\ editor = Begin

StartGame(n) == /\ phase = "attract"
                /\ phase' = "play" /\ two' = n - 1 /\ over' = {}
                /\ UNCHANGED <<table, up, started, pos, editor>>

-----------------------------------------------------------------------------
(* L_ADD_SCORE_TO_HS_TABLE.  The new entry is put behind the table and is  *)
(* exchanged with the entry before it until it meets a higher score.       *)

(* Faulty variant: the entry it meets is not looked at. *)
PassesNext(s, i) == \A j \in i + 1 .. NEntries : table[j].score <= s

Passes(s, i) == \A j \in i .. NEntries : table[j].score <= s

(* Faulty variant: a byte too few is exchanged, the mark stays behind. *)
MovedDownUnmarked(i) == [table[i - 1] EXCEPT !.id = table[i].id]

(* What an entry becomes when the one before it is exchanged downwards. *)
MovedDown(i) == table[i - 1]

(* Faulty variant: a place is filled again with every exchange. *)
EntryAfterOverwritten(s, i, new) == IF Passes(s, i) THEN new ELSE table[i]

EntryAfter(s, i, new) == IF ~Passes(s, i) THEN table[i]
                         ELSE IF i > 1 /\ Passes(s, i - 1) THEN MovedDown(i)
                         ELSE new

AddScoreToHsTable(p, s) ==
  LET new == [score |-> s, id |-> Mark(p), name |-> NoName, owner |-> p]
  IN  table' = [i \in 1 .. NEntries |-> EntryAfter(s, i, new)]

GameOver(p, s) ==
  /\ phase = "play" /\ p <= two /\ p \notin over
  /\ AddScoreToHsTable(p, s)
  /\ over' = over \cup {p}
  /\ phase' = IF Cardinality(over') = two + 1 THEN "check" ELSE "play"
  /\ UNCHANGED <<two, up, started, pos, editor>>

-----------------------------------------------------------------------------
(* L_CHECK_FOR_HS_INITIALS *)

Waiting(p) == \E i \in 1 .. NEntries : table[i].id = Mark(p)

(* Faulty variant: nobody looks for player 2. *)
NextToNameIsP1(p) == p = P1 /\ Waiting(P1)

NextToName(p) == Waiting(p) /\ (p = P2 => ~Waiting(P1))

CheckForHsInitials(p) ==
  /\ phase = "check" /\ NextToName(p)
  /\ up' = p /\ started' = 0
  /\ phase' = "entry"
  /\ UNCHANGED <<two, over, table, pos, editor>>

RestartGame ==
  /\ phase = "check" /\ \A p \in Players : ~NextToName(p)
  /\ up' = P1
  /\ phase' = "attract"
  /\ UNCHANGED <<two, over, table, started, pos, editor>>

-----------------------------------------------------------------------------
(* L_IMPLEMENT_HS_INITIAL_ENTRY *)

(* Faulty variant: one entry less is searched. *)
SearchedShort == 1 .. NEntries - 2

(* The search looks at all entries but the last, and takes that one if the *)
(* mark is not among them.                                                 *)
Searched == 1 .. NEntries - 1
FoundAt(p) ==
  LET hits == {i \in Searched : table[i].id = Mark(p)}
      behind == Cardinality(Searched) + 1
  IN  IF hits = {} THEN behind ELSE CHOOSE i \in hits : \A j \in hits : i <= j

(* Faulty variant: the value of the timer stays. *)
TickForever(e) == [e EXCEPT !.delay = IF @ = 1 THEN Delay ELSE @ - 1]

Tick(e) == [e EXCEPT !.delay = IF @ = 1 THEN Delay ELSE @ - 1,
                     !.timer = IF e.delay = 1 THEN @ - 1 ELSE @]

(* The joystick moves the selection when its delay has run down. *)
Moved(e, stick) ==
  IF stick = "none" THEN [e EXCEPT !.stick = 1]
  ELSE IF e.stick > 1 THEN [e EXCEPT !.stick = @ - 1]
  ELSE [e EXCEPT !.stick = Repeat,
                 !.selected = IF stick = "right" THEN (@ + 1) % (NLetters + 2)
                              ELSE IF @ = 0 THEN End ELSE @ - 1]

Rubbed(e) == LET c == IF e.cursor = 1 THEN 1 ELSE e.cursor - 1
             IN  [e EXCEPT !.cursor = c, !.tiles[c] = " "]

Typed(e) == IF e.cursor > NameLength THEN e
            ELSE [e EXCEPT !.cursor = @ + 1, !.tiles[e.cursor] = "A"]

Pressed(e) == LET f == [e EXCEPT !.stick = Repeat]
              IN  IF e.selected = Rub THEN Rubbed(f) ELSE Typed(f)

(* The entry gets its name and the mark is taken off; back to the check. *)
Register(p, i) ==
  /\ table' = [table EXCEPT ![i].id = 0, ![i].name = p]
  /\ phase' = "check"

EntryFrame(button, stick) ==
  /\ phase = "entry"
  /\ LET e == Tick(IF started = 0 THEN Begin ELSE editor)
     IN  /\ pos' = IF started = 0 THEN FoundAt(up) ELSE pos
         /\ started' = 1
         /\ IF e.timer = 0 \/ (button /\ e.selected = End)
              THEN Register(up, pos') /\ editor' = e
              ELSE /\ editor' = IF button THEN Pressed(e) ELSE Moved(e, stick)
                   /\ UNCHANGED <<table, phase>>
  /\ UNCHANGED <<two, over, up>>

EndOfGame == \/ \E p \in Players : CheckForHsInitials(p)
             \/ RestartGame
             \/ \E button \in BOOLEAN, stick \in {"none", "left", "right"} : EntryFrame(button, stick)

Next == \/ \E n \in {1, 2} : StartGame(n)
        \/ \E p \in Players, s \in Points : GameOver(p, s)
        \/ EndOfGame

(* The interrupt runs the routines of the end of the game in every frame. *)
Spec == Init /\ [][Next]_vars /\ WF_vars(EndOfGame)

-----------------------------------------------------------------------------
(* The insertion, which compares from the bottom and stops at the first    *)
(* higher score, keeps the table in order.                                 *)
Sorted == \A i \in 2 .. NEntries : table[i - 1].score >= table[i].score

(* An entry and its name stay together however entries are exchanged:      *)
(* every entry is named by the player whose score it is, or carries his    *)
(* mark and waits for it.                                                  *)
NamesAreOwners ==
  \A i \in 1 .. NEntries :
     IF table[i].id = 0 THEN table[i].name = table[i].owner
     ELSE table[i].id = Mark(table[i].owner) /\ table[i].name = NoName

(* No player has two entries waiting, and none is left over from an        *)
(* earlier game when a new one starts: the search for his mark would find  *)
(* the wrong one.                                                          *)
MarksUnique ==
  /\ \A i, j \in 1 .. NEntries : table[i].id # 0 /\ table[i].id = table[j].id => i = j
  /\ phase = "attract" => \A p \in Players : ~Waiting(p)

(* The search, which never looks at the mark of the last entry, ends at    *)
(* the entry of the player who is up.                                      *)
FoundIsMarked == phase = "entry" /\ started = 1 => table[pos].id = Mark(up)

(* No place of the table is ever held by a lower score than before. *)
NoPlaceFalls == [][\A i \in 1 .. NEntries : table'[i].score >= table[i].score]_vars

(* The timer ends the entry of initials whatever is done with the buttons. *)
EntryEnds == phase = "check" ~> phase = "attract"

(* The table implements the counts that GameFlow works with. *)
Names == INSTANCE PendingNames WITH
           unnamed <- [p \in {0, 1} |-> Cardinality({i \in 1 .. NEntries : table[i].id = Mark(p)})]
ImplementsPendingNames == Names!Spec
=============================================================================
