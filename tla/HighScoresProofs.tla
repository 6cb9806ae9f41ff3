--------------------------- MODULE HighScoresProofs -------------------------
(***************************************************************************)
(* The order of the high score table, and the entries that wait for their  *)
(* names, for any number of entries and any scores.                        *)
(***************************************************************************)
EXTENDS HighScores, FiniteSetTheorems, WellFoundedInduction, TLAPS

Rows == 1 .. NEntries
Row == [score : Nat, id : {0, 1, 3}, name : {0, 1, 2, 3}, owner : {0, 1, 2}]

Shape == /\ table \in [Rows -> Row]
         /\ phase \in {"attract", "play", "check", "entry"}
         /\ up \in Players /\ started \in {0, 1}

(* A player whose game is not over has no entry that waits yet; the player *)
(* who is up for his initials has one, and it is the one that was found.   *)
Turns == /\ phase = "attract" => \A p \in Players : ~Waiting(p)
         /\ phase = "play" => \A p \in Players \ over : ~Waiting(p)
         /\ phase = "entry" => Waiting(up)
         /\ phase = "entry" /\ started = 1 => pos \in Rows /\ table[pos].id = Mark(up)

OneMarkEach == \A i, j \in Rows : table[i].id # 0 /\ table[i].id = table[j].id => i = j

TableInv == Shape /\ Sorted /\ NamesAreOwners /\ OneMarkEach /\ Turns

LEMMA InitTable == Init => TableInv
<1> SUFFICES ASSUME Init PROVE TableInv
  OBVIOUS
<1>1. /\ \A i \in Rows : /\ table[i].score = Default[i] /\ table[i].id = 0
                         /\ table[i].name = Nobody /\ table[i].owner = Nobody
      /\ table \in [Rows -> Row]
  BY DefaultAssumption, PointsAssumption DEF Init, Rows, Row, Nobody
<1>2. Sorted
  BY <1>1, DefaultAssumption, NEntriesAssumption DEF Sorted, Rows
<1>3. phase = "attract" /\ up \in Players /\ started \in {0, 1}
  BY DEF Init, Players
<1>4. \A p \in Players : ~Waiting(p)
  BY <1>1 DEF Waiting, Players, P1, P2, Mark, Rows
<1>5. Shape /\ OneMarkEach /\ NamesAreOwners
  BY <1>1, <1>3 DEF Shape, OneMarkEach, NamesAreOwners, Rows
<1>6. Turns
  BY <1>3, <1>4 DEF Turns
<1> QED BY <1>2, <1>5, <1>6 DEF TableInv

(* The three things an entry can become.  The entries passed are the last  *)
(* ones; the new one takes the first of their places.                      *)
LEMMA Insertion ==
  ASSUME TableInv, NEW p \in Players, NEW s \in Nat, AddScoreToHsTable(p, s),
         NEW i \in Rows
  PROVE  /\ ~Passes(s, i) => table'[i] = table[i]
         /\ Passes(s, i) /\ i > 1 /\ Passes(s, i - 1) => table'[i] = table[i - 1]
         /\ Passes(s, i) /\ (i = 1 \/ ~Passes(s, i - 1)) =>
              table'[i] = [score |-> s, id |-> Mark(p), name |-> NoName, owner |-> p]
         /\ Passes(s, i) => table[i].score <= s
         /\ i > 1 /\ Passes(s, i) /\ ~Passes(s, i - 1) => table[i - 1].score > s
         /\ \A j \in Rows : i <= j /\ Passes(s, i) => Passes(s, j)
<1>1. table'[i] = EntryAfter(s, i, [score |-> s, id |-> Mark(p), name |-> NoName, owner |-> p])
  BY DEF AddScoreToHsTable, Rows
<1>2. \A j \in Rows : i <= j /\ Passes(s, i) => Passes(s, j)
  BY NEntriesAssumption DEF Passes, Rows
<1>3. Passes(s, i) => table[i].score <= s
  BY NEntriesAssumption DEF Passes, Rows
<1>4. ASSUME i > 1, Passes(s, i), ~Passes(s, i - 1) PROVE table[i - 1].score > s
  <2>1. PICK j \in i - 1 .. NEntries : ~(table[j].score <= s)
    BY <1>4 DEF Passes
  <2>2. j = i - 1
    BY <1>4, <2>1, NEntriesAssumption DEF Passes, Rows
  <2>3. table[j].score \in Nat
    BY <1>4, <2>2, NEntriesAssumption DEF TableInv, Shape, Row, Rows
  <2> QED BY <2>1, <2>2, <2>3
<1> QED BY <1>1, <1>2, <1>3, <1>4, NEntriesAssumption DEF EntryAfter, MovedDown, Rows

LEMMA AddKeepsOrder ==
  ASSUME TableInv, NEW p \in Players, NEW s \in Nat, AddScoreToHsTable(p, s)
  PROVE  /\ Sorted'
         /\ \A i \in Rows : table'[i].score >= table[i].score
<1> DEFINE New == [score |-> s, id |-> Mark(p), name |-> NoName, owner |-> p]
           Pass(i) == Passes(s, i)
<1>0. \A i \in Rows :
        /\ ~Pass(i) => table'[i] = table[i]
        /\ Pass(i) /\ i > 1 /\ Pass(i - 1) => table'[i] = table[i - 1]
        /\ Pass(i) /\ (i = 1 \/ ~Pass(i - 1)) => table'[i] = New
        /\ Pass(i) => table[i].score <= s
        /\ i > 1 /\ Pass(i) /\ ~Pass(i - 1) => table[i - 1].score > s
        /\ \A j \in Rows : i <= j /\ Pass(i) => Pass(j)
  BY Insertion
<1>00. New.score = s
  OBVIOUS
<1> HIDE DEF New, Pass
<1>1. \A i \in Rows : table[i].score \in Nat
  BY DEF TableInv, Shape, Row, Rows
<1>2. \A i \in 2 .. NEntries : table[i - 1].score >= table[i].score
  BY DEF TableInv, Sorted
<1>3. ASSUME NEW i \in 2 .. NEntries PROVE table'[i - 1].score >= table'[i].score
  <2>1. i \in Rows /\ i - 1 \in Rows /\ i > 1
    BY NEntriesAssumption DEF Rows
  <2>2. CASE ~Pass(i)
    BY <1>2, <2>1, <2>2, <1>0, <1>00
  <2>3. CASE Pass(i) /\ ~Pass(i - 1)
    <3>1. table'[i].score = s /\ table'[i - 1] = table[i - 1] /\ table[i - 1].score > s
      BY <2>1, <2>3, <1>0, <1>00
    <3> QED BY <1>1, <2>1, <3>1
  <2>4. CASE Pass(i - 1)
    <3>1. table'[i] = table[i - 1] /\ table[i - 1].score <= s
      BY <2>1, <2>4, <1>0, <1>00
    <3>2. CASE i - 1 = 1 \/ ~Pass(i - 2)
      <4>1. table'[i - 1].score = s
        BY <2>1, <2>4, <3>2, <1>0, <1>00, (i - 1) - 1 = i - 2
      <4>2. table[i - 1].score \in Nat /\ s >= table[i - 1].score
        BY <1>1, <2>1, <3>1
      <4>3. s >= table'[i].score
        BY <3>1, <4>2
      <4> QED BY <4>1, <4>3
    <3>3. CASE i - 1 > 1 /\ Pass(i - 2)
      <4>0. i - 1 \in 2 .. NEntries /\ (i - 1) - 1 = i - 2
        BY <3>3, NEntriesAssumption
      <4>1. table'[i - 1] = table[(i - 1) - 1]
        BY <2>1, <2>4, <3>3, <4>0, <1>0
      <4>2. table[i - 2].score >= table[i - 1].score
        BY <1>2, <4>0
      <4> QED BY <3>1, <4>0, <4>1, <4>2
    <3> QED BY <2>1, <3>2, <3>3 DEF Rows
  <2> QED BY <2>2, <2>3, <2>4
<1>4. ASSUME NEW i \in Rows PROVE table'[i].score >= table[i].score
  <2>1. CASE ~Pass(i)
    BY <1>1, <2>1, <1>0, <1>00
  <2>2. CASE Pass(i) /\ (i = 1 \/ ~Pass(i - 1))
    BY <1>1, <2>2, <1>0, <1>00
  <2>3. CASE Pass(i) /\ i > 1 /\ Pass(i - 1)
    <3>1. table'[i] = table[i - 1] /\ i \in 2 .. NEntries
      BY <2>3, <1>0, <1>00 DEF Rows
    <3> QED BY <1>2, <3>1
  <2> QED BY <2>1, <2>2, <2>3 DEF Rows
<1> QED BY <1>3, <1>4 DEF Sorted

(* A new entry comes with the only mark of its player, and the others keep *)
(* theirs.                                                                 *)
LEMMA AddKeepsMarks ==
  ASSUME TableInv, NEW p \in Players, NEW s \in Nat, AddScoreToHsTable(p, s), ~Waiting(p)
  PROVE  /\ table' \in [Rows -> Row]
         /\ NamesAreOwners' /\ OneMarkEach'
         /\ \A q \in Players : q # p /\ ~Waiting(q) => ~Waiting(q)'
<1> DEFINE New == [score |-> s, id |-> Mark(p), name |-> NoName, owner |-> p]
           Pass(i) == Passes(s, i)
           Stays(i) == ~Pass(i) /\ table'[i] = table[i]
           Moves(i) == Pass(i) /\ i > 1 /\ Pass(i - 1) /\ i - 1 \in Rows /\ table'[i] = table[i - 1]
           Enters(i) == Pass(i) /\ (i = 1 \/ ~Pass(i - 1)) /\ table'[i] = New
<1>1. \A i \in Rows : Stays(i) \/ Moves(i) \/ Enters(i)
  BY Insertion, NEntriesAssumption DEF Rows
<1>2. \A i, j \in Rows : i <= j /\ Pass(i) => Pass(j)
  BY Insertion
<1>3. /\ New \in Row /\ New.id = Mark(p) /\ New.owner = p /\ New.name = NoName
      /\ Mark(p) # 0 /\ \A q \in Players : q # p => Mark(q) # Mark(p)
  BY DEF Row, Mark, Players, P1, P2, NoName
<1>4. /\ table \in [Rows -> Row]
      /\ \A i \in Rows : table[i].id # Mark(p)
  BY DEF TableInv, Shape, Waiting, Rows
<1>5. table' \in [Rows -> Row]
  <2>1. \A i \in Rows : table'[i] \in Row
    BY <1>1, <1>3, <1>4
  <2>2. table' = [i \in Rows |-> table'[i]]
    BY DEF AddScoreToHsTable, Rows
  <2> HIDE DEF New, Pass, Stays, Moves, Enters
  <2> QED BY <2>1, <2>2
<1>6. NamesAreOwners'
  <2>1. \A i \in Rows : IF table[i].id = 0 THEN table[i].name = table[i].owner
                        ELSE table[i].id = Mark(table[i].owner) /\ table[i].name = NoName
    BY DEF TableInv, NamesAreOwners, Rows
  <2>2. \A i \in Rows : IF table'[i].id = 0 THEN table'[i].name = table'[i].owner
                        ELSE table'[i].id = Mark(table'[i].owner) /\ table'[i].name = NoName
    <3> SUFFICES ASSUME NEW i \in Rows
                 PROVE  IF table'[i].id = 0 THEN table'[i].name = table'[i].owner
                        ELSE table'[i].id = Mark(table'[i].owner) /\ table'[i].name = NoName
      OBVIOUS
    <3>1. CASE Stays(i)
      BY <2>1, <3>1
    <3>2. CASE Moves(i)
      BY <2>1, <3>2
    <3>3. CASE Enters(i)
      BY <1>3, <3>3
    <3> QED BY <1>1, <3>1, <3>2, <3>3
  <2> QED BY <2>2 DEF NamesAreOwners, Rows
<1>7. OneMarkEach'
  <2> SUFFICES ASSUME NEW i \in Rows, NEW j \in Rows, i < j,
                      table'[i].id # 0, table'[i].id = table'[j].id
               PROVE  FALSE
    BY DEF OneMarkEach, Rows
  <2>1. \A k, l \in Rows : table[k].id # 0 /\ table[k].id = table[l].id => k = l
    BY DEF TableInv, OneMarkEach
  <2>2. i \in Int /\ j \in Int /\ i <= j - 1
    BY DEF Rows
  <2>3. Pass(i) => Pass(j) /\ Pass(j - 1)
    BY <1>2, <2>2, NEntriesAssumption DEF Rows
  <2>4. CASE Enters(i)
    <3>1. table'[j].id = Mark(p)
      BY <1>3, <2>4
    <3>2. ~Stays(j) /\ ~Moves(j)
      BY <1>4, <3>1
    <3>3. Enters(j)
      BY <1>1, <3>2
    <3>4. j # 1 /\ Pass(j - 1)
      BY <2>2, <2>3, <2>4 DEF Rows
    <3> QED BY <3>3, <3>4
  <2>5. CASE Stays(i)
    BY <1>1, <1>3, <1>4, <2>1, <2>2, <2>5
  <2>6. CASE Moves(i)
    <3>1. i - 1 \in Rows /\ table'[i] = table[i - 1]
      BY <2>6
    <3>2. Moves(j)
      BY <1>1, <1>3, <1>4, <2>2, <2>3, <2>6, <3>1
    <3>3. j - 1 \in Rows /\ table'[j] = table[j - 1]
      BY <3>2
    <3>4. i - 1 = j - 1
      BY <2>1, <3>1, <3>3
    <3> QED BY <2>2, <3>4
  <2> QED BY <1>1, <2>4, <2>5, <2>6
<1>8. \A q \in Players : q # p /\ ~Waiting(q) => ~Waiting(q)'
  BY <1>1, <1>3 DEF Waiting, Rows
<1> QED BY <1>5, <1>6, <1>7, <1>8

(* The search ends at the marked entry although it leaves out the last.    *)
LEMMA SearchFinds ==
  ASSUME TableInv, NEW p \in Players, Waiting(p)
  PROVE  FoundAt(p) \in Rows /\ table[FoundAt(p)].id = Mark(p)
<1> DEFINE hits == {i \in Searched : table[i].id = Mark(p)}
<1>1. PICK k \in Rows : table[k].id = Mark(p)
  BY DEF Waiting, Rows
<1>2. \A i \in Rows : table[i].id = Mark(p) => i = k
  BY <1>1 DEF TableInv, OneMarkEach, Mark, Players, P1, P2
<1>3. Cardinality(Searched) + 1 = NEntries
  <2>1. 1 \in Int /\ NEntries - 1 \in Int
    BY NEntriesAssumption
  <2>2. Cardinality(1 .. NEntries - 1) = IF 1 > NEntries - 1 THEN 0 ELSE (NEntries - 1) - 1 + 1
    BY <2>1, FS_Interval
  <2> QED BY <2>2, NEntriesAssumption DEF Searched
<1>4. \A i \in Searched : i \in Rows /\ i \in Int
  BY NEntriesAssumption DEF Searched, Rows
<1>5. CASE hits = {}
  <2>1. k = NEntries
    BY <1>1, <1>5, NEntriesAssumption DEF Searched, Rows
  <2>2. FoundAt(p) = NEntries
    BY <1>3, <1>5 DEF FoundAt
  <2> QED BY <1>1, <2>1, <2>2
<1>6. CASE hits # {}
  <2>1. k \in hits /\ \A j \in hits : k <= j
    BY <1>2, <1>4, <1>6
  <2>2. FoundAt(p) = CHOOSE i \in hits : \A j \in hits : i <= j
    BY <1>6 DEF FoundAt
  <2>3. FoundAt(p) \in hits
    BY <2>1, <2>2
  <2> QED BY <1>4, <2>3
<1> QED BY <1>5, <1>6

LEMMA GameOverStep ==
  ASSUME TableInv, NEW p \in Players, NEW s \in Points, GameOver(p, s)
  PROVE  TableInv' /\ \A i \in Rows : table'[i].score >= table[i].score
<1>1. s \in Nat /\ AddScoreToHsTable(p, s) /\ p \notin over /\ phase = "play" /\ ~Waiting(p)
  BY PointsAssumption DEF GameOver, TableInv, Turns
<1>2. /\ Sorted' /\ \A i \in Rows : table'[i].score >= table[i].score
  BY <1>1, AddKeepsOrder
<1>3. /\ table' \in [Rows -> Row] /\ NamesAreOwners' /\ OneMarkEach'
      /\ \A q \in Players : q # p /\ ~Waiting(q) => ~Waiting(q)'
  BY <1>1, AddKeepsMarks
<1>4. phase' \in {"check", "play"} /\ over' = over \cup {p} /\ UNCHANGED <<up, started>>
  BY DEF GameOver
<1>5. Turns'
  BY <1>1, <1>3, <1>4 DEF Turns, TableInv
<1> QED BY <1>2, <1>3, <1>4, <1>5 DEF TableInv, Shape

LEMMA EntryStep ==
  ASSUME TableInv, NEW button, NEW stick, EntryFrame(button, stick)
  PROVE  TableInv' /\ \A i \in Rows : table'[i].score >= table[i].score
<1>1. phase = "entry" /\ Waiting(up) /\ up \in Players /\ UNCHANGED <<two, over, up>>
  BY DEF EntryFrame, TableInv, Turns, Shape
<1>2. /\ pos' = (IF started = 0 THEN FoundAt(up) ELSE pos) /\ started' = 1
      /\ \/ Register(up, pos')
         \/ UNCHANGED <<table, phase>>
  BY DEF EntryFrame
<1>3. pos' \in Rows /\ table[pos'].id = Mark(up)
  BY <1>1, <1>2, SearchFinds DEF TableInv, Turns, Shape
<1>4. \A i \in Rows : table[i].score \in Nat
  BY DEF TableInv, Shape, Row
<1>5. CASE UNCHANGED <<table, phase>>
  <2>1. \A p \in Players : Waiting(p)' <=> Waiting(p)
    BY <1>5 DEF Waiting
  <2>2. Turns'
    BY <1>1, <1>2, <1>3, <1>5, <2>1 DEF Turns
  <2>3. Shape' /\ Sorted' /\ NamesAreOwners' /\ OneMarkEach'
    BY <1>1, <1>2, <1>5 DEF TableInv, Shape, Sorted, NamesAreOwners, OneMarkEach
  <2> QED BY <1>4, <1>5, <2>2, <2>3 DEF TableInv
<1>6. CASE Register(up, pos')
  <2>1. /\ table \in [Rows -> Row] /\ phase' = "check"
        /\ table' = [table EXCEPT ![pos'].id = 0, ![pos'].name = up]
    BY <1>6 DEF Register, TableInv, Shape
  <2>2. /\ table'[pos'].score = table[pos'].score /\ table'[pos'].id = 0
        /\ table'[pos'].name = up /\ table'[pos'].owner = table[pos'].owner
        /\ \A i \in Rows : i # pos' => table'[i] = table[i]
        /\ table'[pos'] \in Row /\ table' \in [Rows -> Row]
    BY <1>1, <1>3, <2>1 DEF Row, Players, P1, P2
  <2>3. \A i \in Rows : table'[i].score = table[i].score
    BY <2>2
  <2>4. Sorted'
    BY <2>3, NEntriesAssumption DEF TableInv, Sorted, Rows
  <2>5. table[pos'].owner = up
    BY <1>1, <1>3 DEF TableInv, NamesAreOwners, Mark, Rows, Shape, Row, Players, P1, P2
  <2>6. NamesAreOwners'
    BY <2>2, <2>5 DEF TableInv, NamesAreOwners, Rows
  <2>7. OneMarkEach'
    BY <2>2 DEF TableInv, OneMarkEach
  <2> QED BY <1>1, <1>2, <1>4, <2>1, <2>2, <2>3, <2>4, <2>6, <2>7 DEF TableInv, Shape, Turns
<1> QED BY <1>2, <1>5, <1>6

LEMMA TableStep ==
  ASSUME TableInv, [Next]_vars
  PROVE  TableInv' /\ \A i \in Rows : table'[i].score >= table[i].score
<1>1. \A i \in Rows : table[i].score \in Nat
  BY DEF TableInv, Shape, Row
<1>2. ASSUME UNCHANGED <<table, over>>, phase' \in {"attract", "play", "check", "entry"},
             up' \in Players, started' \in {0, 1}, Turns'
      PROVE  TableInv' /\ \A i \in Rows : table'[i].score >= table[i].score
  BY <1>1, <1>2 DEF TableInv, Shape, Sorted, NamesAreOwners, OneMarkEach
<1>3. ASSUME NEW n \in {1, 2}, StartGame(n)
      PROVE  TableInv' /\ \A i \in Rows : table'[i].score >= table[i].score
  <2>1. \A p \in Players : Waiting(p)' <=> Waiting(p)
    BY <1>3 DEF StartGame, Waiting
  <2> QED BY <1>1, <1>3, <2>1 DEF StartGame, TableInv, Shape, Sorted, NamesAreOwners,
                                  OneMarkEach, Turns
<1>4. ASSUME NEW p \in Players, NEW s \in Points, GameOver(p, s)
      PROVE  TableInv' /\ \A i \in Rows : table'[i].score >= table[i].score
  BY <1>4, GameOverStep
<1>5. ASSUME NEW p \in Players, CheckForHsInitials(p)
      PROVE  TableInv' /\ \A i \in Rows : table'[i].score >= table[i].score
  <2>1. Waiting(p)' /\ up' = p
    BY <1>5 DEF CheckForHsInitials, NextToName, Waiting
  <2> QED BY <1>2, <1>5, <2>1 DEF CheckForHsInitials, Turns
<1>6. CASE RestartGame
  <2>1. \A p \in Players : ~Waiting(p)'
    BY <1>6 DEF RestartGame, NextToName, Waiting, Players, P1, P2, Mark
  <2> QED BY <1>2, <1>6, <2>1 DEF RestartGame, Turns, TableInv, Shape, Players
<1>7. ASSUME NEW button, NEW stick, EntryFrame(button, stick)
      PROVE  TableInv' /\ \A i \in Rows : table'[i].score >= table[i].score
  BY <1>7, EntryStep
<1>8. CASE UNCHANGED vars
  <2>1. \A p \in Players : Waiting(p)' <=> Waiting(p)
    BY <1>8 DEF vars, Waiting
  <2> QED BY <1>1, <1>8, <2>1 DEF vars, TableInv, Shape, Sorted, NamesAreOwners, OneMarkEach, Turns
<1> QED BY <1>3, <1>4, <1>5, <1>6, <1>7, <1>8 DEF Next, EndOfGame

(* The inductive invariant holds in every run. *)
THEOREM TableInvHolds == Spec => []TableInv
<1>1. TableInv /\ [Next]_vars => TableInv'
  BY TableStep
<1> QED BY InitTable, <1>1, PTL DEF Spec

(* The table stays in order. *)
THEOREM TableAlwaysSorted == Spec => []Sorted
<1>1. TableInv => Sorted
  BY DEF TableInv
<1> QED BY TableInvHolds, <1>1, PTL

(* Every entry is named by the player whose score it is. *)
THEOREM NamesAlwaysOwners == Spec => []NamesAreOwners
<1>1. TableInv => NamesAreOwners
  BY DEF TableInv
<1> QED BY TableInvHolds, <1>1, PTL

(* No player has two entries waiting, and none is left over. *)
THEOREM MarksAlwaysUnique == Spec => []MarksUnique
<1>1. TableInv => MarksUnique
  BY DEF TableInv, MarksUnique, OneMarkEach, Turns, Rows
<1> QED BY TableInvHolds, <1>1, PTL

(* The entry that gets the initials is the player's own. *)
THEOREM FoundAlwaysMarked == Spec => []FoundIsMarked
<1>1. TableInv => FoundIsMarked
  BY DEF TableInv, Turns, FoundIsMarked
<1> QED BY TableInvHolds, <1>1, PTL

(* No place of the table is ever held by a lower score than before. *)
THEOREM PlacesNeverFall == Spec => NoPlaceFalls
<1>1. TableInv /\ [Next]_vars => [\A i \in 1 .. NEntries : table'[i].score >= table[i].score]_vars
  BY TableStep DEF Rows
<1> QED BY TableInvHolds, <1>1, PTL DEF Spec, NoPlaceFalls

-----------------------------------------------------------------------------
(***************************************************************************)
(* The refinement.  GameFlow, which decides who enters initials, sees only *)
(* how many entries of each player wait; PendingNames says how these       *)
(* counts may change.                                                      *)
(***************************************************************************)
Marked(p) == {i \in 1 .. NEntries : table[i].id = Mark(p)}

(* The count of a player is 1 if he has an entry that waits, and else 0. *)
LEMMA CountOfMarked ==
  ASSUME TableInv, NEW p \in Players
  PROVE  Cardinality(Marked(p)) = IF Waiting(p) THEN 1 ELSE 0
<1>1. CASE Waiting(p)
  <2>1. PICK k \in Rows : table[k].id = Mark(p)
    BY <1>1 DEF Waiting, Rows
  <2>2. Marked(p) = {k}
    BY <2>1 DEF Marked, TableInv, OneMarkEach, Rows, Mark, Players, P1, P2
  <2> QED BY <1>1, <2>2, FS_Singleton
<1>2. CASE ~Waiting(p)
  <2>1. Marked(p) = {}
    BY <1>2 DEF Waiting, Marked
  <2> QED BY <1>2, <2>1, FS_EmptySet
<1> QED BY <1>1, <1>2

(* Every set of numbers that is not empty has a least one. *)
LEMMA LeastExists ==
  ASSUME NEW T \in SUBSET Nat, T # {}
  PROVE  \E n \in T : \A m \in T : n <= m
<1> DEFINE R == OpToRel(<, Nat)
<1>1. IsWellFoundedOn(R, Nat)
  BY NatLessThanWellFounded
<1>2. \A m, n \in Nat : m < n => <<m, n>> \in R
  BY DEF OpToRel
<1> HIDE DEF R
<1>3. PICK n \in T : \A m \in T : ~(<<m, n>> \in R)
  BY <1>1, WFMin
<1>4. \A m \in T : ~(m < n)
  BY <1>2, <1>3
<1>5. ASSUME NEW m \in T PROVE n <= m
  BY <1>4
<1> QED BY <1>5

(* A score that passes an entry gets into the table; one that passes none  *)
(* leaves it as it is.                                                     *)
LEMMA EntersOrNothing ==
  ASSUME TableInv, NEW p \in Players, NEW s \in Nat, AddScoreToHsTable(p, s)
  PROVE  Waiting(p)' \/ UNCHANGED table
<1> DEFINE T == {i \in Rows : Passes(s, i)}
<1>1. CASE T = {}
  <2>1. \A i \in Rows : table'[i] = table[i]
    BY <1>1, Insertion
  <2>2. table \in [Rows -> Row] /\ table' = [i \in Rows |-> table'[i]]
    BY DEF AddScoreToHsTable, TableInv, Shape, Rows
  <2>3. table = [i \in Rows |-> table[i]]
    BY <2>2
  <2> QED BY <2>1, <2>2, <2>3
<1>2. CASE T # {}
  <2>1. T \in SUBSET Nat
    BY NEntriesAssumption DEF Rows
  <2>2. PICK i \in T : \A j \in T : i <= j
    BY <1>2, <2>1, LeastExists
  <2>3. i \in Rows /\ Passes(s, i) /\ (i = 1 \/ ~Passes(s, i - 1))
    BY <2>2, NEntriesAssumption DEF Rows
  <2>4. table'[i] = [score |-> s, id |-> Mark(p), name |-> NoName, owner |-> p]
    BY <2>3, Insertion
  <2>5. table'[i].id = Mark(p)
    BY <2>4
  <2> QED BY <2>3, <2>5 DEF Waiting, Rows
<1> QED BY <1>1, <1>2

Counts == [p \in {0, 1} |-> Cardinality(Marked(p))]

Waits == [p \in {0, 1} |-> IF Waiting(p) THEN 1 ELSE 0]

CountsMatch == Counts = Waits

LEMMA CountsAre == TableInv => CountsMatch
<1> SUFFICES ASSUME TableInv
             PROVE  \A p \in {0, 1} : Cardinality(Marked(p)) = IF Waiting(p) THEN 1 ELSE 0
  BY DEF Counts, Waits, CountsMatch
<1> QED BY CountOfMarked DEF Players, P1, P2

LEMMA NextCountsAre == TableInv' => CountsMatch'
  BY CountsAre, PTL

(* Every step of the table is a step of the counts. *)
LEMMA CountsStep ==
  ASSUME TableInv, [Next]_vars
  PROVE  [Names!Next]_Counts
<1> DEFINE now  == [p \in {0, 1} |-> IF Waiting(p) THEN 1 ELSE 0]
           next == [p \in {0, 1} |-> IF Waiting(p)' THEN 1 ELSE 0]
<1>1. TableInv' /\ Counts = now /\ Counts' = next
  BY TableStep, CountsAre, NextCountsAre DEF Waits, CountsMatch
<1>2. ASSUME UNCHANGED table PROVE Counts' = Counts
  BY <1>2 DEF Counts, Marked
<1>3. ASSUME NEW p \in Players, NEW s \in Points, GameOver(p, s) PROVE Names!Add(p) \/ Counts' = Counts
  <2>1. s \in Nat /\ AddScoreToHsTable(p, s) /\ ~Waiting(p)
    BY <1>3, PointsAssumption DEF GameOver, TableInv, Turns
  <2>2. CASE ~Waiting(p)'
    BY <1>2, <2>1, <2>2, EntersOrNothing
  <2>3. CASE Waiting(p)'
    <3> DEFINE q == 1 - p
    <3>1. p \in {0, 1} /\ q \in {0, 1} \ {p} /\ q \in Players
      BY DEF Players, P1, P2
    <3>2. ~Waiting(q) => ~Waiting(q)'
      BY <2>1, <3>1, AddKeepsMarks
    <3>3. Waiting(q)' => NEntries > 1
      <4> SUFFICES ASSUME Waiting(q)' PROVE NEntries > 1
        OBVIOUS
      <4>1. PICK i \in Rows, j \in Rows : table'[i].id = Mark(p) /\ table'[j].id = Mark(q)
        BY <2>3 DEF Waiting, Rows
      <4>2. i # j
        BY <3>1, <4>1 DEF Mark
      <4> QED BY <4>1, <4>2, NEntriesAssumption DEF Rows
    <3>4. CASE Waiting(q) /\ ~Waiting(q)'
      <4>1. now[q] > 0 /\ next = [now EXCEPT ![p] = @ + 1, ![q] = @ - 1]
        BY <2>1, <2>3, <3>1, <3>4
      <4> QED BY <1>1, <3>1, <4>1 DEF Names!Add, Names!Owners, Counts, Marked
    <3>5. CASE (Waiting(q) /\ Waiting(q)') \/ (~Waiting(q) /\ ~Waiting(q)')
      <4>1. now[0] + now[1] < NEntries /\ next = [now EXCEPT ![p] = @ + 1]
        <5>1. now[p] = 0 /\ next[p] = 1 /\ now[q] = next[q]
          BY <2>1, <2>3, <3>1, <3>5
        <5>2. now[q] \in {0, 1} /\ (now[q] = 1 => NEntries > 1)
          BY <3>1, <3>3, <3>5
        <5>3. now[0] + now[1] = now[q]
          <6>1. CASE p = 0
            BY <3>1, <5>1, <5>2, <6>1
          <6>2. CASE p = 1
            BY <3>1, <5>1, <5>2, <6>2
          <6> QED BY <3>1, <6>1, <6>2
        <5>4. now[0] + now[1] < NEntries
          <6> HIDE DEF now
          <6> QED BY <5>2, <5>3, NEntriesAssumption
        <5>5. next = [now EXCEPT ![p] = @ + 1]
          <6>1. next = [r \in {0, 1} |-> next[r]] /\ now = [r \in {0, 1} |-> now[r]]
            OBVIOUS
          <6> HIDE DEF now, next
          <6> QED BY <3>1, <5>1, <6>1
        <5> QED BY <5>4, <5>5
      <4> QED BY <1>1, <3>1, <4>1 DEF Names!Add, Names!Owners, Counts, Marked
    <3> QED BY <3>2, <3>4, <3>5
  <2> QED BY <2>2, <2>3
<1>4. ASSUME NEW button, NEW stick, EntryFrame(button, stick)
      PROVE  Names!Named(up) \/ Counts' = Counts
  <2>1. CASE UNCHANGED table
    BY <1>2, <2>1
  <2>2. CASE Register(up, pos')
    <3>1. PICK p \in {0, 1} : up = p /\ up' = p
      BY <1>4 DEF EntryFrame, TableInv, Turns, Shape, Players, P1, P2
    <3> DEFINE q == 1 - p
    <3>2. /\ p \in Players /\ Waiting(p) /\ pos' \in Rows /\ table[pos'].id = Mark(p)
          /\ q \in {0, 1} \ {p}
      BY <1>4, <3>1, SearchFinds DEF EntryFrame, TableInv, Turns, Shape, Players, P1, P2
    <3>3. /\ table'[pos'].id = 0 /\ table' \in [Rows -> Row]
          /\ \A i \in Rows : i # pos' => table'[i] = table[i]
      BY <1>1, <2>2, <3>2 DEF Register, TableInv, Shape, Row
    <3>4. ~Waiting(p)'
      BY <3>2, <3>3 DEF Waiting, TableInv, OneMarkEach, Rows, Mark, Players, P1, P2
    <3>5. Waiting(q) = Waiting(q)'
      BY <3>2, <3>3 DEF Waiting, Rows, Mark
    <3>6. now[p] = 1 /\ next[p] = 0 /\ now[q] = next[q]
      BY <3>2, <3>4, <3>5
    <3>7. next = [now EXCEPT ![p] = @ - 1]
      <4>1. next = [r \in {0, 1} |-> next[r]] /\ now = [r \in {0, 1} |-> now[r]]
        OBVIOUS
      <4> HIDE DEF now, next
      <4> QED BY <3>2, <3>6, <4>1
    <3> HIDE DEF now, next
    <3>8. Counts' = [Counts EXCEPT ![up] = @ - 1] /\ Counts[up] > 0
      BY <1>1, <3>1, <3>6, <3>7
    <3> QED BY <3>8 DEF Names!Named, Counts, Marked
  <2> QED BY <1>4, <2>1, <2>2 DEF EntryFrame
<1> QED
  BY <1>2, <1>3, <1>4
  DEF Next, EndOfGame, StartGame, CheckForHsInitials, RestartGame, vars, Names!Next,
      Names!Owners, Players, P1, P2, TableInv, Shape

(* The table implements the counts that GameFlow works with, for any       *)
(* number of entries.                                                      *)
THEOREM TableImplementsCounts == Spec => ImplementsPendingNames
<1>1. Init => Names!Init
  <2> SUFFICES ASSUME Init PROVE Counts = [p \in {0, 1} |-> 0]
    BY DEF Names!Init, Names!Owners, Counts, Marked
  <2>1. \A p \in {0, 1} : ~Waiting(p)
    BY InitTable DEF Init, TableInv, Turns, Players, P1, P2
  <2> QED BY <2>1, InitTable, CountsAre DEF Waits, CountsMatch
<1>2. TableInv /\ [Next]_vars => [Names!Next]_Counts
  BY CountsStep
<1>3. Spec => Names!Init /\ [][Names!Next]_Counts
  BY <1>1, <1>2, TableInvHolds, PTL DEF Spec
<1> QED
  BY <1>3, PTL DEF ImplementsPendingNames, Names!Spec, Counts, Marked
=============================================================================
