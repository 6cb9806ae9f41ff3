---------------------------- MODULE PendingNames ----------------------------
(***************************************************************************)
(* What the rest of the game sees of the high score table: how many of its *)
(* entries carry a player's mark, which means they still wait for his      *)
(* initials.  HighScores implements it, GameFlow is built on it.           *)
(***************************************************************************)
EXTENDS Integers

CONSTANT NEntries   \* entries of the high score table (5 in the code)

VARIABLE unnamed    \* for each player the entries with his mark

Owners == {0, 1}

Init == unnamed = [p \in Owners |-> 0]

(* L_ADD_SCORE_TO_HS_TABLE: a score that is too low changes nothing; one   *)
(* that qualifies enters the table as p's and pushes the last entry out,   *)
(* which may itself still wait for initials.                               *)
Add(p) == \/ UNCHANGED unnamed
          \/ /\ unnamed' = [unnamed EXCEPT ![p] = @ + 1]
             /\ unnamed[0] + unnamed[1] < NEntries
          \/ \E q \in Owners \ {p} :
                /\ unnamed[q] > 0
                /\ unnamed' = [unnamed EXCEPT ![p] = @ + 1, ![q] = @ - 1]

(* The initials of an entry of p's have been entered. *)
Named(p) == unnamed[p] > 0 /\ unnamed' = [unnamed EXCEPT ![p] = @ - 1]

Next == \E p \in Owners : Add(p) \/ Named(p)

Spec == Init /\ [][Next]_unnamed
=============================================================================
