----------------------------- MODULE MCGameFlow -----------------------------
(* Instances of GameFlow for TLC.  ByteSize is 8 instead of 256: enough    *)
(* for every number of lives, and for the byte to wrap below 0.            *)
EXTENDS GameFlow

Cocktail == {0}
AnyCabinet == {0, 1}
TwoPlayers == {2}
AnyGame    == {1, 2}

(* Six levels take one player round the end of the stage order table; two  *)
(* players interact by their deaths, whatever the level.                   *)
SixOrOne == [t \in {0, 1} |-> IF t = 0 THEN 6 ELSE 1]
Two == [t \in {0, 1} |-> 2]
=============================================================================
