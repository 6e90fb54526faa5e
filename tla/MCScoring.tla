----------------------------- MODULE MCScoring -----------------------------
EXTENDS Scoring, TLC

Symmetry == Permutations(Player \ Leaver) \cup Permutations(Guess) \cup Permutations(Message)

\* Of the joins only those of the player who may be kicked race.
TwoRowsOfLeaver == [u \in Player |-> IF u \in Leaver THEN 2 ELSE 1]
=============================================================================
