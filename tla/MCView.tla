------------------------------- MODULE MCView -------------------------------
EXTENDS View, TLC

Symmetry == Permutations(Player) \cup Permutations(Word)

OneRow == [u \in Player |-> 1]
=============================================================================
