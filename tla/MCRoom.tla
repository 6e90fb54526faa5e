------------------------------- MODULE MCRoom -------------------------------
EXTENDS Room, TLC

Symmetry == Permutations(Loop) \cup Permutations(Word) \cup Permutations(Joiner)
              \cup Permutations(Picker) \cup Permutations(Ender)
=============================================================================
