---- MODULE MCSessions ----
EXTENDS Sessions, TLC

\* Actors of one kind and visitors are interchangeable.
Symmetry == Permutations(Visitors) \cup Permutations(Workers)
====
