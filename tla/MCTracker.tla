---- MODULE MCTracker ----
EXTENDS Tracker

Symmetry == Permutations(Pages)
====
