---- MODULE MCRegistry ----
EXTENDS Registry, TLC

NoDims == <<>>
Both == <<"country", "event">>
Caps == [g \in GuardIds |-> 1]
McBoot == [labels |-> {"country"}, uniques |-> TRUE]
McConfigs == {McBoot, [labels |-> {"event"}, uniques |-> FALSE]}
Symmetry == Permutations(Workers)
====
