---- MODULE MCGuard ----
EXTENDS Guard, TLC

CONSTANTS a, b, c

PathGuards == <<"pure", "cross">>
PathCaps == <<2, 1>>

\* a and b share their cell in row 1, b and c theirs in row 2.
Colliding ==
    a :> <<0, 0>> @@ b :> <<0, 1>> @@ c :> <<1, 1>>

\* Every value has a cell of its own in row 2.
Separate ==
    a :> <<0, 0>> @@ b :> <<0, 1>> @@ c :> <<1, 2>>
====
