------------------------------ MODULE MCEngine ------------------------------
(* Small workflow graphs on which TLC checks Engine.                       *)
EXTENDS Engine

CONSTANTS A, B, C, D

Set2 == {A, B}
Set4 == {A, B, C, D}

\* Two independent tasks; the diamond A, then B and C, then D.
Parallel2 == [t \in Set2 |-> {}]
Diamond   == [t \in Set4 |-> CASE t = A -> {}
                               [] t \in {B, C} -> {A}
                               [] t = D -> {B, C}]

NoTask == {}
OnlyC  == {C}

\* D may be tried once: its second claim is a poison pill.
Twice2 == [t \in Set2 |-> 2]
Mixed4 == [t \in Set4 |-> IF t = D THEN 1 ELSE 2]
=============================================================================
