-------------------------- MODULE MCWorkflowSystem --------------------------
(* Small instances of the composed system.                                 *)
EXTENDS WorkflowSystem

CONSTANTS A, B, w1, w2, api, rec

TasksAB  == {A, B}
OneTask  == {A}
Workers  == {w1, w2}
OneWorker == {w1}
Processes  == Workers \cup {api, rec}
Processes1 == OneWorker \cup {api, rec}

Parallel == [t \in TasksAB |-> {}]
Single   == [t \in OneTask |-> {}]

NoTask == {}
OnlyB  == {B}

AttemptsTwo  == [t \in OneTask |-> 2]
AttemptsAB11 == [t \in TasksAB |-> 1]
=============================================================================
