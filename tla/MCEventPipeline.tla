--------------------------- MODULE MCEventPipeline ---------------------------
(* Two relays, two group members, two events.                              *)
EXTENDS EventPipeline

CONSTANTS p1, p2, c1, c2

Relays  == {p1, p2}
Members == {c1, c2}
=============================================================================
