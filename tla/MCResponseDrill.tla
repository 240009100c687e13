--------------------------- MODULE MCResponseDrill ---------------------------
(* Instances of ResponseDrill for TLC. *)
EXTENDS ResponseDrill

CONSTANTS d1, d2

MCDrill == {d1, d2}

=============================================================================
