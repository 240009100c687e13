--------------------------- MODULE MCResponseLink ---------------------------
(* An instance of ResponseLink for TLC: a linker beside two drills that write *)
(* to the same file, as the make targets do.                                  *)
EXTENDS ResponseLink

CONSTANTS d1, d2

MCDrill == {d1, d2}

=============================================================================
