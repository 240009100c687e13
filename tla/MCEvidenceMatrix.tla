-------------------------- MODULE MCEvidenceMatrix --------------------------
(* An instance of EvidenceMatrix for TLC: a file beside the ledger and the  *)
(* assessment, two things a record or a file can say.                       *)
EXTENDS EvidenceMatrix

=============================================================================
