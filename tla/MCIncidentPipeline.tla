-------------------------- MODULE MCIncidentPipeline --------------------------
(* An instance of IncidentPipeline for TLC. *)
EXTENDS IncidentPipeline

CONSTANTS d1, d2

MCDemo == {d1, d2}

=============================================================================
