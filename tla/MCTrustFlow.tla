----------------------------- MODULE MCTrustFlow -----------------------------
(* An instance of TrustFlow for TLC: one flow with any options beside another *)
(* that is live and leaves Scout off, and one assurance command.              *)
EXTENDS TrustFlow

CONSTANTS f1, f2

MCFlow == {f1, f2}
BesideInit == Init /\ ~flow[f2].options.dry_run /\ flow[f2].options.scout_mode = "off"
BesideSpec == BesideInit /\ [][Next]_vars

=============================================================================
