--------------------------- MODULE GovernanceDelta ---------------------------
(***************************************************************************)
(* governance_delta.py and experiment_protocol.py: the two statements made *)
(* of a pair of finished evidence bundles, each recomputed by its verifier.*)
(* A bundle is what they read of it: whether it verifies, its run id, its  *)
(* results, its governance treatment, and the invariants of an experiment  *)
(* that it measures (the baseline version and the agent are two of them).  *)
(***************************************************************************)
EXTENDS Integers, FiniteSets

CONSTANT NotMeasured    \* what stands for an invariant that the evidence does not give

\* The required invariants (invariant_specs).
Dimension == {"baseline_version", "agent_id", "task_id", "task_sha256",
              "workspace_before_sha256", "agent_runtime", "runtime_fingerprint"}

Measured(bundle, d) == IF d \in DOMAIN bundle.context THEN bundle.context[d] ELSE NotMeasured

---------------------------------------------------------------------------
(* governance_delta.py *)

Improvements == {<<"FAIL", "PARTIAL">>, <<"FAIL", "PASS">>, <<"PARTIAL", "PASS">>}

\* Mutant: what became worse counts as better.
ClassifyChangeUnordered(before, after) ==
  IF before = after THEN "unchanged"
  ELSE IF {before, after} \subseteq {"FAIL", "PARTIAL", "PASS"} THEN "control-improvement"
  ELSE "scope-change"

\* classify_change: the first that applies.
ClassifyChange(before, after) ==
  IF before = after               THEN "unchanged"
  ELSE IF "N/A" \in {before, after} THEN "scope-change"
  ELSE IF before = "ERROR"        THEN "evaluator-recovery"
  ELSE IF after = "ERROR"         THEN "evaluator-error"
  ELSE IF before = "MANUAL"       THEN "evidence-gain"
  ELSE IF after = "MANUAL"        THEN "evidence-loss"
  ELSE IF <<before, after>> \in Improvements THEN "control-improvement"
  ELSE IF <<after, before>> \in Improvements THEN "control-regression"
  ELSE "other-change"

\* _anchor: what names a bundle; its digests are the bundle.
Anchor(bundle) == [run_id |-> bundle.run_id, manifest_sha256 |-> bundle]

\* The pairs build_delta does not raise for. A version that neither has is the same.
Comparable(before, after) ==
  /\ before.verifies /\ after.verifies
  /\ before.run_id = after.run_id => before = after
  /\ Measured(before, "baseline_version") = Measured(after, "baseline_version")
  /\ DOMAIN before.results = DOMAIN after.results /\ DOMAIN before.results # {}

ChangeCounts(changes) ==
  [kind \in {changes[c] : c \in DOMAIN changes} |->
     Cardinality({c \in DOMAIN changes : changes[c] = kind})]

BuildDelta(before, after) ==
  LET changes == [c \in DOMAIN before.results |->
                    ClassifyChange(before.results[c], after.results[c])]
      agents == {Measured(before, "agent_id"), Measured(after, "agent_id")}
  IN  [before |-> Anchor(before), after |-> Anchor(after),
       warned |-> NotMeasured \notin agents /\ Cardinality(agents) > 1,
       changes |-> changes, change_counts |-> ChangeCounts(changes)]

\* verify_delta.
VerifyDelta(delta, before, after) ==
  Comparable(before, after) /\ delta = BuildDelta(before, after)

---------------------------------------------------------------------------
(* experiment_protocol.py *)

DimensionStatus(before, after, d) ==
  IF NotMeasured \in {Measured(before, d), Measured(after, d)} THEN "MISSING"
  ELSE IF Measured(before, d) = Measured(after, d) THEN "MATCH"
  ELSE "DIFFERENT"

\* Mutant: what nobody measured is taken to be the same.
EligibilityOfMissing(status, treatmentChanged) ==
  IF "DIFFERENT" \in status \/ ~treatmentChanged THEN "NOT_ELIGIBLE" ELSE "ELIGIBLE"

Eligibility(status, treatmentChanged) ==
  IF "MISSING" \in status THEN "INSUFFICIENT_EVIDENCE"
  ELSE IF "DIFFERENT" \in status \/ ~treatmentChanged THEN "NOT_ELIGIBLE"
  ELSE "ELIGIBLE"

\* The pairs build_experiment_statement does not raise for.
Testable(before, after) ==
  before.verifies /\ after.verifies /\ before.run_id # after.run_id

BuildStatement(before, after) ==
  LET checks == [d \in Dimension |-> DimensionStatus(before, after, d)]
      changed == before.treatment # after.treatment
  IN  [before_run_id |-> before.run_id, after_run_id |-> after.run_id,
       invariant_checks |-> checks, treatment_changed |-> changed,
       eligibility |-> Eligibility({checks[d] : d \in Dimension}, changed)]

\* verify_statement.
VerifyStatement(statement, before, after) ==
  Testable(before, after) /\ statement = BuildStatement(before, after)

=============================================================================
