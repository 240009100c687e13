--------------------------- MODULE CustomerPolicy ---------------------------
(***************************************************************************)
(* The acceptance profiles of customer_policy.py: what load_policy_profile *)
(* accepts, what evaluate_policy concludes of a customer decision and of   *)
(* the trusted-artifact report beside it, and what verify_policy_evaluation*)
(* accepts.  A digest is the content it is taken of (an ideal hash), and a *)
(* mapping that a file may leave out entries of is a function on a subset. *)
(***************************************************************************)
EXTENDS Integers

CONSTANTS Field,       \* the statuses a decision has (SUPPORTED_STATUS_REQUIREMENTS)
          Integrity,   \* the check whose evidence holds the facts
          NotPresent,  \* what is observed where nothing is recorded
          NoArtifact   \* the hand-over has no trusted-artifact report

ArtifactRequirement == {"trusted_artifact_checks", "artifact_facts"}

\* The value of a mapping at x, or what stands for a missing one.
At(mapping, x, otherwise) == IF x \in DOMAIN mapping THEN mapping[x] ELSE otherwise

\* load_policy_profile: the profiles it returns; it raises for any other.
Loads(profile) ==
  /\ profile.schema_version \in {1, 2}
  /\ profile.requirements # {}
  /\ profile.requirements \subseteq
       Field \cup {"max_assessment_counts"}
             \cup (IF profile.schema_version >= 2 THEN ArtifactRequirement ELSE {})
  /\ \A f \in DOMAIN profile.allowed : profile.allowed[f] # {}
  /\ \A s \in DOMAIN profile.max_assessment_counts : profile.max_assessment_counts[s] >= 0
  /\ \A c \in DOMAIN profile.trusted_artifact_checks : profile.trusted_artifact_checks[c] # {}

\* _artifact_check_map, _artifact_fact_values: a report without the integrity check
\* has no facts.
Checks(artifact) == IF artifact = NoArtifact THEN [c \in {} |-> NotPresent] ELSE artifact.checks
Facts(artifact) ==
  IF artifact # NoArtifact /\ Integrity \in DOMAIN Checks(artifact)
    THEN artifact.facts
    ELSE [f \in {} |-> NotPresent]

\* The four loops of evaluate_policy, each a set of <<requirement, what passed>>.
StatusChecks(profile, decision) ==
  {<<f, At(decision.status, f, NotPresent) \in profile.allowed[f]>> : f \in DOMAIN profile.allowed}

\* A count that is missing is 0; one that is no number is -1 and passes no limit.
CountChecks(profile, decision) ==
  {<<s, At(decision.counts, s, 0) \in 0 .. profile.max_assessment_counts[s]>> :
     s \in DOMAIN profile.max_assessment_counts}

ArtifactChecks(profile, artifact) ==
  {<<c, At(Checks(artifact), c, NotPresent) \in profile.trusted_artifact_checks[c]>> :
     c \in DOMAIN profile.trusted_artifact_checks}

FactChecks(profile, artifact) ==
  {<<f, /\ f \in DOMAIN Facts(artifact)
        /\ Facts(artifact)[f] <=> profile.artifact_facts[f]>> :
     f \in DOMAIN profile.artifact_facts}

AllChecks(profile, decision, artifact) ==
  StatusChecks(profile, decision) \cup CountChecks(profile, decision)
    \cup ArtifactChecks(profile, artifact) \cup FactChecks(profile, artifact)

\* Mutant: a profile that asks for nothing is satisfied by everything.
VerdictOfNothing(checks) == IF \A c \in checks : c[2] THEN "PASS" ELSE "FAIL"

\* The status: at least one check, and every one of them passed.
Verdict(checks) == IF checks # {} /\ \A c \in checks : c[2] THEN "PASS" ELSE "FAIL"

\* evaluate_policy. Evaluations of schema 1 do not name the artifact.
EvaluatePolicy(profile, decision, artifact, schema) ==
  LET checks == AllChecks(profile, decision, artifact)
  IN  [schema_version |-> schema, profile_sha256 |-> profile,
       source_run_id |-> decision.assessment_run_id,
       trusted_artifact_sha256 |-> IF schema >= 2 THEN artifact ELSE NoArtifact,
       checks |-> checks, status |-> Verdict(checks)]

\* verify_policy_evaluation: recomputed from the profile, the decision and the
\* artifact, the evaluation is the same in every field.
VerifyPolicyEvaluation(evaluation, profile, decision, artifact) ==
  /\ Loads(profile)
  /\ evaluation.schema_version = 1 => profile.schema_version = 1
  /\ evaluation = EvaluatePolicy(profile, decision, artifact, evaluation.schema_version)

---------------------------------------------------------------------------
(* The reference definition the properties use *)

\* A decision meets a profile: the profile asks for something, and everything it
\* asks for is there and as it asks.
Meets(profile, decision, artifact) ==
  /\ \/ DOMAIN profile.allowed # {}
     \/ DOMAIN profile.max_assessment_counts # {}
     \/ DOMAIN profile.trusted_artifact_checks # {}
     \/ DOMAIN profile.artifact_facts # {}
  /\ \A f \in DOMAIN profile.allowed :
       At(decision.status, f, NotPresent) \in profile.allowed[f]
  /\ \A s \in DOMAIN profile.max_assessment_counts : s \in DOMAIN decision.counts =>
       /\ decision.counts[s] >= 0
       /\ decision.counts[s] <= profile.max_assessment_counts[s]
  /\ \A c \in DOMAIN profile.trusted_artifact_checks :
       \/ /\ artifact # NoArtifact /\ c \in DOMAIN artifact.checks
          /\ artifact.checks[c] \in profile.trusted_artifact_checks[c]
       \/ /\ artifact = NoArtifact \/ c \notin DOMAIN artifact.checks
          /\ NotPresent \in profile.trusted_artifact_checks[c]
  /\ \A f \in DOMAIN profile.artifact_facts :
       /\ artifact # NoArtifact /\ Integrity \in DOMAIN artifact.checks
       /\ f \in DOMAIN artifact.facts
       /\ artifact.facts[f] <=> profile.artifact_facts[f]

=============================================================================
