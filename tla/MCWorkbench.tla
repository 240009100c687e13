---------------------------- MODULE MCWorkbench ----------------------------
(***************************************************************************)
(* An instance of Workbench for TLC.                                       *)
(***************************************************************************)
EXTENDS Workbench, TLC

CONSTANTS a1, a2, here, there, b1, b2, m1, s1, s2, live1, d1, d2, app, test

---------------------------------------------------------------------------
(* Acceptance: an observing profile, a strict one and an empty one; two    *)
(* hand-overs that meet some of them, one whose counts are no numbers and  *)
(* one that does not verify                                                *)

MCNothing == [x \in {} |-> 0]
MCField == {"decision"}
MCIntegrity == "oci-attestation-integrity"

MCObserve ==
  [schema_version |-> 1, requirements |-> {"decision"},
   allowed |-> "decision" :> {"EVIDENCE_READY", "CONDITIONAL"}, max_assessment_counts |-> MCNothing,
   trusted_artifact_checks |-> MCNothing, artifact_facts |-> MCNothing]
MCStrict ==
  [schema_version |-> 2, requirements |-> MCField \cup ArtifactRequirement \cup {"max_assessment_counts"},
   allowed |-> "decision" :> {"EVIDENCE_READY"}, max_assessment_counts |-> "FAIL" :> 0,
   trusted_artifact_checks |-> MCIntegrity :> {"PASS"}, artifact_facts |-> "sbom_present" :> TRUE]
MCEmpty == [MCObserve EXCEPT !.requirements = {"max_assessment_counts"}, !.allowed = MCNothing]
MCProfile == {MCObserve, MCStrict, MCEmpty}

MCDecision(id, status, fails) ==
  [assessment_run_id |-> id, status |-> "decision" :> status, counts |-> "FAIL" :> fails]
MCArtifact == [checks |-> MCIntegrity :> "PASS", facts |-> "sbom_present" :> TRUE]
MCHandoff ==
  {[decision |-> MCDecision("r1", "EVIDENCE_READY", 0), artifact |-> MCArtifact,
    verifies |-> TRUE, signed |-> TRUE],
   [decision |-> MCDecision("r2", "CONDITIONAL", -1), artifact |-> NoArtifact,
    verifies |-> TRUE, signed |-> TRUE],
   [decision |-> MCDecision("r3", "EVIDENCE_READY", 0), artifact |-> MCArtifact,
    verifies |-> FALSE, signed |-> TRUE]}

---------------------------------------------------------------------------
(* Transition: an image, another image, and an archive that has lost a     *)
(* layer; what an earlier build left verified, and a build replaces it     *)

MCManifest(layers) == [kind |-> "manifest", schema |-> 2, config |-> "config", layers |-> layers]
MCStatement(type, of, from) ==
  [kind |-> "statement", predicate |-> type, subjects |-> {of}, materials |-> from]
MCContent ==
  "image1" :> MCManifest({"layer1"}) @@ "image2" :> MCManifest({"layer2"})
  @@ "of1" :> MCManifest({"sbom1", "built1"})
  @@ "of2" :> MCManifest({"sbom2", "built2"})
  @@ "sbom1" :> MCStatement("spdx", "image1", {}) @@ "sbom2" :> MCStatement("spdx", "image2", {})
  @@ "built1" :> MCStatement("slsa", "image1", {"alpine1"})
  @@ "built2" :> MCStatement("slsa", "image2", {"alpine1"})
  @@ [d \in {"config", "layer1", "layer2"} |-> [kind |-> "data", of |-> d]]

MCDescriptor(d, isAttestation, of) ==
  [digest |-> d, platform |-> "linux", sized |-> TRUE, attestation |-> isAttestation, refers |-> of]
MCArchive(image, statements) ==
  [whole |-> TRUE, layout |-> TRUE, lacks |-> {}, bytes |-> "none",
   index |-> {MCDescriptor(image, FALSE, "none"), MCDescriptor(statements, TRUE, image)}]

MCOne == MCArchive("image1", "of1")
MCEarlier == {[layout |-> MCOne, base |-> {"alpine"}, scout |-> "PASS"]}
MCLayout == {MCArchive("image2", "of2"), [MCOne EXCEPT !.lacks = {"layer1"}]}
MCJob == {[place |-> here, base |-> {"alpine"}]}
MCScout == {"PASS", "FINDING"}

MCContext == [d \in Dimension |-> "same"]
MCBundle(id, results, incident) ==
  [verifies |-> TRUE, run_id |-> id, results |-> results, context |-> MCContext,
   treatment |-> id, attested |-> TRUE, incident |-> incident]
MCFirst == MCBundle("r1", "c" :> "FAIL", {})
MCSecond == MCBundle("r2", "c" :> "PASS", {0})
MCMove(before, after, from, to) ==
  [evidence |-> [before |-> before, after |-> after], place |-> [before |-> from, after |-> to]]
MCOrder ==
  {MCMove(MCFirst, MCSecond, there, here), MCMove(MCSecond, MCFirst, here, here),
   MCMove(MCFirst, [MCSecond EXCEPT !.attested = FALSE], there, here)}

---------------------------------------------------------------------------
(* Study: six controls; the first run has one of each status, the second   *)
(* the same shifted by 0 to 5, so that each pair of statuses occurs; and   *)
(* pairs that differ in, or lack, an invariant                             *)

MCStatus == <<"FAIL", "PARTIAL", "PASS", "MANUAL", "ERROR", "N/A">>
MCShifted(id, by) == MCBundle(id, [c \in 1 .. 6 |-> MCStatus[((c + by) % 6) + 1]], {})
MCBefore == MCShifted("r1", 0)
MCNext == MCShifted("r2", 1)
MCLacking(bundle, d) == [bundle EXCEPT !.context = [e \in Dimension \ {d} |-> "same"]]
MCAfter ==
  {MCShifted("r2", by) : by \in 0 .. 5} \cup {MCBefore, MCShifted("r1", 1)}
    \cup {[MCNext EXCEPT !.context[d] = "other"] : d \in {"agent_id", "task_sha256", "baseline_version"}}
    \cup {MCLacking(MCNext, d) : d \in {"task_id", "workspace_before_sha256"}}
    \cup {[MCNext EXCEPT !.verifies = FALSE], [MCNext EXCEPT !.treatment = "r1"],
          [MCNext EXCEPT !.results = [c \in 1 .. 5 |-> "PASS"]]}
MCTask ==
  {[kind |-> k, before |-> MCBefore, after |-> after] : k \in Kind, after \in MCAfter}
    \cup {[kind |-> k, before |-> MCLacking(MCBefore, "agent_id"), after |-> MCLacking(MCNext, "agent_id")] :
            k \in Kind}

============================================================================
