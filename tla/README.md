# Agent Baseline Evidence Lab: verification project

TLA+ models of the lab's evidence machinery, the TLC runs that check them on
small instances, and proofs (TLAPS) of their main properties for every size.
Source paths below are relative to `src/src/agent_baseline_lab/`.

## 1. The system

The lab is a set of short-lived Python processes (`abl ...`, `python -m
agent_baseline_lab.x`, make targets) that share directories. No process holds
a lock, none talks to another; all interaction is through files that one
writes and another reads, and through the Docker daemon.

| component | state it keeps | operations | interacts through |
|---|---|---|---|
| trace ledger (`trace.py`) | `trace.ndjson`; in memory a counter and the previous hash | `append`, `read_trace`, `verify_trace` | the file, unlinked by the next run of the same id |
| evidence store, bundle verifier (`evidence.py`) | files below `evidence/<run_id>`, `manifest.sha256.json` | `write_json`, `write_text`, `finalize_manifest`, `verify_manifest`, `verify_bundle` | every consumer re-verifies the directory |
| assessment engine (`engine.py`, `evaluators.py`, `provenance.py`) | one run: its ledger object, its report in progress | `run_assessment`: import, evaluate, audit, integrity, finalize, attest | `evidence/`, `reports/`; the digests it returns |
| verifier regression (`evidence_matrix.py`) | copies of a bundle | three edit scenarios, each verified with and without external anchors | reads a finished bundle |
| artifact signing (`signing.py`) | key files, signature envelopes | `generate_keypair`, `sign_file`, `verify_signature` | key, subject and envelope files shared between calls |
| response drill (`response.py`, `response_verify.py`) | response evidence; a custom secret and the run state of the sandbox | `run_stop_drill`, `verify_response_evidence` | the Docker daemon, with timeouts |
| response linkage (`response_link*.py`) | link statements | `create_response_link`, `verify_response_link` | an evidence directory and a response file others write |
| quarantine registry, incident bundles (`quarantine.py`, `incident_bundle.py`) | an append-only NDJSON registry, bundles that record digests of it | `quarantine`, `verify`, create/verify an incident | the registry is shared by all demos |
| interview demo (`interview_demo.py`) | summary | the chain assessment, drill, link, incident, signature | all of the above in one order |
| audit correlation (`audit*.py`, `completeness.py`) | the records it kept of the daemons' log, a strength | probe, `load_audit_records`, `analyze_audit_correlation`, `correlate_session` | a log that daemons append to and rotate |
| live run capsule (`live_run.py`, `workspace.py`) | a capsule directory with its own manifest | `run_agent_task`, `load_agent_run` | a template others edit, a workspace the agent edits, also after its command was given up |
| assurance suite, golden flow | one shared summary, newest directory | run, pick latest | output root shared by flows |
| artifact trust plane (`trusted_artifact.py`, `oci_integrity.py`, `artifact_lineage.py`, `artifact_diff.py`) | an OCI archive and a report per output directory, lineage documents | `run_trusted_artifact`, the OCI verifiers, `build_artifact_diff` | archives and reports read by path while builds replace them |
| decision and trust flow (`decision_brief.py`, `customer_*`, `trust_handoff.py`, `transition_pack.py`) | brief, signed hand-over, acceptance envelope, transition pack | decide, sign, `evaluate_policy`, `create_acceptance_pack`, `create_transition_pack`, verify each | digests of what came before; a policy file and an envelope path shared by all |
| portable and comparison packs, experiments (`portable_pack.py`, `comparison_pack.py`, `governance_delta.py`, `experiment_protocol.py`) | ZIP packs, delta and experiment statements | create, verify, compare | the growing registry; one default file per kind of statement |
| baseline and drift (`baseline.py`, `drift.py`) | two baseline files | import, lock, drift | each other |
| analyses, reports, CLI, data classes | none | one pass over one input | - |

### What is hard here

* **Names by the second.** Runs, drills and incidents are named after the UTC
  time to the second, so two processes can share a directory or a placeholder.
* **Writes in place.** Every JSON file is written in place; a kill or a
  concurrent reader can meet half a file. Nothing is resumed after a kill.
* **Check, then use.** A file is verified, then read again to be hashed,
  linked or copied; another process may write it in between.
* **Swallowed failures.** `evaluate()` catches whatever a control raises, a
  failed ledger append included, and goes on with a counter that has moved.
* **Commands that time out.** `run()` gives up after a timeout; the daemon may
  still carry the command out, after the one that was to undo it.
* **Read many times.** A transition reads each artifact report and archive six
  times or more, by path, and compares what it read at different moments.
* **An agent that outlives its command.** A timed-out session goes on writing
  to the workspace that is being inventoried.
* **Logs that rotate.** A record is in a file in progress or in a finalized
  one; the two are listed one after the other, and only so many are kept.
* **Verdicts before the end.** OBS-06 judges the ledger before the last
  records, the anchors and the manifest are written.

`PROJECT.json` lists these hazards at their lines with the properties that
cover them.

### What makes each component correct

* Ledger and bundle: what verifies is what was recorded; a digest or head kept
  elsewhere pins every byte or every record; an internal rewrite is seen unless
  everything was rewritten.
* Engine: what verifies is complete and of one configuration, has the verdict
  it claims, no longer changes; a started run ends.
* Signing: a returned pair stays, a failed call leaves nothing, what verifies
  was signed with the key it was checked with.
* Drill: evidence of revocation and of the stop is true for good, whatever
  commands time out; a drill touches only its own binding; a drill ends.
* Link: a link that verifies makes true claims about what it binds.
* Registry, incident, demo: no registry entry is lost or rewritten; an entry a
  demo made names evidence that was verified; a summary or an exit status never
  claims more than the files do; a sandbox outlives its evidence's verification.
* Decision and hand-over: no exit status better than its evidence, the signed
  decision is the one reported; what is accepted meets the policy that is
  packed with it; a transition says of both artifacts what is in their archives.
* Packs and comparisons: a pack has what its incident names; a statement that
  was accepted is true of its two bundles, and eligible only under one protocol.
* Correlation: no strength claims more, and none denies more, than the log shows.
* Capsule: one that is valid is complete, of one run, and tells the changes
  truly unless it says that the agent was given up.
* Lineage: what is called the agent's artifact was built from what its task left.

## 2. Modules

| module | models | composed from |
|---|---|---|
| `TraceLedger` | one record of the ledger, what `verify_trace` accepts | |
| `EvidenceBundle` | one evidence directory and its verifiers | extends `TraceLedger` |
| `SealedLog` | the abstract promise: logs that only grow until they are sealed, each as long as one run has it | |
| `AssessmentRun` | `run_assessment` by several processes on one root, kills, failed writes | extends `EvidenceBundle`, implements `SealedLog` |
| `EvidenceMatrix` | the regression's edits in any order against the verifiers | extends `EvidenceBundle` |
| `Signing` | key generation, signing and verification on shared paths | |
| `ResponseDrill` | stop drills against a daemon that is late | |
| `ResponseLink` | links made beside drills | extends `ResponseDrill` |
| `QuarantineRegistry` | the registry's lines, fragments of lines, and its verifier | |
| `IncidentPipeline` | the interview demo step by step, several demos and `quarantine add` on one registry | extends `QuarantineRegistry` |
| `TrustFlow` | the customer trust flow and the golden flow it starts with, several of them beside `make assurance-latest` | |
| `CustomerPolicy` | policy profiles, their evaluation and its verification (operators) | |
| `CustomerAcceptance` | acceptance envelopes by processes on one output while the policy file is edited | extends `CustomerPolicy` |
| `OciLayout` | an OCI archive, its two verifiers, the snapshot and the diff (operators) | |
| `GovernanceDelta` | the delta and the experiment statement of two bundles (operators) | |
| `EvidenceStudy` | both statements made and verified by processes on one file of each kind | extends `GovernanceDelta` |
| `TransitionPack` | a transition pack, with the comparison pack and the artifact diff in it, beside builds and registrations | extends `OciLayout`, `GovernanceDelta` |
| `AuditCorrelation` | a session's probe and its correlation beside daemons that log and rotate | |
| `LiveSession` | `run_agent_task`: template, workspace, agent, capsule, manifest | |
| `Workbench` | these five state machines, each at work while the others rest | extends them |
| `MC...` | instances for TLC | |
| `...Proofs` | theorems and their lemmas | extend the module they are about |

### How state and actions correspond to the code

**TraceLedger, EvidenceBundle.** A digest is its preimage (an ideal hash), so
`event_hash` of a chained record is the sequence of all `<<sequence, body>>`
pairs up to it. `ChainOK` is `verify_trace`'s loop over the records, including
that a link is compared with the hash the previous record *carries*. A bundle
is its files and its manifest; `VerifyBundle` is `verify_bundle`, with each
optional anchor a set of at most one. A torn ledger makes `verify_bundle` raise
instead of returning; the model counts that as "does not verify".

**AssessmentRun.** `run[p]` is a process: where it is, its `TraceLedger`
object (`sequence`, `previous_hash`), how many controls are left, what OBS-06
said. `run_id` is the second the process will start in, chosen at the start of a
behaviour; nothing keeps two processes from the same one, and then they share
`disk[r]`, which is `evidence/<run_id>`. `reports[r]` is the attested digest,
`returned[p]` the digests the run printed. The actions follow
`run_assessment` top to bottom: `Start` (name, directory, unlink), `OpenRun`,
`ImportAgentRun`/`NoAgentRun`, `EvaluateProbe` (one control), `ProbeAppendFails`,
`ProbesCompleted`, `IngestAudit`/`NoAudit`, `EvaluateReader` (the controls that
read the ledger), `EvaluateIntegrity` (OBS-06), `CompleteRun`,
`WriteAssessment`, `WriteManifest`, `Attest`. `Crash` stands for any exception
not caught by `evaluate()` and for a kill; it may leave a torn line or manifest.
Several records of one control stand as one; what a control decides is
abstracted to what it logs, and a configuration says how many controls of either
kind find something to do. An append that fails inside an evaluator left nothing,
part of the line, or all of it (`EmitFails`). HTML and Markdown reports are output
only.
`Alone(p)` says that no other run has started in p's second so far. It is part of
the properties that are about one run's own verdict and attestation, where the code
keeps no promise otherwise (finding 5); what verifies is complete and of one
configuration with or without it. `SealedLog` has the same condition as a variable:
a log is promised until a second run takes its id (`Share`).

**EvidenceMatrix.** `_copy_bundle`, the byte append, the truncation, the
anchor rewrite and the manifest regeneration are actions on `copy`; losing a
file, losing the metadata and editing a record are what the verifier is
exposed to besides. `MatrixAsExpected` is the verdict table the assurance
suite expects of the three fixed series.

**Signing.** A file holds a key (whole or reserved/partial), a subject or an
envelope. A keygen checks both destinations in one step (two `exists` calls),
reserves each with `O_EXCL`, writes each, and on failure withdraws what it
created; any of these may fail, and a kill withdraws nothing. A failed `unlink`
is not modelled (it is a kill as far as the files go). Envelopes are written
whole or torn. Signature outputs are never key files of other pairs
(`PathsDiffer`); the two outputs `sign_file` guards against are included.

**ResponseDrill.** `bindings`, `running` and `late` are the daemon's: a
command that succeeded is carried out at once or late, one that failed or timed
out at once, late or never (`Run`, `Land`). `drill[d]` is one call of
`run_stop_drill`; `revoked` and `stopped` are its verdicts so far. The
`finally` block is the edge from a failed `SetBinding` to `RemoveBinding`.
Listings may fail or not parse. `by` in a binding or in evidence and `since`
are history. The three option sets are those of the make targets and the flags.

**ResponseLink.** `ReadResponse` is the verification the claims come from,
`HashResponse` the second read that the bound digest comes from, `WriteLink`
the statement. The assessment side is represented by its run: a finished bundle
changes only when another run takes its second (`AssessmentRun`, finding 5), which
these instances leave out.
`VerifyResponseLink` is evaluated on files that nobody writes meanwhile.

**QuarantineRegistry, IncidentPipeline.** The registry is the sequence of what
was written to it: whole lines, and the fragment an interrupted write left (the
next line is glued to it; either way the file no longer parses from there on). The
code still reads a line that lacks only its newline, until the next append; the model
takes it for broken at once.
`demo[d]` is what one call of `run_interview_demo` holds in memory, `pc` the
step it is at. Session, sandbox and file names are the demo's own (random
suffixes), so `response[d]`, `link[d]`, `incident[d]` and `summary[d]` are files
only it writes: `{}` when absent or torn, else the set of their one content.
The assessment and the drill appear by their outcomes, which
`AssessmentRun` and `ResponseDrill` justify; the condition around the
registration (`interview_demo.py:182`) always holds after a link that required
both verdicts, so it has no branch. The audit probe only adds to the summary
and is left out.

**TrustFlow.** `flow[f]` is what one call of `run_customer_trust_flow` and the
golden flow inside it hold in memory; `Step` lists their steps in order.
`registry`, `summary` (`reports/assurance-summary.json`) and `newest` (what
`_latest_dir` would choose) are shared, the other files are named after the run.
Preconditions (keys, readiness, the baseline's signature) and everything else
that may raise for reasons of its own are `Crash`; a raise that depends on shared
state is an action (`AssureOther`, `PackDigestRaises`, `PackIncidentRaises`,
`LineageRaises`). The demo, which `IncidentPipeline` models, appears by its
registration and its incident; torn registries are left to that module. Of a
finished run the assurance suite concludes the one thing that can change, whether
the incident's digest is the registry's; of a run half made, anything.
`create_pack` reads the registry three times (`PackRegistry`, `PackDigest`,
`PackIncident`); that it also packs a copy of the assurance summary is left out.
`Reports` is the set of reports `run_trusted_artifact` can make, by mode; what is
inside the OCI archive is one outcome. Which controls failed is chosen when the
brief reads the assessment. A live assessment always has a gap (OBS-06 is at most
`PARTIAL`, `evaluators.py:389`; a control without evaluator is `MANUAL`, `:453`),
so `EVIDENCE_READY` is no value of `Decision` here. An edit of a workspace does
not restore what was there; it is modelled between the golden flow and the
lineage, since an earlier one is part of the build and a later one is not looked
at.

**CustomerPolicy, CustomerAcceptance.** A profile is a record of what its file
requires; `Loads` is the validation in `load_policy_profile`, `AllChecks` the
pairs (what is checked, passed) `evaluate_policy` makes, and
`VerifyPolicyEvaluation` makes them again. A mapping that may lack entries is a
function on a subset. `Meets`, the reference the acceptance is compared with,
is written requirement by requirement and without checks. `acceptor[a]` is one
call of `create_acceptance_pack`: the bytes of the policy
(`AcceptReadPolicy`), the hand-over verified (`AcceptHandoff`), the policy read
again and evaluated (`AcceptEvaluate`, which raises when the bytes differ),
then the shared output emptied, written, signed and verified
(`AcceptOpen` ... `AcceptVerifySignature`). What two processes left open at
once is `Mixed`, which nothing verifies.

**OciLayout, TransitionPack.** `Content` says what the blob of each digest
must hold; an archive is its descriptors, what it lacks (absent, or of another
digest or size) and the identity of its bytes. `VerifyLayout` and
`VerifyAttestations` are the two verifiers; `Images`, `Statements` and `Sound`
say the same independently of them. The bytes of an archive are who wrote it and
what, so no two builds write the same ones; a report is told from every other
by who made it (it has the time and a random name in it); what a write left
that is not finished is `Partial`, one value for all of them. A builder follows
`run_trusted_artifact`: the archive replaced in place, verified, and hashed for
the report only after Scout. A mover follows `create_transition_pack`: delta, the portable packs of
both sides (which raise when an incident's registry has grown), then for each
side and each of two passes the report, the archive for its digest, its graph,
its attestations and its snapshot, and the report for its digest, each read by
path; then the diff, the reports embedded, the pack. Files cut short are all
alike, and that matters: with three builds in one directory two readings of two
half-written reports, or archives, can be taken for two readings of one file
(TLC finds it when the run's instance is given a third build), so
`TransitionTellsTheTruth` speaks of packs whose reports, and the archives these
name, are whole (`NothingHalfWritten`).

**GovernanceDelta, EvidenceStudy.** A bundle is what both modules read of it.
`BuildDelta` and `BuildStatement` are the builders, `VerifyDelta` and
`VerifyStatement` recompute and compare. Students create the default file of a
kind in place and then verify what is there.

**AuditCorrelation.** `logs` is the audit directory in the order
`load_audit_records` reads it; a record is addressed by its file and its place
in the file (`Line`, `RecordAt`, `After`). A session starts, probes (or not), and is
analyzed as often as somebody asks: `ListFiles` filters and keeps the last
`MaxRecords` (those with fewer than `MaxRecords` later ones: the deque of the
code), `Conclude` counts the files in progress and grades. Daemons log
what others do, log a probe that was sent, and rotate between any two steps.
`seen` and `rotated` are history, for the property.

**LiveSession.** The copy and both inventories go file by file while the
template or the workspace is edited; `RunTimeout` is the return code 124 of a
command whose agent goes on. The capsule is a function from file names to
contents, the manifest a table of digests written last. `ManifestValid` is
`load_agent_run`'s verification.

**Workbench.** These parts share no file that one of them writes (bundles and
hand-overs are finished before any of them starts), so an interleaving of two
parts reaches no state of either that it does not reach alone. A behaviour is
therefore one part (`stage`) at work and the others in an initial state, which
keeps the sum of the state spaces instead of their product. Within a part all
processes interleave.

## 3. Runs

| run | instance | shows |
|---|---|---|
| `AssessmentRun` | 2 processes of 3 configurations (up to 1 probe and 1 reader), in 2 seconds or in one, 1 fault, fair | types, `VerdictMatchesEvidence`, `VerifiedBundleIsComplete`, `AttestationMatchesManifest`; mixed ledgers never verify (`VerifiedLedgerHasOneConfig`); the runs implement `SealedLog`; `StartedRunEnds` |
| `FinishedEvidence` | the same instance, expected violation | finding 5 |
| `EvidenceMatrix` | ledgers of 1-3 records, 4 edits | anchors pin, internal verification needs a coordinated rewrite, the expected table |
| `Signing` | 2 keygens on 3 paths, signer, verifier, 2 contents | types, `VerifiedWasSigned`, `ReturnedPairStays`, `FailedKeygenLeavesNothing` |
| `ResponseLink` | 2 drills and a linker on one file, 2 seconds, 2 late commands, 1 restart, fair | types, `EvidenceStaysTrue`, `RemovesOnlyItsOwn`, `DrillEnds`; `VerifiedLinkIsTrue` |
| `SharedPlaceholder` | 2 drills in one second, expected violation | finding 1 |
| `LinkRace` | as `ResponseLink`, no late command and no restart, not fair, expected violation | finding 2 |
| `IncidentPipeline` | 2 demos with any options in 1 second, 1 `quarantine add`, 1 write cut short, fair | types, `SummaryIsTrue`, `ExitZeroMeansContained`, `DecisionsHaveEvidence`, `IncidentPreservesHistory`, `DemoEnds` |
| `IncidentScope` | 2 demos, nothing cut short, expected violation | finding 3 |
| `TrustFlow` | a flow with any options beside a live one without Scout, 1 assurance command, 1 edit | types, `ExitZeroIsEarned`, `SignedDecisionIsReported`, `PackedRegistryIsTheIncidents`, `LineageNamesTheWorkspace` |
| `ScoutObserve` | 1 flow, expected violation | finding 4 |
| `Workbench` | acceptance: 2 processes, 3 profiles, 3 hand-overs, 1 edit; transition: 1 mover, 2 builds, 2 output directories, 1 registration; study: 2 students, 16 second bundles; audit: 1 session, 2 daemons, 2 records, clock 0-2; live: 2 files, 2 contents | types, `SettledOutputsVerify`, `AcceptedMeetsItsPolicy`, `TransitionTellsTheTruth`, `AcceptedStudyIsTrue`, `CorrelationIsEarned`, `ValidCapsuleIsTheRun` |

A run answers all the questions its instance can answer: the composed
specification `ResponseLink` also carries the properties of the drills it
extends, and a fair specification has the safety properties of the unfair one.
`Signing`, which is not fair, uses the symmetry of its processes and paths; no run
with a liveness property does.

**Bounds.** Two processes are enough for every pairwise interference on one
directory or placeholder; three paths let two keygens share one name, both or
none, in either role. `AssessmentRun` has the pairs of runs that matter: a full one before and
after an offline one, two configurations in one second, and one configuration twice
in one second (the two offline runs write the same bytes, the hardest case for
`VerifiedBundleIsComplete`). One fault can fall on any append of an evaluator. Two late commands allow a `set-custom` and an `rm` to
land in either order. The clock has as many seconds as runs that need distinct
names; demos have sandboxes and files of their own, and in one second whatever
two processes register for one component collides. Four edits are one more than the
longest scenario. Two demos and one `quarantine add` put an entry of somebody
else before, between and after any two steps of a demo; one cut write breaks
the registry for everyone after it. In `TrustFlow` the second flow registers,
assesses and writes the summary at any point of the first; its own options do not
matter to the first, so they are fixed. In `Workbench`: the profiles are an
observing one, one that asks for everything the code can check, and one that
names requirements and limits nothing; the hand-overs meet all, meet some
(with a count that is no number), or do not verify. Two builds can replace both
sides, or one side twice, between any two reads of a mover, by another image or
by an archive that lost a layer. The six controls of the first bundle have the
six statuses and those of the second the same shifted by 0 to 5, so every pair
of statuses occurs; other bundles differ in, or lack, one invariant. One
session suffices because sessions only read; two records of
others with `MaxRecords = 2` can push the probe's out. In `LiveSession` two files let
one be read before and the other after an edit. None of the safety
properties rests on these bounds: all of them are also proved (section 4).

**Fairness.** Weak fairness of each process's own steps, in the runs marked
fair: an operating system keeps running a process that was started, every
command has a timeout, every loop is over a fixed list. No process has to start
(`Started(p) /\ Step(p)` in `AssessmentRun`). Nothing is assumed of
the daemon, of the clock, or of restarts; a crash is never required and always
allowed, so the liveness properties say "ends or was killed". Key generation
and the commands of `TrustFlow` and `Workbench` go straight through a fixed list
of steps, so no liveness property is stated of them. Finished
processes stop, hence `CHECK_DEADLOCK FALSE`; `EvidenceMatrix` never stops and
checks deadlock.

**Assumptions of the instances.** `UniqueSecond` restricts `ResponseDrill` to
drills that start in different seconds; the code does not ensure it, and
`SharedPlaceholder` is the run without it. Assessments may share a second
everywhere. The other assumptions on constants say that the inputs are what the code's parsers
let through or what names mean: a digest is what it is taken of and a process is
no place (`TransitionAssumption`), a bundle has finitely many results, of the six
statuses, and a measured context is not the word for "not measured"
(`StudyAssumption`), `max_records` and a second are positive and no session has
the marker of the others (`AuditAssumption`), limits are integers
(`AcceptanceAssumption`), the edited workspaces are the flows' and no assurance
command is a flow (`TrustAssumption`), adders are no demos
(`PipelineAssumption`), each part of `Workbench` has something to start with
(`WorkbenchAssumption`). TLC evaluates each of them on a run.

## 4. Theorems

All proofs hold for every value of the constants under the named assumptions:
any number of processes, files, records, faults and edits. Every invariant and
every action and refinement property that a passing run checks is proved. The
theorems of one part are in one module; the lemmas about operators come first,
then the types, then the inductive invariant, then the properties.

* `EvidenceBundleProofs`: what a head and a manifest digest commit to.
  `HeadDeterminesLedger`: two chained ledgers that end in one hash are equal; by
  induction on the length, from `HashCommits` (a hash of record i determines the
  bodies up to i). The library's induction theorems take an operator as
  parameter; `SetInduction` here has the set of numbers a statement holds of
  instead, which is enough for every induction of the project.
* `EvidenceMatrixProofs`: `TypeOK` with "the source is finished" is inductive;
  the anchor theorems follow from it and the commitment lemmas. For
  `MatrixAsExpected` the invariant is `HistoryOK`: what the names of the edits
  done so far say of the copy. Along the three scenarios the copy is the source,
  or has a ledger that diverged from it (`Diverged`) or lost its end
  (`Shortened`), with the metadata and the manifest that the edits left.
* `AssessmentRunProofs`, in two parts; neither assumes when runs start.
  The first holds of directories that any number of runs write to. `SharedInv`:
  whatever hash a process holds, or a record on disk carries, covers bodies of one
  configuration, the process's or the record's own (`OwnHash`, `Pure`), begins
  with `assessment.started` and has the steps that its process logged so far
  (`Told`); anchors on disk are those of a run that logged its last record
  (`AnchorsEnded`). A hash covers all it was made from, so the head of a ledger
  that verifies against the anchors covers the records of one configuration that
  came to its end: `VerifiedIsComplete` and `CollisionShows`, and this is all
  that is left when runs write to one file and unlink it under each other.
  The second is about runs alone in their second. `IInv == TypeOK /\ Fresh /\
  AllLocal`. `Fresh`: a directory no run has started in is empty, so `Start`
  unlinks nothing there. `AllLocal` relates, for each program counter of a process
  that is alone, its counter and previous hash to the ledger on disk, including
  how far they are apart after a failed append; without it OBS-06's verdict says
  nothing of the records written after it. `Frame`: a process that shares its
  directory disturbs none that is alone. From it truthful verdicts, the
  attestation, and the refinement of `SealedLog` step by step.
* `SigningProofs`: types with `Owns`, `Progress`, `Guarded`, `Genuine` and
  `Checked`: a file of keygen k lies only on a path k created and has not
  withdrawn, every envelope's signature is in `signed`, a verifier that
  accepted had what it accepted. From `PathsDiffer`.
* `ResponseLinkProofs`: drills, and links made beside them.
  `Stopping /\ EvidenceMade` needs no assumption: whoever saw the sandbox
  stopped saw it after the last restart, so `StoppedEvidenceStaysTrue` holds
  even of drills that share a second. `BindingInv == OwnPlaceholders /\
  BindingsMade /\ LateMade /\ Revoking` needs `UniqueSecond`: a placeholder names
  one drill, so a binding, and a command that is still to be carried out, is
  the drill's own, and no `set-custom` of a drill that saw its binding gone is
  left to land. `EvidenceIsTrueForGood` and `DrillsRemoveTheirOwn` follow, and
  `SharedPlaceholder` is the counterexample without it. A linker changes nothing
  of a drill (`LinkingIsHarmless`: `LinkSpec => Spec`), so both carry over;
  `LinksMade` says that what a link claims is what the verified evidence said,
  whence `VerifiedLinksAreTrue`.
* `IncidentPipelineProofs`: `PipelineInv == Types /\ StageInv /\ RegistryInv`.
  `StageInv` says of each program counter what the demo holds, which of its
  files exist and agree, and that a removed sandbox had a verified incident; it
  is local to a demo, as no step touches another's files. `RegistryInv` is
  about the shared registry: what a registered demo entered can be read, an
  incident's copy is a beginning of the registry, every line of a demo has the
  linked evidence. It is kept because the registry only grows
  (`QuarantinedStays`, `PrefixStays`), whoever appends and whichever writes are
  cut short; `RegistryKeeps` reduces every step to "appends at most one decided
  piece, changes no link, brings what it claims". All safety properties of the
  run follow.
* `TrustFlowProofs`: `Inv == Types /\ \A f : FlowInv(f)`. `FlowInv` has one
  conjunct per thing a flow makes, each from the place where it is made on:
  the incident (`IncidentMade`), the summary the flow read back
  (`AssuredItself`: live flows only go on with their own), the pack, whose three
  readings of the registry end in the one the incident has (`PackHolds`), the
  lineage (`LineageHolds`), the decision and what was signed of it
  (`DecisionHolds`), the hand-over (`HandedOver`). Another flow only appends to
  the registry, replaces the summary and the newest directory, and edits
  workspaces: `OthersKeep` is the one lemma about it.
* `WorkbenchProofs`, part by part.
  *Acceptance*: `AcceptedMeetsPolicy` from `PassMeets` (a PASS of
  `evaluate_policy` is the requirements of the profile, for every profile and
  hand-over) and `PassInv` (whoever is past the evaluation holds a PASS of the
  bytes it read); `SettledEnvelope` from `SettledInv`: as long as the envelope,
  or the signature, does not verify, some process that touched it has not looked
  yet or has raised.
  *Live session*: `LiveInv` has the capsule as far as it is written
  (`CapsuleInv`), no whole manifest before the end (`ManifestInv`), an agent at
  work after its command only with return code 124 (`AgentInv`), and inventories
  that list what was reached of a workspace nobody edits (`TreeInv`, only while
  the code is not 124).
  *Transition*: the mover reads by path at many moments, so what it read is of no
  use unless it is known what else can be there. `Written` says that a content
  with a builder's name in it is there only once that builder wrote it, so a
  content that was replaced does not come back (`KnowledgeStays`). `MoverInv`
  then says of each program counter that what was looked at is *gone or sound*:
  a snapshot was taken of the archive that its report names and verified, or
  that archive is no longer there (`Told`), and what two equal passes told is
  the archive's (`Sure`). Equal passes rule out "gone", as nothing comes back.
  `PackInv` carries it to the finished pack.
  *Study*: `StudyInv` keeps what verification accepted; that verification
  recomputes the truth is `VerifiedDeltaIsTrue` and `VerifiedStatementIsTrue`.
  That the change counts add up to the number of invariants (`CountsAddUp`) is an
  induction on the number of change kinds.
  *Correlation*: `CorrelationInv` says of each session that only its own probe
  carries its marker, that what was kept is a selection of finalized lines with
  the probe in it unless `MaxRecords` later ones pushed it out (`ListedTruly`,
  `KeptBound`), that an open file was seen unless it was rotated between the
  listing and the count (`OpenIsSeen`), and that the grade is of these
  (`GradedTruly`). It is kept although daemons move files while they log
  (`Moves`: finalized lines keep their contents and their order).
  *Composition*: a behaviour of `Workbench` is one of each part
  (`WorkbenchImplementsItsParts`, a refinement per part), which carries the
  parts' theorems over (`OutputsVerify`, `PartsKeepTheirPromises`,
  `WorkbenchTypeCorrect`).

Only model-checked: the liveness properties `StartedRunEnds`, `DrillEnds` and
`DemoEnds`, as fairness and ENABLED are out of the prover's reach; and the
findings, which are counterexamples.

## 5. Findings

1. `SharedPlaceholder`: the "uniquely named" placeholder is unique to the
   second; one drill removes the other's binding (`response.py:87`).
2. `LinkRace`: a link takes its claims and its digest from two reads of a file
   that drills write (`response_link.py:32`, `:56`).
3. `IncidentScope`: evidence is documented run-scoped and independently
   verifiable, and a verified incident bundle stops verifying when another run
   registers (`interview_demo.py:208`, `incident_bundle.py:118`). The packs
   inherit it: a comparison or a transition of two live runs of one output root
   raises for the earlier one, whose incident names a shorter registry
   (`portable_pack.py:215`; `MoveCompareRaises` in `TransitionPack`).
4. `ScoutObserve`: in observe mode Scout is documented not to hard-block the
   disposition, and a Scout policy or export that fails does
   (`decision_brief.py:123`).
5. `FinishedEvidence`: assessment-time evidence is documented as immutable, its
   ledger as append-only, and an assessment that starts in the second in which
   another started and finished unlinks that run's ledger and writes over its other
   files (`trace.py:41`, `engine.py:30`).

## 6. Plan

Everything that keeps state between steps or shares a file is modelled, and
every safety property of every passing run is proved. In order of what would
add most:

1. Abstract specifications for more of the parts, as `SealedLog` is for the
   ledger: an append-only registry for `QuarantineRegistry` and its users, a
   write-once output for packs and capsules; with proofs that the parts
   implement them.
2. The import of audit records into an assessment, and the completeness
   statement made of it, as operators against a reference definition.
3. The environment checks of `demo_preflight.py`, which decide what a demo may
   start with.

## 7. Not modelled

`PROJECT.json` names each component's status and reason.

* Baseline lock and drift: one command run by hand writes both files and a
  verifier recomputes everything and refuses any mismatch, a half-done sync
  included; nothing runs beside it.
* Analyses of MCP policies, scenarios, OAuth and fallback documents: single
  passes over one input.
* The import of audit records into an assessment: maps one record at a time.
* What the 26 evaluators decide: `AssessmentRun` has what they log.
* Dockerfile parsing and Scout's output: their outcomes are inputs of the models.
* Rendering, HTML reports, argument parsing, environment checks (`readiness.py`,
  `demo_preflight.py`), data classes and the catalogue, example and CI assets.

Hashing and Ed25519 are ideal, and ZIP member lists and signatures made in a
private directory are exact.
