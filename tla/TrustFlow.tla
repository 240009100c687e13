------------------------------- MODULE TrustFlow -------------------------------
(***************************************************************************)
(* run_customer_trust_flow of customer_trust_flow.py and the golden flow   *)
(* it starts with, by several processes on one root, beside `make          *)
(* assurance-latest`.                                                      *)
(*                                                                         *)
(* Files named after a run are written by its flow only.  Shared are the   *)
(* registry, reports/assurance-summary.json, and which evidence directory  *)
(* is the newest.  A workspace may be edited by its user at any time.      *)
(***************************************************************************)
EXTENDS Sequences

CONSTANTS Flow,       \* flows, and the runs, sessions and workspaces that are theirs
          Suite,      \* `make assurance-latest` commands
          Edited      \* bound: the flows whose workspace may be edited, once

ASSUME TrustAssumption == Edited \subseteq Flow /\ Flow \cap Suite = {}

VARIABLES flow,       \* what each flow holds in memory
          newest,     \* the evidence directory written to last, if any
          bundle,     \* evidence/<run>: "none", "partial", "final"
          registry,   \* who registered, in order
          incident,   \* reports/<run>.incident.json
          summary,    \* reports/assurance-summary.json
          suite,      \* what each assurance command is about to write
          workspace,  \* content of each workspace: what the task left, or "edited"
          pack,       \* reports/<run>.customer-evidence-pack.zip
          handoff     \* reports/<run>.customer-trust-handoff.zip

own   == <<bundle, incident, pack, handoff>>
shared == <<newest, registry, summary>>
vars  == <<flow, shared, own, suite, workspace>>

\* A file that is not there is {}, and otherwise the set of its content.
Options ==
  {o \in [dry_run : BOOLEAN, scout_mode : {"off", "observe", "gate"}] :
     o.dry_run => o.scout_mode = "off"}

NotRun == [overall_status |-> "NOT_RUN", scout_status |-> "NOT_RUN", failing |-> {}]

Fresh(o) ==
  [pc |-> "assess", options |-> o, control_fails |-> FALSE, assurance |-> {},
   read |-> <<>>, observed |-> <<>>, trusted |-> NotRun, built |-> "task", lineage |-> FALSE,
   decision |-> "NOT_RUN", overall |-> "NOT_RUN"]

Init ==
  /\ \E o \in [Flow -> Options] : flow = [f \in Flow |-> Fresh(o[f])]
  /\ newest = {} /\ registry = <<>> /\ summary = {}
  /\ bundle = [f \in Flow |-> "none"] /\ incident = [f \in Flow |-> {}]
  /\ pack = [f \in Flow |-> {}] /\ handoff = [f \in Flow |-> {}]
  /\ suite = [s \in Suite |-> [pc |-> "idle", result |-> {}]]
  /\ workspace = [f \in Flow |-> "task"]

---------------------------------------------------------------------------
dry(f) == flow[f].options.dry_run

\* Flow f goes from one step to the next with its memory changed to r.
Goes(f, from, r) == flow[f].pc = from /\ flow' = [flow EXCEPT ![f] = r]
To(f, pc) == [flow[f] EXCEPT !.pc = pc]

\* A step that raises: what follows it is not run, what is in memory is lost.
Raises(f, from) ==
  /\ Goes(f, from, [Fresh(flow[f].options) EXCEPT !.pc = "raised"])
  /\ UNCHANGED <<shared, own, suite, workspace>>

\* Any step may raise for reasons of its own (keys, readiness, the baseline's
\* signature, Docker, a half-written file), and the process may be killed.
Crash(f) == flow[f].pc \notin {"done", "raised"} /\ Raises(f, flow[f].pc)

\* run_assessment makes the directory ...
Assess(f) ==
  /\ Goes(f, "assess", To(f, "bundle"))
  /\ bundle' = [bundle EXCEPT ![f] = "partial"] /\ newest' = {f}
  /\ UNCHANGED <<registry, summary, incident, pack, handoff, suite, workspace>>

\* ... and finishes it.
FinishAssessment(f) ==
  /\ Goes(f, "bundle", To(f, IF dry(f) THEN "attest" ELSE "register"))
  /\ bundle' = [bundle EXCEPT ![f] = "final"] /\ newest' = {f}
  /\ UNCHANGED <<registry, summary, incident, pack, handoff, suite, workspace>>

\* The quarantine entry of run_interview_demo, after a verified stop and link.
Register(f) ==
  /\ Goes(f, "register", To(f, "incident"))
  /\ registry' = Append(registry, f)
  /\ UNCHANGED <<newest, summary, own, suite, workspace>>

\* The incident bundle, which the demo verifies before it returns.
CreateIncident(f) ==
  /\ Goes(f, "incident", To(f, "attest"))
  /\ incident' = [incident EXCEPT ![f] = {registry}]
  /\ UNCHANGED <<shared, bundle, pack, handoff, suite, workspace>>

\* The attestation is signed.
SignAttestation(f) ==
  /\ Goes(f, "attest", To(f, "assure"))
  /\ UNCHANGED <<shared, own, suite, workspace>>

\* verify_incident_bundle, as far as it can change: the digest of the registry.
IncidentVerifies(f) == \A i \in incident[f] : i = registry

\* _latest_dir: the directory written to last; one still being written to may be.
Latest(r) == r \in newest \/ bundle[r] = "partial"

\* run_assurance_suite on run r: what it may conclude.  Of a run that is still being
\* made, or was left half made, it may conclude anything.
Settled(r) ==
  bundle[r] = "final" /\ flow[r].pc \notin {"register", "incident", "attest", "raised"}
Concludes(r, blocking) == Settled(r) => blocking = ~IncidentVerifies(r)

\* Mutant: the conclusion does not say which run it is about.
AssureAnonymously(f) ==
  /\ \E blocking \in BOOLEAN :
       /\ Latest(f) /\ Concludes(f, blocking)
       /\ Goes(f, "assure", [flow[f] EXCEPT !.pc = "assured",
            !.assurance = {[blocking |-> blocking]}])
  /\ UNCHANGED <<shared, own, suite, workspace>>

\* The golden flow's suite run: of the newest directory, which must be its own.
Assure(f) ==
  /\ \E blocking \in BOOLEAN :
       /\ Latest(f) /\ Concludes(f, blocking)
       /\ Goes(f, "assure", [flow[f] EXCEPT !.pc = "assured",
            !.assurance = {[run |-> f, blocking |-> blocking]}])
  /\ UNCHANGED <<shared, own, suite, workspace>>

AssureOther(f) ==
  /\ \E r \in Flow \ {f} : Latest(r)
  /\ Raises(f, "assure")

\* The shared summary is written, and then blocking failures raise.
WriteAssurance(f) ==
  /\ flow[f].pc = "assured" /\ summary' = flow[f].assurance
  /\ flow' = [flow EXCEPT ![f] =
       IF \E a \in flow[f].assurance : a.blocking
         THEN [Fresh(@.options) EXCEPT !.pc = "raised"]
         ELSE [@ EXCEPT !.pc = "pack"]]
  /\ UNCHANGED <<newest, registry, own, suite, workspace>>

\* make assurance-latest: evaluate the newest run, then write the summary.
StartSuite(s) ==
  /\ suite[s].pc = "idle"
  /\ \E r \in Flow, blocking \in BOOLEAN :
       /\ Latest(r) /\ Concludes(r, blocking)
       /\ suite' = [suite EXCEPT ![s] =
            [pc |-> "write", result |-> {[run |-> r, blocking |-> blocking]}]]
  /\ UNCHANGED <<flow, shared, own, workspace>>

EndSuite(s) ==
  /\ suite[s].pc = "write"
  /\ summary' = suite[s].result
  /\ suite' = [suite EXCEPT ![s] = [pc |-> "done", result |-> {}]]
  /\ UNCHANGED <<flow, newest, registry, own, workspace>>

---------------------------------------------------------------------------
(* create_pack reads the registry when it adds it, when it checks the incident's *)
(* digest of it, and when it adds the incident's artifacts.                       *)

\* The registry is added to the pack's entries.
PackRegistry(f) ==
  /\ Goes(f, "pack", [flow[f] EXCEPT !.read = registry,
       !.pc = IF incident[f] = {} THEN "write_pack" ELSE "pack_digest"])
  /\ UNCHANGED <<shared, own, suite, workspace>>

\* Mutant: the digest is taken, and not compared with the incident's.
PackDigestUnchecked(f) ==
  /\ Goes(f, "pack_digest", [flow[f] EXCEPT !.observed = registry, !.pc = "pack_incident"])
  /\ UNCHANGED <<shared, own, suite, workspace>>

\* The registry's digest must be what the incident says.
PackDigest(f) ==
  /\ IncidentVerifies(f)
  /\ Goes(f, "pack_digest", [flow[f] EXCEPT !.observed = registry, !.pc = "pack_incident"])
  /\ UNCHANGED <<shared, own, suite, workspace>>

PackDigestRaises(f) == ~IncidentVerifies(f) /\ Raises(f, "pack_digest")

\* Adding the registry again must find the same content.
PackIncident(f) ==
  /\ registry = flow[f].read
  /\ Goes(f, "pack_incident", To(f, "write_pack"))
  /\ UNCHANGED <<shared, own, suite, workspace>>

PackIncidentRaises(f) == registry # flow[f].read /\ Raises(f, "pack_incident")

\* The ZIP is written, with the incident rewritten to the digest that was observed.
WritePack(f) ==
  /\ Goes(f, "write_pack", [flow[f] EXCEPT !.pc = "sign_pack", !.read = <<>>,
                                            !.observed = <<>>])
  /\ pack' = [pack EXCEPT ![f] =
       {[registry |-> flow[f].read,
         incident |-> IF incident[f] = {} THEN {} ELSE {flow[f].observed}]}]
  /\ UNCHANGED <<shared, bundle, incident, handoff, suite, workspace>>

\* verify_pack: the members are those the portable incident names.
VerifyPack(p) == \A i \in p.incident : i = p.registry

\* A pack that verifies is signed, and the golden flow's summary is written.
SignPack(f) ==
  IF \A p \in pack[f] : VerifyPack(p)
    THEN /\ Goes(f, "sign_pack", To(f, "artifact"))
         /\ UNCHANGED <<shared, own, suite, workspace>>
    ELSE Raises(f, "sign_pack")

---------------------------------------------------------------------------
\* What run_trusted_artifact may report.  A check that fails is the artifact's own
\* (Dockerfile, build, attestations), Scout's policy, or Scout's SARIF export.
Reports(o) ==
  LET scouts == IF o.scout_mode = "off" THEN {"NOT_RUN"}
                ELSE {"NOT_RUN", "PASS", "FAIL", "ERROR"}
      failed == [overall_status : {"FAILED"}, scout_status : {"NOT_RUN"},
                 failing : {{"artifact"}}]
  IN IF o.dry_run THEN failed \cup {NotRun}
     ELSE failed \cup
       {r \in [overall_status : {"VERIFIED", "FAILED"}, scout_status : scouts,
               failing : SUBSET {"artifact", "docker-scout-policy", "docker-scout-sarif"}] :
          /\ r.overall_status = "VERIFIED" <=>
               /\ "artifact" \notin r.failing
               /\ o.scout_mode = "gate" => r.scout_status = "PASS"
          /\ "docker-scout-policy" \in r.failing <=> r.scout_status \in {"FAIL", "ERROR"}
          /\ "docker-scout-sarif" \in r.failing => r.scout_status # "NOT_RUN"}

\* The artifact is built from what the workspace holds.
TrustArtifact(f) ==
  /\ \E r \in Reports(flow[f].options) :
       Goes(f, "artifact", [flow[f] EXCEPT !.trusted = r, !.built = workspace[f],
         !.pc = IF r.overall_status = "VERIFIED" THEN "lineage" ELSE "decide"])
  /\ UNCHANGED <<shared, own, suite, workspace>>

\* Mutant: the workspace is not compared with what the task left.
LineageUnchecked(f) ==
  /\ Goes(f, "lineage", [flow[f] EXCEPT !.lineage = TRUE, !.pc = "decide"])
  /\ UNCHANGED <<shared, own, suite, workspace>>

\* create_ and verify_lineage_statement: the workspace must still be what the task
\* left.
Lineage(f) ==
  /\ workspace[f] = "task"
  /\ Goes(f, "lineage", [flow[f] EXCEPT !.lineage = TRUE, !.pc = "decide"])
  /\ UNCHANGED <<shared, own, suite, workspace>>

LineageRaises(f) == workspace[f] # "task" /\ Raises(f, "lineage")

\* Mutant: the brief is made from the assessment and the assurance alone.
DecisionWithoutArtifact(control_fails, trusted, assurance, o) ==
  IF control_fails \/ \E a \in assurance : a.blocking THEN "BLOCKED" ELSE "CONDITIONAL"

\* Mutant: a control that could not be evaluated is a gap.
DecisionErrorIsGap(control_fails, trusted, assurance, o) ==
  IF \/ trusted.failing # {} \/ trusted.overall_status = "FAILED"
     \/ ~o.dry_run /\ trusted.overall_status # "VERIFIED"
     \/ ~o.dry_run /\ o.scout_mode = "gate" /\ trusted.scout_status # "PASS"
     \/ \E a \in assurance : a.blocking
    THEN "BLOCKED" ELSE "CONDITIONAL"

\* build_decision_brief: a blocker, or else the gap that every assessment has: OBS-06
\* is never better than PARTIAL, and a control without an evaluator is MANUAL.
Decision(control_fails, trusted, assurance, o) ==
  IF \/ control_fails
     \/ trusted.failing # {} \/ trusted.overall_status = "FAILED"
     \/ ~o.dry_run /\ trusted.overall_status # "VERIFIED"
     \/ ~o.dry_run /\ o.scout_mode = "gate" /\ trusted.scout_status # "PASS"
     \/ \E a \in assurance : a.blocking
    THEN "BLOCKED" ELSE "CONDITIONAL"

\* The brief reads the run's assessment, in which any control may have failed, and
\* whatever summary is there; the flow's disposition is its own.
Decide(f) ==
  \E fails \in BOOLEAN :
  LET d == Decision(fails, flow[f].trusted, summary, flow[f].options) IN
  /\ Goes(f, "decide", [flow[f] EXCEPT !.pc = "handoff", !.control_fails = fails,
       !.decision = d,
       !.overall = CASE dry(f) -> "DRY_RUN"
                     [] ~dry(f) /\ ~flow[f].lineage -> "BLOCKED"
                     [] OTHER -> d])
  /\ UNCHANGED <<shared, own, suite, workspace>>

\* The hand-over is written, verified and signed, and the flow returns.
HandOver(f) ==
  /\ Goes(f, "handoff", To(f, "done"))
  /\ handoff' = [handoff EXCEPT ![f] =
       {[dry_run |-> dry(f), decision |-> flow[f].decision, lineage |-> flow[f].lineage,
         trusted |-> flow[f].trusted, pack |-> pack[f]]}]
  /\ UNCHANGED <<shared, bundle, incident, pack, suite, workspace>>

\* The workspace is edited to something it was not before.  An edit before the build
\* is as good as one just before it, and after the lineage nobody looks.
Edit(f) ==
  /\ f \in Edited /\ workspace[f] = "task" /\ flow[f].pc \in {"artifact", "lineage"}
  /\ workspace' = [workspace EXCEPT ![f] = "edited"]
  /\ UNCHANGED <<flow, shared, own, suite>>

Step(f) ==
  \/ Assess(f) \/ FinishAssessment(f) \/ Register(f) \/ CreateIncident(f)
  \/ SignAttestation(f) \/ Assure(f) \/ AssureOther(f) \/ WriteAssurance(f)
  \/ PackRegistry(f) \/ PackDigest(f) \/ PackDigestRaises(f)
  \/ PackIncident(f) \/ PackIncidentRaises(f) \/ WritePack(f)
  \/ SignPack(f) \/ TrustArtifact(f) \/ Lineage(f) \/ LineageRaises(f) \/ Decide(f) \/ HandOver(f)

Next ==
  \/ \E f \in Flow : Step(f) \/ Crash(f) \/ Edit(f)
  \/ \E s \in Suite : StartSuite(s) \/ EndSuite(s)

Spec == Init /\ [][Next]_vars

---------------------------------------------------------------------------
(* Properties *)

PC == {"assess", "bundle", "register", "incident", "attest", "assure", "assured", "pack",
       "pack_digest", "pack_incident", "write_pack", "sign_pack", "artifact", "lineage",
       "decide", "handoff", "done", "raised"}
Disposition == {"NOT_RUN", "BLOCKED", "CONDITIONAL", "DRY_RUN"}
Conclusion == [run : Flow, blocking : BOOLEAN]
Trusted == {NotRun} \cup UNION {Reports(o) : o \in Options}

\* The values the variables take.
TypeOK ==
  /\ \A f \in Flow :
       /\ flow[f].pc \in PC /\ flow[f].options \in Options
       /\ flow[f].control_fails \in BOOLEAN /\ flow[f].assurance \subseteq Conclusion
       /\ flow[f].read \in Seq(Flow) /\ flow[f].observed \in Seq(Flow)
       /\ flow[f].trusted \in Trusted /\ flow[f].built \in {"task", "edited"}
       /\ flow[f].lineage \in BOOLEAN
       /\ flow[f].decision \in Disposition /\ flow[f].overall \in Disposition
  /\ newest \subseteq Flow /\ registry \in Seq(Flow) /\ summary \subseteq Conclusion
  /\ bundle \in [Flow -> {"none", "partial", "final"}]
  /\ suite \in [Suite -> [pc : {"idle", "write", "done"}, result : SUBSET Conclusion]]
  /\ workspace \in [Flow -> {"task", "edited"}]

\* main: the exit status of a flow that returned.
ExitsZero(f) ==
  \/ dry(f)
  \/ /\ flow[f].overall # "BLOCKED"
     /\ flow[f].options.scout_mode = "gate" => flow[f].overall = "EVIDENCE_READY"
     /\ flow[f].lineage

\* A live flow that exits with zero earned it: its own assurance had no blocking
\* failure, whichever summary its decision was made from, no control of its assessment
\* failed, its artifact verified, and the pack it handed over has its quarantine entry.
ExitZeroIsEarned ==
  \A f \in Flow : flow[f].pc = "done" /\ ExitsZero(f) /\ ~dry(f) =>
    /\ flow[f].assurance = {[run |-> f, blocking |-> FALSE]}
    /\ ~flow[f].control_fails /\ flow[f].trusted.overall_status = "VERIFIED"
    /\ \E h \in handoff[f] : \E p \in h.pack : \E i \in DOMAIN p.registry : p.registry[i] = f

\* The disposition a live flow reports is the one in the decision it signed and
\* handed over.
SignedDecisionIsReported ==
  \A f \in Flow : flow[f].pc = "done" /\ ~dry(f) =>
    \A h \in handoff[f] : h.decision = flow[f].overall

\* A pack that was signed has the registry its incident was made from, whoever
\* registers while the pack is made.
PackedRegistryIsTheIncidents ==
  \A f \in Flow : flow[f].pc \in {"artifact", "lineage", "decide", "handoff", "done"} =>
    \A p \in pack[f] : p.incident = incident[f] /\ p.incident \subseteq {p.registry}

\* "its unchanged post-task workspace": what a handed-over lineage calls the agent's
\* artifact was built from what the agent's task left, if edits do not restore it.
LineageNamesTheWorkspace ==
  \A f \in Flow : \A h \in handoff[f] : h.lineage => flow[f].built = "task"

\* "observe: Scout evidence is collected but does not independently hard-block the
\* disposition": a flow whose decision is BLOCKED in observe mode has some other
\* reason for it than Scout.
ObserveDoesNotBlock ==
  \A f \in Flow :
    flow[f].pc = "done" /\ flow[f].options.scout_mode = "observe"
      /\ flow[f].overall = "BLOCKED" =>
        \/ flow[f].control_fails \/ flow[f].trusted.overall_status # "VERIFIED"
        \/ \E a \in summary : a.blocking

=============================================================================
