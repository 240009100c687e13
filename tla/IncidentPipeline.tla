--------------------------- MODULE IncidentPipeline ---------------------------
(***************************************************************************)
(* run_interview_demo of interview_demo.py, by several processes on one    *)
(* output root: an agent run, its assessment, the stop drill, the response *)
(* link, the quarantine entry, the incident bundle, the cleanup and the    *)
(* summary, in that order, each of which may raise.                        *)
(*                                                                         *)
(* A demo's session and sandbox are its own (their names are random) and   *)
(* so are the files named after its run; the registry is everybody's.      *)
(* Whoever runs `quarantine add` writes to it too.                         *)
(***************************************************************************)
EXTENDS QuarantineRegistry, SequencesExt

CONSTANTS Demo,        \* demos, and the sandboxes, sessions and runs named after them
          Adder,       \* `quarantine add` commands
          MaxSecond,   \* bound: the seconds the clock can show
          MaxDamage    \* bound: writes to the registry that are cut short

ASSUME PipelineAssumption ==
  MaxSecond \in Nat /\ MaxDamage \in Nat /\ Demo \cap Adder = {}

VARIABLES registry, damage,
          demo,       \* what each demo holds in memory
          added,      \* the adders that are done
          response,   \* .abl/response/<session>.json
          link,       \* reports/<run>.response-link.json
          incident,   \* reports/<run>.incident.json
          summary,    \* reports/<run>.interview-demo.json
          sandbox     \* "none", "up", or "rm" once its removal was asked for

files == <<response, link, incident, summary>>
vars == <<registry, damage, demo, added, files, sandbox>>

\* A file that is not there is {}, and otherwise the set of its content.  A
\* digest is ideal: it is what was hashed.
Options == [dry_run : BOOLEAN, cleanup : BOOLEAN]

Init ==
  /\ registry = <<>> /\ damage = 0 /\ added = {}
  /\ \E o \in [Demo -> Options] :
       demo = [d \in Demo |->
                 [pc |-> "live", options |-> o[d], executed |-> FALSE, agent_ok |-> FALSE,
                  registered |-> FALSE, incident_verified |-> FALSE,
                  cleanup_succeeded |-> TRUE]]
  /\ response = [d \in Demo |-> {}] /\ link = [d \in Demo |-> {}]
  /\ incident = [d \in Demo |-> {}] /\ summary = [d \in Demo |-> {}]
  /\ sandbox = [d \in Demo |-> "none"]

---------------------------------------------------------------------------
\* Demo d goes from one step to the next with its memory changed to r.
Goes(d, from, r) ==
  demo[d].pc = from /\ demo' = [demo EXCEPT ![d] = r] /\ UNCHANGED added

Registry == <<registry, damage>>

\* A step that raises: what follows it is not run.
Raises(d, from) ==
  /\ Goes(d, from, [demo[d] EXCEPT !.pc = "raised"])
  /\ UNCHANGED <<Registry, files, sandbox>>

\* Any step may raise for reasons of its own, and the process may be killed.
Crash(d) == demo[d].pc \notin {"done", "raised"} /\ Raises(d, demo[d].pc)

\* run_agent_task: without sbx nothing is executed, and there is no return code to fail.
RunAgentTask(d) ==
  /\ \E executed, ok \in BOOLEAN :
       /\ demo[d].options.dry_run => ~executed
       /\ ~executed => ok
       /\ Goes(d, "live", [demo[d] EXCEPT !.pc = "assess", !.executed = executed,
                                          !.agent_ok = ok])
       /\ sandbox' = [sandbox EXCEPT ![d] = IF executed THEN "up" ELSE @]
  /\ UNCHANGED <<Registry, files>>

\* run_assessment and verify_bundle: only a bundle that verifies goes on.
Assess(d) ==
  /\ Goes(d, "assess", [demo[d] EXCEPT !.pc = "drill"])
  /\ UNCHANGED <<Registry, files, sandbox>>

\* Mutant: a dry run's evidence leaves out what was not tested.
DrillBare(d) ==
  LET o == demo[d].options IN
    /\ \E stopped, revoked \in BOOLEAN :
         response' = [response EXCEPT ![d] =
           {IF o.dry_run THEN [by |-> d]
            ELSE [by |-> d, verified_stopped |-> stopped,
                  credential_revocation_tested |-> revoked]}]
    /\ Goes(d, "drill", [demo[d] EXCEPT !.pc = IF o.dry_run THEN "summary" ELSE "link"])
    /\ UNCHANGED <<Registry, link, incident, summary, sandbox>>

\* run_stop_drill, with the revocation test unless it is a dry run.
Drill(d) ==
  LET o == demo[d].options IN
    /\ o.dry_run \/ demo[d].executed
    /\ \E stopped, revoked \in BOOLEAN :
         /\ o.dry_run => ~stopped /\ ~revoked
         /\ response' = [response EXCEPT ![d] =
              {[by |-> d, verified_stopped |-> stopped,
                credential_revocation_tested |-> revoked]}]
    /\ Goes(d, "drill", [demo[d] EXCEPT !.pc = IF o.dry_run THEN "summary" ELSE "link"])
    /\ UNCHANGED <<Registry, link, incident, summary, sandbox>>

\* The drill needs the sbx that the task did not find.
DrillRaises(d) == ~demo[d].options.dry_run /\ ~demo[d].executed /\ Raises(d, "drill")

\* Mutant: the revocation is not required.
LinkResponseStopOnly(d) ==
  /\ \E r \in response[d] :
       /\ r.verified_stopped
       /\ link' = [link EXCEPT ![d] = {r}]
  /\ Goes(d, "link", [demo[d] EXCEPT !.pc = "register"])
  /\ UNCHANGED <<Registry, response, incident, summary, sandbox>>

\* create_response_link with require_revocation, and verify_response_link:
\* evidence that does not say both raises.
LinkResponse(d) ==
  /\ \E r \in response[d] :
       /\ r.verified_stopped /\ r.credential_revocation_tested
       /\ link' = [link EXCEPT ![d] = {r}]
  /\ Goes(d, "link", [demo[d] EXCEPT !.pc = "register"])
  /\ UNCHANGED <<Registry, response, incident, summary, sandbox>>

LinkRaises(d) ==
  /\ \E r \in response[d] : ~(r.verified_stopped /\ r.credential_revocation_tested)
  /\ Raises(d, "link")

\* Mutant: the registry is opened for writing instead of appending.
AppendsOver(component, run, r) ==
  /\ \E now \in 0 .. MaxSecond : registry' = <<Line(now, component, run, r)>>
  /\ UNCHANGED damage

\* The clock is only looked at here, and is not assumed to go forward.
Appends(component, run, r) ==
  /\ \E now \in 0 .. MaxSecond : registry' = Append(registry, Line(now, component, run, r))
  /\ UNCHANGED damage

AppendsPart ==
  /\ damage < MaxDamage /\ damage' = damage + 1
  /\ registry' = Append(registry, Fragment)

\* Only after a verified stop and link, which is all that gets here.
Register(d) ==
  /\ \E r \in response[d] : Appends(d, d, r)
  /\ Goes(d, "register", [demo[d] EXCEPT !.pc = "verify_registry"])
  /\ UNCHANGED <<files, sandbox>>

RegisterFails(d) ==
  /\ AppendsPart
  /\ Goes(d, "register", [demo[d] EXCEPT !.pc = "raised"])
  /\ UNCHANGED <<files, sandbox>>

\* `quarantine add`: any component, any response evidence that exists.
Add(a) ==
  /\ a \notin added /\ added' = added \cup {a}
  /\ \/ \E d, e \in Demo : \E r \in response[e] : Appends(d, a, r)
     \/ AppendsPart
  /\ UNCHANGED <<demo, files, sandbox>>

\* Mutant: a registry that does not verify is looked at again.
CheckRegistryAgain(d) == UNCHANGED vars

CheckRegistryRaises(d) == ~VerifyRegistry(registry) /\ Raises(d, "verify_registry")

\* Mutant: the demo trusts its own append.
CheckRegistryNot(d) ==
  /\ Goes(d, "verify_registry", [demo[d] EXCEPT !.pc = "incident", !.registered = TRUE])
  /\ UNCHANGED <<Registry, files, sandbox>>

CheckRegistry(d) ==
  /\ VerifyRegistry(registry)
  /\ Goes(d, "verify_registry", [demo[d] EXCEPT !.pc = "incident", !.registered = TRUE])
  /\ UNCHANGED <<Registry, files, sandbox>>

\* create_incident_bundle: the digests of the demo's files and of the registry.
CreateIncident(d) ==
  /\ incident' = [incident EXCEPT ![d] =
       {[response |-> response[d], link |-> link[d], registry |-> registry]}]
  /\ Goes(d, "incident", [demo[d] EXCEPT !.pc = "verify_incident"])
  /\ UNCHANGED <<Registry, response, link, summary, sandbox>>

\* verify_incident_bundle of demo d's incident.
VerifyIncident(d) ==
  \E i \in incident[d] :
    i.response = response[d] /\ i.link = link[d] /\ i.registry = registry

CheckIncident(d) ==
  /\ VerifyIncident(d)
  /\ Goes(d, "verify_incident",
          [demo[d] EXCEPT !.incident_verified = TRUE,
                          !.pc = IF demo[d].options.cleanup /\ demo[d].executed
                                   THEN "cleanup" ELSE "summary"])
  /\ UNCHANGED <<Registry, files, sandbox>>

CheckIncidentRaises(d) == ~VerifyIncident(d) /\ Raises(d, "verify_incident")

\* Mutant: the sandbox is removed in a finally block.
CleanupAnyway(d) ==
  /\ demo[d].pc \in {"link", "register", "verify_registry", "incident",
                     "verify_incident", "cleanup"}
  /\ demo[d].options.cleanup
  /\ demo' = [demo EXCEPT ![d].pc = IF @ = "cleanup" THEN "summary" ELSE "raised"]
  /\ sandbox' = [sandbox EXCEPT ![d] = "rm"]
  /\ UNCHANGED <<added, Registry, files>>

\* cleanup_sandbox: whether its command succeeds is only recorded.
Cleanup(d) ==
  /\ \E ok \in BOOLEAN :
       Goes(d, "cleanup", [demo[d] EXCEPT !.pc = "summary", !.cleanup_succeeded = ok])
  /\ sandbox' = [sandbox EXCEPT ![d] = "rm"]
  /\ UNCHANGED <<Registry, files>>

\* Mutant: the summary repeats what was asked for.
WriteSummaryAsAsked(d) ==
  /\ Goes(d, "summary", [demo[d] EXCEPT !.pc = "done"])
  /\ \E r \in response[d] :
       summary' = [summary EXCEPT ![d] =
         {[stopped |-> r.verified_stopped, revoked |-> r.credential_revocation_tested,
           linked |-> link[d] # {}, registered |-> TRUE,
           incident_verified |-> TRUE]}]
  /\ UNCHANGED <<Registry, response, link, incident, sandbox>>

WriteSummary(d) ==
  /\ Goes(d, "summary", [demo[d] EXCEPT !.pc = "done"])
  /\ \E r \in response[d] :
       summary' = [summary EXCEPT ![d] =
         {[stopped |-> r.verified_stopped, revoked |-> r.credential_revocation_tested,
           linked |-> link[d] # {}, registered |-> demo[d].registered,
           incident_verified |-> demo[d].incident_verified]}]
  /\ UNCHANGED <<Registry, response, link, incident, sandbox>>

Step(d) ==
  \/ RunAgentTask(d) \/ Assess(d) \/ Drill(d) \/ DrillRaises(d)
  \/ LinkResponse(d) \/ LinkRaises(d) \/ Register(d)
  \/ CheckRegistry(d) \/ CheckRegistryRaises(d) \/ CreateIncident(d)
  \/ CheckIncident(d) \/ CheckIncidentRaises(d) \/ Cleanup(d) \/ WriteSummary(d)

Next ==
  \/ \E d \in Demo : Step(d) \/ RegisterFails(d) \/ Crash(d)
  \/ \E a \in Adder : Add(a)

Spec == Init /\ [][Next]_vars

FairSpec == Spec /\ \A d \in Demo : WF_vars(Step(d))

---------------------------------------------------------------------------
(* Properties *)

PC == {"live", "assess", "drill", "link", "register", "verify_registry", "incident",
       "verify_incident", "cleanup", "summary", "done", "raised"}

Response ==
  [by : Demo, verified_stopped : BOOLEAN, credential_revocation_tested : BOOLEAN]

Piece == {Fragment}
  \cup [whole : {TRUE}, quarantine_id : (0 .. MaxSecond) \X Demo,
        source_run_id : Demo \cup Adder, response_evidence_sha256 : Response]

\* The values the variables take.
TypeOK ==
  /\ damage \in 0 .. MaxDamage /\ added \subseteq Adder
  /\ registry \in Seq(Piece)
  /\ demo \in [Demo -> [pc : PC, options : Options, executed : BOOLEAN, agent_ok : BOOLEAN,
                        registered : BOOLEAN, incident_verified : BOOLEAN,
                        cleanup_succeeded : BOOLEAN]]
  /\ \A d \in Demo : response[d] \subseteq Response /\ link[d] \subseteq Response
  /\ sandbox \in [Demo -> {"none", "up", "rm"}]

\* The registry has, on a line that parses, a quarantine of demo d's sandbox for
\* the response evidence d's link binds.
Quarantined(d, r) ==
  \E i \in 1 .. Len(r) :
    /\ Readable(r, i)
    /\ r[i].source_run_id = d /\ r[i].quarantine_id[2] = d
    /\ {r[i].response_evidence_sha256} = link[d]

\* main: the exit status of a demo that returned.
ExitsZero(d) ==
  \/ demo[d].options.dry_run
  \/ /\ demo[d].agent_ok
     /\ \A s \in summary[d] :
          s.stopped /\ s.revoked /\ s.linked /\ s.registered /\ s.incident_verified
     /\ demo[d].options.cleanup => demo[d].cleanup_succeeded

\* A summary is true for good: what it calls registered can be read in the registry
\* and is about the evidence that was linked, whatever others write to the registry
\* and whichever of their writes are cut short.
SummaryIsTrue ==
  \A d \in Demo : \A s \in summary[d] :
    /\ s.registered => s.linked /\ s.stopped /\ s.revoked /\ Quarantined(d, registry)
    /\ s.incident_verified => s.registered

\* A live demo that exits with zero executed its agent, asked for the removal of its
\* sandbox if that was wanted, and left evidence of containment and an incident.
ExitZeroMeansContained ==
  \A d \in Demo : demo[d].pc = "done" /\ ExitsZero(d) /\ ~demo[d].options.dry_run =>
    /\ demo[d].executed
    /\ demo[d].options.cleanup => sandbox[d] = "rm"
    /\ \A r \in response[d] : r.verified_stopped /\ r.credential_revocation_tested
    /\ Quarantined(d, registry) /\ incident[d] # {}

\* "registry entry records a decision": one that a demo made has evidence of the
\* stop and of the revocation behind it, also when the demo never finished; and "remove
\* the unique disposable sandbox after all response evidence is verified".
DecisionsHaveEvidence ==
  /\ \A i \in 1 .. Len(registry) :
       registry[i].whole /\ registry[i].source_run_id \in Demo =>
         LET d == registry[i].source_run_id
             r == registry[i].response_evidence_sha256
         IN  /\ r \in response[d] /\ r \in link[d]
             /\ r.verified_stopped /\ r.credential_revocation_tested
  /\ \A d \in Demo : sandbox[d] = "rm" =>
       demo[d].incident_verified /\ \A r \in response[d] : r \in link[d]

\* An incident "preserves linkage": the registry it recorded is a beginning of the
\* registry there is, and the demo's own entry can be read in it.
IncidentPreservesHistory ==
  \A d \in Demo : \A i \in incident[d] :
    IsPrefix(i.registry, registry) /\ Quarantined(d, i.registry)

\* "Evidence is run-scoped and independently verifiable": an incident bundle that
\* its demo verified goes on verifying.
IncidentStaysVerified ==
  \A d \in Demo : demo[d].incident_verified => VerifyIncident(d)

\* A demo ends, by returning or by raising, whatever the registry holds.
DemoEnds == \A d \in Demo : demo[d].pc = "link" ~> demo[d].pc \in {"done", "raised"}

=============================================================================
