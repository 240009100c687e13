---------------------------- MODULE AssessmentRun ----------------------------
(***************************************************************************)
(* run_assessment of engine.py, by several processes that share one output *)
(* root.  A run names itself after the second it starts in and owns        *)
(* evidence/<run_id> from then on; what a process holds in memory (its     *)
(* TraceLedger, the report it builds) is lost when it crashes, what is on  *)
(* disk stays.  Evaluators degrade: what one of them raises is caught by   *)
(* evaluate() and logged as control.error.  Anything raised elsewhere, a   *)
(* failed ledger write included, ends the process: that is Crash.          *)
(***************************************************************************)
EXTENDS EvidenceBundle

CONSTANTS Proc,          \* processes that run one assessment each
          Config,        \* configurations: is an agent run imported, is the audit read, and
                         \* how many controls of either kind find something to do
          Probes,        \* at most so many of those evaluated before the ledger is read
          Readers,       \* at most so many of those that read it before OBS-06 does
          MaxSecond,     \* bound: the seconds the clock goes through
          MaxFaults      \* bound: ledger writes that fail inside evaluators or in a crash

EventType == {"assessment.started", "agent.task.started", "agent.task.completed",
              "probe", "control.error", "assessment.probes_completed",
              "docker.audit", "assessment.completed"}

ASSUME RunAssumption ==
  /\ Probes \in Nat /\ Readers \in Nat /\ MaxSecond \in Nat /\ MaxFaults \in Nat
  /\ Config \subseteq [agent_run : BOOLEAN, docker_audit : BOOLEAN,
                       probes : 0 .. Probes, readers : 0 .. Readers]
  /\ Body = [type : EventType, config : Config]
  /\ Bytes = Config
  /\ OtherPath = {"config", "agent-run", "controls", "docker-audit"}

RunId == 0 .. MaxSecond    \* "abl-" + the UTC time, to the second

VARIABLES now,       \* the clock, in seconds
          disk,      \* evidence/<run_id>
          run,       \* what each process holds in memory
          reports,   \* digest in reports/<run_id>.attestation.json, at most one
          returned,  \* what each run returned: the anchor a reader keeps, at most one
          faults     \* ledger writes that have failed so far

vars == <<now, disk, run, reports, returned, faults>>

PC == {"idle", "open", "import", "probes", "audit", "integrity", "complete",
       "assessment", "manifest", "attest", "done", "crashed"}

\* A process that will start in this second, on this configuration.  No two records or
\* files of one run differ by who wrote them: two processes that start on one
\* configuration in one second write the same bytes.
IdleWith(c, second) ==
  [pc |-> "idle", config |-> c, run_id |-> second, sequence |-> 0, previous_hash |-> GENESIS_HASH,
   probes |-> c.probes, readers |-> c.readers, imported |-> "none", obs06 |-> "none"]

Init ==
  /\ now = 0
  /\ disk = [r \in RunId |-> EmptyBundle]
  /\ \E c \in [Proc -> Config], second \in [Proc -> RunId] :
       run = [p \in Proc |-> IdleWith(c[p], second[p])]
  /\ reports = [r \in RunId |-> {}]
  /\ returned = [p \in Proc |-> {}]
  /\ faults = 0

---------------------------------------------------------------------------
(* A step works on a pair [mem, dir]: the process's memory and its bundle. *)

At(p) == [mem |-> run[p], dir |-> disk[run[p].run_id]]

LedgerOf(w) ==
  IF "trace" \in Present(w.dir)
    THEN w.dir.files["trace"]
    ELSE [events |-> <<>>, torn |-> FALSE, rest |-> w.mem.config]

\* Mutant: the ledger file is opened for writing instead of appending.
EmitOverwrites(w, type) ==
  LET rec == Record(w.mem.sequence + 1, [type |-> type, config |-> w.mem.config],
                    w.mem.previous_hash)
  IN  [mem |-> [w.mem EXCEPT !.sequence = @ + 1, !.previous_hash = rec.event_hash],
       dir |-> WithFile(w.dir, "trace", [LedgerOf(w) EXCEPT !.events = <<rec>>])]

\* TraceLedger.append: the counter first, the line next, previous_hash last.
Emit(w, type) ==
  LET rec == Record(w.mem.sequence + 1, [type |-> type, config |-> w.mem.config],
                    w.mem.previous_hash)
      old == LedgerOf(w)
  IN  [mem |-> [w.mem EXCEPT !.sequence = @ + 1, !.previous_hash = rec.event_hash],
       dir |-> WithFile(w.dir, "trace", [old EXCEPT !.events = Append(@, rec)])]

\* The same append when the write raises: the counter has moved and previous_hash has
\* not; nothing of the line, part of it or all of it is there.
EmitFails(w, left) ==
  [mem |-> [w.mem EXCEPT !.sequence = @ + 1],
   dir |-> IF left = "line" THEN Emit(w, "probe").dir
           ELSE WithFile(w.dir, "trace", [LedgerOf(w) EXCEPT !.torn = @ \/ left = "part"])]

Write(w, path) == [w EXCEPT !.dir = WithFile(@, path, w.mem.config)]

\* Process p goes to pc with the memory and the bundle of w.
Becomes(p, w, pc) ==
  /\ run' = [run EXCEPT ![p] = [w.mem EXCEPT !.pc = pc]]
  /\ disk' = [disk EXCEPT ![run[p].run_id] = w.dir]
  /\ UNCHANGED <<now, reports, returned>>

Started(q) == run[q].pc # "idle"

\* No other run has started in p's second, so far.
Alone(p) == \A q \in Proc \ {p} : Started(q) => run[q].run_id # run[p].run_id

---------------------------------------------------------------------------
Tick ==
  /\ now < MaxSecond
  /\ now' = now + 1
  /\ UNCHANGED <<disk, run, reports, returned, faults>>

\* The directory may exist already; a ledger found in it is unlinked.
Start(p) ==
  /\ run[p].pc = "idle" /\ run[p].run_id = now
  /\ run' = [run EXCEPT ![p].pc = "open"]
  /\ disk' = [disk EXCEPT ![now] = WithoutFile(@, "trace")]
  /\ UNCHANGED <<now, reports, returned, faults>>

OpenRun(p) ==
  /\ run[p].pc = "open"
  /\ Becomes(p, Emit(Write(At(p), "config"), "assessment.started"), "import")
  /\ UNCHANGED faults

\* The verdict on the capsule's manifest is recorded; the session is imported
\* whatever it is.
ImportAgentRun(p) ==
  /\ run[p].pc = "import" /\ run[p].config.agent_run
  /\ \E verdict \in {"valid", "invalid"} :
       LET w == [Write(At(p), "agent-run") EXCEPT !.mem.imported = verdict]
       IN  Becomes(p, Emit(Emit(w, "agent.task.started"), "agent.task.completed"),
                   "probes")
  /\ UNCHANGED faults

NoAgentRun(p) ==
  /\ run[p].pc = "import" /\ ~run[p].config.agent_run
  /\ Becomes(p, At(p), "probes")
  /\ UNCHANGED faults

\* Mutant: the loop over the controls does not stop.
EvaluateProbeAgain(p) ==
  /\ run[p].pc = "probes"
  /\ LET w == [Write(At(p), "controls") EXCEPT !.mem.probes = @ - 1]
     IN  \/ Becomes(p, w, "probes")
         \/ \E type \in {"probe", "control.error"} : Becomes(p, Emit(w, type), "probes")
  /\ UNCHANGED faults

\* A control evaluated before the ledger is read.  It logs nothing, or events of
\* its own (one stands for them), or raises and the handler logs control.error.
EvaluateProbe(p) ==
  /\ run[p].pc = "probes" /\ run[p].probes > 0
  /\ LET w == [Write(At(p), "controls") EXCEPT !.mem.probes = @ - 1]
     IN  \/ Becomes(p, w, "probes")
         \/ \E type \in {"probe", "control.error"} : Becomes(p, Emit(w, type), "probes")
  /\ UNCHANGED faults

\* Its own append fails, and the handler's, right after it, does not.
ProbeAppendFails(p) ==
  /\ run[p].pc = "probes" /\ run[p].probes > 0
  /\ faults < MaxFaults
  /\ faults' = faults + 1
  /\ \E left \in {"nothing", "part", "line"} :
       LET w == [Write(At(p), "controls") EXCEPT !.mem.probes = @ - 1]
       IN  Becomes(p, Emit(EmitFails(w, left), "control.error"), "probes")

\* Mutant: the step is not logged.
ProbesCompletedSilent(p) ==
  /\ run[p].pc = "probes" /\ run[p].probes = 0
  /\ Becomes(p, At(p), "audit")
  /\ UNCHANGED faults

ProbesCompleted(p) ==
  /\ run[p].pc = "probes" /\ run[p].probes = 0
  /\ Becomes(p, Emit(At(p), "assessment.probes_completed"), "audit")
  /\ UNCHANGED faults

\* The audit records selected, if any, are written out and logged.
IngestAudit(p) ==
  /\ run[p].pc = "audit" /\ run[p].config.docker_audit
  /\ LET w == Write(At(p), "docker-audit")
     IN  Becomes(p, Emit(w, "docker.audit"), "integrity") \/ Becomes(p, w, "integrity")
  /\ UNCHANGED faults

NoAudit(p) ==
  /\ run[p].pc = "audit" /\ ~run[p].config.docker_audit
  /\ Becomes(p, At(p), "integrity")
  /\ UNCHANGED faults

\* AUT-01, OBS-01, OBS-02 and OBS-05 read the ledger and log nothing of their
\* own.  One raises on a line that does not parse, or for reasons of its own.
EvaluateReader(p) ==
  /\ run[p].pc = "integrity" /\ run[p].readers > 0
  /\ LET w == [Write(At(p), "controls") EXCEPT !.mem.readers = @ - 1]
     IN  \/ ~LedgerOf(w).torn /\ Becomes(p, w, "integrity")
         \/ Becomes(p, Emit(w, "control.error"), "integrity")
  /\ UNCHANGED faults

\* Mutant: a ledger that parses is taken for one that chains.
EvaluateIntegrityParses(p) ==
  /\ run[p].pc = "integrity" /\ run[p].readers = 0
  /\ LET w == Write(At(p), "controls")
     IN  \/ /\ ~LedgerOf(w).torn
            /\ Becomes(p, [w EXCEPT !.mem.obs06 = "PARTIAL"], "complete")
         \/ Becomes(p, Emit([w EXCEPT !.mem.obs06 = "ERROR"], "control.error"), "complete")
  /\ UNCHANGED faults

\* Mutant: OBS-06 waits for a ledger that verifies.
EvaluateIntegrityWaits(p) ==
  /\ run[p].pc = "integrity" /\ run[p].readers = 0
  /\ LET w == Write(At(p), "controls")
     IN  VerifyTrace(w.dir) /\ Becomes(p, [w EXCEPT !.mem.obs06 = "PARTIAL"], "complete")
  /\ UNCHANGED faults

\* OBS-06, the last of them: verify_trace on the ledger so far.
EvaluateIntegrity(p) ==
  /\ run[p].pc = "integrity" /\ run[p].readers = 0
  /\ LET w == Write(At(p), "controls")
         verdict == IF VerifyTrace(w.dir) THEN "PARTIAL" ELSE "FAIL"
     IN  \/ /\ ~LedgerOf(w).torn
            /\ Becomes(p, [w EXCEPT !.mem.obs06 = verdict], "complete")
         \/ Becomes(p, Emit([w EXCEPT !.mem.obs06 = "ERROR"], "control.error"), "complete")
  /\ UNCHANGED faults

CompleteRun(p) ==
  /\ run[p].pc = "complete"
  /\ Becomes(p, Emit(At(p), "assessment.completed"), "assessment")
  /\ UNCHANGED faults

\* assessment.json takes its anchors from the ledger object, not from the file.
WriteAssessment(p) ==
  /\ run[p].pc = "assessment"
  /\ LET w == At(p)
     IN  Becomes(p, [w EXCEPT !.dir = WithFile(@, "assessment",
                       [meta |-> "recorded", head |-> w.mem.previous_hash,
                        count |-> w.mem.sequence, rest |-> w.mem.config])], "manifest")
  /\ UNCHANGED faults

WriteManifest(p) ==
  /\ run[p].pc = "manifest"
  /\ Becomes(p, [At(p) EXCEPT !.dir = Finalized(@)], "attest")
  /\ UNCHANGED faults

\* Mutant: a file is added and the manifest refreshed after it was hashed.
AttestThenRefresh(p) ==
  /\ run[p].pc = "attest"
  /\ LET r == run[p].run_id
         m == Sha256(disk[r].manifest.entries)
     IN  /\ reports' = [reports EXCEPT ![r] = {m}]
         /\ returned' = [returned EXCEPT ![p] = {[manifest |-> m, head |-> run[p].previous_hash]}]
         /\ run' = [run EXCEPT ![p].pc = "done"]
         /\ disk' = [disk EXCEPT ![r] = Finalized(WithFile(@, "agent-run", run[p].config))]
  /\ UNCHANGED <<now, faults>>

\* write_run_attestation hashes the manifest again; what the run returns and
\* prints (the anchor a reader may keep elsewhere) is that digest and the head.
Attest(p) ==
  /\ run[p].pc = "attest"
  /\ LET r == run[p].run_id
         m == Sha256(disk[r].manifest.entries)
     IN  /\ reports' = [reports EXCEPT ![r] = {m}]
         /\ returned' = [returned EXCEPT ![p] = {[manifest |-> m, head |-> run[p].previous_hash]}]
         /\ run' = [run EXCEPT ![p].pc = "done"]
  /\ UNCHANGED <<now, disk, faults>>

\* The process ends early, at any step; one that dies while it appends, or while
\* it writes the manifest, may leave bytes that do not parse.
Crash(p) ==
  /\ run[p].pc \notin {"idle", "done", "crashed"}
  /\ run' = [run EXCEPT ![p].pc = "crashed"]
  /\ \/ UNCHANGED <<disk, faults>>
     \/ /\ faults < MaxFaults /\ faults' = faults + 1
        /\ "trace" \in Present(disk[run[p].run_id])
        /\ run[p].pc \notin {"open", "assessment", "manifest", "attest"}
        /\ disk' = [disk EXCEPT ![run[p].run_id] =
                      WithFile(@, "trace", [@.files["trace"] EXCEPT !.torn = TRUE])]
     \/ /\ run[p].pc = "manifest"
        /\ disk' = [disk EXCEPT ![run[p].run_id].manifest = TornManifest]
        /\ UNCHANGED faults
  /\ UNCHANGED <<now, reports, returned>>

Step(p) ==
  \/ Start(p) \/ OpenRun(p) \/ ImportAgentRun(p) \/ NoAgentRun(p)
  \/ EvaluateProbe(p) \/ ProbeAppendFails(p) \/ ProbesCompleted(p)
  \/ IngestAudit(p) \/ NoAudit(p) \/ EvaluateReader(p) \/ EvaluateIntegrity(p)
  \/ CompleteRun(p)
  \/ WriteAssessment(p) \/ WriteManifest(p) \/ Attest(p)

Next == Tick \/ \E p \in Proc : Step(p) \/ Crash(p)

Spec == Init /\ [][Next]_vars

\* Nobody has to start.
FairSpec == Spec /\ \A p \in Proc : WF_vars(Started(p) /\ Step(p))

---------------------------------------------------------------------------
(* Properties *)

BundleOK(b) ==
  /\ Shaped(b) /\ ContentOK(b)
  /\ b.manifest.state \in {"absent", "torn", "whole"}

Memory == [pc : PC, config : Config, run_id : RunId,
           sequence : Nat, previous_hash : Digest,
           probes : 0 .. Probes, readers : 0 .. Readers,
           imported : {"none", "valid", "invalid"},
           obs06 : {"none", "PARTIAL", "FAIL", "ERROR"}]

\* The values the variables take.
TypeOK ==
  /\ now \in RunId
  /\ disk = [r \in RunId |-> disk[r]] /\ \A r \in RunId : BundleOK(disk[r])
  /\ run \in [Proc -> Memory]
  /\ DOMAIN reports = RunId /\ DOMAIN returned = Proc
  /\ faults \in 0 .. MaxFaults

\* A run whose OBS-06 control found the ledger sound passes verify_bundle against
\* the digests it returned, and one whose control found it broken does not, though
\* more records and the anchors are written after that verdict: ledger writes that
\* fail inside an evaluator are survived, and never hidden.
VerdictMatchesEvidence ==
  \A p \in Proc : run[p].pc = "done" /\ Alone(p) =>
    \A a \in returned[p] :
      LET verified == VerifyBundle(disk[run[p].run_id], {a.manifest}, {a.head})
      IN  /\ run[p].obs06 = "PARTIAL" => verified
          /\ run[p].obs06 = "FAIL" => ~verified

\* A directory that verifies on its own holds a run that came to its end: a
\* crash at any step leaves nothing that passes for a complete assessment.
VerifiedBundleIsComplete ==
  \A r \in RunId : VerifyBundle(disk[r], {}, {}) =>
    LET events == Events(disk[r]) IN
      /\ events[1].body.type = "assessment.started"
      /\ events[Len(events)].body.type = "assessment.completed"
      /\ \E i \in 1 .. Len(events) : events[i].body.type = "assessment.probes_completed"

\* The run that a report is about: its attestation still has the digest of the
\* manifest on disk.
AttestationMatchesManifest ==
  \A p \in Proc : run[p].pc = "done" /\ Alone(p) =>
    reports[run[p].run_id] = {Sha256(disk[run[p].run_id].manifest.entries)}

\* Records made under two configurations never make a ledger that verifies,
\* even when two runs write to the same directory.
VerifiedLedgerHasOneConfig ==
  \A r \in RunId : VerifyTrace(disk[r]) =>
    \A i, j \in 1 .. Len(Events(disk[r])) :
      Events(disk[r])[i].body.config = Events(disk[r])[j].body.config

\* No step changes the evidence of a run that has finished.
FinishedEvidenceIsStable ==
  [][\A p \in Proc : run[p].pc = "done" =>
       disk'[run[p].run_id] = disk[run[p].run_id]]_vars

\* A run that has started finishes or crashes, whatever its evaluators raise.
StartedRunEnds ==
  \A p \in Proc : run[p].pc = "open" ~> run[p].pc \in {"done", "crashed"}

\* What a run directory promises its readers as long as one run has it: an append-only
\* log, sealed by the manifest.
LogOf(b) == IF "trace" \in Present(b) THEN Events(b) ELSE <<>>

Shared(r) == \E p \in Proc : Started(p) /\ run[p].run_id = r /\ ~Alone(p)

Promise == INSTANCE SealedLog WITH
  Id     <- RunId,
  log    <- [r \in RunId |-> IF Shared(r) THEN <<>> ELSE LogOf(disk[r])],
  sealed <- {r \in RunId : ~Shared(r) /\ disk[r].manifest.state = "whole"},
  shared <- {r \in RunId : Shared(r)}

\* Every step of every run maps to an append, a seal, the loss of a directory to two
\* runs or nothing of that log.
ImplementsSealedLog == Promise!Spec

=============================================================================
