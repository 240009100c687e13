--------------------------- MODULE TransitionPack ---------------------------
(***************************************************************************)
(* transition_pack.py: create_transition_pack, with the comparison pack    *)
(* (comparison_pack.py) and the artifact diff (artifact_diff.py) it makes, *)
(* beside builds (run_trusted_artifact) that replace the reports and the   *)
(* archives it reads, and demos that add to the quarantine registry.       *)
(*                                                                         *)
(* A mover is given two bundles and two reports and reads each report and  *)
(* each archive several times, by path, once for the diff (pass 1) and     *)
(* once to verify it (pass 2).  Its temporary directory and its output are *)
(* its own.  A digest is the content it is taken of.                       *)
(***************************************************************************)
EXTENDS OciLayout, GovernanceDelta

CONSTANTS Mover,        \* processes that create one pack each
          Order,        \* what they can be given: two bundles and two places
          Builder,      \* processes that build one artifact each
          Job,          \* what they can be given: a place and the bases of a Dockerfile
          Place,        \* output directories of builds: an archive and a report each
          Earlier,      \* what an earlier build may have left there: layout, base, scout
          Layout,       \* what a build can export
          Scout,        \* the statuses Scout can report
          MaxEntries    \* how often the registry is added to

VARIABLES registry,     \* how many entries the quarantine registry has
          archive,      \* each place's archive: at most one content
          report,       \* each place's report: at most one content
          builder,      \* each build: where it is
          mover,        \* each create: its arguments and what it holds
          pack          \* each mover's output: at most one content

transitionVars == <<registry, archive, report, builder, mover, pack>>

Side == {"before", "after"}
Partial == [whole |-> FALSE]

\* No two builds write the same bytes.
ArchiveOf(by, layout) == [layout EXCEPT !.bytes = [by |-> by, of |-> layout]]

\* TrustedArtifactReport: no two are the same, each has the time and the random name of
\* the builder that its commands were run with.
ReportOf(by, overall, p, content, base, scout) ==
  [whole |-> TRUE, by |-> by, overall |-> overall, place |-> p, archive_sha256 |-> content,
   base |-> base, scout |-> scout]

\* Builds are no places (both name writers), and a digest is what it is taken of.
ASSUME TransitionAssumption ==
  /\ MaxEntries \in Nat
  /\ Builder \cap Place = {}
  /\ \A d, e \in DOMAIN Content : Content[d] = Content[e] => d = e
  /\ \A job \in Job : job.place \in Place
  /\ \A order \in Order :
       /\ order = [evidence |-> order.evidence, place |-> order.place]
       /\ \A s \in Side : order.place[s] \in Place
  /\ \A left \in Earlier : left.scout \in Scout
  /\ \A a \in Layout \cup {left.layout : left \in Earlier} :
       a = [whole |-> a.whole, layout |-> a.layout, lacks |-> a.lacks, bytes |-> a.bytes,
            index |-> a.index]

TransitionStart(left, job, order) ==
  /\ registry = 0
  /\ archive = [p \in Place |-> {ArchiveOf(p, left[p].layout)}]
  /\ report = [p \in Place |-> {ReportOf(p, "VERIFIED", p, {ArchiveOf(p, left[p].layout)},
                                          left[p].base, left[p].scout)}]
  /\ builder = [b \in Builder |->
       [pc |-> "idle", place |-> job[b].place, base |-> job[b].base, verified |-> FALSE]]
  /\ mover = [m \in Mover |->
       [pc |-> "delta", evidence |-> order[m].evidence, place |-> order[m].place, comparison |-> {},
        pass |-> 1, side |-> "before", held |-> {}, taken |-> {},
        seen |-> [s \in Side |-> {}], diff |-> {}, reports |-> [s \in Side |-> {}]]]
  /\ pack = [m \in Mover |-> {}]

TransitionInit ==
  \E left \in [Place -> Earlier], job \in [Builder -> Job], order \in [Mover -> Order] :
    TransitionStart(left, job, order)

---------------------------------------------------------------------------
(* run_trusted_artifact *)

BuilderAt(b, from, to) ==
  builder[b].pc = from /\ builder' = [builder EXCEPT ![b].pc = to]

\* Buildx writes the archive in place.
BuildExport(b) ==
  /\ BuilderAt(b, "idle", "exporting")
  /\ archive' = [archive EXCEPT ![builder[b].place] = {Partial}]
  /\ UNCHANGED <<registry, report, mover, pack>>

BuildEnd(b) ==
  /\ BuilderAt(b, "exporting", "verify")
  /\ \E l \in Layout : archive' = [archive EXCEPT ![builder[b].place] = {ArchiveOf(b, l)}]
  /\ UNCHANGED <<registry, report, mover, pack>>

\* No builder, an error, a timeout or a dry run: what is at the path stays and is
\* reported, with a status that no reader takes for VERIFIED.
BuildFails(b) ==
  /\ BuilderAt(b, "idle", "report") \/ BuilderAt(b, "exporting", "report")
  /\ UNCHANGED <<registry, archive, report, mover, pack>>

BuildVerify(b) ==
  /\ builder[b].pc = "verify"
  /\ builder' = [builder EXCEPT ![b].pc = "report",
       ![b].verified = \A a \in archive[builder[b].place] : VerifyAttestations(a)]
  /\ UNCHANGED <<registry, archive, report, mover, pack>>

\* What overall_status can be: a Dockerfile that fails its checks, or Scout in gate mode,
\* can keep a verified artifact from being called so.
Overall(b) == {"FAILED"} \cup (IF builder[b].verified THEN {"VERIFIED"} ELSE {})

\* After Scout, with the digest of what is at the path by then.
BuildReport(b) ==
  /\ BuilderAt(b, "report", "done")
  /\ \E scout \in Scout, overall \in Overall(b) :
       report' = [report EXCEPT ![builder[b].place] =
         {ReportOf(b, overall, builder[b].place, archive[builder[b].place], builder[b].base, scout)}]
  /\ UNCHANGED <<registry, archive, mover, pack>>

\* A kill that leaves something: the report, too, is written in place. A build killed
\* elsewhere is one that takes no further step.
BuildCrash(b) ==
  /\ BuilderAt(b, "report", "killed")
  /\ report' = [report EXCEPT ![builder[b].place] = {Partial}]
  /\ UNCHANGED <<registry, archive, mover, pack>>

\* A demo registers.
Register ==
  /\ registry < MaxEntries /\ registry' = registry + 1
  /\ UNCHANGED <<archive, report, builder, mover, pack>>

---------------------------------------------------------------------------
(* create_comparison_pack *)

\* create_pack: an incident must still be of the registry that is packed with it.
Exportable(bundle) == bundle.incident \subseteq {registry}

\* verify_pack, of the pack made of a bundle and the registry as it was.
VerifyPack(p) == p.bundle.verifies /\ p.bundle.incident \subseteq {p.registry}

VerifyComparison(c) ==
  /\ \A s \in Side : VerifyPack(c[s])
  /\ VerifyDelta(c.delta, c.before.bundle, c.after.bundle)
  /\ c.run_ids = <<c.before.bundle.run_id, c.after.bundle.run_id>>

MoverAt(m, from, to) ==
  mover[m].pc = from /\ mover' = [mover EXCEPT ![m].pc = to]

Given(m, s) == mover[m].evidence[s]

\* build_delta, and the two attestations, which must bind to their manifests.
MoveDelta(m) ==
  /\ Comparable(Given(m, "before"), Given(m, "after"))
  /\ \A s \in Side : Given(m, s).attested
  /\ MoverAt(m, "delta", "pack")
  /\ UNCHANGED <<registry, archive, report, builder, pack>>

\* create_pack of both, with one registry: the order in which it is read and grows is
\* TrustFlow's.
MoveCompare(m) ==
  LET c == [before |-> [bundle |-> Given(m, "before"), registry |-> registry],
            after  |-> [bundle |-> Given(m, "after"), registry |-> registry],
            delta  |-> BuildDelta(Given(m, "before"), Given(m, "after")),
            run_ids |-> <<Given(m, "before").run_id, Given(m, "after").run_id>>]
  IN  /\ \A s \in Side : Exportable(Given(m, s))
      /\ mover[m].pc = "pack" /\ VerifyComparison(c)
      /\ mover' = [mover EXCEPT ![m].pc = "report", ![m].comparison = {c}]
      /\ UNCHANGED <<registry, archive, report, builder, pack>>

MoveCompareRaises(m) ==
  /\ \/ /\ MoverAt(m, "delta", "raised")
        /\ ~ (/\ Comparable(Given(m, "before"), Given(m, "after"))
              /\ \A s \in Side : Given(m, s).attested)
     \/ /\ MoverAt(m, "pack", "raised")
        /\ \E s \in Side : ~Exportable(Given(m, s))
  /\ UNCHANGED <<registry, archive, report, builder, pack>>

---------------------------------------------------------------------------
(* _verified_snapshot, of the side that is looked at *)

Reported(m) == report[mover[m].place[mover[m].side]]
Pointed(m) == UNION {archive[r.place] : r \in mover[m].held}

\* What each read must find for the snapshot to go on.
Acceptable(m) ==
  CASE mover[m].pc = "report"     -> \A r \in Reported(m) : r.whole /\ r.overall = "VERIFIED"
    [] mover[m].pc = "hash"       -> \A r \in mover[m].held : Pointed(m) = r.archive_sha256
    [] mover[m].pc = "graph"      -> \A a \in Pointed(m) : VerifyLayout(a)
    [] mover[m].pc = "statements" -> \A a \in Pointed(m) : VerifyAttestations(a)
    [] mover[m].pc = "snapshot"   -> \A a \in Pointed(m) : Snapshottable(a) /\ Runnable(a) # {}
    [] OTHER -> TRUE

SnapshotRaises(m) ==
  /\ ~Acceptable(m)
  /\ mover' = [mover EXCEPT ![m].pc = "raised"]
  /\ UNCHANGED <<registry, archive, report, builder, pack>>

ReadReport(m) ==
  /\ mover[m].pc = "report" /\ Acceptable(m)
  /\ mover' = [mover EXCEPT ![m].pc = "hash", ![m].held = Reported(m)]
  /\ UNCHANGED <<registry, archive, report, builder, pack>>

\* The digest, the graph and the attestations, each from a file opened anew.
HashArchive(m) ==
  /\ Acceptable(m) /\ MoverAt(m, "hash", "graph")
  /\ UNCHANGED <<registry, archive, report, builder, pack>>

VerifyGraph(m) ==
  /\ Acceptable(m) /\ MoverAt(m, "graph", "statements")
  /\ UNCHANGED <<registry, archive, report, builder, pack>>

VerifyStatements(m) ==
  /\ Acceptable(m) /\ MoverAt(m, "statements", "snapshot")
  /\ UNCHANGED <<registry, archive, report, builder, pack>>

ReadArchive(m) ==
  /\ mover[m].pc = "snapshot" /\ Acceptable(m)
  /\ mover' = [mover EXCEPT ![m].pc = "rehash", ![m].taken = {Snapshot(a) : a \in Pointed(m)}]
  /\ UNCHANGED <<registry, archive, report, builder, pack>>

\* ArtifactSnapshot, with the digest of the report as it is by now.
ArtifactSnapshot(m) ==
  {[report |-> Reported(m), archive |-> r.archive_sha256, runnable |-> t.runnable,
    predicates |-> t.predicates, materials |-> t.materials, statements |-> t.statements,
    base |-> r.base, scout |-> r.scout] : r \in mover[m].held, t \in mover[m].taken}

\* The before side is followed by the after side.
HashReport(m) ==
  /\ mover[m].pc = "rehash"
  /\ mover' = [mover EXCEPT ![m].seen[mover[m].side] = ArtifactSnapshot(m),
                            ![m].held = {}, ![m].taken = {}, ![m].side = "after",
                            ![m].pc = IF mover[m].side = "before" THEN "report" ELSE "compare"]
  /\ UNCHANGED <<registry, archive, report, builder, pack>>

---------------------------------------------------------------------------
(* create_artifact_diff, verify_artifact_diff and the rest of create_transition_pack *)

Diffs(m) == {BuildDiff(b, a) : b \in mover[m].seen["before"], a \in mover[m].seen["after"]}

\* Mutant: the diff is not verified against the reports and archives again.
WriteDiffOnce(m) ==
  /\ mover[m].pc = "compare"
  /\ mover' = [mover EXCEPT ![m].pc = "embed", ![m].diff = Diffs(m)]
  /\ UNCHANGED <<registry, archive, report, builder, pack>>

WriteDiff(m) ==
  /\ mover[m].pc = "compare" /\ mover[m].pass = 1
  /\ mover' = [mover EXCEPT ![m].pc = "report", ![m].side = "before", ![m].pass = 2,
                            ![m].diff = Diffs(m)]
  /\ UNCHANGED <<registry, archive, report, builder, pack>>

VerifyDiff(m) ==
  /\ mover[m].pass = 2 /\ Diffs(m) = mover[m].diff
  /\ MoverAt(m, "compare", "embed")
  /\ UNCHANGED <<registry, archive, report, builder, pack>>

VerifyDiffRaises(m) ==
  /\ mover[m].pass = 2 /\ Diffs(m) # mover[m].diff
  /\ MoverAt(m, "compare", "raised")
  /\ UNCHANGED <<registry, archive, report, builder, pack>>

\* The reports are read once more to be embedded, and must be those of the diff.
EmbedReport(m, s) == report[mover[m].place[s]]

Embeds(m) == \A d \in mover[m].diff, s \in Side : EmbedReport(m, s) = d[s].report

\* Mutant: they are embedded as they are.
EmbedReportsUnchecked(m) ==
  /\ mover[m].pc = "embed"
  /\ mover' = [mover EXCEPT ![m].pc = "write", ![m].reports = [s \in Side |-> EmbedReport(m, s)]]
  /\ UNCHANGED <<registry, archive, report, builder, pack>>

EmbedReports(m) ==
  /\ mover[m].pc = "embed" /\ Embeds(m)
  /\ mover' = [mover EXCEPT ![m].pc = "write", ![m].reports = [s \in Side |-> EmbedReport(m, s)]]
  /\ UNCHANGED <<registry, archive, report, builder, pack>>

EmbedReportsRaises(m) ==
  /\ ~Embeds(m) /\ MoverAt(m, "embed", "raised")
  /\ UNCHANGED <<registry, archive, report, builder, pack>>

\* The ZIP, its signature and the verification of the signature.
WriteTransition(m) ==
  /\ MoverAt(m, "write", "done")
  /\ pack' = [pack EXCEPT ![m] =
       {[whole |-> TRUE, comparison |-> c, diff |-> d, reports |-> mover[m].reports,
         manifest |-> [run_ids |-> c.run_ids, classification |-> d.classification]] :
           c \in mover[m].comparison, d \in mover[m].diff}]
  /\ UNCHANGED <<registry, archive, report, builder>>

\* A kill while the ZIP is written.
MoverCrash(m) ==
  /\ MoverAt(m, "write", "raised")
  /\ pack' = [pack EXCEPT ![m] = {Partial}]
  /\ UNCHANGED <<registry, archive, report, builder>>

\* verify_transition_pack without the archives.
VerifyTransition(p) ==
  /\ p.whole /\ VerifyComparison(p.comparison)
  /\ \A s \in Side : p.reports[s] = p.diff[s].report
  /\ p.manifest = [run_ids |-> p.comparison.run_ids, classification |-> p.diff.classification]

---------------------------------------------------------------------------
BuildStep(b) ==
  BuildExport(b) \/ BuildEnd(b) \/ BuildFails(b) \/ BuildVerify(b) \/ BuildReport(b) \/ BuildCrash(b)

MoveStep(m) ==
  \/ MoveDelta(m) \/ MoveCompare(m) \/ MoveCompareRaises(m)
  \/ ReadReport(m) \/ HashArchive(m) \/ VerifyGraph(m) \/ VerifyStatements(m)
  \/ ReadArchive(m) \/ SnapshotRaises(m) \/ HashReport(m)
  \/ WriteDiff(m) \/ VerifyDiff(m) \/ VerifyDiffRaises(m)
  \/ EmbedReports(m) \/ EmbedReportsRaises(m) \/ WriteTransition(m)

TransitionNext ==
  \/ Register
  \/ \E b \in Builder : BuildStep(b)
  \/ \E m \in Mover : MoveStep(m) \/ MoverCrash(m)

TransitionSpec == TransitionInit /\ [][TransitionNext]_transitionVars

---------------------------------------------------------------------------
(* Properties *)

\* The values the variables take.
TransitionTypeOK ==
  /\ registry \in 0 .. MaxEntries
  /\ \A p \in Place : \A a \in archive[p] : a.whole => a.bytes.by \in Place \cup Builder
  /\ \A p \in Place : \A r \in report[p] : r.whole =>
       r.overall \in {"VERIFIED", "FAILED"} /\ r.place = p /\ r.scout \in Scout
  /\ \A b \in Builder : builder[b].pc \in {"idle", "exporting", "verify", "report", "done", "killed"}
  /\ \A m \in Mover :
       /\ mover[m].pc \in {"delta", "pack", "report", "hash", "graph", "statements", "snapshot",
                           "rehash", "compare", "embed", "write", "done", "raised"}
       /\ mover[m].pass \in {1, 2} /\ mover[m].side \in Side
       /\ [evidence |-> mover[m].evidence, place |-> mover[m].place] \in Order

\* What the two embedded reports say of what was built, from the archives they name.
TrueClassification(before, after, b, a) ==
  IF Images(b) # Images(a) THEN "ARTIFACT_CHANGED"
  ELSE IF \/ Predicates(b) # Predicates(a)
          \/ UNION {Content[l].materials : l \in Statements(b)}
               # UNION {Content[l].materials : l \in Statements(a)}
          \/ <<before.base, before.scout>> # <<after.base, after.scout>>
    THEN "BUILD_EVIDENCE_CHANGED"
  ELSE IF b.bytes # a.bytes THEN "REPACKAGED_EQUIVALENT" ELSE "IDENTICAL"

\* Each embedded report is there to the end, and so was the archive that it names.
NothingHalfWritten(p) ==
  \A s \in Side : \A r \in p.reports[s] : r.whole /\ \A a \in r.archive_sha256 : a # Partial

\* What a pack says of each side is what the report in it says, and of the artifact what
\* is in the archive that this report names, undamaged and attested; the classification
\* is that of these two archives; and its delta is between bundles that verified.
TellsTheTruth(p) ==
  /\ \A s \in Side : \A r \in p.reports[s] :
       /\ r.overall = "VERIFIED"
       /\ \A a \in r.archive_sha256 :
            /\ Sound(a)
            /\ p.diff[s].archive = {a} /\ p.diff[s].runnable = Snapshot(a).runnable
            /\ p.diff[s].base = r.base /\ p.diff[s].scout = r.scout
  /\ \A rb \in p.reports["before"], ra \in p.reports["after"] :
       \A b \in rb.archive_sha256, a \in ra.archive_sha256 :
         p.diff.classification = TrueClassification(rb, ra, b, a)
  /\ \A s \in Side : p.comparison[s].bundle.verifies /\ p.comparison[s].bundle.attested

\* A pack that was written tells the truth, whichever builds replaced reports and archives
\* while it was made. Files cut short in the middle of a write are all alike, which three
\* builds in one directory can use to be read as the same file twice: of those a pack
\* tells nothing.
TransitionTellsTheTruth ==
  \A m \in Mover : \A p \in pack[m] : p.whole /\ NothingHalfWritten(p) => TellsTheTruth(p)

\* A create that returned made a pack that verify_transition_pack accepts, though it
\* does not verify it itself.
CreatedTransitionVerifies ==
  \A m \in Mover : mover[m].pc = "done" => \A p \in pack[m] : VerifyTransition(p)

=============================================================================
