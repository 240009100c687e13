--------------------------- MODULE EvidenceMatrix ---------------------------
(***************************************************************************)
(* The verifier regression of evidence_matrix.py: copies of a finished     *)
(* bundle are edited and put to verify_bundle, on its own and against the  *)
(* digests of the original kept elsewhere.  run_verification_matrix makes  *)
(* three fixed series of edits; here the same edits, and the two losses a  *)
(* bundle meets in storage, come in any order and number up to MaxEdits.   *)
(***************************************************************************)
EXTENDS EvidenceBundle

CONSTANTS MaxEdits,    \* bound: edits of one copy
          MaxEvents    \* bound: records of the original ledger

ASSUME MatrixAssumption == MaxEdits \in Nat /\ MaxEvents \in Nat

VARIABLES source,   \* the finished bundle
          copy,     \* the copy under edit
          edits     \* what was done to it, in order

vars == <<source, copy, edits>>

\* The ledger an undisturbed run leaves when its records say `bodies`.
ChainedLedger(bodies) ==
  [i \in 1 .. Len(bodies) |->
     Record(i, bodies[i], [j \in 1 .. i-1 |-> <<j, bodies[j]>>])]

\* The bundle run_assessment finalizes.
FinishedBundle(bodies, bytes) ==
  LET events == ChainedLedger(bodies)
      other  == [p \in OtherPath |-> bytes]
      ledger == [events |-> events, torn |-> FALSE, rest |-> bytes]
      anchor == [meta |-> "recorded", head |-> HeadHash(events),
                 count |-> Len(events), rest |-> bytes]
  IN  Finalized([files |-> [p \in Path |-> CASE p = "trace" -> ledger
                                             [] p = "assessment" -> anchor
                                             [] OTHER -> other[p]],
                 manifest |-> NoManifest])

Init ==
  /\ \E n \in 1 .. MaxEvents : \E bodies \in [1 .. n -> Body], bytes \in Bytes :
       source = FinishedBundle(bodies, bytes)
  /\ VerifyBundle(source, {}, {})     \* or the matrix refuses to start
  /\ copy = source
  /\ edits = <<>>

Edit(name, edited) ==
  /\ Len(edits) < MaxEdits
  /\ copy' = edited
  /\ edits' = Append(edits, name)
  /\ UNCHANGED source

\* Mutant: the copy goes the wrong way.
CopyBundleBack ==
  /\ source' = copy /\ edits' = <<>>
  /\ UNCHANGED copy

\* _copy_bundle: the next scenario starts from the original.
CopyBundle ==
  /\ copy' = source /\ edits' = <<>>
  /\ UNCHANGED source

\* Bytes no verifier reads change; of a file it does not read, all of them.
AlterFile(path) ==
  /\ path \in Present(copy)
  /\ \E bytes \in Bytes :
       IF path \in OtherPath
         THEN /\ bytes # copy.files[path]
              /\ Edit("alter", WithFile(copy, path, bytes))
         ELSE /\ bytes # copy.files[path].rest
              /\ Edit("alter", WithFile(copy, path, [copy.files[path] EXCEPT !.rest = bytes]))

\* The ledger is written back without its last record (two are required).
TruncateTrace ==
  /\ "trace" \in Present(copy) /\ Len(Events(copy)) >= 2
  /\ Edit("truncate", WithFile(copy, "trace",
            [copy.files["trace"] EXCEPT !.events = SubSeq(@, 1, Len(@) - 1)]))

\* Mutant: the count is forgotten.
RewriteAnchorsHeadOnly ==
  /\ {"trace", "assessment"} \subseteq Present(copy) /\ Events(copy) # <<>>
  /\ Edit("anchors", WithFile(copy, "assessment",
            [copy.files["assessment"] EXCEPT !.meta = "recorded",
                                             !.head = HeadHash(Events(copy))]))

\* assessment.json is given the head and the count of the ledger as it is now.
RewriteAnchors ==
  /\ {"trace", "assessment"} \subseteq Present(copy) /\ Events(copy) # <<>>
  /\ Edit("anchors", WithFile(copy, "assessment",
            [copy.files["assessment"] EXCEPT !.meta  = "recorded",
                                             !.head  = HeadHash(Events(copy)),
                                             !.count = Len(Events(copy))]))

\* _regenerate_manifest
RegenerateManifest == Edit("manifest", Finalized(copy))

\* A record is edited in place, its hash left as it was.
EditRecord(i) ==
  /\ "trace" \in Present(copy) /\ i \in 1 .. Len(Events(copy))
  /\ \E b \in Body \ {Events(copy)[i].body} :
       Edit("record", WithFile(copy, "trace",
              [copy.files["trace"] EXCEPT !.events[i].body = b]))

\* A file is lost, or assessment.json loses its run metadata.
LoseFile(path) == path \in Present(copy) /\ Edit("lose", WithoutFile(copy, path))

LoseMetadata ==
  /\ "assessment" \in Present(copy)
  /\ \E meta \in {"missing", "unparsable"} :
       Edit("metadata", WithFile(copy, "assessment",
              [copy.files["assessment"] EXCEPT !.meta = meta]))

Next ==
  \/ CopyBundle \/ TruncateTrace \/ RewriteAnchors \/ RegenerateManifest \/ LoseMetadata
  \/ \E path \in Path : AlterFile(path) \/ LoseFile(path)
  \/ \E i \in 1 .. MaxEvents : EditRecord(i)

Spec == Init /\ [][Next]_vars

---------------------------------------------------------------------------
(* Properties *)

SourceManifest == {Sha256(source.manifest.entries)}
SourceHead     == {HeadHash(Events(source))}

\* The values the variables take; the original is never touched.
TypeOK ==
  /\ Shaped(source) /\ ContentOK(source)
  /\ Shaped(copy) /\ ContentOK(copy)
  /\ Present(source) = Path
  /\ source.manifest = FinalManifest(source)
  /\ VerifyTrace(source)
  /\ edits \in Seq({"alter", "truncate", "anchors", "manifest", "record", "lose", "metadata"})

\* A copy that passes against the manifest digest kept elsewhere has every file
\* of the original, to the byte.
ManifestAnchorPinsFiles ==
  VerifyBundle(copy, SourceManifest, {}) =>
    \A p \in Path : p \in Present(copy) /\ copy.files[p] = source.files[p]

\* A copy that passes against the trace head kept elsewhere has every record of
\* the original, whatever else was rewritten.
HeadAnchorPinsLedger ==
  VerifyBundle(copy, {}, SourceHead) => Events(copy) = Events(source)

\* Without an anchor, a ledger that differs from the original passes only after
\* a coordinated rewrite: assessment.json and the manifest were rewritten too.
OnlyCoordinatedRewritePasses ==
  VerifyBundle(copy, {}, {}) /\ Events(copy) # Events(source) =>
    /\ copy.files["assessment"] # source.files["assessment"]
    /\ copy.manifest # source.manifest

\* What assurance_suite expects of the three scenarios: <<internal verdict,
\* anchored verdict>>.
Verdicts == <<VerifyBundle(copy, {}, {}), VerifyBundle(copy, SourceManifest, SourceHead)>>

MatrixAsExpected ==
  /\ edits = <<"alter">>    => Verdicts = <<FALSE, FALSE>>
  /\ edits = <<"truncate">> => Verdicts = <<FALSE, FALSE>>
  /\ edits = <<"truncate", "anchors", "manifest">> => Verdicts = <<TRUE, FALSE>>

=============================================================================
