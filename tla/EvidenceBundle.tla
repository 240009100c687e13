--------------------------- MODULE EvidenceBundle ---------------------------
(***************************************************************************)
(* One evidence directory (evidence/<run_id>) and the verifiers of         *)
(* evidence.py.  A bundle is a record                                      *)
(*   files    - a function from the paths present to their contents;       *)
(*   manifest - manifest.sha256.json: absent, torn (a crash left bytes     *)
(*              that do not parse) or whole, with its path -> digest table.*)
(* The ledger's content is its records, whether a line of it is torn, and  *)
(* `rest`, the bytes no reader looks at (blank lines).  assessment.json is *)
(* the run anchors of its metadata and `rest`, everything else it says.    *)
(***************************************************************************)
EXTENDS TraceLedger

CONSTANTS OtherPath,   \* every other file: inputs, observations, controls
          Bytes        \* what such a file, or a `rest`, can hold

ASSUME PathAssumption == "trace" \notin OtherPath /\ "assessment" \notin OtherPath

Path == OtherPath \cup {"trace", "assessment"}

Ledger     == [events : Seq(Event), torn : BOOLEAN, rest : Bytes]
RunAnchors == [meta : {"recorded", "missing", "unparsable"},
               head : Digest, count : Nat, rest : Bytes]

\* sha256_file: ideal, so a digest is its tagged preimage.
Sha256(content) == [sha256 |-> content]

NoManifest   == [state |-> "absent", entries |-> <<>>]
TornManifest == [state |-> "torn",   entries |-> <<>>]
EmptyBundle  == [files |-> <<>>, manifest |-> NoManifest]

Present(bundle) == DOMAIN bundle.files

\* A bundle has these two parts and no other.
Shaped(b) == b = [files |-> b.files, manifest |-> b.manifest]

\* Every file in the bundle holds what a file of its kind can hold.
ContentOK(b) ==
  /\ Present(b) \subseteq Path
  /\ \A p \in Present(b) \cap OtherPath : b.files[p] \in Bytes
  /\ "trace" \in Present(b) => b.files["trace"] \in Ledger
  /\ "assessment" \in Present(b) => b.files["assessment"] \in RunAnchors

\* write_json / write_text: the whole file is replaced.
WithFile(bundle, path, content) ==
  [bundle EXCEPT !.files =
     [p \in DOMAIN @ \cup {path} |-> IF p = path THEN content ELSE @[p]]]

WithoutFile(bundle, path) ==
  [bundle EXCEPT !.files = [p \in DOMAIN @ \ {path} |-> @[p]]]

\* EvidenceStore.finalize_manifest: every file below the root but the manifest.
FinalManifest(bundle) ==
  [state   |-> "whole",
   entries |-> [p \in Present(bundle) |-> Sha256(bundle.files[p])]]

Finalized(bundle) == [bundle EXCEPT !.manifest = FinalManifest(bundle)]

\* Mutant: the listed files are looked for and not hashed.
VerifyManifestPresence(bundle) ==
  /\ bundle.manifest.state = "whole"
  /\ \A p \in DOMAIN bundle.manifest.entries : p \in Present(bundle)

\* verify_manifest looks only at the files the manifest lists.
VerifyManifest(bundle) ==
  /\ bundle.manifest.state = "whole"
  /\ \A p \in DOMAIN bundle.manifest.entries :
       /\ p \in Present(bundle)
       /\ Sha256(bundle.files[p]) = bundle.manifest.entries[p]

Events(bundle) == bundle.files["trace"].events

\* verify_trace: the ledger is there, parses, holds a record and chains.
VerifyTrace(bundle) ==
  /\ "trace" \in Present(bundle)
  /\ ~bundle.files["trace"].torn
  /\ Events(bundle) # <<>>
  /\ ChainOK(Events(bundle))

\* Mutant: the anchors are parsed and not compared.
AnchorsParse(bundle) ==
  /\ "assessment" \in Present(bundle)
  /\ bundle.files["assessment"].meta # "unparsable"

\* The run anchors.  Metadata that is not there is not compared.
AnchorsOK(bundle) ==
  /\ "assessment" \in Present(bundle)
  /\ bundle.files["assessment"].meta # "unparsable"
  /\ bundle.files["assessment"].meta = "recorded" =>
       /\ bundle.files["assessment"].head  = HeadHash(Events(bundle))
       /\ bundle.files["assessment"].count = Len(Events(bundle))

\* verify_bundle.  Each expected value is a set of at most one: {} is None.
VerifyBundle(bundle, expected_manifest_sha256, expected_trace_head) ==
  /\ VerifyManifest(bundle)
  /\ VerifyTrace(bundle)
  /\ AnchorsOK(bundle)
  /\ \A m \in expected_manifest_sha256 : Sha256(bundle.manifest.entries) = m
  /\ \A h \in expected_trace_head      : HeadHash(Events(bundle)) = h

=============================================================================
