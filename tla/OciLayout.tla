------------------------------ MODULE OciLayout ------------------------------
(***************************************************************************)
(* An OCI archive and its two verifiers (oci_integrity.py, and             *)
(* verify_oci_attestations of trusted_artifact.py), the snapshot that      *)
(* artifact_diff.py takes of it, and the comparison of two snapshots.      *)
(*                                                                         *)
(* A digest is what it is taken of: Content says what a blob must hold (a  *)
(* manifest, an in-toto statement or data; an index lists manifests).  An  *)
(* archive is                                                              *)
(*   whole      it can be opened, and no member is unsafe or there twice   *)
(*   layout     oci-layout and index.json have their versions              *)
(*   index      the descriptors: digest, platform, whether the size is     *)
(*              right, whether it is an attestation, of which image        *)
(*   lacks      the blobs that are missing, or whose bytes have another    *)
(*              digest or size than declared: neither can be read          *)
(* and bytes, the identity of the file itself.                             *)
(***************************************************************************)
EXTENDS FiniteSets

CONSTANTS Content,    \* digest -> manifest, statement or data
          NoDigest,
          Spdx,       \* the predicate type of an SBOM
          Slsa        \* the predicate types of provenance

IsStatement(d) == Content[d].kind = "statement"

\* _read_blob, _verify_descriptor: the blob is there and has its digest.
Readable(a, d) == d \in DOMAIN Content /\ d \notin a.lacks

Runnable(a) == {desc \in a.index : ~desc.attestation}
Attesting(a) == {desc \in a.index : desc.attestation}
Layers(desc) == Content[desc.digest].layers

---------------------------------------------------------------------------
(* verify_oci_layout_integrity *)

IntactManifest(a, desc) ==
  /\ Readable(a, desc.digest) /\ desc.sized
  /\ Content[desc.digest].schema = 2
  /\ Content[desc.digest].config # NoDigest => Readable(a, Content[desc.digest].config)
  /\ \A l \in Layers(desc) : Readable(a, l)

\* Mutant: the manifests of the index are verified, what they name is not.
VerifyLayoutShallow(a) ==
  /\ a.whole /\ a.layout /\ a.index # {}
  /\ \A desc \in a.index : Readable(a, desc.digest)

VerifyLayout(a) ==
  /\ a.whole /\ a.layout /\ a.index # {}
  /\ \A desc \in a.index : IntactManifest(a, desc)

---------------------------------------------------------------------------
(* verify_oci_attestations *)

Statements(a) == {l \in UNION {Layers(desc) : desc \in Attesting(a)} : IsStatement(l)}
Predicates(a) == {Content[l].predicate : l \in Statements(a)}

\* An attestation that says which image it is of is of one in this archive, and so is
\* each of its statements.
BoundToItsImage(a, desc) ==
  desc.refers # NoDigest =>
    /\ desc.refers \in {r.digest : r \in Runnable(a)}
    /\ \A l \in Layers(desc) : IsStatement(l) => desc.refers \in Content[l].subjects

VerifyAttestations(a) ==
  /\ a.whole
  /\ \A desc \in a.index : Readable(a, desc.digest) /\ desc.sized
  /\ Runnable(a) # {} /\ Attesting(a) # {}
  /\ \A desc \in Attesting(a) : Layers(desc) # {} /\ BoundToItsImage(a, desc)
  /\ \A l \in Statements(a) : Readable(a, l)
  /\ Spdx \in Predicates(a) /\ Predicates(a) \cap Slsa # {}

---------------------------------------------------------------------------
(* artifact_diff.py *)

\* _oci_snapshot reads the index, the manifests and the statements, not the layers.
Snapshottable(a) ==
  /\ a.whole
  /\ \A desc \in a.index : Readable(a, desc.digest)
  /\ \A l \in Statements(a) : Readable(a, l)

Snapshot(a) ==
  [runnable |-> {[platform |-> desc.platform, manifest |-> desc.digest,
                  config |-> Content[desc.digest].config, layers |-> Layers(desc)] :
                   desc \in Runnable(a)},
   predicates |-> Predicates(a),
   materials |-> UNION {Content[l].materials : l \in Statements(a)},
   statements |-> Statements(a)]

SetChanges(before, after) == [added |-> after \ before, removed |-> before \ after]

\* _changes, on the snapshots of the two sides with what their reports say.
Changes(before, after) ==
  [archive |-> before.archive # after.archive,
   runnable |-> before.runnable # after.runnable,
   supply |-> <<before.predicates, before.materials>> # <<after.predicates, after.materials>>,
   scout |-> <<before.scout, after.scout>>,
   layers |-> SetChanges(UNION {r.layers : r \in before.runnable},
                         UNION {r.layers : r \in after.runnable}),
   statements |-> SetChanges(before.statements, after.statements),
   materials |-> SetChanges(before.materials, after.materials),
   base |-> SetChanges(before.base, after.base)]

HasBaseChange(changes) == changes.base.added # {} \/ changes.base.removed # {}

\* _classification.
Classification(before, after, changes) ==
  IF changes.runnable THEN "ARTIFACT_CHANGED"
  ELSE IF changes.supply \/ HasBaseChange(changes) \/ before.scout # after.scout
    THEN "BUILD_EVIDENCE_CHANGED"
  ELSE IF changes.archive THEN "REPACKAGED_EQUIVALENT"
  ELSE "IDENTICAL"

BuildDiff(before, after) ==
  [before |-> before, after |-> after, changes |-> Changes(before, after),
   classification |-> Classification(before, after, Changes(before, after))]

---------------------------------------------------------------------------
(* The reference definition the properties use *)

\* What runs: for each image its platform and everything it is made of.
Images(a) ==
  {<<desc.platform, Content[desc.digest], {Content[l] : l \in Layers(desc)}>> : desc \in Runnable(a)}

\* All of it is there and undamaged, and both kinds of statement are about it.
Sound(a) ==
  /\ \A desc \in a.index : \A d \in {desc.digest} \cup Layers(desc) :
       d \notin a.lacks
  /\ \E spdx, slsa \in DOMAIN Content \ a.lacks :
       /\ Content[spdx].kind = "statement" /\ Content[spdx].predicate = Spdx
       /\ Content[slsa].kind = "statement" /\ Content[slsa].predicate \in Slsa
  /\ \A desc \in Attesting(a) : desc.refers # NoDigest =>
       \E r \in Runnable(a) : r.digest = desc.refers

=============================================================================
