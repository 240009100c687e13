------------------------ MODULE EvidenceMatrixProofs ------------------------
(***************************************************************************)
(* What an anchor kept outside a bundle pins, for every ledger, every set  *)
(* of files and every series of edits.                                     *)
(***************************************************************************)
EXTENDS EvidenceMatrix, EvidenceBundleProofs

\* The original is a bundle that verifies and records its anchors.
SourceOK ==
  /\ VerifyBundle(source, {}, {})
  /\ source.files["assessment"].meta = "recorded"

IInv == TypeOK /\ SourceOK

EditNames == {"alter", "truncate", "anchors", "manifest", "record", "lose", "metadata"}

---------------------------------------------------------------------------
(* The initial bundle. *)

\* The ledger of an undisturbed run is a ledger.
LEMMA ChainedLedgerType ==
  ASSUME NEW n \in Nat, NEW bodies \in [1 .. n -> Body]
  PROVE  /\ ChainedLedger(bodies) \in Seq(Event)
         /\ Len(ChainedLedger(bodies)) = n
<1>1. bodies \in Seq(Body) /\ Len(bodies) = n
  OBVIOUS
<1>2. ASSUME NEW i \in 1 .. n
      PROVE  Record(i, bodies[i], [j \in 1 .. i-1 |-> <<j, bodies[j]>>]) \in Event
  <2> DEFINE prev == [j \in 1 .. i-1 |-> <<j, bodies[j]>>]
  <2>1. i - 1 \in Nat /\ \A j \in 1 .. i-1 : <<j, bodies[j]>> \in Nat \X Body
    OBVIOUS
  <2>2. prev \in [1 .. i-1 -> Nat \X Body]
    BY <2>1
  <2>3. prev \in Digest
    BY <2>1, <2>2, IsASeq DEF Digest
  <2>4. i \in Nat /\ bodies[i] \in Body
    OBVIOUS
  <2> HIDE DEF prev
  <2>5. Record(i, bodies[i], prev) \in Event
    BY <2>3, <2>4, RecordType
  <2>6. QED
    BY <2>5 DEF prev
<1>3. ChainedLedger(bodies) \in [1 .. n -> Event]
  BY <1>1, <1>2 DEF ChainedLedger
<1>4. QED
  BY <1>3, IsASeq

\* A finished bundle holds what its files can hold.
LEMMA FinishedBundleType ==
  ASSUME NEW n \in Nat \ {0}, NEW bodies \in [1 .. n -> Body], NEW bytes \in Bytes
  PROVE  LET b == FinishedBundle(bodies, bytes) IN
         /\ Shaped(b) /\ ContentOK(b)
         /\ Present(b) = Path
         /\ b.manifest = FinalManifest(b)
         /\ b.files["assessment"].meta = "recorded"
<1> DEFINE events == ChainedLedger(bodies)
           ledger == [events |-> events, torn |-> FALSE, rest |-> bytes]
           anchor == [meta |-> "recorded", head |-> HeadHash(events),
                      count |-> Len(events), rest |-> bytes]
           table  == [p \in Path |-> CASE p = "trace" -> ledger
                                       [] p = "assessment" -> anchor
                                       [] OTHER -> [q \in OtherPath |-> bytes][p]]
           draft  == [files |-> table, manifest |-> NoManifest]
<1>1. events \in Seq(Event) /\ Len(events) = n
  BY ChainedLedgerType
<1>2. HeadHash(events) \in Digest
  <2> HIDE DEF events
  <2>1. events # <<>>
    BY <1>1
  <2>2. QED BY <1>1, <2>1, HeadType
<1>3. ledger \in Ledger /\ anchor \in RunAnchors
  <2> HIDE DEF events
  <2>1. QED BY <1>1, <1>2 DEF Ledger, RunAnchors
<1> HIDE DEF ledger, anchor
<1>4. /\ table["trace"] = ledger
      /\ table["assessment"] = anchor
      /\ \A p \in OtherPath : table[p] = bytes
      /\ DOMAIN table = Path
  BY PathFacts, PathAssumption
<1> HIDE DEF table
<1>5. Shaped(draft) /\ ContentOK(draft) /\ Present(draft) = Path
  BY <1>3, <1>4, PathFacts DEF Shaped, ContentOK, Present
<1>6. FinishedBundle(bodies, bytes) = Finalized(draft)
  BY DEF FinishedBundle, table, ledger, anchor
<1>7. /\ Shaped(Finalized(draft)) /\ ContentOK(Finalized(draft))
      /\ Finalized(draft).files = table
      /\ Finalized(draft).manifest = FinalManifest(Finalized(draft))
  <2> HIDE DEF draft
  <2>1. /\ Shaped(Finalized(draft)) /\ ContentOK(Finalized(draft))
        /\ Finalized(draft).files = draft.files
        /\ Finalized(draft).manifest = FinalManifest(Finalized(draft))
    BY <1>5, FinalizedFacts, ContentKept, PathFacts
  <2>2. draft.files = table
    BY DEF draft
  <2>3. QED
    BY <2>1, <2>2
<1>8. Present(Finalized(draft)) = Path
  BY <1>4, <1>7 DEF Present
<1>9. table["assessment"].meta = "recorded"
  BY <1>4 DEF anchor
<1>10. QED
  <2> HIDE DEF draft
  <2>1. QED BY <1>6, <1>7, <1>8, <1>9

\* The initial state satisfies the invariant.
LEMMA InitOK == Init => IInv
<1> SUFFICES ASSUME Init PROVE IInv
  OBVIOUS
<1>1. PICK n \in 1 .. MaxEvents : \E bodies \in [1 .. n -> Body], bytes \in Bytes :
         source = FinishedBundle(bodies, bytes)
  BY DEF Init
<1>2. PICK bodies \in [1 .. n -> Body], bytes \in Bytes : source = FinishedBundle(bodies, bytes)
  BY <1>1
<1>3. n \in Nat \ {0}
  OBVIOUS
<1>4. /\ Shaped(source) /\ ContentOK(source) /\ Present(source) = Path
      /\ source.manifest = FinalManifest(source)
      /\ source.files["assessment"].meta = "recorded"
  BY <1>2, <1>3, FinishedBundleType
<1>5. VerifyBundle(source, {}, {}) /\ copy = source /\ edits = <<>>
  BY DEF Init
<1>6. VerifyTrace(source)
  BY <1>5 DEF VerifyBundle
<1>7. QED
  BY <1>4, <1>5, <1>6 DEF IInv, TypeOK, SourceOK

---------------------------------------------------------------------------
(* The edits. *)

\* A named edit whose outcome is a bundle keeps the invariant.
LEMMA EditKeeps ==
  ASSUME IInv, NEW name \in EditNames, NEW edited, Shaped(edited), ContentOK(edited),
         Edit(name, edited)
  PROVE  IInv'
<1>1. source' = source /\ copy' = edited /\ edits' = Append(edits, name)
  BY DEF Edit
<1>2. edits' \in Seq({"alter", "truncate", "anchors", "manifest", "record", "lose", "metadata"})
  BY <1>1 DEF IInv, TypeOK, EditNames
<1>3. Shaped(copy)' /\ ContentOK(copy)'
  BY <1>1 DEF Shaped, ContentOK, Present
<1>4. QED
  BY <1>1, <1>2, <1>3 DEF IInv, TypeOK, SourceOK, Shaped, ContentOK, Present, FinalManifest,
     VerifyTrace, Events, VerifyBundle, VerifyManifest, AnchorsOK

\* One file is replaced by a content of its kind.
LEMMA ReplaceKeeps ==
  ASSUME IInv, NEW name \in EditNames, NEW path \in Path, NEW content \in Content(path),
         Edit(name, WithFile(copy, path, content))
  PROVE  IInv'
<1>1. Shaped(copy) /\ ContentOK(copy)
  BY DEF IInv, TypeOK
<1>2. Shaped(WithFile(copy, path, content)) /\ ContentOK(WithFile(copy, path, content))
  BY <1>1, WithFileFacts, ContentKept
<1>3. QED
  BY <1>2, EditKeeps

\* Every step keeps the invariant.
LEMMA NextOK == IInv /\ [Next]_vars => IInv'
<1> SUFFICES ASSUME IInv, [Next]_vars PROVE IInv'
  OBVIOUS
<1>1. Shaped(copy) /\ ContentOK(copy)
  BY DEF IInv, TypeOK
<1>2. /\ "trace" \in Present(copy) => copy.files["trace"] \in Ledger
      /\ "assessment" \in Present(copy) => copy.files["assessment"] \in RunAnchors
  BY <1>1 DEF ContentOK
<1>3. CASE CopyBundle
  BY <1>3 DEF CopyBundle, IInv, TypeOK, SourceOK
<1>4. CASE TruncateTrace
  <2> DEFINE shorter == [copy.files["trace"] EXCEPT !.events = SubSeq(@, 1, Len(@) - 1)]
  <2>1. "trace" \in Present(copy) /\ Len(Events(copy)) >= 2
        /\ Edit("truncate", WithFile(copy, "trace", shorter))
    BY <1>4 DEF TruncateTrace
  <2>2. SubSeq(Events(copy), 1, Len(Events(copy)) - 1) \in Seq(Event)
    BY <1>2, <2>1 DEF Events, Ledger
  <2>3. shorter \in Ledger
    BY <1>2, <2>1, <2>2 DEF Ledger, Events
  <2> HIDE DEF shorter
  <2>4. QED
    BY <2>1, <2>3, PathFacts, ReplaceKeeps DEF EditNames
<1>5. CASE RewriteAnchors
  <2> DEFINE anchors == [copy.files["assessment"] EXCEPT !.meta  = "recorded",
                                                         !.head  = HeadHash(Events(copy)),
                                                         !.count = Len(Events(copy))]
  <2>1. "trace" \in Present(copy) /\ "assessment" \in Present(copy) /\ Events(copy) # <<>>
        /\ Edit("anchors", WithFile(copy, "assessment", anchors))
    BY <1>5 DEF RewriteAnchors
  <2>2. Events(copy) \in Seq(Event)
    BY <1>2, <2>1 DEF Events, Ledger
  <2>3. HeadHash(Events(copy)) \in Digest /\ Len(Events(copy)) \in Nat
    BY <2>1, <2>2, HeadType
  <2>4. anchors \in RunAnchors
    BY <1>2, <2>1, <2>3 DEF RunAnchors
  <2> HIDE DEF anchors
  <2>5. QED
    BY <2>1, <2>4, PathFacts, ReplaceKeeps DEF EditNames
<1>6. CASE RegenerateManifest
  BY <1>1, <1>6, FinalizedFacts, ContentKept, PathFacts, EditKeeps
  DEF RegenerateManifest, EditNames
<1>7. CASE LoseMetadata
  <2>1. PICK meta \in {"missing", "unparsable"} :
          Edit("metadata", WithFile(copy, "assessment", [copy.files["assessment"] EXCEPT !.meta = meta]))
    BY <1>7 DEF LoseMetadata
  <2>2. [copy.files["assessment"] EXCEPT !.meta = meta] \in RunAnchors
    BY <1>2, <1>7 DEF LoseMetadata, RunAnchors
  <2>3. QED
    BY <2>1, <2>2, PathFacts, ReplaceKeeps DEF EditNames
<1>8. ASSUME NEW path \in Path, AlterFile(path) PROVE IInv'
  <2>1. PICK bytes \in Bytes :
          IF path \in OtherPath
            THEN Edit("alter", WithFile(copy, path, bytes))
            ELSE Edit("alter", WithFile(copy, path, [copy.files[path] EXCEPT !.rest = bytes]))
    BY <1>8 DEF AlterFile
  <2>2. CASE path \in OtherPath
    BY <2>1, <2>2, PathFacts, ReplaceKeeps DEF EditNames
  <2>3. CASE path = "trace"
    <3>1. [copy.files[path] EXCEPT !.rest = bytes] \in Ledger
      BY <1>2, <1>8, <2>3 DEF AlterFile, Ledger
    <3>2. path \notin OtherPath
      BY <2>3, PathFacts
    <3>3. QED
      BY <2>1, <2>3, <3>1, <3>2, PathFacts, ReplaceKeeps DEF EditNames
  <2>4. CASE path = "assessment"
    <3>1. [copy.files[path] EXCEPT !.rest = bytes] \in RunAnchors
      BY <1>2, <1>8, <2>4 DEF AlterFile, RunAnchors
    <3>2. path \notin OtherPath
      BY <2>4, PathFacts
    <3>3. QED
      BY <2>1, <2>4, <3>1, <3>2, PathFacts, ReplaceKeeps DEF EditNames
  <2>5. QED
    BY <2>2, <2>3, <2>4 DEF Path
<1>9. ASSUME NEW path \in Path, LoseFile(path) PROVE IInv'
  BY <1>1, <1>9, WithoutFileFacts, ContentKept, EditKeeps DEF LoseFile, EditNames
<1>10. ASSUME NEW i \in 1 .. MaxEvents, EditRecord(i) PROVE IInv'
  <2>1. PICK b \in Body :
          Edit("record", WithFile(copy, "trace", [copy.files["trace"] EXCEPT !.events[i].body = b]))
    BY <1>10 DEF EditRecord
  <2> DEFINE ledger == copy.files["trace"]
             event  == [ledger.events[i] EXCEPT !.body = b]
             edited == [ledger.events EXCEPT ![i] = event]
  <2>2. ledger \in Ledger /\ i \in 1 .. Len(ledger.events)
    BY <1>2, <1>10 DEF EditRecord, Events
  <2>3. event \in Event
    <3>1. ledger.events[i] \in Event
      BY <2>2 DEF Ledger
    <3> HIDE DEF ledger
    <3>2. QED BY <3>1 DEF Event
  <2>4. edited \in Seq(Event)
    <3> HIDE DEF event
    <3>1. QED BY <2>2, <2>3 DEF Ledger
  <2>5. [ledger EXCEPT !.events = edited] \in Ledger
    <3> HIDE DEF edited
    <3>1. QED BY <2>2, <2>4 DEF Ledger
  <2>6. [ledger EXCEPT !.events[i].body = b] = [ledger EXCEPT !.events = edited]
    BY <2>2 DEF Ledger
  <2>7. QED
    BY <2>1, <2>5, <2>6, PathFacts, ReplaceKeeps DEF EditNames
<1>11. CASE UNCHANGED vars
  BY <1>11 DEF vars, IInv, TypeOK, SourceOK
<1>12. QED
  BY <1>3, <1>4, <1>5, <1>6, <1>7, <1>8, <1>9, <1>10, <1>11 DEF Next

---------------------------------------------------------------------------
(* The theorems. *)

\* The variables hold what they should, and the original stays a bundle that
\* verifies, whatever is done to its copies.
THEOREM Invariance == Spec => []IInv
  BY InitOK, NextOK, PTL DEF Spec

\* In particular they stay well typed.
THEOREM TypeCorrect == Spec => []TypeOK
<1>1. IInv => TypeOK
  BY DEF IInv
<1>2. QED
  BY <1>1, Invariance, PTL

\* The manifest digest, kept elsewhere, pins every file of the bundle.
LEMMA ManifestPins == IInv => ManifestAnchorPinsFiles
<1> SUFFICES ASSUME IInv, VerifyBundle(copy, SourceManifest, {})
             PROVE  \A p \in Path : p \in Present(copy) /\ copy.files[p] = source.files[p]
  BY DEF ManifestAnchorPinsFiles
<1>1. VerifyManifest(copy) /\ VerifyManifest(source)
  BY DEF VerifyBundle, IInv, SourceOK
<1>2. Sha256(copy.manifest.entries) = Sha256(source.manifest.entries)
  BY DEF VerifyBundle, SourceManifest
<1>3. DOMAIN source.manifest.entries = Path
  BY DEF IInv, TypeOK, FinalManifest
<1>4. QED
  BY <1>1, <1>2, <1>3, ManifestCommits

\* ManifestAnchorPinsFiles, at every state of every series of edits.
THEOREM ManifestAnchor == Spec => []ManifestAnchorPinsFiles
  BY Invariance, ManifestPins, PTL

\* The trace head, kept elsewhere, pins every record of the ledger.
LEMMA HeadPins == IInv => HeadAnchorPinsLedger
<1> SUFFICES ASSUME IInv, VerifyBundle(copy, {}, SourceHead)
             PROVE  Events(copy) = Events(source)
  BY DEF HeadAnchorPinsLedger
<1>1. VerifyTrace(copy) /\ HeadHash(Events(copy)) = HeadHash(Events(source))
  BY DEF VerifyBundle, SourceHead
<1>2. ContentOK(copy) /\ ContentOK(source) /\ VerifyTrace(source)
  BY DEF IInv, TypeOK
<1>3. QED
  BY <1>1, <1>2, HeadCommits

\* HeadAnchorPinsLedger, at every state of every series of edits.
THEOREM HeadAnchor == Spec => []HeadAnchorPinsLedger
  BY Invariance, HeadPins, PTL

\* Without an anchor a changed ledger is accepted only when assessment.json and
\* the manifest were rewritten to match it.
LEMMA RewriteNeeded == IInv => OnlyCoordinatedRewritePasses
<1> SUFFICES ASSUME IInv, VerifyBundle(copy, {}, {}), Events(copy) # Events(source)
             PROVE  /\ copy.files["assessment"] # source.files["assessment"]
                    /\ copy.manifest # source.manifest
  BY DEF OnlyCoordinatedRewritePasses
<1>1. ContentOK(copy) /\ ContentOK(source) /\ VerifyTrace(source)
  BY DEF IInv, TypeOK
<1>2. VerifyTrace(copy) /\ AnchorsOK(copy) /\ AnchorsOK(source)
      /\ VerifyManifest(copy) /\ VerifyManifest(source)
  BY DEF VerifyBundle, IInv, SourceOK
<1>3. ASSUME copy.files["assessment"] = source.files["assessment"] PROVE FALSE
  <2>1. source.files["assessment"].meta = "recorded"
    BY DEF IInv, SourceOK
  <2>2. HeadHash(Events(copy)) = HeadHash(Events(source))
    BY <1>2, <1>3, <2>1 DEF AnchorsOK
  <2>3. QED
    BY <1>1, <1>2, <2>2, HeadCommits
<1>4. ASSUME copy.manifest = source.manifest PROVE FALSE
  <2>1. "trace" \in DOMAIN source.manifest.entries
    BY PathFacts DEF IInv, TypeOK, FinalManifest
  <2>2. copy.files["trace"] = source.files["trace"]
    BY <1>2, <1>4, <2>1, ManifestCommits
  <2>3. QED
    BY <2>2 DEF Events
<1>5. QED
  BY <1>3, <1>4

\* OnlyCoordinatedRewritePasses, at every state of every series of edits.
THEOREM CoordinatedRewrite == Spec => []OnlyCoordinatedRewritePasses
  BY Invariance, RewriteNeeded, PTL
---------------------------------------------------------------------------
(* The scenarios of the matrix. *)

\* A file differs, and the manifest is still that of the original.
Diverged(b) ==
  /\ b.manifest = source.manifest
  /\ \E p \in Present(b) \cap Path : b.files[p] # source.files[p]

\* The ledger is that of the original without its last record.
Shortened(b) ==
  /\ {"trace", "assessment"} \subseteq Present(b)
  /\ ~b.files["trace"].torn
  /\ Len(Events(source)) >= 2
  /\ Events(b) = SubSeq(Events(source), 1, Len(Events(source)) - 1)

\* What the names of the edits say of the copy, along the three scenarios.
HistoryOK ==
  /\ edits = <<>> => copy = source
  /\ edits = <<"alter">> => Diverged(copy)
  /\ edits = <<"truncate">> => Diverged(copy) /\ Shortened(copy)
  /\ edits = <<"truncate", "anchors">> => Shortened(copy) /\ AnchorsOK(copy)
  /\ edits = <<"truncate", "anchors", "manifest">> =>
       Shortened(copy) /\ AnchorsOK(copy) /\ VerifyManifest(copy)

\* A step of a scenario is the last edit, after the steps before it.
LEMMA LastEdit ==
  ASSUME NEW s \in Seq(EditNames), NEW name \in EditNames
  PROVE  /\ Append(s, name) # <<>>
         /\ \A a : Append(s, name) = <<a>> => s = <<>> /\ name = a
         /\ \A a, b : Append(s, name) = <<a, b>> => s = <<a>> /\ name = b
         /\ \A a, b, c : Append(s, name) = <<a, b, c>> => s = <<a, b>> /\ name = c
<1> DEFINE longer == Append(s, name)
<1>1. /\ Len(longer) = Len(s) + 1 /\ Len(s) \in Nat /\ longer[Len(s) + 1] = name
      /\ \A i \in 1 .. Len(s) : longer[i] = s[i]
  OBVIOUS
<1> HIDE DEF longer
<1>2. longer # <<>>
  BY <1>1
<1>3. ASSUME NEW a, longer = <<a>> PROVE s = <<>> /\ name = a
  <2>1. Len(s) = 0
    BY <1>1, <1>3
  <2>2. QED BY <1>1, <1>3, <2>1
<1>4. ASSUME NEW a, NEW b, longer = <<a, b>> PROVE s = <<a>> /\ name = b
  <2> DEFINE two == <<a, b>>
  <2>0. Len(two) = 2 /\ two[1] = a /\ two[2] = b
    OBVIOUS
  <2>1. Len(s) = 1 /\ longer[1] = a /\ longer[2] = b
    <3>1. longer = two
      BY <1>4
    <3> HIDE DEF two
    <3>2. Len(longer) = 2 /\ longer[1] = a /\ longer[2] = b
      BY <2>0, <3>1, Zenon
    <3>3. Len(s) = 1
      <4>1. Len(s) + 1 = 2 /\ Len(s) \in Nat
        BY <1>1, <3>2, Zenon
      <4>2. QED BY <4>1
    <3>4. QED BY <3>2, <3>3
  <2>2. s[1] = a /\ name = b
    BY <1>1, <2>1
  <2>3. QED BY <2>1, <2>2
<1>5. ASSUME NEW a, NEW b, NEW c, longer = <<a, b, c>> PROVE s = <<a, b>> /\ name = c
  <2> DEFINE three == <<a, b, c>>
  <2>0. Len(three) = 3 /\ three[1] = a /\ three[2] = b /\ three[3] = c
    OBVIOUS
  <2>1. Len(s) = 2 /\ longer[1] = a /\ longer[2] = b /\ longer[3] = c
    <3>1. longer = three
      BY <1>5
    <3> HIDE DEF three
    <3>2. Len(longer) = 3 /\ longer[1] = a /\ longer[2] = b /\ longer[3] = c
      BY <2>0, <3>1, Zenon
    <3>3. Len(s) = 2
      <4>1. Len(s) + 1 = 3 /\ Len(s) \in Nat
        BY <1>1, <3>2, Zenon
      <4>2. \A k \in Nat : k + 1 = 3 => k = 2
        OBVIOUS
      <4>3. QED BY <4>1, <4>2
    <3>4. QED BY <3>2, <3>3
  <2>2. s[1] = a /\ s[2] = b /\ name = c
    BY <1>1, <2>1
  <2>3. QED BY <2>1, <2>2
<1>6. QED
  BY <1>2, <1>3, <1>4, <1>5 DEF longer

\* An edit keeps the history when it does what its name says.
LEMMA HistoryKept ==
  ASSUME TypeOK, HistoryOK, NEW name \in EditNames, NEW edited, Edit(name, edited),
         name = "alter" /\ copy = source => Diverged(edited),
         name = "truncate" /\ copy = source => Diverged(edited) /\ Shortened(edited),
         name = "anchors" /\ Shortened(copy) => Shortened(edited) /\ AnchorsOK(edited),
         name = "manifest" /\ Shortened(copy) /\ AnchorsOK(copy) =>
           Shortened(edited) /\ AnchorsOK(edited) /\ VerifyManifest(edited)
  PROVE  HistoryOK'
<1>1. source' = source /\ copy' = edited /\ edits' = Append(edits, name)
  BY DEF Edit
<1>2. edits \in Seq(EditNames)
  BY DEF TypeOK, EditNames
<1>3. /\ (copy = source)' <=> edited = source
      /\ Diverged(copy)' <=> Diverged(edited)
      /\ Shortened(copy)' <=> Shortened(edited)
      /\ AnchorsOK(copy)' <=> AnchorsOK(edited)
      /\ VerifyManifest(copy)' <=> VerifyManifest(edited)
  BY <1>1 DEF Diverged, Shortened, AnchorsOK, VerifyManifest, Present, Events
<1>4. /\ edits' # <<>>
      /\ edits' = <<"alter">> => edits = <<>> /\ name = "alter"
      /\ edits' = <<"truncate">> => edits = <<>> /\ name = "truncate"
      /\ edits' = <<"truncate", "anchors">> => edits = <<"truncate">> /\ name = "anchors"
      /\ edits' = <<"truncate", "anchors", "manifest">> =>
           edits = <<"truncate", "anchors">> /\ name = "manifest"
  <2>1. Append(edits, name) # <<>>
    BY <1>2, LastEdit
  <2>2. \A a : Append(edits, name) = <<a>> => edits = <<>> /\ name = a
    BY <1>2, LastEdit
  <2>3. \A a, b : Append(edits, name) = <<a, b>> => edits = <<a>> /\ name = b
    BY <1>2, LastEdit
  <2>4. \A a, b, c : Append(edits, name) = <<a, b, c>> => edits = <<a, b>> /\ name = c
    BY <1>2, LastEdit
  <2>5. QED
    BY <1>1, <2>1, <2>2, <2>3, <2>4, Zenon
<1>5. /\ edits' = <<"alter">> => Diverged(edited)
      /\ edits' = <<"truncate">> => Diverged(edited) /\ Shortened(edited)
      /\ edits' = <<"truncate", "anchors">> => Shortened(edited) /\ AnchorsOK(edited)
      /\ edits' = <<"truncate", "anchors", "manifest">> =>
           Shortened(edited) /\ AnchorsOK(edited) /\ VerifyManifest(edited)
  BY <1>4, Zenon DEF HistoryOK
<1>6. QED
  BY <1>3, <1>4, <1>5, Zenon DEF HistoryOK

\* Every step keeps the history.
LEMMA HistoryStep == IInv /\ HistoryOK /\ [Next]_vars => HistoryOK'
<1> SUFFICES ASSUME IInv, HistoryOK, [Next]_vars PROVE HistoryOK'
  OBVIOUS
<1>1. /\ TypeOK /\ Shaped(copy) /\ ContentOK(copy) /\ ContentOK(source)
      /\ Present(source) = Path /\ VerifyTrace(source)
  BY DEF IInv, TypeOK
<1>2. /\ "trace" \in Path /\ "assessment" \in Path
      /\ source.files["trace"] \in Ledger
  BY <1>1, PathFacts DEF ContentOK
<1>3. CASE CopyBundle
  BY <1>3 DEF CopyBundle, HistoryOK
<1>4. CASE TruncateTrace
  <2> DEFINE shorter == [copy.files["trace"] EXCEPT !.events = SubSeq(@, 1, Len(@) - 1)]
             edited == WithFile(copy, "trace", shorter)
  <2>1. "trace" \in Present(copy) /\ Len(Events(copy)) >= 2 /\ Edit("truncate", edited)
    BY <1>4 DEF TruncateTrace
  <2>2. ASSUME copy = source PROVE Diverged(edited) /\ Shortened(edited)
    <3>1. Events(source) \in Seq(Event)
      BY <1>2 DEF Ledger, Events
    <3>2. /\ shorter.events = SubSeq(Events(source), 1, Len(Events(source)) - 1)
          /\ shorter.torn = source.files["trace"].torn
      BY <1>2, <2>2 DEF Ledger, Events
    <3>3. Len(shorter.events) = Len(Events(source)) - 1
      BY <2>1, <2>2, <3>1, <3>2
    <3> HIDE DEF shorter
    <3>4. shorter # source.files["trace"]
      <4>1. Len(Events(source)) \in Nat
        BY <3>1
      <4>2. QED
        BY <3>3, <4>1 DEF Events
    <3>5. /\ Present(edited) = Path /\ edited.files["trace"] = shorter
          /\ edited.manifest = source.manifest
      BY <1>1, <1>2, <2>2, WithFileFacts
    <3>6. ~source.files["trace"].torn
      BY <1>1 DEF VerifyTrace
    <3> HIDE DEF edited
    <3>7. Diverged(edited)
      BY <1>2, <3>4, <3>5 DEF Diverged
    <3>8. Shortened(edited)
      BY <1>2, <2>1, <2>2, <3>2, <3>5, <3>6 DEF Shortened, Events
    <3>9. QED BY <3>7, <3>8
  <2>3. QED
    BY <1>1, <2>1, <2>2, HistoryKept DEF EditNames
<1>5. CASE RewriteAnchors
  <2> DEFINE anchors == [copy.files["assessment"] EXCEPT !.meta  = "recorded",
                                                         !.head  = HeadHash(Events(copy)),
                                                         !.count = Len(Events(copy))]
             edited == WithFile(copy, "assessment", anchors)
  <2>1. "trace" \in Present(copy) /\ "assessment" \in Present(copy)
        /\ Edit("anchors", edited)
    BY <1>5 DEF RewriteAnchors
  <2>2. copy.files["assessment"] \in RunAnchors
    BY <1>1, <2>1 DEF ContentOK
  <2>3. /\ anchors.meta = "recorded"
        /\ anchors.head = HeadHash(Events(copy)) /\ anchors.count = Len(Events(copy))
    BY <2>2 DEF RunAnchors
  <2> HIDE DEF anchors
  <2>4. /\ Present(edited) = Present(copy)
        /\ edited.files["assessment"] = anchors
        /\ edited.files["trace"] = copy.files["trace"]
    <3>1. /\ Present(edited) = Present(copy) \cup {"assessment"}
          /\ edited.files["assessment"] = anchors
          /\ \A p \in Present(copy) : p # "assessment" => edited.files[p] = copy.files[p]
      BY <1>1, WithFileFacts
    <3> HIDE DEF edited
    <3>2. QED BY <2>1, <3>1
  <2> HIDE DEF edited
  <2>5. Shortened(copy) => Shortened(edited) /\ AnchorsOK(edited)
    BY <2>1, <2>3, <2>4 DEF Shortened, AnchorsOK, Events
  <2>6. QED
    BY <1>1, <2>1, <2>5, HistoryKept DEF EditNames
<1>6. CASE RegenerateManifest
  <2> DEFINE edited == Finalized(copy)
  <2>1. Edit("manifest", edited)
    BY <1>6 DEF RegenerateManifest
  <2>2. edited.files = copy.files /\ VerifyManifest(edited)
    BY <1>1, FinalizedFacts, FinalizedVerifies
  <2> HIDE DEF edited
  <2>3. Shortened(copy) /\ AnchorsOK(copy) =>
          Shortened(edited) /\ AnchorsOK(edited) /\ VerifyManifest(edited)
    BY <2>2 DEF Shortened, AnchorsOK, Present, Events
  <2>4. QED
    BY <1>1, <2>1, <2>3, HistoryKept DEF EditNames
<1>7. CASE LoseMetadata
  <2>1. PICK meta \in {"missing", "unparsable"} :
          Edit("metadata", WithFile(copy, "assessment", [copy.files["assessment"] EXCEPT !.meta = meta]))
    BY <1>7 DEF LoseMetadata
  <2>2. QED
    BY <1>1, <2>1, HistoryKept DEF EditNames
<1>8. ASSUME NEW path \in Path, AlterFile(path) PROVE HistoryOK'
  <2>1. PICK bytes \in Bytes :
          IF path \in OtherPath
            THEN /\ bytes # copy.files[path]
                 /\ Edit("alter", WithFile(copy, path, bytes))
            ELSE /\ bytes # copy.files[path].rest
                 /\ Edit("alter", WithFile(copy, path, [copy.files[path] EXCEPT !.rest = bytes]))
    BY <1>8 DEF AlterFile
  <2>2. ASSUME NEW content, content # copy.files[path],
               Edit("alter", WithFile(copy, path, content))
        PROVE  HistoryOK'
    <3> DEFINE edited == WithFile(copy, path, content)
    <3>1. /\ path \in Present(edited) /\ edited.files[path] = content
          /\ edited.manifest = copy.manifest
      BY <1>1, WithFileFacts
    <3> HIDE DEF edited
    <3>2. copy = source => Diverged(edited)
      BY <2>2, <3>1 DEF Diverged
    <3>3. Edit("alter", edited)
      BY <2>2 DEF edited
    <3>4. QED
      BY <1>1, <3>2, <3>3, HistoryKept DEF EditNames
  <2>3. CASE path \in OtherPath
    BY <2>1, <2>2, <2>3
  <2>4. CASE path \notin OtherPath
    <3> DEFINE content == [copy.files[path] EXCEPT !.rest = bytes]
    <3>1. bytes # copy.files[path].rest /\ Edit("alter", WithFile(copy, path, content))
      BY <2>1, <2>4
    <3>2. copy.files[path] \in Ledger \/ copy.files[path] \in RunAnchors
      BY <1>1, <1>8, <2>4 DEF AlterFile, ContentOK, Path
    <3>3. content.rest = bytes
      BY <3>2 DEF Ledger, RunAnchors
    <3> HIDE DEF content
    <3>4. QED
      BY <2>2, <3>1, <3>3
  <2>5. QED
    BY <2>3, <2>4
<1>9. ASSUME NEW path \in Path, LoseFile(path) PROVE HistoryOK'
  BY <1>1, <1>9, HistoryKept DEF LoseFile, EditNames
<1>10. ASSUME NEW i \in 1 .. MaxEvents, EditRecord(i) PROVE HistoryOK'
  <2>1. PICK b \in Body :
          Edit("record", WithFile(copy, "trace", [copy.files["trace"] EXCEPT !.events[i].body = b]))
    BY <1>10 DEF EditRecord
  <2>2. QED
    BY <1>1, <2>1, HistoryKept DEF EditNames
<1>11. CASE UNCHANGED vars
  BY <1>11 DEF vars, HistoryOK, Diverged, Shortened, AnchorsOK, VerifyManifest, Present, Events
<1>12. QED
  BY <1>3, <1>4, <1>5, <1>6, <1>7, <1>8, <1>9, <1>10, <1>11 DEF Next

\* What differs from the original does not match its manifest.
LEMMA DivergedFails ==
  ASSUME IInv, NEW b, Diverged(b)
  PROVE  ~VerifyManifest(b)
<1>1. /\ Present(source) = Path /\ source.manifest = FinalManifest(source)
      /\ VerifyManifest(source)
  BY DEF IInv, TypeOK, SourceOK, VerifyBundle
<1>2. DOMAIN source.manifest.entries = Path
  BY <1>1 DEF FinalManifest
<1>3. SUFFICES ASSUME VerifyManifest(b) PROVE FALSE
  OBVIOUS
<1>4. b.manifest = source.manifest
  BY DEF Diverged
<1>5. \A p \in Path : b.files[p] = source.files[p]
  BY <1>1, <1>2, <1>3, <1>4, ManifestCommits
<1>6. QED
  BY <1>5 DEF Diverged

\* The ledger without its last record still chains, and is not the original.
LEMMA ShortenedChains ==
  ASSUME IInv, NEW b, Shortened(b)
  PROVE  VerifyTrace(b) /\ Events(b) # Events(source)
<1> DEFINE s == Events(source)
<1>1. ContentOK(source) /\ VerifyTrace(source)
  BY DEF IInv, TypeOK
<1>2. s \in Seq(Event) /\ ChainOK(s)
  BY <1>1 DEF ContentOK, VerifyTrace, Events, Ledger
<1>3. /\ "trace" \in Present(b) /\ ~b.files["trace"].torn
      /\ Len(s) >= 2 /\ Events(b) = SubSeq(s, 1, Len(s) - 1)
  BY DEF Shortened
<1> HIDE DEF s
<1>4. /\ Len(SubSeq(s, 1, Len(s) - 1)) = Len(s) - 1
      /\ \A i \in 1 .. Len(s) - 1 : SubSeq(s, 1, Len(s) - 1)[i] = s[i]
  BY <1>2, <1>3
<1> DEFINE short == SubSeq(s, 1, Len(s) - 1)
<1> HIDE DEF short
<1>5. Len(s) \in Nat /\ Len(short) = Len(s) - 1 /\ \A i \in 1 .. Len(short) : short[i] = s[i]
  BY <1>2, <1>4 DEF short
<1>6. \A i \in 1 .. Len(short) : i \in 1 .. Len(s) /\ ExpectedPrev(short, i) = ExpectedPrev(s, i)
  BY <1>5 DEF ExpectedPrev
<1>7. ChainOK(short)
  BY <1>2, <1>5, <1>6 DEF ChainOK, SequenceOK, LinkOK, HashOK
<1>8. short # <<>> /\ short # s
  BY <1>3, <1>5
<1>9. QED
  BY <1>3, <1>7, <1>8 DEF VerifyTrace, s, short

\* The verdicts of the three scenarios follow.
LEMMA ScenariosHold == IInv /\ HistoryOK => MatrixAsExpected
<1> SUFFICES ASSUME IInv, HistoryOK PROVE MatrixAsExpected
  OBVIOUS
<1> DEFINE inner == VerifyBundle(copy, {}, {})
           outer == VerifyBundle(copy, SourceManifest, SourceHead)
<1>1. inner \in BOOLEAN /\ outer \in BOOLEAN
  BY DEF VerifyBundle
<1>2. ASSUME Diverged(copy) PROVE ~inner /\ ~outer
  BY <1>2, DivergedFails DEF VerifyBundle
<1>3. ASSUME Shortened(copy), AnchorsOK(copy), VerifyManifest(copy)
      PROVE  inner /\ ~outer
  <2>1. VerifyTrace(copy) /\ Events(copy) # Events(source)
    BY <1>3, ShortenedChains
  <2>2. inner
    BY <1>3, <2>1 DEF VerifyBundle
  <2>3. outer => VerifyBundle(copy, {}, SourceHead)
    BY DEF VerifyBundle
  <2>4. QED
    BY <2>1, <2>2, <2>3, HeadPins DEF HeadAnchorPinsLedger
<1>4. Verdicts = <<inner, outer>>
  BY DEF Verdicts
<1> HIDE DEF inner, outer
<1>5. Diverged(copy) => Verdicts = <<FALSE, FALSE>>
  <2>1. Diverged(copy) => inner = FALSE /\ outer = FALSE
    BY <1>1, <1>2
  <2>2. QED BY <1>4, <2>1
<1>6. Shortened(copy) /\ AnchorsOK(copy) /\ VerifyManifest(copy) => Verdicts = <<TRUE, FALSE>>
  <2>1. Shortened(copy) /\ AnchorsOK(copy) /\ VerifyManifest(copy) => inner = TRUE /\ outer = FALSE
    BY <1>1, <1>3
  <2>2. QED BY <1>4, <2>1
<1>7. QED
  BY <1>5, <1>6 DEF MatrixAsExpected, HistoryOK

\* Every copy the matrix makes is judged as assurance_suite expects: an altered
\* file and a shortened ledger are refused, and the coordinated rewrite passes on
\* its own and fails against the digests kept elsewhere, for every bundle.
THEOREM ScenariosAsExpected == Spec => []MatrixAsExpected
<1>1. Init => HistoryOK
  BY DEF Init, HistoryOK
<1>2. IInv /\ HistoryOK /\ [Next]_vars => HistoryOK'
  BY HistoryStep
<1>3. QED
  BY <1>1, <1>2, Invariance, ScenariosHold, PTL DEF Spec

====
