------------------------ MODULE EvidenceBundleProofs ------------------------
(***************************************************************************)
(* What the operations on an evidence directory change, and what its       *)
(* verifiers commit to, for every set of files and every ledger.           *)
(***************************************************************************)
EXTENDS EvidenceBundle, SequenceTheorems, WellFoundedInduction, TLAPS

---------------------------------------------------------------------------
(* Induction on the naturals, stated with a set instead of a predicate.    *)

LessThan == {pair \in Nat \X Nat : pair[1] < pair[2]}

\* The order of the naturals is well founded, as a set of pairs.
LEMMA LessThanWellFounded == IsWellFoundedOn(LessThan, Nat)
  BY NatLessThanWellFounded, Zenon DEF OpToRel, LessThan

\* A set of naturals that holds 0 and every successor of its members is Nat.
LEMMA SetInduction ==
  ASSUME NEW S, 0 \in S, \A n \in Nat : n \in S => n + 1 \in S
  PROVE  \A n \in Nat : n \in S
<1> DEFINE Missing == {n \in Nat : n \notin S}
<1>1. SUFFICES ASSUME Missing # {} PROVE FALSE
  OBVIOUS
<1>2. PICK least \in Missing : \A n \in Missing : <<n, least>> \notin LessThan
  BY <1>1, LessThanWellFounded, WFMin
<1>3. least # 0 /\ least - 1 \in Nat
  BY <1>2
<1>4. <<least - 1, least>> \in LessThan
  BY <1>2, <1>3 DEF LessThan
<1>5. QED
  BY <1>2, <1>3, <1>4

---------------------------------------------------------------------------
(* One append. *)

\* What the next record is chained to.
NextPrev(events) == IF events = <<>> THEN GENESIS_HASH ELSE HeadHash(events)

\* A record is well typed, its hash included.
LEMMA RecordType ==
  ASSUME NEW n \in Nat, NEW b \in Body, NEW prev \in Digest
  PROVE  Record(n, b, prev) \in Event
  BY DEF Record, Event, EventHash, Digest

\* So is the head of a ledger that holds a record.
LEMMA HeadType ==
  ASSUME NEW events \in Seq(Event), events # <<>>
  PROVE  Len(events) \in 1 .. Len(events) /\ HeadHash(events) \in Digest
<1>1. Len(events) \in 1 .. Len(events)
  OBVIOUS
<1>2. events[Len(events)] \in Event
  BY <1>1
<1>3. QED
  BY <1>1, <1>2 DEF HeadHash, Event

\* The record TraceLedger.append writes keeps a chained ledger chained.
LEMMA AppendKeepsChain ==
  ASSUME NEW events \in Seq(Event), NEW b \in Body, ChainOK(events)
  PROVE  ChainOK(Append(events, Record(Len(events) + 1, b, NextPrev(events))))
<1> DEFINE rec == Record(Len(events) + 1, b, NextPrev(events))
           longer == Append(events, rec)
<1>1. /\ Len(longer) = Len(events) + 1
      /\ longer[Len(events) + 1] = rec
      /\ \A i \in 1 .. Len(events) : longer[i] = events[i]
  OBVIOUS
<1>2. \A i \in 1 .. Len(longer) : ExpectedPrev(longer, i) =
                IF i = Len(events) + 1 THEN NextPrev(events) ELSE ExpectedPrev(events, i)
  BY <1>1 DEF ExpectedPrev, NextPrev, HeadHash
<1>3. SequenceOK(longer)
  BY <1>1 DEF ChainOK, SequenceOK, Record
<1>4. LinkOK(longer)
  BY <1>1, <1>2 DEF ChainOK, LinkOK, Record
<1>5. HashOK(longer)
  BY <1>1 DEF ChainOK, HashOK, Record
<1>6. QED
  BY <1>3, <1>4, <1>5 DEF ChainOK

\* A record that does not continue the chain breaks it for good: nothing that
\* is appended later mends a ledger.
LEMMA ChainOfPrefix ==
  ASSUME NEW events \in Seq(Event), NEW e \in Event, ChainOK(Append(events, e))
  PROVE  /\ ChainOK(events)
         /\ e.sequence = Len(events) + 1
         /\ e.prev_event_hash = NextPrev(events)
<1> DEFINE longer == Append(events, e)
<1>1. /\ Len(longer) = Len(events) + 1
      /\ longer[Len(events) + 1] = e
      /\ \A i \in 1 .. Len(events) : longer[i] = events[i]
  OBVIOUS
<1>2. \A i \in 1 .. Len(longer) : ExpectedPrev(longer, i) =
                IF i = Len(events) + 1 THEN NextPrev(events) ELSE ExpectedPrev(events, i)
  BY <1>1 DEF ExpectedPrev, NextPrev, HeadHash
<1>3. SequenceOK(events) /\ e.sequence = Len(events) + 1
  BY <1>1 DEF ChainOK, SequenceOK
<1>4. LinkOK(events) /\ e.prev_event_hash = NextPrev(events)
  BY <1>1, <1>2 DEF ChainOK, LinkOK
<1>5. HashOK(events)
  BY <1>1 DEF ChainOK, HashOK
<1>6. QED
  BY <1>3, <1>4, <1>5 DEF ChainOK

---------------------------------------------------------------------------
(* The head hash commits to the whole ledger. *)

\* In a chained ledger the hash of record i determines records 1 to i.
Commits(events, i) ==
  /\ Len(events[i].event_hash) = i
  /\ \A j \in 1 .. i : events[i].event_hash[j] = <<events[j].sequence, events[j].body>>

\* By induction on i: each record's hash extends the one the record before it carries.
LEMMA HashCommits ==
  ASSUME NEW events \in Seq(Event), ChainOK(events)
  PROVE  \A i \in 1 .. Len(events) : Commits(events, i)
<1> DEFINE S == {n \in Nat : n \in 1 .. Len(events) => Commits(events, n)}
<1>1. 0 \in S
  OBVIOUS
<1>2. ASSUME NEW n \in Nat, n \in S PROVE n + 1 \in S
  <2>1. SUFFICES ASSUME n + 1 \in 1 .. Len(events) PROVE Commits(events, n + 1)
    OBVIOUS
  <2>2. /\ events[n+1] \in Event
        /\ events[n+1].prev_event_hash = ExpectedPrev(events, n + 1)
        /\ events[n+1].event_hash =
             Append(events[n+1].prev_event_hash, <<events[n+1].sequence, events[n+1].body>>)
    BY <2>1 DEF ChainOK, LinkOK, HashOK, EventHash
  <2>3. events[n+1].prev_event_hash \in Seq(Nat \X Body)
    BY <2>2 DEF Event, Digest
  <2>4. CASE n = 0
    BY <2>1, <2>2, <2>3, <2>4 DEF Commits, ExpectedPrev, GENESIS_HASH
  <2>5. CASE n # 0
    <3>1. n \in 1 .. Len(events) /\ Commits(events, n)
      BY <1>2, <2>1, <2>5
    <3>2. events[n+1].prev_event_hash = events[n].event_hash
      <4>1. n + 1 # 1 /\ (n + 1) - 1 = n
        BY <2>5
      <4>2. QED
        BY <2>2, <4>1 DEF ExpectedPrev
    <3>3. Len(events[n+1].event_hash) = n + 1
      BY <2>2, <2>3, <3>1, <3>2 DEF Commits
    <3>4. ASSUME NEW j \in 1 .. n + 1
          PROVE  events[n+1].event_hash[j] = <<events[j].sequence, events[j].body>>
      BY <2>2, <2>3, <3>1, <3>2 DEF Commits
    <3>5. QED
      BY <3>3, <3>4 DEF Commits
  <2>6. QED
    BY <2>4, <2>5
<1>3. \A n \in Nat : n \in S
  <2> HIDE DEF S
  <2> QED BY <1>1, <1>2, SetInduction
<1>4. QED
  BY <1>3

\* Two ledgers that verify and have the same head hash are the same ledger: a
\* trace head kept outside the bundle pins every record of the trace.
THEOREM HeadDeterminesLedger ==
  ASSUME NEW s \in Seq(Event), NEW t \in Seq(Event), s # <<>>, t # <<>>,
         ChainOK(s), ChainOK(t), HeadHash(s) = HeadHash(t)
  PROVE  s = t
<1>1. Len(s) \in 1 .. Len(s) /\ Len(t) \in 1 .. Len(t)
  OBVIOUS
<1>2. /\ Len(HeadHash(s)) = Len(s)
      /\ \A j \in 1 .. Len(s) : HeadHash(s)[j] = <<s[j].sequence, s[j].body>>
  BY <1>1, HashCommits DEF Commits, HeadHash
<1>3. /\ Len(HeadHash(t)) = Len(t)
      /\ \A j \in 1 .. Len(t) : HeadHash(t)[j] = <<t[j].sequence, t[j].body>>
  BY <1>1, HashCommits DEF Commits, HeadHash
<1>4. Len(s) = Len(t)
  BY <1>2, <1>3
<1>5. \A j \in 1 .. Len(s) : s[j].sequence = t[j].sequence /\ s[j].body = t[j].body
  BY <1>2, <1>3, <1>4
<1>6. \A j \in 1 .. Len(s) : s[j].event_hash = t[j].event_hash
  <2>1. ASSUME NEW j \in 1 .. Len(s) PROVE s[j].event_hash = t[j].event_hash
    <3>1. s[j] \in Event /\ t[j] \in Event
      BY <1>4
    <3>2. s[j].event_hash \in Seq(Nat \X Body) /\ t[j].event_hash \in Seq(Nat \X Body)
      BY <3>1 DEF Event, Digest
    <3>3. Commits(s, j) /\ Commits(t, j)
      BY <1>4, HashCommits
    <3>4. Len(s[j].event_hash) = j /\ Len(t[j].event_hash) = j
      BY <3>3 DEF Commits
    <3>5. ASSUME NEW i \in 1 .. j PROVE s[j].event_hash[i] = t[j].event_hash[i]
      <4>1. i \in 1 .. Len(s)
        OBVIOUS
      <4>2. /\ s[j].event_hash[i] = <<s[i].sequence, s[i].body>>
            /\ t[j].event_hash[i] = <<t[i].sequence, t[i].body>>
        BY <3>3 DEF Commits
      <4>3. QED
        BY <1>5, <4>1, <4>2
    <3>6. QED
      BY <3>2, <3>4, <3>5, SeqEqual
  <2>2. QED BY <2>1
<1>7. \A j \in 1 .. Len(s) : s[j].prev_event_hash = t[j].prev_event_hash
  <2>1. ASSUME NEW j \in 1 .. Len(s) PROVE s[j].prev_event_hash = t[j].prev_event_hash
    <3>1. /\ s[j].prev_event_hash = ExpectedPrev(s, j)
          /\ t[j].prev_event_hash = ExpectedPrev(t, j)
      BY <1>4 DEF ChainOK, LinkOK
    <3>2. j # 1 => s[j-1].event_hash = t[j-1].event_hash
      BY <1>6
    <3>3. QED
      BY <3>1, <3>2 DEF ExpectedPrev
  <2>2. QED BY <2>1
<1>8. \A j \in 1 .. Len(s) : s[j] = t[j]
  <2>1. ASSUME NEW j \in 1 .. Len(s) PROVE s[j] = t[j]
    <3>1. s[j] \in Event /\ t[j] \in Event
      BY <1>4
    <3>2. \A e \in Event : e = [sequence |-> e.sequence, body |-> e.body,
                                prev_event_hash |-> e.prev_event_hash,
                                event_hash |-> e.event_hash]
      BY DEF Event
    <3>3. QED
      BY <1>5, <1>6, <1>7, <3>1, <3>2
  <2>2. QED BY <2>1
<1>9. QED
  BY <1>4, <1>8

---------------------------------------------------------------------------
(* Operations on a bundle. *)

\* What can be written to a path.
Content(path) == CASE path = "trace"      -> Ledger
                   [] path = "assessment" -> RunAnchors
                   [] OTHER               -> Bytes

\* Writing one file leaves the others and the manifest alone.
LEMMA WithFileFacts ==
  ASSUME NEW b, Shaped(b), NEW path, NEW content
  PROVE  LET c == WithFile(b, path, content) IN
         /\ Shaped(c)
         /\ Present(c) = Present(b) \cup {path}
         /\ c.files[path] = content
         /\ \A p \in Present(b) : p # path => c.files[p] = b.files[p]
         /\ c.manifest = b.manifest
<1> DEFINE table == [p \in DOMAIN b.files \cup {path} |-> IF p = path THEN content ELSE b.files[p]]
<1>1. WithFile(b, path, content) = [files |-> table, manifest |-> b.manifest]
  BY DEF WithFile, Shaped
<1>2. QED
  BY <1>1 DEF Shaped, Present

\* So does the loss of one.
LEMMA WithoutFileFacts ==
  ASSUME NEW b, Shaped(b), NEW path
  PROVE  LET c == WithoutFile(b, path) IN
         /\ Shaped(c)
         /\ Present(c) = Present(b) \ {path}
         /\ \A p \in Present(c) : c.files[p] = b.files[p]
         /\ c.manifest = b.manifest
<1> DEFINE table == [p \in DOMAIN b.files \ {path} |-> b.files[p]]
<1>1. WithoutFile(b, path) = [files |-> table, manifest |-> b.manifest]
  BY DEF WithoutFile, Shaped
<1>2. QED
  BY <1>1 DEF Shaped, Present

\* Writing the manifest changes no file.
LEMMA FinalizedFacts ==
  ASSUME NEW b, Shaped(b)
  PROVE  /\ Shaped(Finalized(b))
         /\ Finalized(b).files = b.files
         /\ Finalized(b).manifest = FinalManifest(b)
         /\ FinalManifest(Finalized(b)) = FinalManifest(b)
<1>1. Finalized(b) = [files |-> b.files, manifest |-> FinalManifest(b)]
  BY DEF Finalized, Shaped
<1>2. QED
  BY <1>1 DEF Shaped, FinalManifest, Present

\* The three paths that have contents of different kinds.
LEMMA PathFacts ==
  /\ \A p \in OtherPath : p # "trace" /\ p # "assessment"
  /\ "trace" \in Path /\ "assessment" \in Path /\ OtherPath \subseteq Path
  /\ \A p \in OtherPath : Content(p) = Bytes
  /\ Content("trace") = Ledger /\ Content("assessment") = RunAnchors
  BY PathAssumption DEF Path, Content

\* ContentOK is kept by every write of a content of the right kind, by every
\* loss and by the manifest.
LEMMA ContentKept ==
  ASSUME NEW b, Shaped(b), ContentOK(b), NEW path \in Path
  PROVE  /\ \A content \in Content(path) : ContentOK(WithFile(b, path, content))
         /\ ContentOK(WithoutFile(b, path))
         /\ ContentOK(Finalized(b))
<1>1. ASSUME NEW content \in Content(path) PROVE ContentOK(WithFile(b, path, content))
  <2> DEFINE c == WithFile(b, path, content)
  <2>1. /\ Present(c) = Present(b) \cup {path}
        /\ c.files[path] = content
        /\ \A p \in Present(b) : p # path => c.files[p] = b.files[p]
    BY WithFileFacts
  <2> HIDE DEF c
  <2>2. ContentOK(c)
    BY <1>1, <2>1, PathFacts DEF ContentOK, Path
  <2>3. QED
    BY <2>2 DEF c
<1>2. ContentOK(WithoutFile(b, path))
  <2> DEFINE c == WithoutFile(b, path)
  <2>1. /\ Present(c) = Present(b) \ {path}
        /\ \A p \in Present(c) : c.files[p] = b.files[p]
    BY WithoutFileFacts
  <2> HIDE DEF c
  <2>2. ContentOK(c)
    BY <2>1 DEF ContentOK
  <2>3. QED
    BY <2>2 DEF c
<1>3. ContentOK(Finalized(b))
  BY FinalizedFacts DEF ContentOK, Present
<1>4. QED
  BY <1>1, <1>2, <1>3

---------------------------------------------------------------------------
(* What the verifiers commit to. *)

\* A bundle is accepted by its own manifest the moment the manifest is written.
LEMMA FinalizedVerifies ==
  ASSUME NEW b, Shaped(b)
  PROVE  VerifyManifest(Finalized(b))
<1>1. /\ Finalized(b).files = b.files
      /\ Finalized(b).manifest = FinalManifest(b)
  BY FinalizedFacts
<1>2. QED
  BY <1>1 DEF VerifyManifest, FinalManifest, Present

\* Two bundles that pass under one manifest table agree on every file it lists.
LEMMA ManifestCommits ==
  ASSUME NEW b, NEW c, VerifyManifest(b), VerifyManifest(c),
         Sha256(b.manifest.entries) = Sha256(c.manifest.entries)
  PROVE  \A p \in DOMAIN c.manifest.entries :
           p \in Present(b) /\ p \in Present(c) /\ b.files[p] = c.files[p]
<1>1. b.manifest.entries = c.manifest.entries
  BY DEF Sha256
<1>2. ASSUME NEW p \in DOMAIN c.manifest.entries
      PROVE  p \in Present(b) /\ p \in Present(c) /\ b.files[p] = c.files[p]
  <2>1. Sha256(b.files[p]) = Sha256(c.files[p]) /\ p \in Present(b) /\ p \in Present(c)
    BY <1>1 DEF VerifyManifest
  <2>2. QED
    BY <2>1 DEF Sha256
<1>3. QED
  BY <1>2

\* Two ledgers that pass with one head are one ledger.
LEMMA HeadCommits ==
  ASSUME NEW b, NEW c, ContentOK(b), ContentOK(c), VerifyTrace(b), VerifyTrace(c),
         HeadHash(Events(b)) = HeadHash(Events(c))
  PROVE  Events(b) = Events(c)
<1>1. Events(b) \in Seq(Event) /\ Events(c) \in Seq(Event)
  BY DEF ContentOK, VerifyTrace, Events, Ledger
<1>2. QED
  BY <1>1, HeadDeterminesLedger DEF VerifyTrace

=============================================================================
