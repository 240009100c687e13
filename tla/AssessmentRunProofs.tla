------------------------ MODULE AssessmentRunProofs -------------------------
(***************************************************************************)
(* What holds of a run directory for every number of processes, controls   *)
(* and seconds: first of every directory, however many runs have started   *)
(* in its second, then of a directory that one run has to itself.          *)
(***************************************************************************)
EXTENDS AssessmentRun, EvidenceBundleProofs

\* No line of the ledger is torn.
Torn(d) == "trace" \in Present(d) /\ d.files["trace"].torn

\* verify_trace would accept the ledger (once it holds a record).
Sound(d) == ~Torn(d) /\ ChainOK(LogOf(d))

\* The ledger object's counters agree with a ledger that is sound.
InStep(m, d) ==
  Sound(d) => m.sequence = Len(LogOf(d)) /\ m.previous_hash = NextPrev(LogOf(d))

\* A pair [mem, dir] a step works on.
WorkOK(w) ==
  /\ w = [mem |-> w.mem, dir |-> w.dir]
  /\ w.mem \in Memory
  /\ Shaped(w.dir) /\ ContentOK(w.dir)

\* The parts of a process's memory that no append and no write touches.
SameTask(m, n) ==
  /\ m.pc = n.pc /\ m.config = n.config /\ m.run_id = n.run_id
  /\ m.probes = n.probes /\ m.readers = n.readers
  /\ m.imported = n.imported /\ m.obs06 = n.obs06

\* The two directories agree on assessment.json.
SameAnchors(d, e) ==
  /\ "assessment" \in Present(d) <=> "assessment" \in Present(e)
  /\ "assessment" \in Present(d) => d.files["assessment"] = e.files["assessment"]

NextRecord(w, type) ==
  Record(w.mem.sequence + 1, [type |-> type, config |-> w.mem.config], w.mem.previous_hash)

---------------------------------------------------------------------------
(* One append, one write. *)

\* The ledger an append starts from is a ledger.
LEMMA LedgerOfFacts ==
  ASSUME NEW w, WorkOK(w)
  PROVE  /\ LedgerOf(w) \in Ledger
         /\ LedgerOf(w).events = LogOf(w.dir)
         /\ LedgerOf(w).torn <=> Torn(w.dir)
         /\ LogOf(w.dir) \in Seq(Event)
<1>1. w.mem.config \in Bytes
  BY RunAssumption DEF WorkOK, Memory
<1>2. CASE "trace" \in Present(w.dir)
  <2>1. w.dir.files["trace"] \in Ledger
    BY <1>2 DEF WorkOK, ContentOK
  <2>2. QED
    BY <1>2, <2>1 DEF LedgerOf, LogOf, Torn, Events, Ledger
<1>3. CASE "trace" \notin Present(w.dir)
  <2>1. <<>> \in Seq(Event)
    OBVIOUS
  <2>2. LedgerOf(w) = [events |-> <<>>, torn |-> FALSE, rest |-> w.mem.config]
    BY <1>3 DEF LedgerOf
  <2>3. QED
    BY <1>1, <1>3, <2>1, <2>2 DEF LogOf, Torn, Ledger
<1>4. QED
  BY <1>2, <1>3

\* An append adds its record, and nothing else, to the ledger.
LEMMA EmitFacts ==
  ASSUME NEW w, WorkOK(w), NEW type \in EventType
  PROVE  LET c == Emit(w, type) IN
         /\ WorkOK(c)
         /\ SameTask(c.mem, w.mem)
         /\ c.mem.sequence = w.mem.sequence + 1
         /\ c.mem.previous_hash = NextRecord(w, type).event_hash
         /\ c.dir.manifest = w.dir.manifest
         /\ SameAnchors(c.dir, w.dir)
         /\ NextRecord(w, type) \in Event
         /\ LogOf(c.dir) = Append(LogOf(w.dir), NextRecord(w, type))
         /\ Torn(c.dir) <=> Torn(w.dir)
<1> DEFINE rec == NextRecord(w, type)
           old == LedgerOf(w)
           new == [old EXCEPT !.events = Append(@, rec)]
           mem == [w.mem EXCEPT !.sequence = @ + 1, !.previous_hash = rec.event_hash]
           dir == WithFile(w.dir, "trace", new)
<1>1. Emit(w, type) = [mem |-> mem, dir |-> dir]
  BY DEF Emit, NextRecord
<1>2. w.mem \in Memory /\ Shaped(w.dir) /\ ContentOK(w.dir)
  BY DEF WorkOK
<1>3. old \in Ledger /\ old.events = LogOf(w.dir) /\ (old.torn <=> Torn(w.dir))
  BY LedgerOfFacts
<1>4. rec \in Event
  <2>1. [type |-> type, config |-> w.mem.config] \in Body
    BY <1>2, RunAssumption DEF Memory
  <2>2. w.mem.sequence + 1 \in Nat /\ w.mem.previous_hash \in Digest
    BY <1>2 DEF Memory
  <2>3. QED
    BY <2>1, <2>2, RecordType DEF NextRecord
<1> HIDE DEF rec, old
<1>5. new \in Ledger /\ new.events = Append(LogOf(w.dir), rec) /\ (new.torn <=> Torn(w.dir))
  BY <1>3, <1>4 DEF Ledger
<1>6. rec.event_hash \in Digest
  BY <1>4 DEF Event
<1>7. /\ mem \in Memory /\ SameTask(mem, w.mem)
      /\ mem.sequence = w.mem.sequence + 1 /\ mem.previous_hash = rec.event_hash
  <2> DEFINE seq == w.mem.sequence + 1
             hash == rec.event_hash
  <2>1. seq \in Nat /\ hash \in Digest
    BY <1>2, <1>6 DEF Memory
  <2> HIDE DEF seq, hash
  <2>2. mem = [w.mem EXCEPT !.sequence = seq, !.previous_hash = hash]
    BY DEF seq, hash
  <2> HIDE DEF mem
  <2>3. mem \in Memory
    BY <1>2, <2>1, <2>2 DEF Memory
  <2>4. SameTask(mem, w.mem) /\ mem.sequence = seq /\ mem.previous_hash = hash
    BY <1>2, <2>2 DEF Memory, SameTask
  <2>5. QED
    BY <2>3, <2>4 DEF seq, hash
<1> HIDE DEF new, mem
<1>8. /\ Shaped(dir) /\ ContentOK(dir)
      /\ dir.manifest = w.dir.manifest
      /\ Present(dir) = Present(w.dir) \cup {"trace"}
      /\ \A path \in Present(w.dir) \ {"trace"} : dir.files[path] = w.dir.files[path]
      /\ dir.files["trace"] = new
  BY <1>2, <1>5, PathFacts, WithFileFacts, ContentKept
<1> HIDE DEF dir
<1>9. /\ LogOf(dir) = Append(LogOf(w.dir), rec) /\ (Torn(dir) <=> Torn(w.dir))
      /\ SameAnchors(dir, w.dir)
  BY <1>5, <1>8 DEF LogOf, Torn, Events, SameAnchors
<1>10. QED
  BY <1>1, <1>4, <1>7, <1>8, <1>9 DEF WorkOK, rec

\* What an appended record does to a log.
LEMMA AppendLog ==
  ASSUME NEW log \in Seq(Event), NEW e \in Event
  PROVE  LET longer == Append(log, e) IN
         /\ longer \in Seq(Event) /\ longer # <<>>
         /\ Len(longer) = Len(log) + 1 /\ longer[Len(longer)] = e
         /\ \A i \in 1 .. Len(log) : longer[i] = log[i]
         /\ log # <<>> => longer[1] = log[1]
         /\ log = <<>> => longer[1] = e
         /\ Promise!Extends(log, longer)
<1> DEFINE longer == Append(log, e)
<1>1. /\ longer \in Seq(Event) /\ longer # <<>>
      /\ Len(longer) = Len(log) + 1 /\ longer[Len(log) + 1] = e
      /\ \A i \in 1 .. Len(log) : longer[i] = log[i]
  OBVIOUS
<1>2. log # <<>> => 1 \in 1 .. Len(log)
  OBVIOUS
<1>3. log = <<>> => Len(log) = 0
  OBVIOUS
<1>4. Promise!Extends(log, longer)
  BY <1>1 DEF Promise!Extends
<1>5. QED
  BY <1>1, <1>2, <1>3, <1>4

\* After an append the counters agree with the ledger if it is sound, whether or
\* not they did before; a sound ledger had a sound past; and an append by a ledger
\* object that is in step keeps the ledger sound.
LEMMA EmitChain ==
  ASSUME NEW w, WorkOK(w), NEW type \in EventType
  PROVE  LET c == Emit(w, type) IN
         /\ InStep(c.mem, c.dir)
         /\ Sound(c.dir) => Sound(w.dir)
         /\ InStep(w.mem, w.dir) /\ Sound(w.dir) => Sound(c.dir)
<1> DEFINE c   == Emit(w, type)
           log == LogOf(w.dir)
           rec == NextRecord(w, type)
<1>1. /\ c.mem.sequence = w.mem.sequence + 1
      /\ c.mem.previous_hash = rec.event_hash
      /\ rec \in Event
      /\ LogOf(c.dir) = Append(log, rec)
      /\ Torn(c.dir) <=> Torn(w.dir)
  BY EmitFacts
<1>2. log \in Seq(Event)
  BY LedgerOfFacts
<1>3. w.mem.sequence \in Nat /\ w.mem.config \in Config /\ w.mem.previous_hash \in Digest
  BY DEF WorkOK, Memory
<1>4. rec.sequence = w.mem.sequence + 1
  BY DEF NextRecord, Record
<1> HIDE DEF c
<1>5. ASSUME Sound(c.dir)
      PROVE  /\ Sound(w.dir)
             /\ c.mem.sequence = Len(LogOf(c.dir))
             /\ c.mem.previous_hash = NextPrev(LogOf(c.dir))
  <2>1. ChainOK(Append(log, rec)) /\ ~Torn(w.dir)
    BY <1>1, <1>5 DEF Sound
  <2>2. ChainOK(log) /\ rec.sequence = Len(log) + 1
    BY <1>1, <1>2, <2>1, ChainOfPrefix
  <2> HIDE DEF rec, log
  <2>3. Len(Append(log, rec)) = Len(log) + 1 /\ Append(log, rec) # <<>>
        /\ Append(log, rec)[Len(log) + 1] = rec
    BY <1>1, <1>2
  <2>4. c.mem.sequence = Len(LogOf(c.dir))
    BY <1>1, <1>4, <2>2, <2>3
  <2>5. NextPrev(LogOf(c.dir)) = rec.event_hash
    BY <1>1, <2>3 DEF NextPrev, HeadHash
  <2>6. QED
    BY <1>1, <2>1, <2>2, <2>4, <2>5 DEF Sound, log
<1>6. ASSUME InStep(w.mem, w.dir), Sound(w.dir)
      PROVE  Sound(c.dir)
  <2>1. w.mem.sequence = Len(log) /\ w.mem.previous_hash = NextPrev(log)
        /\ ChainOK(log) /\ ~Torn(w.dir)
    BY <1>6 DEF InStep, Sound
  <2> DEFINE body == [type |-> type, config |-> w.mem.config]
  <2>2. body \in Body
    BY <1>3, RunAssumption
  <2>3. rec = Record(Len(log) + 1, body, NextPrev(log))
    BY <2>1 DEF NextRecord
  <2> HIDE DEF body, rec, log
  <2>4. ChainOK(Append(log, rec))
    BY <1>2, <2>1, <2>2, <2>3, AppendKeepsChain
  <2>5. QED
    BY <1>1, <2>1, <2>4 DEF Sound
<1>7. QED
  BY <1>5, <1>6 DEF InStep, c

Leaves == {"nothing", "part", "line"}

\* An append that fails moves the counter and may tear the ledger; it writes its
\* record or none.
LEMMA EmitFailsFacts ==
  ASSUME NEW w, WorkOK(w), NEW left \in Leaves
  PROVE  LET c == EmitFails(w, left) IN
         /\ WorkOK(c)
         /\ SameTask(c.mem, w.mem) /\ c.mem.previous_hash = w.mem.previous_hash
         /\ c.dir.manifest = w.dir.manifest
         /\ SameAnchors(c.dir, w.dir)
         /\ LogOf(c.dir) = LogOf(w.dir) \/ c.dir = Emit(w, "probe").dir
<1> DEFINE old  == LedgerOf(w)
           new  == [old EXCEPT !.torn = @ \/ left = "part"]
           mem  == [w.mem EXCEPT !.sequence = @ + 1]
           dir  == WithFile(w.dir, "trace", new)
           line == Emit(w, "probe").dir
<1>1. EmitFails(w, left) = [mem |-> mem, dir |-> IF left = "line" THEN line ELSE dir]
  BY DEF EmitFails
<1>2. w.mem \in Memory /\ Shaped(w.dir) /\ ContentOK(w.dir)
  BY DEF WorkOK
<1>3. old \in Ledger /\ old.events = LogOf(w.dir)
  BY LedgerOfFacts
<1> HIDE DEF old
<1>4. new \in Ledger /\ new.events = LogOf(w.dir)
  BY <1>3 DEF Ledger
<1>5. mem \in Memory /\ SameTask(mem, w.mem) /\ mem.previous_hash = w.mem.previous_hash
  <2> DEFINE seq == w.mem.sequence + 1
  <2>1. seq \in Nat
    BY <1>2 DEF Memory
  <2>2. mem = [w.mem EXCEPT !.sequence = seq]
    OBVIOUS
  <2> HIDE DEF seq, mem
  <2>3. QED
    BY <1>2, <2>1, <2>2 DEF Memory, SameTask
<1> HIDE DEF new, mem
<1>6. /\ Shaped(dir) /\ ContentOK(dir)
      /\ dir.manifest = w.dir.manifest
      /\ Present(dir) = Present(w.dir) \cup {"trace"}
      /\ \A path \in Present(w.dir) \ {"trace"} : dir.files[path] = w.dir.files[path]
      /\ dir.files["trace"] = new
  BY <1>2, <1>4, PathFacts, WithFileFacts, ContentKept
<1> HIDE DEF dir
<1>7. LogOf(dir) = LogOf(w.dir) /\ SameAnchors(dir, w.dir)
  BY <1>4, <1>6 DEF LogOf, Events, SameAnchors
<1>8. /\ Shaped(line) /\ ContentOK(line) /\ line.manifest = w.dir.manifest
      /\ SameAnchors(line, w.dir)
  <2>1. "probe" \in EventType
    BY DEF EventType
  <2>2. QED
    BY <2>1, EmitFacts DEF WorkOK
<1> HIDE DEF line
<1>9. CASE left = "line"
  BY <1>1, <1>5, <1>8, <1>9 DEF WorkOK, line
<1>10. CASE left # "line"
  BY <1>1, <1>5, <1>6, <1>7, <1>10 DEF WorkOK
<1>11. QED
  BY <1>9, <1>10

\* Writing an input, an observation or a control leaves the ledger alone.
LEMMA WriteFacts ==
  ASSUME NEW w, WorkOK(w), NEW path \in OtherPath
  PROVE  LET c == Write(w, path) IN
         /\ WorkOK(c)
         /\ c.mem = w.mem
         /\ c.dir.manifest = w.dir.manifest
         /\ SameAnchors(c.dir, w.dir)
         /\ LogOf(c.dir) = LogOf(w.dir)
         /\ Torn(c.dir) <=> Torn(w.dir)
<1> DEFINE dir == WithFile(w.dir, path, w.mem.config)
<1>1. Write(w, path) = [mem |-> w.mem, dir |-> dir]
  BY DEF Write, WorkOK
<1>2. w.mem \in Memory /\ Shaped(w.dir) /\ ContentOK(w.dir)
  BY DEF WorkOK
<1>3. w.mem.config \in Content(path)
  BY <1>2, PathFacts, RunAssumption DEF Memory
<1>4. /\ Shaped(dir) /\ ContentOK(dir)
      /\ dir.manifest = w.dir.manifest
      /\ Present(dir) = Present(w.dir) \cup {path}
      /\ \A p \in Present(w.dir) : p # path => dir.files[p] = w.dir.files[p]
  BY <1>2, <1>3, PathFacts, WithFileFacts, ContentKept
<1> HIDE DEF dir
<1>5. "trace" # path /\ "assessment" # path
  BY PathFacts
<1>6. /\ LogOf(dir) = LogOf(w.dir) /\ (Torn(dir) <=> Torn(w.dir))
      /\ SameAnchors(dir, w.dir)
  BY <1>4, <1>5 DEF LogOf, Events, Torn, SameAnchors
<1>7. QED
  BY <1>1, <1>2, <1>4, <1>6 DEF WorkOK

---------------------------------------------------------------------------
(* Where a run has got to, the tags it uses, the fields it notes. *)

ProbedPC   == {"audit", "integrity", "complete", "assessment", "manifest", "attest", "done"}
OpenedPC   == {"import", "probes"} \cup ProbedPC
JudgedPC   == {"complete", "assessment", "manifest", "attest", "done"}
EndedPC    == {"assessment", "manifest", "attest", "done"}
AnchoredPC == {"manifest", "attest", "done"}
SealedPC   == {"attest", "done"}

\* Nothing has run yet.
LEMMA EmptyBundleFacts ==
  /\ Shaped(EmptyBundle) /\ ContentOK(EmptyBundle)
  /\ EmptyBundle.manifest.state = "absent"
  /\ Present(EmptyBundle) = {}
  /\ LogOf(EmptyBundle) = <<>>
  BY DEF EmptyBundle, Shaped, ContentOK, Present, NoManifest, LogOf

\* The tags and paths the actions use are tags and paths of the run.
LEMMA Tags ==
  /\ {"assessment.started", "agent.task.started", "agent.task.completed", "probe",
      "control.error", "assessment.probes_completed", "docker.audit",
      "assessment.completed"} = EventType
  /\ {"config", "agent-run", "controls", "docker-audit"} = OtherPath
  BY RunAssumption DEF EventType

\* The fields a step may note, each within its type.
LEMMA NotedMemory ==
  ASSUME NEW m \in Memory
  PROVE  /\ \A n \in 0 .. Probes :
              LET k == [m EXCEPT !.probes = n] IN
              k \in Memory /\ k.run_id = m.run_id /\ k.sequence = m.sequence
                /\ k.previous_hash = m.previous_hash /\ k.obs06 = m.obs06
         /\ \A n \in 0 .. Readers :
              LET k == [m EXCEPT !.readers = n] IN
              k \in Memory /\ k.run_id = m.run_id /\ k.sequence = m.sequence
                /\ k.previous_hash = m.previous_hash /\ k.obs06 = m.obs06
         /\ \A v \in {"valid", "invalid"} :
              LET k == [m EXCEPT !.imported = v] IN
              k \in Memory /\ k.run_id = m.run_id /\ k.sequence = m.sequence
                /\ k.previous_hash = m.previous_hash /\ k.obs06 = m.obs06
         /\ \A v \in {"PARTIAL", "FAIL", "ERROR"} :
              LET k == [m EXCEPT !.obs06 = v] IN
              k \in Memory /\ k.run_id = m.run_id /\ k.sequence = m.sequence
                /\ k.previous_hash = m.previous_hash /\ k.obs06 = v
  BY DEF Memory

\* A positive counter can be counted down.
LEMMA Countdown ==
  ASSUME NEW m \in Memory
  PROVE  /\ m.probes > 0 => m.probes - 1 \in 0 .. Probes
         /\ m.readers > 0 => m.readers - 1 \in 0 .. Readers
<1>1. m.probes \in 0 .. Probes /\ m.readers \in 0 .. Readers
  BY DEF Memory
<1>2. Probes \in Nat /\ Readers \in Nat
  BY RunAssumption
<1>3. QED
  BY <1>1, <1>2

---------------------------------------------------------------------------
(* Every directory, shared or not: it may hold the records of several      *)
(* ledger objects, each of which chains its records to its own             *)
(* previous_hash, and the anchors of one of them.                          *)

\* What a ledger object has hashed so far was said under its own configuration.
OwnHash(m) ==
  \A i \in 1 .. Len(m.previous_hash) : m.previous_hash[i][2].config = m.config

\* Every record's hash covers bodies of that record's own configuration only.
Pure(log) ==
  \A i \in 1 .. Len(log) : \A j \in 1 .. Len(log[i].event_hash) :
    log[i].event_hash[j][2].config = log[i].body.config

\* The records a hash covers begin a run, evaluate its controls, end it.
HashBegun(h)  == h # <<>> /\ h[1][2].type = "assessment.started"
HashProbed(h) == \E i \in 1 .. Len(h) : h[i][2].type = "assessment.probes_completed"
HashEnded(h)  == h # <<>> /\ h[Len(h)][2].type = "assessment.completed"

\* What a process has hashed, by where it is.
Told(pc, h) ==
  /\ pc \in {"idle", "open"} => h = <<>>
  /\ pc \in OpenedPC => HashBegun(h)
  /\ pc \in ProbedPC => HashProbed(h)
  /\ pc \in EndedPC  => HashEnded(h)

\* The anchors in assessment.json, whoever wrote them, are of a run that has ended.
AnchorsEnded(d) ==
  "assessment" \in Present(d) =>
    /\ d.files["assessment"].meta = "recorded"
    /\ HashBegun(d.files["assessment"].head)
    /\ HashProbed(d.files["assessment"].head)
    /\ HashEnded(d.files["assessment"].head)

SharedInv ==
  /\ TypeOK
  /\ \A r \in RunId : Pure(LogOf(disk[r])) /\ AnchorsEnded(disk[r])
  /\ \A p \in Proc : OwnHash(run[p]) /\ Told(run[p].pc, run[p].previous_hash)

\* A step of a run touches its own memory, directory and report.
Within(p) ==
  LET r == run[p].run_id IN
  /\ run'[p].run_id = r /\ run'[p].pc # "idle"
  /\ \A q \in Proc \ {p} : run'[q] = run[q] /\ returned'[q] = returned[q]
  /\ \A s \in RunId \ {r} : disk'[s] = disk[s] /\ reports'[s] = reports[s]

\* A pair that a step of p may work on.
Works(p, w) ==
  /\ WorkOK(w) /\ w.mem.run_id = run[p].run_id
  /\ w.dir.manifest.state \in {"absent", "torn", "whole"}
  /\ OwnHash(w.mem) /\ Pure(LogOf(w.dir)) /\ AnchorsEnded(w.dir)
  /\ HashBegun(run[p].previous_hash) => HashBegun(w.mem.previous_hash)
  /\ HashProbed(run[p].previous_hash) => HashProbed(w.mem.previous_hash)

\* An anchor stays where it is.
LEMMA AnchorsStay ==
  ASSUME NEW d, NEW e, SameAnchors(e, d), AnchorsEnded(d)
  PROVE  AnchorsEnded(e)
  BY DEF SameAnchors, AnchorsEnded

\* The pair a step starts from is one.
LEMMA WorksAt ==
  ASSUME SharedInv, NEW p \in Proc
  PROVE  Works(p, At(p)) /\ At(p) = [mem |-> run[p], dir |-> disk[run[p].run_id]]
<1>1. run[p] \in Memory /\ run[p].run_id \in RunId
  BY DEF SharedInv, TypeOK, Memory
<1>2. BundleOK(disk[run[p].run_id])
  BY <1>1 DEF SharedInv, TypeOK
<1>3. WorkOK(At(p)) /\ At(p).mem = run[p] /\ At(p).dir = disk[run[p].run_id]
  BY <1>1, <1>2 DEF WorkOK, At, BundleOK
<1>4. QED
  BY <1>1, <1>2, <1>3 DEF SharedInv, Works, At, BundleOK

\* A body's configuration, in a digest of well typed records, can be read.
LEMMA LongerHash ==
  ASSUME NEW hash \in Digest, NEW pair \in Nat \X Body, NEW config,
         \A i \in 1 .. Len(hash) : hash[i][2].config = config,
         pair[2].config = config
  PROVE  \A i \in 1 .. Len(Append(hash, pair)) : Append(hash, pair)[i][2].config = config
<1>1. hash \in Seq(Nat \X Body)
  BY DEF Digest
<1>2. /\ Len(Append(hash, pair)) = Len(hash) + 1
      /\ Append(hash, pair)[Len(hash) + 1] = pair
      /\ \A i \in 1 .. Len(hash) : Append(hash, pair)[i] = hash[i]
      /\ Len(hash) \in Nat
  BY <1>1
<1>3. QED
  BY <1>2

\* A longer hash covers what the shorter one did, and the last body.
LEMMA LongerTold ==
  ASSUME NEW hash \in Digest, NEW pair \in Nat \X Body
  PROVE  LET longer == Append(hash, pair) IN
         /\ HashBegun(hash) => HashBegun(longer)
         /\ hash = <<>> /\ pair[2].type = "assessment.started" => HashBegun(longer)
         /\ HashProbed(hash) => HashProbed(longer)
         /\ pair[2].type = "assessment.probes_completed" => HashProbed(longer)
         /\ pair[2].type = "assessment.completed" => HashEnded(longer)
<1> DEFINE longer == Append(hash, pair)
<1>1. hash \in Seq(Nat \X Body)
  BY DEF Digest
<1>2. /\ Len(longer) = Len(hash) + 1 /\ longer # <<>> /\ longer[Len(longer)] = pair
      /\ \A i \in 1 .. Len(hash) : longer[i] = hash[i]
      /\ Len(hash) \in Nat /\ (hash = <<>> <=> Len(hash) = 0)
  BY <1>1
<1> HIDE DEF longer
<1>3. /\ HashBegun(hash) => HashBegun(longer)
      /\ hash = <<>> /\ pair[2].type = "assessment.started" => HashBegun(longer)
  BY <1>2 DEF HashBegun
<1>4. HashProbed(hash) => HashProbed(longer)
  BY <1>2 DEF HashProbed
<1>5. pair[2].type = "assessment.probes_completed" => HashProbed(longer)
  BY <1>2 DEF HashProbed
<1>6. pair[2].type = "assessment.completed" => HashEnded(longer)
  BY <1>2 DEF HashEnded
<1>7. QED
  BY <1>3, <1>4, <1>5, <1>6 DEF longer

\* An append hashes one more body of the same configuration.
LEMMA WorksEmit ==
  ASSUME NEW p, NEW w, Works(p, w), NEW type \in EventType
  PROVE  LET hash == Emit(w, type).mem.previous_hash IN
         /\ Works(p, Emit(w, type))
         /\ HashBegun(w.mem.previous_hash) => HashBegun(hash)
         /\ HashProbed(w.mem.previous_hash) => HashProbed(hash)
         /\ w.mem.previous_hash = <<>> /\ type = "assessment.started" => HashBegun(hash)
         /\ type = "assessment.probes_completed" => HashProbed(hash)
         /\ type = "assessment.completed" => HashEnded(hash)
<1> DEFINE c    == Emit(w, type)
           log  == LogOf(w.dir)
           rec  == NextRecord(w, type)
           body == [type |-> type, config |-> w.mem.config]
           pair == <<w.mem.sequence + 1, body>>
<1>1. /\ WorkOK(w) /\ OwnHash(w.mem) /\ Pure(log) /\ w.mem.run_id = run[p].run_id
      /\ w.dir.manifest.state \in {"absent", "torn", "whole"}
      /\ AnchorsEnded(w.dir)
      /\ HashBegun(run[p].previous_hash) => HashBegun(w.mem.previous_hash)
      /\ HashProbed(run[p].previous_hash) => HashProbed(w.mem.previous_hash)
  BY DEF Works
<1>2. /\ WorkOK(c) /\ SameTask(c.mem, w.mem)
      /\ c.mem.previous_hash = rec.event_hash /\ c.dir.manifest = w.dir.manifest
      /\ SameAnchors(c.dir, w.dir) /\ rec \in Event
      /\ LogOf(c.dir) = Append(log, rec)
  BY <1>1, EmitFacts
<1>3. log \in Seq(Event)
  BY <1>1, LedgerOfFacts
<1>4. w.mem.sequence + 1 \in Nat /\ w.mem.previous_hash \in Digest /\ w.mem.config \in Config
  BY <1>1 DEF WorkOK, Memory
<1>5. body \in Body /\ body.config = w.mem.config /\ body.type = type
  BY <1>4, RunAssumption
<1>6. rec.event_hash = Append(w.mem.previous_hash, pair) /\ rec.body = body
  BY DEF NextRecord, Record, EventHash
<1> HIDE DEF body, rec, c, log
<1>7. pair \in Nat \X Body /\ pair[2] = body
  BY <1>4, <1>5
<1> HIDE DEF pair
<1>8. \A j \in 1 .. Len(rec.event_hash) : rec.event_hash[j][2].config = w.mem.config
  BY <1>1, <1>4, <1>5, <1>6, <1>7, LongerHash DEF OwnHash
<1>9. OwnHash(c.mem)
  BY <1>2, <1>8 DEF OwnHash, SameTask
<1>10. Pure(LogOf(c.dir))
  <2> DEFINE longer == Append(log, rec)
  <2>1. /\ Len(longer) = Len(log) + 1 /\ longer[Len(log) + 1] = rec
        /\ \A i \in 1 .. Len(log) : longer[i] = log[i]
        /\ Len(log) \in Nat
    BY <1>2, <1>3
  <2> HIDE DEF longer
  <2>2. rec.body.config = w.mem.config
    BY <1>5, <1>6
  <2>3. Pure(longer)
    BY <1>1, <1>8, <2>1, <2>2 DEF Pure
  <2>4. QED
    BY <1>2, <2>3 DEF longer
<1>11. AnchorsEnded(c.dir)
  BY <1>1, <1>2, AnchorsStay
<1>12. /\ HashBegun(w.mem.previous_hash) => HashBegun(c.mem.previous_hash)
       /\ HashProbed(w.mem.previous_hash) => HashProbed(c.mem.previous_hash)
       /\ w.mem.previous_hash = <<>> /\ type = "assessment.started"
            => HashBegun(c.mem.previous_hash)
       /\ type = "assessment.probes_completed" => HashProbed(c.mem.previous_hash)
       /\ type = "assessment.completed" => HashEnded(c.mem.previous_hash)
  BY <1>2, <1>4, <1>5, <1>6, <1>7, LongerTold
<1>13. Works(p, c)
  BY <1>1, <1>2, <1>9, <1>10, <1>11, <1>12 DEF Works, SameTask
<1>14. QED
  BY <1>12, <1>13 DEF c

\* One that fails hashes nothing for its object to remember.
LEMMA WorksEmitFails ==
  ASSUME NEW p, NEW w, Works(p, w), NEW left \in Leaves
  PROVE  /\ Works(p, EmitFails(w, left))
         /\ EmitFails(w, left).mem.previous_hash = w.mem.previous_hash
<1> DEFINE c    == EmitFails(w, left)
           line == Emit(w, "probe")
<1>1. /\ WorkOK(w) /\ OwnHash(w.mem) /\ Pure(LogOf(w.dir)) /\ w.mem.run_id = run[p].run_id
      /\ w.dir.manifest.state \in {"absent", "torn", "whole"}
      /\ AnchorsEnded(w.dir)
      /\ HashBegun(run[p].previous_hash) => HashBegun(w.mem.previous_hash)
      /\ HashProbed(run[p].previous_hash) => HashProbed(w.mem.previous_hash)
  BY DEF Works
<1>2. /\ WorkOK(c) /\ SameTask(c.mem, w.mem) /\ c.mem.previous_hash = w.mem.previous_hash
      /\ c.dir.manifest = w.dir.manifest /\ SameAnchors(c.dir, w.dir)
      /\ LogOf(c.dir) = LogOf(w.dir) \/ c.dir = line.dir
  BY <1>1, EmitFailsFacts
<1>3. Pure(LogOf(line.dir))
  BY WorksEmit, Tags DEF Works
<1> HIDE DEF c, line
<1>4. Pure(LogOf(c.dir))
  BY <1>1, <1>2, <1>3
<1>5. AnchorsEnded(c.dir)
  BY <1>1, <1>2, AnchorsStay
<1>6. Works(p, c)
  BY <1>1, <1>2, <1>4, <1>5 DEF Works, SameTask, OwnHash
<1>7. QED
  BY <1>2, <1>6 DEF c

\* Nor does a write to another file.
LEMMA WorksWrite ==
  ASSUME NEW p, NEW w, Works(p, w), NEW path \in OtherPath
  PROVE  Works(p, Write(w, path)) /\ Write(w, path).mem = w.mem
<1>1. WorkOK(w) /\ AnchorsEnded(w.dir)
  BY DEF Works
<1>2. /\ WorkOK(Write(w, path)) /\ Write(w, path).mem = w.mem
      /\ LogOf(Write(w, path).dir) = LogOf(w.dir)
      /\ Write(w, path).dir.manifest = w.dir.manifest
      /\ SameAnchors(Write(w, path).dir, w.dir)
  BY <1>1, WriteFacts
<1>3. AnchorsEnded(Write(w, path).dir)
  BY <1>1, <1>2, AnchorsStay
<1>4. QED
  BY <1>2, <1>3 DEF Works

\* A counter or a verdict noted in the memory.
LEMMA WorksNoted ==
  ASSUME NEW p, NEW w, Works(p, w)
  PROVE  /\ w.mem.probes > 0  => Works(p, [w EXCEPT !.mem.probes = @ - 1])
         /\ w.mem.readers > 0 => Works(p, [w EXCEPT !.mem.readers = @ - 1])
         /\ \A v \in {"valid", "invalid"} : Works(p, [w EXCEPT !.mem.imported = v])
         /\ \A v \in {"PARTIAL", "FAIL", "ERROR"} : Works(p, [w EXCEPT !.mem.obs06 = v])
<1>1. /\ w = [mem |-> w.mem, dir |-> w.dir] /\ w.mem \in Memory
      /\ Shaped(w.dir) /\ ContentOK(w.dir)
      /\ OwnHash(w.mem) /\ Pure(LogOf(w.dir)) /\ w.mem.run_id = run[p].run_id
      /\ w.dir.manifest.state \in {"absent", "torn", "whole"}
      /\ AnchorsEnded(w.dir)
      /\ HashBegun(run[p].previous_hash) => HashBegun(w.mem.previous_hash)
      /\ HashProbed(run[p].previous_hash) => HashProbed(w.mem.previous_hash)
  BY DEF Works, WorkOK
<1>2. ASSUME NEW m \in Memory, m.run_id = w.mem.run_id, m.config = w.mem.config,
             m.previous_hash = w.mem.previous_hash
      PROVE  Works(p, [mem |-> m, dir |-> w.dir])
  BY <1>1, <1>2 DEF Works, WorkOK, OwnHash
<1>3. ASSUME w.mem.probes > 0 PROVE Works(p, [w EXCEPT !.mem.probes = @ - 1])
  <2> DEFINE m == [w.mem EXCEPT !.probes = w.mem.probes - 1]
  <2>1. w.mem.probes - 1 \in 0 .. Probes
    BY <1>1, <1>3, Countdown
  <2>2. m \in Memory /\ m.run_id = w.mem.run_id /\ m.previous_hash = w.mem.previous_hash
    BY <1>1, <2>1, NotedMemory
  <2>3. m.config = w.mem.config
    BY <1>1 DEF Memory
  <2>4. [w EXCEPT !.mem.probes = @ - 1] = [mem |-> m, dir |-> w.dir]
    BY <1>1
  <2> HIDE DEF m
  <2>5. QED
    BY <1>2, <2>2, <2>3, <2>4
<1>4. ASSUME w.mem.readers > 0 PROVE Works(p, [w EXCEPT !.mem.readers = @ - 1])
  <2> DEFINE m == [w.mem EXCEPT !.readers = w.mem.readers - 1]
  <2>1. w.mem.readers - 1 \in 0 .. Readers
    BY <1>1, <1>4, Countdown
  <2>2. m \in Memory /\ m.run_id = w.mem.run_id /\ m.previous_hash = w.mem.previous_hash
    BY <1>1, <2>1, NotedMemory
  <2>3. m.config = w.mem.config
    BY <1>1 DEF Memory
  <2>4. [w EXCEPT !.mem.readers = @ - 1] = [mem |-> m, dir |-> w.dir]
    BY <1>1
  <2> HIDE DEF m
  <2>5. QED
    BY <1>2, <2>2, <2>3, <2>4
<1>5. ASSUME NEW v \in {"valid", "invalid"} PROVE Works(p, [w EXCEPT !.mem.imported = v])
  <2> DEFINE m == [w.mem EXCEPT !.imported = v]
  <2>1. m \in Memory /\ m.run_id = w.mem.run_id /\ m.previous_hash = w.mem.previous_hash
    BY <1>1, NotedMemory
  <2>2. m.config = w.mem.config
    BY <1>1 DEF Memory
  <2>3. [w EXCEPT !.mem.imported = v] = [mem |-> m, dir |-> w.dir]
    BY <1>1
  <2> HIDE DEF m
  <2>4. QED
    BY <1>2, <2>1, <2>2, <2>3
<1>6. ASSUME NEW v \in {"PARTIAL", "FAIL", "ERROR"} PROVE Works(p, [w EXCEPT !.mem.obs06 = v])
  <2> DEFINE m == [w.mem EXCEPT !.obs06 = v]
  <2>1. m \in Memory /\ m.run_id = w.mem.run_id /\ m.previous_hash = w.mem.previous_hash
    BY <1>1, NotedMemory
  <2>2. m.config = w.mem.config
    BY <1>1 DEF Memory
  <2>3. [w EXCEPT !.mem.obs06 = v] = [mem |-> m, dir |-> w.dir]
    BY <1>1
  <2> HIDE DEF m
  <2>4. QED
    BY <1>2, <2>1, <2>2, <2>3
<1>7. QED
  BY <1>3, <1>4, <1>5, <1>6

\* A step that changes one process and one directory, both for the same run.
LEMMA SharedFrame ==
  ASSUME SharedInv, NEW p \in Proc,
         NEW m \in Memory, m.run_id = run[p].run_id, m.pc # "idle",
         OwnHash(m), Told(m.pc, m.previous_hash),
         NEW d, BundleOK(d), Pure(LogOf(d)), AnchorsEnded(d),
         now' \in RunId, faults' \in 0 .. MaxFaults,
         run' = [run EXCEPT ![p] = m],
         disk' = [disk EXCEPT ![run[p].run_id] = d],
         DOMAIN returned' = Proc, DOMAIN reports' = RunId,
         \A q \in Proc \ {p} : returned'[q] = returned[q],
         \A s \in RunId \ {run[p].run_id} : reports'[s] = reports[s]
  PROVE  SharedInv' /\ Within(p)
<1> DEFINE r == run[p].run_id
<1>1. TypeOK
  BY DEF SharedInv
<1>2. run \in [Proc -> Memory] /\ disk = [s \in RunId |-> disk[s]] /\ r \in RunId
  BY <1>1 DEF TypeOK, Memory
<1>3. /\ run'[p] = m /\ \A q \in Proc \ {p} : run'[q] = run[q]
      /\ disk'[r] = d /\ \A s \in RunId \ {r} : disk'[s] = disk[s]
      /\ run' \in [Proc -> Memory] /\ disk' = [s \in RunId |-> disk'[s]]
  BY <1>2
<1>4. \A s \in RunId : BundleOK(disk'[s])
  BY <1>1, <1>3 DEF TypeOK
<1>5. \A s \in RunId : BundleOK(disk[s])'
  BY <1>4 DEF BundleOK, Shaped, ContentOK, Present
<1>6. TypeOK'
  BY <1>3, <1>5 DEF TypeOK
<1>7. \A s \in RunId : Pure(LogOf(disk'[s])) /\ AnchorsEnded(disk'[s])
  BY <1>3 DEF SharedInv
<1>8. \A q \in Proc : OwnHash(run'[q]) /\ Told(run'[q].pc, run'[q].previous_hash)
  BY <1>3 DEF SharedInv
<1>9. SharedInv'
  BY <1>6, <1>7, <1>8
  DEF SharedInv, OwnHash, Pure, LogOf, Events, Present, AnchorsEnded, Told,
      HashBegun, HashProbed, HashEnded
<1>10. Within(p)
  BY <1>3 DEF Within
<1>11. QED
  BY <1>9, <1>10

\* A step that ends in a pair it may work on.
LEMMA WorksBecomes ==
  ASSUME SharedInv, NEW p \in Proc, NEW w, Works(p, w), NEW pc \in PC \ {"idle"},
         Told(pc, w.mem.previous_hash),
         Becomes(p, w, pc), faults' \in 0 .. MaxFaults
  PROVE  SharedInv' /\ Within(p)
<1> DEFINE m == [w.mem EXCEPT !.pc = pc]
           r == run[p].run_id
<1>1. /\ run' = [run EXCEPT ![p] = m]
      /\ disk' = [disk EXCEPT ![r] = w.dir]
      /\ UNCHANGED <<now, reports, returned>>
  BY DEF Becomes
<1>2. w.mem \in Memory /\ OwnHash(w.mem) /\ Shaped(w.dir) /\ ContentOK(w.dir)
      /\ Pure(LogOf(w.dir)) /\ w.dir.manifest.state \in {"absent", "torn", "whole"}
      /\ AnchorsEnded(w.dir) /\ w.mem.run_id = r
  BY DEF Works, WorkOK
<1>3. m \in Memory /\ m.config = w.mem.config /\ m.previous_hash = w.mem.previous_hash
      /\ m.pc = pc /\ m.run_id = r
  BY <1>2 DEF Memory
<1> HIDE DEF m
<1>4. OwnHash(m)
  BY <1>2, <1>3 DEF OwnHash
<1>5. /\ now' \in RunId
      /\ DOMAIN returned' = Proc /\ DOMAIN reports' = RunId
  BY <1>1 DEF SharedInv, TypeOK
<1>6. BundleOK(w.dir)
  BY <1>2 DEF BundleOK
<1>7. Told(m.pc, m.previous_hash) /\ m.pc # "idle"
  BY <1>3
<1>8. /\ \A q \in Proc \ {p} : returned'[q] = returned[q]
      /\ \A s \in RunId \ {r} : reports'[s] = reports[s]
  BY <1>1
<1>9. QED
  BY <1>1, <1>2, <1>3, <1>4, <1>5, <1>6, <1>7, <1>8, SharedFrame

\* What the process has hashed before the step.
LEMMA TellsAt ==
  ASSUME SharedInv, NEW p \in Proc
  PROVE  /\ Works(p, At(p)) /\ At(p).mem = run[p]
         /\ Told(run[p].pc, run[p].previous_hash)
  BY WorksAt DEF SharedInv, At

---------------------------------------------------------------------------
(* The steps of a run, alone in its directory or not. *)

\* The start of a run: its configuration file and one record.
LEMMA OpenRunShared ==
  ASSUME SharedInv, NEW p \in Proc, OpenRun(p)
  PROVE  SharedInv' /\ Within(p)
<1> DEFINE w == Write(At(p), "config")
           c == Emit(w, "assessment.started")
<1>1. Becomes(p, c, "import") /\ faults' \in 0 .. MaxFaults
  BY DEF OpenRun, SharedInv, TypeOK
<1>2. Works(p, w) /\ w.mem = run[p] /\ run[p].previous_hash = <<>>
  BY TellsAt, WorksWrite, Tags DEF OpenRun, Told
<1> HIDE DEF w
<1>3. Works(p, c) /\ HashBegun(c.mem.previous_hash)
  BY <1>2, WorksEmit, Tags
<1> HIDE DEF c
<1>4. Told("import", c.mem.previous_hash) /\ "import" \in PC \ {"idle"}
  BY <1>3 DEF Told, OpenedPC, ProbedPC, EndedPC, PC
<1>5. QED
  BY <1>1, <1>3, <1>4, WorksBecomes

\* The imported session and its two records.
LEMMA ImportAgentRunShared ==
  ASSUME SharedInv, NEW p \in Proc, ImportAgentRun(p)
  PROVE  SharedInv' /\ Within(p)
<1>1. PICK verdict \in {"valid", "invalid"} :
        Becomes(p, Emit(Emit([Write(At(p), "agent-run") EXCEPT !.mem.imported = verdict],
                             "agent.task.started"), "agent.task.completed"), "probes")
  BY DEF ImportAgentRun
<1> DEFINE w == Write(At(p), "agent-run")
           v == [w EXCEPT !.mem.imported = verdict]
           b == Emit(v, "agent.task.started")
           c == Emit(b, "agent.task.completed")
<1>2. Works(p, w) /\ HashBegun(run[p].previous_hash)
  BY TellsAt, WorksWrite, Tags DEF ImportAgentRun, Told, OpenedPC
<1>3. Becomes(p, c, "probes")
  BY <1>1
<1> HIDE DEF w
<1>4. Works(p, v)
  BY <1>2, WorksNoted
<1> HIDE DEF v
<1>5. Works(p, b)
  BY <1>4, WorksEmit, Tags
<1> HIDE DEF b
<1>6. Works(p, c)
  BY <1>5, WorksEmit, Tags
<1> HIDE DEF c
<1>7. Told("probes", c.mem.previous_hash) /\ "probes" \in PC \ {"idle"}
  BY <1>2, <1>6 DEF Works, Told, OpenedPC, ProbedPC, EndedPC, PC
<1>8. faults' \in 0 .. MaxFaults
  BY DEF ImportAgentRun, SharedInv, TypeOK
<1>9. QED
  BY <1>3, <1>6, <1>7, <1>8, WorksBecomes

\* The steps that log nothing, or one record and no file.
LEMMA SimpleStepShared ==
  ASSUME SharedInv, NEW p \in Proc,
         NoAgentRun(p) \/ NoAudit(p) \/ ProbesCompleted(p) \/ CompleteRun(p)
  PROVE  SharedInv' /\ Within(p)
<1> DEFINE h == run[p].previous_hash
           b == Emit(At(p), "assessment.probes_completed")
           c == Emit(At(p), "assessment.completed")
<1>1. Works(p, At(p)) /\ At(p).mem = run[p] /\ Told(run[p].pc, h)
      /\ faults' \in 0 .. MaxFaults
      /\ {"probes", "integrity", "audit", "assessment"} \subseteq PC \ {"idle"}
  BY TellsAt DEF NoAgentRun, NoAudit, ProbesCompleted, CompleteRun, SharedInv, TypeOK, PC
<1>2. /\ Works(p, b) /\ HashProbed(b.mem.previous_hash)
      /\ HashBegun(h) => HashBegun(b.mem.previous_hash)
      /\ Works(p, c) /\ HashEnded(c.mem.previous_hash)
      /\ HashBegun(h) => HashBegun(c.mem.previous_hash)
      /\ HashProbed(h) => HashProbed(c.mem.previous_hash)
  BY <1>1, WorksEmit, Tags
<1>3. CASE NoAgentRun(p)
  <2>1. Told("probes", h)
    BY <1>1, <1>3 DEF NoAgentRun, Told, OpenedPC, ProbedPC, EndedPC
  <2>2. QED
    BY <1>1, <1>3, <2>1, WorksBecomes DEF NoAgentRun
<1>4. CASE NoAudit(p)
  <2>1. Told("integrity", h)
    BY <1>1, <1>4 DEF NoAudit, Told, OpenedPC, ProbedPC, EndedPC
  <2>2. QED
    BY <1>1, <1>4, <2>1, WorksBecomes DEF NoAudit
<1>5. CASE ProbesCompleted(p)
  <2>1. Becomes(p, b, "audit")
    BY <1>5 DEF ProbesCompleted
  <2> HIDE DEF b
  <2>2. Told("audit", b.mem.previous_hash)
    BY <1>1, <1>2, <1>5 DEF ProbesCompleted, Told, OpenedPC, ProbedPC, EndedPC
  <2>3. QED
    BY <1>1, <1>2, <2>1, <2>2, WorksBecomes
<1>6. CASE CompleteRun(p)
  <2>1. Becomes(p, c, "assessment")
    BY <1>6 DEF CompleteRun
  <2> HIDE DEF c
  <2>2. Told("assessment", c.mem.previous_hash)
    BY <1>1, <1>2, <1>6 DEF CompleteRun, Told, OpenedPC, ProbedPC, EndedPC
  <2>3. QED
    BY <1>1, <1>2, <2>1, <2>2, WorksBecomes
<1>7. QED
  BY <1>3, <1>4, <1>5, <1>6

\* A control before the ledger is read, whether or not its append fails.
LEMMA ProbeShared ==
  ASSUME SharedInv, NEW p \in Proc, EvaluateProbe(p) \/ ProbeAppendFails(p)
  PROVE  SharedInv' /\ Within(p)
<1> DEFINE v == Write(At(p), "controls")
           w == [v EXCEPT !.mem.probes = @ - 1]
<1>1. Works(p, v) /\ v.mem = run[p]
  BY TellsAt, WorksWrite, Tags
<1>2. run[p].probes > 0 /\ "probes" \in PC \ {"idle"} /\ faults' \in 0 .. MaxFaults
      /\ HashBegun(run[p].previous_hash)
  BY TellsAt, RunAssumption
  DEF EvaluateProbe, ProbeAppendFails, SharedInv, TypeOK, PC, Told, OpenedPC
<1>3. \/ Becomes(p, w, "probes")
      \/ \E type \in {"probe", "control.error"} : Becomes(p, Emit(w, type), "probes")
      \/ \E left \in Leaves : Becomes(p, Emit(EmitFails(w, left), "control.error"), "probes")
  BY DEF EvaluateProbe, ProbeAppendFails, Leaves
<1> HIDE DEF v
<1>4. Works(p, w)
  BY <1>1, <1>2, WorksNoted
<1> HIDE DEF w
<1>5. ASSUME NEW u, Works(p, u) PROVE Told("probes", u.mem.previous_hash)
  BY <1>2, <1>5 DEF Works, Told, OpenedPC, ProbedPC, EndedPC
<1>6. CASE Becomes(p, w, "probes")
  BY <1>2, <1>4, <1>5, <1>6, WorksBecomes
<1>7. ASSUME NEW type \in {"probe", "control.error"}, Becomes(p, Emit(w, type), "probes")
      PROVE  SharedInv' /\ Within(p)
  <2>1. Works(p, Emit(w, type))
    BY <1>4, <1>7, WorksEmit, Tags
  <2>2. QED
    BY <1>2, <1>5, <1>7, <2>1, WorksBecomes
<1>8. ASSUME NEW left \in Leaves, Becomes(p, Emit(EmitFails(w, left), "control.error"), "probes")
      PROVE  SharedInv' /\ Within(p)
  <2>1. Works(p, EmitFails(w, left))
    BY <1>4, WorksEmitFails
  <2>2. Works(p, Emit(EmitFails(w, left), "control.error"))
    BY <2>1, WorksEmit, Tags
  <2>3. QED
    BY <1>2, <1>5, <1>8, <2>2, WorksBecomes
<1>9. QED
  BY <1>3, <1>6, <1>7, <1>8

\* The audit file, and its record if there is one; a control that reads the ledger.
LEMMA ProbedStepShared ==
  ASSUME SharedInv, NEW p \in Proc, IngestAudit(p) \/ EvaluateReader(p)
  PROVE  SharedInv' /\ Within(p)
<1> DEFINE h == run[p].previous_hash
<1>1. /\ Told(run[p].pc, h) /\ Works(p, At(p)) /\ At(p).mem = run[p]
      /\ "integrity" \in PC \ {"idle"} /\ faults' \in 0 .. MaxFaults
  BY TellsAt DEF IngestAudit, EvaluateReader, SharedInv, TypeOK, PC
<1>2. HashBegun(h) /\ HashProbed(h)
  BY <1>1 DEF IngestAudit, EvaluateReader, Told, OpenedPC, ProbedPC
<1>3. ASSUME NEW u, Works(p, u) PROVE Told("integrity", u.mem.previous_hash)
  BY <1>2, <1>3 DEF Works, Told, OpenedPC, ProbedPC, EndedPC
<1>4. ASSUME NEW u, Works(p, u), NEW type \in EventType,
             Becomes(p, Emit(u, type), "integrity") \/ Becomes(p, u, "integrity")
      PROVE  SharedInv' /\ Within(p)
  <2>1. Works(p, Emit(u, type))
    BY <1>4, WorksEmit
  <2>2. QED
    BY <1>1, <1>3, <1>4, <2>1, WorksBecomes
<1>5. CASE IngestAudit(p)
  <2> DEFINE w == Write(At(p), "docker-audit")
  <2>1. Becomes(p, Emit(w, "docker.audit"), "integrity") \/ Becomes(p, w, "integrity")
    BY <1>5 DEF IngestAudit
  <2>2. Works(p, w)
    BY <1>1, WorksWrite, Tags
  <2> HIDE DEF w
  <2>3. QED
    BY <1>4, <2>1, <2>2, Tags
<1>6. CASE EvaluateReader(p)
  <2> DEFINE v == Write(At(p), "controls")
             w == [v EXCEPT !.mem.readers = @ - 1]
  <2>1. Becomes(p, w, "integrity") \/ Becomes(p, Emit(w, "control.error"), "integrity")
    BY <1>6 DEF EvaluateReader
  <2>2. Works(p, v) /\ v.mem = run[p] /\ run[p].readers > 0
    BY <1>1, <1>6, WorksWrite, Tags DEF EvaluateReader
  <2> HIDE DEF v
  <2>3. Works(p, w)
    BY <2>2, WorksNoted
  <2> HIDE DEF w
  <2>4. QED
    BY <1>4, <2>1, <2>3, Tags
<1>7. QED
  BY <1>5, <1>6

\* OBS-06, whatever its verdict.
LEMMA EvaluateIntegrityShared ==
  ASSUME SharedInv, NEW p \in Proc, EvaluateIntegrity(p)
  PROVE  SharedInv' /\ Within(p)
<1> DEFINE v       == Write(At(p), "controls")
           verdict == IF VerifyTrace(v.dir) THEN "PARTIAL" ELSE "FAIL"
           w       == [v EXCEPT !.mem.obs06 = verdict]
           b       == [v EXCEPT !.mem.obs06 = "ERROR"]
<1>1. Works(p, v) /\ HashBegun(run[p].previous_hash) /\ HashProbed(run[p].previous_hash)
  BY TellsAt, WorksWrite, Tags DEF EvaluateIntegrity, Told, OpenedPC, ProbedPC
<1>2. "complete" \in PC \ {"idle"} /\ faults' \in 0 .. MaxFaults
  BY DEF EvaluateIntegrity, SharedInv, TypeOK, PC
<1>3. Becomes(p, w, "complete") \/ Becomes(p, Emit(b, "control.error"), "complete")
  BY DEF EvaluateIntegrity
<1>4. verdict \in {"PARTIAL", "FAIL", "ERROR"}
  OBVIOUS
<1> HIDE DEF v, verdict
<1>5. Works(p, w) /\ Works(p, b)
  BY <1>1, <1>4, WorksNoted
<1> HIDE DEF w, b
<1>6. Works(p, Emit(b, "control.error"))
  BY <1>5, WorksEmit, Tags
<1>7. ASSUME NEW u, Works(p, u) PROVE Told("complete", u.mem.previous_hash)
  BY <1>1, <1>7 DEF Works, Told, OpenedPC, ProbedPC, EndedPC
<1>8. QED
  BY <1>2, <1>3, <1>5, <1>6, <1>7, WorksBecomes

\* assessment.json is no part of the ledger; its anchors are the process's own.
LEMMA WriteAssessmentShared ==
  ASSUME SharedInv, NEW p \in Proc, WriteAssessment(p)
  PROVE  SharedInv' /\ Within(p)
<1> DEFINE d      == disk[run[p].run_id]
           anchor == [meta |-> "recorded", head |-> run[p].previous_hash,
                      count |-> run[p].sequence, rest |-> run[p].config]
           dir    == WithFile(d, "assessment", anchor)
           c      == [mem |-> run[p], dir |-> dir]
<1>1. /\ Works(p, At(p)) /\ At(p) = [mem |-> run[p], dir |-> d]
      /\ Told(run[p].pc, run[p].previous_hash)
      /\ "manifest" \in PC \ {"idle"} /\ faults' \in 0 .. MaxFaults
  BY WorksAt, TellsAt DEF WriteAssessment, SharedInv, TypeOK, PC
<1>2. Becomes(p, c, "manifest")
  BY <1>1 DEF WriteAssessment
<1>3. /\ run[p] \in Memory /\ Shaped(d) /\ ContentOK(d) /\ OwnHash(run[p])
      /\ Pure(LogOf(d)) /\ d.manifest.state \in {"absent", "torn", "whole"}
  BY <1>1 DEF Works, WorkOK
<1>4. /\ HashBegun(run[p].previous_hash) /\ HashProbed(run[p].previous_hash)
      /\ HashEnded(run[p].previous_hash)
  BY <1>1 DEF WriteAssessment, Told, OpenedPC, ProbedPC, EndedPC
<1>5. anchor \in RunAnchors
  <2>1. run[p].previous_hash \in Digest /\ run[p].sequence \in Nat /\ run[p].config \in Bytes
    BY <1>3, RunAssumption DEF Memory
  <2>2. QED
    BY <2>1 DEF RunAnchors
<1>6. anchor.meta = "recorded" /\ anchor.head = run[p].previous_hash
  OBVIOUS
<1> HIDE DEF anchor, d
<1>7. /\ Shaped(dir) /\ ContentOK(dir) /\ dir.manifest = d.manifest
      /\ dir.files["assessment"] = anchor
      /\ Present(dir) = Present(d) \cup {"assessment"}
      /\ \A path \in Present(d) : path # "assessment" => dir.files[path] = d.files[path]
  BY <1>3, <1>5, PathFacts, WithFileFacts, ContentKept
<1> HIDE DEF dir
<1>8. LogOf(dir) = LogOf(d) /\ AnchorsEnded(dir)
  BY <1>4, <1>6, <1>7 DEF LogOf, Events, AnchorsEnded
<1>9. Works(p, c)
  BY <1>3, <1>7, <1>8 DEF Works, WorkOK
<1>10. Told("manifest", c.mem.previous_hash)
  BY <1>4 DEF Told
<1> HIDE DEF c
<1>11. QED
  BY <1>1, <1>2, <1>9, <1>10, WorksBecomes

\* Nor is the manifest.
LEMMA WriteManifestShared ==
  ASSUME SharedInv, NEW p \in Proc, WriteManifest(p)
  PROVE  SharedInv' /\ Within(p)
<1> DEFINE d == disk[run[p].run_id]
           f == Finalized(d)
           c == [mem |-> run[p], dir |-> f]
<1>1. /\ Works(p, At(p)) /\ At(p) = [mem |-> run[p], dir |-> d]
      /\ Told(run[p].pc, run[p].previous_hash)
      /\ "attest" \in PC \ {"idle"} /\ faults' \in 0 .. MaxFaults
  BY WorksAt, TellsAt DEF WriteManifest, SharedInv, TypeOK, PC
<1>2. Becomes(p, c, "attest")
  BY <1>1 DEF WriteManifest
<1>3. /\ run[p] \in Memory /\ Shaped(d) /\ ContentOK(d) /\ OwnHash(run[p])
      /\ Pure(LogOf(d)) /\ AnchorsEnded(d)
  BY <1>1 DEF Works, WorkOK
<1> HIDE DEF d
<1>4. /\ Shaped(f) /\ f.files = d.files /\ f.manifest = FinalManifest(d)
      /\ ContentOK(f)
  BY <1>3, FinalizedFacts, ContentKept, PathFacts
<1> HIDE DEF f
<1>5. LogOf(f) = LogOf(d) /\ f.manifest.state = "whole" /\ AnchorsEnded(f)
  BY <1>3, <1>4 DEF LogOf, Events, Present, FinalManifest, AnchorsEnded
<1>6. Works(p, c)
  BY <1>3, <1>4, <1>5 DEF Works, WorkOK
<1>7. Told("attest", c.mem.previous_hash)
  BY <1>1 DEF WriteManifest, Told, OpenedPC, ProbedPC, EndedPC
<1> HIDE DEF c
<1>8. QED
  BY <1>1, <1>2, <1>6, <1>7, WorksBecomes

\* The process's memory and its directory, before a step that is no Becomes.
LEMMA OwnParts ==
  ASSUME SharedInv, NEW p \in Proc
  PROVE  LET d == disk[run[p].run_id] IN
         /\ run[p] \in Memory /\ run[p].run_id \in RunId
         /\ BundleOK(d) /\ Pure(LogOf(d)) /\ AnchorsEnded(d)
         /\ OwnHash(run[p]) /\ Told(run[p].pc, run[p].previous_hash)
         /\ disk = [s \in RunId |-> disk[s]]
         /\ DOMAIN returned = Proc /\ DOMAIN reports = RunId
         /\ now \in RunId /\ faults \in 0 .. MaxFaults
<1>1. run[p] \in Memory /\ run[p].run_id \in RunId
  BY DEF SharedInv, TypeOK, Memory
<1>2. QED
  BY <1>1 DEF SharedInv, TypeOK

\* The attestation is written outside the directory.
LEMMA AttestShared ==
  ASSUME SharedInv, NEW p \in Proc, Attest(p)
  PROVE  SharedInv' /\ Within(p)
<1> DEFINE r == run[p].run_id
           m == [run[p] EXCEPT !.pc = "done"]
<1>1. /\ run[p] \in Memory /\ r \in RunId
      /\ BundleOK(disk[r]) /\ Pure(LogOf(disk[r])) /\ AnchorsEnded(disk[r])
      /\ OwnHash(run[p]) /\ Told(run[p].pc, run[p].previous_hash)
      /\ disk = [s \in RunId |-> disk[s]]
      /\ DOMAIN returned = Proc /\ DOMAIN reports = RunId /\ now \in RunId
      /\ faults \in 0 .. MaxFaults
  BY OwnParts
<1>2. /\ run[p].pc = "attest"
      /\ run' = [run EXCEPT ![p] = m] /\ UNCHANGED <<now, disk, faults>>
      /\ DOMAIN returned' = Proc /\ DOMAIN reports' = RunId
      /\ \A q \in Proc \ {p} : returned'[q] = returned[q]
      /\ \A s \in RunId \ {r} : reports'[s] = reports[s]
  BY <1>1 DEF Attest
<1>3. disk' = [disk EXCEPT ![r] = disk[r]]
  BY <1>1, <1>2
<1>4. /\ m \in Memory /\ m.config = run[p].config /\ m.previous_hash = run[p].previous_hash
      /\ m.run_id = r /\ m.pc = "done"
  BY <1>1 DEF Memory, PC
<1> HIDE DEF m
<1>5. OwnHash(m) /\ Told(m.pc, m.previous_hash) /\ m.pc # "idle"
  BY <1>1, <1>2, <1>4 DEF OwnHash, Told, OpenedPC, ProbedPC, EndedPC
<1>6. now' \in RunId /\ faults' \in 0 .. MaxFaults
  BY <1>1, <1>2
<1>7. QED
  BY <1>1, <1>2, <1>3, <1>4, <1>5, <1>6, SharedFrame

\* A crash tears a line or the manifest and takes no record away.
LEMMA CrashShared ==
  ASSUME SharedInv, NEW p \in Proc, Crash(p)
  PROVE  SharedInv' /\ Within(p)
<1> DEFINE r == run[p].run_id
           d == disk[r]
           m == [run[p] EXCEPT !.pc = "crashed"]
<1>1. /\ run[p] \in Memory /\ r \in RunId /\ BundleOK(d) /\ Pure(LogOf(d)) /\ AnchorsEnded(d)
      /\ OwnHash(run[p]) /\ disk = [s \in RunId |-> disk[s]]
      /\ DOMAIN returned = Proc /\ DOMAIN reports = RunId /\ now \in RunId
  BY OwnParts
<1>2. /\ run' = [run EXCEPT ![p] = m] /\ UNCHANGED <<now, reports, returned>>
      /\ faults' \in 0 .. MaxFaults
  BY RunAssumption DEF Crash, SharedInv, TypeOK
<1>3. /\ m \in Memory /\ m.config = run[p].config /\ m.previous_hash = run[p].previous_hash
      /\ m.run_id = r /\ m.pc = "crashed"
  BY <1>1 DEF Memory, PC
<1> HIDE DEF m
<1>4. OwnHash(m) /\ Told(m.pc, m.previous_hash) /\ m.pc # "idle"
  BY <1>1, <1>3 DEF OwnHash, Told, OpenedPC, ProbedPC, EndedPC
<1>5. /\ now' \in RunId /\ DOMAIN returned' = Proc /\ DOMAIN reports' = RunId
      /\ \A q \in Proc \ {p} : returned'[q] = returned[q]
      /\ \A s \in RunId \ {r} : reports'[s] = reports[s]
  BY <1>1, <1>2
<1>6. ASSUME NEW new, disk' = [disk EXCEPT ![r] = new], BundleOK(new), LogOf(new) = LogOf(d),
             SameAnchors(new, d)
      PROVE  SharedInv' /\ Within(p)
  <2>1. AnchorsEnded(new) /\ Pure(LogOf(new))
    BY <1>1, <1>6, AnchorsStay
  <2>2. QED
    BY <1>1, <1>2, <1>3, <1>4, <1>5, <1>6, <2>1, SharedFrame
<1>7. CASE UNCHANGED disk
  <2>1. disk' = [disk EXCEPT ![r] = d]
    BY <1>1, <1>7
  <2>2. QED
    BY <1>1, <1>6, <2>1 DEF SameAnchors
<1>8. CASE /\ "trace" \in Present(d)
           /\ disk' = [disk EXCEPT ![r] =
                         WithFile(@, "trace", [@.files["trace"] EXCEPT !.torn = TRUE])]
  <2> DEFINE torn == [d.files["trace"] EXCEPT !.torn = TRUE]
             new  == WithFile(d, "trace", torn)
  <2>1. d.files["trace"] \in Ledger /\ Shaped(d) /\ ContentOK(d)
        /\ d.manifest.state \in {"absent", "torn", "whole"}
    BY <1>1, <1>8 DEF BundleOK, ContentOK
  <2>2. torn \in Ledger /\ torn.events = d.files["trace"].events
    BY <2>1 DEF Ledger
  <2>3. disk' = [disk EXCEPT ![r] = new]
    BY <1>8
  <2> HIDE DEF torn, d
  <2>4. /\ new.manifest = d.manifest /\ Present(new) = Present(d) \cup {"trace"}
        /\ new.files["trace"] = torn /\ Shaped(new) /\ ContentOK(new)
        /\ \A path \in Present(d) : path # "trace" => new.files[path] = d.files[path]
    BY <2>1, <2>2, PathFacts, WithFileFacts, ContentKept
  <2> HIDE DEF new
  <2>5. BundleOK(new)
    BY <2>1, <2>4 DEF BundleOK
  <2>6. LogOf(new) = LogOf(d) /\ SameAnchors(new, d)
    BY <1>8, <2>2, <2>4 DEF LogOf, Events, SameAnchors
  <2>7. QED
    BY <1>6, <2>3, <2>5, <2>6
<1>9. CASE disk' = [disk EXCEPT ![r].manifest = TornManifest]
  <2> DEFINE new == [d EXCEPT !.manifest = TornManifest]
  <2>1. new = [files |-> d.files, manifest |-> TornManifest]
    BY <1>1 DEF BundleOK, Shaped
  <2>2. disk' = [disk EXCEPT ![r] = new]
    BY <1>9
  <2> HIDE DEF new
  <2>3. BundleOK(new) /\ LogOf(new) = LogOf(d) /\ SameAnchors(new, d)
    BY <1>1, <2>1
    DEF BundleOK, Shaped, ContentOK, Present, TornManifest, LogOf, Events, SameAnchors
  <2>4. QED
    BY <1>6, <2>2, <2>3
<1>10. QED
  BY <1>7, <1>8, <1>9 DEF Crash

\* A run that starts unlinks the ledger it finds; what another process remembers
\* of that ledger, and the anchors it left, stay.
LEMMA StartShared ==
  ASSUME SharedInv, NEW p \in Proc, Start(p)
  PROVE  SharedInv' /\ Within(p)
<1> DEFINE r == run[p].run_id
           d == disk[r]
           e == WithoutFile(d, "trace")
           m == [run[p] EXCEPT !.pc = "open"]
<1>1. /\ run[p] \in Memory /\ r \in RunId /\ BundleOK(d) /\ AnchorsEnded(d)
      /\ OwnHash(run[p]) /\ Told(run[p].pc, run[p].previous_hash)
      /\ DOMAIN returned = Proc /\ DOMAIN reports = RunId
      /\ now \in RunId /\ faults \in 0 .. MaxFaults
  BY OwnParts
<1>2. /\ run[p].pc = "idle" /\ r = now
      /\ run' = [run EXCEPT ![p] = m]
      /\ disk' = [disk EXCEPT ![r] = e]
      /\ UNCHANGED <<now, reports, returned, faults>>
  BY DEF Start
<1>3. /\ m \in Memory /\ m.config = run[p].config /\ m.previous_hash = run[p].previous_hash
      /\ m.run_id = r /\ m.pc = "open"
  BY <1>1 DEF Memory, PC
<1> HIDE DEF m
<1>4. OwnHash(m) /\ Told(m.pc, m.previous_hash) /\ m.pc # "idle"
  BY <1>1, <1>2, <1>3 DEF OwnHash, Told, OpenedPC, ProbedPC, EndedPC
<1>5. Shaped(d) /\ ContentOK(d) /\ d.manifest.state \in {"absent", "torn", "whole"}
  BY <1>1 DEF BundleOK
<1> HIDE DEF d
<1>6. /\ Shaped(e) /\ ContentOK(e) /\ e.manifest = d.manifest
      /\ Present(e) = Present(d) \ {"trace"}
      /\ \A path \in Present(e) : e.files[path] = d.files[path]
  BY <1>5, PathFacts, WithoutFileFacts, ContentKept
<1> HIDE DEF e
<1>7. BundleOK(e) /\ SameAnchors(e, d)
  BY <1>5, <1>6 DEF BundleOK, SameAnchors
<1>8. Pure(LogOf(e)) /\ AnchorsEnded(e)
  <2>1. LogOf(e) = <<>>
    BY <1>6 DEF LogOf
  <2>2. QED
    BY <1>1, <1>7, <2>1, AnchorsStay DEF Pure, d
<1>9. /\ now' \in RunId /\ faults' \in 0 .. MaxFaults
      /\ DOMAIN returned' = Proc /\ DOMAIN reports' = RunId
      /\ \A q \in Proc \ {p} : returned'[q] = returned[q]
      /\ \A s \in RunId \ {r} : reports'[s] = reports[s]
  BY <1>1, <1>2
<1>10. QED
  BY <1>1, <1>2, <1>3, <1>4, <1>7, <1>8, <1>9, SharedFrame

\* Every step of a run touches only what is its own, and keeps the invariant.
LEMMA StepShared ==
  ASSUME SharedInv, NEW p \in Proc, Step(p) \/ Crash(p)
  PROVE  SharedInv' /\ Within(p)
  BY StartShared, OpenRunShared, ImportAgentRunShared, SimpleStepShared, ProbeShared,
     ProbedStepShared, EvaluateIntegrityShared, WriteAssessmentShared, WriteManifestShared,
     AttestShared, CrashShared
  DEF Step

\* Before anything has run, the variables are well typed.
LEMMA InitTypes ==
  ASSUME Init
  PROVE  /\ TypeOK /\ \A p \in Proc : ~Started(p) /\ run[p].previous_hash = <<>>
         /\ \A r \in RunId : disk[r] = EmptyBundle
<1>1. PICK c \in [Proc -> Config], second \in [Proc -> RunId] :
        run = [p \in Proc |-> IdleWith(c[p], second[p])]
  BY DEF Init
<1>2. \A k \in Config, s \in RunId :
        /\ IdleWith(k, s) \in Memory /\ IdleWith(k, s).pc = "idle"
        /\ IdleWith(k, s).previous_hash = <<>>
  <2> TAKE k \in Config, s \in RunId
  <2>1. k.probes \in 0 .. Probes /\ k.readers \in 0 .. Readers /\ "idle" \in PC
    BY RunAssumption DEF PC
  <2>2. <<>> \in Digest /\ 0 \in Nat
    BY DEF Digest
  <2>3. QED
    BY <2>1, <2>2 DEF IdleWith, Memory, GENESIS_HASH
<1>3. /\ run \in [Proc -> Memory]
      /\ \A p \in Proc : ~Started(p) /\ run[p].previous_hash = <<>>
  BY <1>1, <1>2 DEF Started
<1>4. /\ now \in RunId /\ faults \in 0 .. MaxFaults
      /\ disk = [r \in RunId |-> EmptyBundle]
      /\ reports = [r \in RunId |-> {}] /\ returned = [p \in Proc |-> {}]
  BY RunAssumption DEF Init, RunId
<1>5. TypeOK
  BY <1>3, <1>4, EmptyBundleFacts DEF TypeOK, BundleOK
<1>6. QED
  BY <1>3, <1>4, <1>5

\* Whoever starts when, every record's hash covers its own configuration only, and
\* every anchor is that of a run that has ended.
THEOREM SharedInvariance == Spec => []SharedInv
<1>1. Init => SharedInv
  <2> SUFFICES ASSUME Init PROVE SharedInv
    OBVIOUS
  <2>1. /\ TypeOK /\ \A p \in Proc : ~Started(p) /\ run[p].previous_hash = <<>>
        /\ \A r \in RunId : disk[r] = EmptyBundle
    BY InitTypes
  <2>2. \A r \in RunId : Pure(LogOf(disk[r])) /\ AnchorsEnded(disk[r])
    BY <2>1, EmptyBundleFacts DEF Pure, AnchorsEnded
  <2>3. \A p \in Proc : OwnHash(run[p]) /\ Told(run[p].pc, run[p].previous_hash)
    BY <2>1 DEF OwnHash, Told, Started, OpenedPC, ProbedPC, EndedPC
  <2>4. QED
    BY <2>1, <2>2, <2>3 DEF SharedInv
<1>2. SharedInv /\ [Next]_vars => SharedInv'
  <2> SUFFICES ASSUME SharedInv, [Next]_vars PROVE SharedInv'
    OBVIOUS
  <2>1. CASE Tick
    <3>1. now' \in RunId /\ UNCHANGED <<disk, run, reports, returned, faults>>
      BY <2>1, RunAssumption DEF Tick, SharedInv, TypeOK, RunId
    <3>2. QED
      BY <3>1 DEF SharedInv, TypeOK
  <2>2. ASSUME NEW p \in Proc, Step(p) \/ Crash(p) PROVE SharedInv'
    BY <2>2, StepShared
  <2>3. CASE UNCHANGED vars
    <3>1. UNCHANGED <<now, disk, run, reports, returned, faults>>
      BY <2>3 DEF vars
    <3>2. QED
      BY <3>1 DEF SharedInv, TypeOK
  <2>4. QED
    BY <2>1, <2>2, <2>3 DEF Next
<1>3. QED
  BY <1>1, <1>2, PTL DEF Spec

\* The variables stay well typed, whether or not runs share a directory.
THEOREM TypeCorrect == Spec => []TypeOK
<1>1. SharedInv => TypeOK
  BY DEF SharedInv
<1>2. QED
  BY <1>1, SharedInvariance, PTL

\* VerifiedLedgerHasOneConfig, for every number of runs that start in one second:
\* the head of a ledger that verifies covers every record of it, and a hash
\* covers one configuration.
THEOREM CollisionShows == Spec => []VerifiedLedgerHasOneConfig
<1>1. SharedInv => VerifiedLedgerHasOneConfig
  <2> SUFFICES ASSUME SharedInv, NEW r \in RunId, VerifyTrace(disk[r]),
                      NEW i \in 1 .. Len(Events(disk[r])), NEW j \in 1 .. Len(Events(disk[r]))
               PROVE  Events(disk[r])[i].body.config = Events(disk[r])[j].body.config
    BY DEF VerifiedLedgerHasOneConfig
  <2> DEFINE log == Events(disk[r])
             n   == Len(log)
  <2>1. log \in Seq(Event) /\ ChainOK(log) /\ Pure(log)
    BY DEF SharedInv, TypeOK, BundleOK, ContentOK, Ledger, VerifyTrace, LogOf, Events
  <2> HIDE DEF log
  <2>2. n \in 1 .. n /\ i \in 1 .. n /\ j \in 1 .. n
    BY <2>1 DEF log
  <2>3. Commits(log, n)
    BY <2>1, <2>2, HashCommits
  <2>4. \A k \in 1 .. n : log[k].body.config = log[n].body.config
    <3> TAKE k \in 1 .. n
    <3>1. log[n].event_hash[k][2] = log[k].body /\ k \in 1 .. Len(log[n].event_hash)
      BY <2>3 DEF Commits
    <3>2. log[n].event_hash[k][2].config = log[n].body.config
      BY <2>1, <2>2, <3>1 DEF Pure
    <3>3. QED
      BY <3>1, <3>2
  <2>5. QED
    BY <2>2, <2>4 DEF log
<1>2. QED
  BY <1>1, SharedInvariance, PTL

\* VerifiedBundleIsComplete: what verifies on its own is a run that ended, however many
\* runs of one second have written to the directory. The anchor that is compared is
\* the hash of a complete run, and a hash covers the records it is the head of.
THEOREM VerifiedIsComplete == Spec => []VerifiedBundleIsComplete
<1>1. SharedInv => VerifiedBundleIsComplete
  <2> SUFFICES ASSUME SharedInv, NEW r \in RunId, VerifyBundle(disk[r], {}, {})
               PROVE  LET events == Events(disk[r]) IN
                        /\ events[1].body.type = "assessment.started"
                        /\ events[Len(events)].body.type = "assessment.completed"
                        /\ \E i \in 1 .. Len(events) :
                             events[i].body.type = "assessment.probes_completed"
    BY DEF VerifiedBundleIsComplete
  <2> DEFINE log == Events(disk[r])
             n   == Len(log)
             h   == disk[r].files["assessment"].head
  <2>1. log \in Seq(Event) /\ ChainOK(log) /\ log # <<>>
    BY DEF SharedInv, TypeOK, BundleOK, ContentOK, Ledger, VerifyBundle, VerifyTrace, Events
  <2>2. h = HeadHash(log) /\ HashBegun(h) /\ HashProbed(h) /\ HashEnded(h)
    BY DEF SharedInv, AnchorsEnded, VerifyBundle, AnchorsOK
  <2> HIDE DEF log, h
  <2>3. n \in 1 .. n /\ 1 \in 1 .. n
    BY <2>1
  <2>4. Len(h) = n /\ \A j \in 1 .. n : h[j][2] = log[j].body
    BY <2>1, <2>2, <2>3, HashCommits DEF Commits, HeadHash
  <2>5. /\ log[1].body.type = "assessment.started"
        /\ log[n].body.type = "assessment.completed"
        /\ \E i \in 1 .. n : log[i].body.type = "assessment.probes_completed"
    BY <2>2, <2>3, <2>4 DEF HashBegun, HashProbed, HashEnded
  <2>6. QED
    BY <2>5 DEF log
<1>2. QED
  BY <1>1, SharedInvariance, PTL

---------------------------------------------------------------------------
(* A directory that one run has to itself. *)

Begun(log)  == log # <<>> /\ log[1].body.type = "assessment.started"
Probed(log) == \E i \in 1 .. Len(log) : log[i].body.type = "assessment.probes_completed"
Ended(log)  == log[Len(log)].body.type = "assessment.completed"

Complete(log) == Begun(log) /\ Probed(log) /\ Ended(log)

AnchoredBy(m, d) ==
  /\ "assessment" \in Present(d)
  /\ d.files["assessment"].meta = "recorded"
  /\ d.files["assessment"].head = m.previous_hash
  /\ d.files["assessment"].count = m.sequence

\* A process with memory m, its directory d, what it returned and its report.
Local(m, d, ret, rep) ==
  /\ d.manifest.state = "whole" => Complete(LogOf(d)) /\ m.pc \in SealedPC \cup {"crashed"}
  /\ m.pc \in SealedPC   => d.manifest = FinalManifest(d)
  /\ m.pc = "open"       => LogOf(d) = <<>>
  /\ m.pc \in OpenedPC   => Begun(LogOf(d)) /\ InStep(m, d)
  /\ m.pc \in ProbedPC   => Probed(LogOf(d))
  /\ m.pc \in JudgedPC   => /\ m.obs06 = "PARTIAL" => Sound(d)
                            /\ m.obs06 = "FAIL" => ~Sound(d)
  /\ m.pc \in EndedPC    => Ended(LogOf(d))
  /\ m.pc \in AnchoredPC => AnchoredBy(m, d)
  /\ m.pc = "done"       => /\ ret = {[manifest |-> Sha256(d.manifest.entries),
                                       head |-> m.previous_hash]}
                            /\ rep = {Sha256(d.manifest.entries)}

\* A directory no run has started in is empty.
Fresh == \A r \in RunId : (\A p \in Proc : Started(p) => run[p].run_id # r) => disk[r] = EmptyBundle

AllLocal == \A p \in Proc : Started(p) /\ Alone(p) =>
  Local(run[p], disk[run[p].run_id], returned[p], reports[run[p].run_id])

IInv == TypeOK /\ Fresh /\ AllLocal

---------------------------------------------------------------------------
(* Initially, and when a run moves on. *)

\* The invariant holds before any run starts.
LEMMA InitOK == Init => IInv
  BY InitTypes DEF IInv, Fresh, AllLocal

\* No run starts, and none changes its second.
Moves == \A q \in Proc : (Started(q)' <=> Started(q)) /\ run'[q].run_id = run[q].run_id

\* A step that touches only what is its own changes nobody's second.
LEMMA WithinMoves ==
  ASSUME NEW p \in Proc, Started(p), Within(p)
  PROVE  Moves
<1>1. \A q \in Proc \ {p} : run'[q] = run[q]
  BY DEF Within
<1>2. run'[p].run_id = run[p].run_id /\ run'[p].pc # "idle"
  BY DEF Within
<1>3. QED
  BY <1>1, <1>2 DEF Moves, Started

\* So those alone in their directory stay alone, and no other gets to be.
LEMMA MovesAlone ==
  ASSUME Moves, NEW q \in Proc
  PROVE  Alone(q)' <=> Alone(q)
  BY DEF Moves, Alone

\* Local is about values: in the next state it is Local of the next values.
LEMMA AllLocalNext ==
  ASSUME \A q \in Proc : Started(q)' /\ Alone(q)' =>
           Local(run'[q], disk'[run'[q].run_id], returned'[q], reports'[run'[q].run_id])
  PROVE  AllLocal'
  BY DEF AllLocal, Local, Complete, Begun, Probed, Ended, InStep, Sound, Torn, LogOf, Events,
         Present, FinalManifest, AnchoredBy

\* A process moves on, and whoever has a directory of its own is not affected.
LEMMA Frame ==
  ASSUME IInv, TypeOK', NEW p \in Proc, Started(p), Within(p),
         Alone(p) => Local(run'[p], disk'[run[p].run_id], returned'[p], reports'[run[p].run_id])
  PROVE  IInv' /\ Moves
<1> DEFINE r == run[p].run_id
<1>1. TypeOK /\ Fresh /\ AllLocal
  BY DEF IInv
<1>2. /\ run'[p].run_id = r
      /\ \A q \in Proc \ {p} : run'[q] = run[q] /\ returned'[q] = returned[q]
      /\ \A s \in RunId \ {r} : disk'[s] = disk[s] /\ reports'[s] = reports[s]
  BY DEF Within
<1>3. Moves /\ \A q \in Proc : Alone(q)' <=> Alone(q)
  BY WithinMoves, MovesAlone
<1>4. Fresh'
  <2>1. SUFFICES ASSUME NEW s \in RunId,
                        \A q \in Proc : Started(q)' => run'[q].run_id # s
                 PROVE  disk'[s] = EmptyBundle
    BY DEF Fresh
  <2>2. \A q \in Proc : Started(q) => run[q].run_id # s
    BY <1>3, <2>1 DEF Moves
  <2>3. QED
    BY <1>1, <1>2, <2>2 DEF Fresh
<1>5. AllLocal'
  <2>1. SUFFICES ASSUME NEW q \in Proc, Started(q)', Alone(q)'
                 PROVE  Local(run'[q], disk'[run'[q].run_id], returned'[q], reports'[run'[q].run_id])
    BY AllLocalNext
  <2>2. Started(q) /\ Alone(q)
    BY <1>3, <2>1 DEF Moves
  <2>3. CASE q = p
    BY <1>2, <2>2, <2>3
  <2>4. CASE q # p
    <3>1. run[q].run_id # r /\ run[q].run_id \in RunId
      BY <1>1, <2>2, <2>4 DEF Alone, TypeOK, Memory
    <3>2. QED
      BY <1>1, <1>2, <2>2, <2>4, <3>1 DEF AllLocal
  <2>5. QED
    BY <2>3, <2>4
<1>6. QED
  BY <1>3, <1>4, <1>5 DEF IInv

---------------------------------------------------------------------------
(* What a step does to a directory. *)

Grown(old, new) ==
  /\ old.manifest.state # "whole" /\ new.manifest.state # "whole"
  /\ Promise!Extends(LogOf(old), LogOf(new))

SealedNow(old, new) ==
  /\ old.manifest.state # "whole" /\ new.manifest.state = "whole"
  /\ LogOf(new) = LogOf(old)

\* No run starts, and at most one directory changes, within its promise unless two
\* runs have it.
Evolves ==
  /\ Moves
  /\ \E r \in RunId :
       /\ \A s \in RunId \ {r} : disk'[s] = disk[s]
       /\ \/ disk'[r] = disk[r] \/ Shared(r)
          \/ Grown(disk[r], disk'[r]) \/ SealedNow(disk[r], disk'[r])

\* A log that extends an extension extends the first log.
LEMMA ExtendsTransitive ==
  ASSUME NEW a \in Seq(Event), NEW b \in Seq(Event), NEW c \in Seq(Event),
         Promise!Extends(a, b), Promise!Extends(b, c)
  PROVE  Promise!Extends(a, c)
  BY DEF Promise!Extends

\* A log extends itself.
LEMMA ExtendsReflexive ==
  ASSUME NEW a \in Seq(Event)
  PROVE  Promise!Extends(a, a)
  BY DEF Promise!Extends

\* Everything the invariant needs to know of one append.
LEMMA EmitKeeps ==
  ASSUME NEW w, WorkOK(w), NEW type \in EventType
  PROVE  LET c == Emit(w, type) IN
         /\ WorkOK(c) /\ SameTask(c.mem, w.mem) /\ c.dir.manifest = w.dir.manifest
         /\ Promise!Extends(LogOf(w.dir), LogOf(c.dir))
         /\ InStep(c.mem, c.dir)
         /\ Sound(c.dir) => Sound(w.dir)
         /\ InStep(w.mem, w.dir) /\ Sound(w.dir) => Sound(c.dir)
         /\ Begun(LogOf(w.dir)) => Begun(LogOf(c.dir))
         /\ LogOf(w.dir) = <<>> /\ type = "assessment.started" => Begun(LogOf(c.dir))
         /\ Probed(LogOf(w.dir)) => Probed(LogOf(c.dir))
         /\ type = "assessment.probes_completed" => Probed(LogOf(c.dir))
         /\ type = "assessment.completed" => Ended(LogOf(c.dir))
<1> DEFINE c      == Emit(w, type)
           log    == LogOf(w.dir)
           rec    == NextRecord(w, type)
           longer == Append(log, rec)
<1>1. /\ WorkOK(c) /\ SameTask(c.mem, w.mem) /\ c.dir.manifest = w.dir.manifest
      /\ rec \in Event /\ LogOf(c.dir) = longer
  BY EmitFacts
<1>2. /\ InStep(c.mem, c.dir)
      /\ Sound(c.dir) => Sound(w.dir)
      /\ InStep(w.mem, w.dir) /\ Sound(w.dir) => Sound(c.dir)
  BY EmitChain
<1>3. log \in Seq(Event)
  BY LedgerOfFacts
<1>4. rec.body.type = type
  BY DEF NextRecord, Record
<1> HIDE DEF c, rec
<1>5. /\ longer # <<>> /\ Len(longer) = Len(log) + 1 /\ longer[Len(longer)] = rec
      /\ \A i \in 1 .. Len(log) : longer[i] = log[i]
      /\ log # <<>> => longer[1] = log[1]
      /\ log = <<>> => longer[1] = rec
      /\ Promise!Extends(log, longer)
  <2> HIDE DEF log
  <2>1. QED BY <1>1, <1>3, AppendLog
<1>6. Len(log) \in Nat
  BY <1>3
<1> HIDE DEF log, longer
<1>7. (Begun(log) => Begun(longer)) /\ (log = <<>> /\ type = "assessment.started" => Begun(longer))
  BY <1>4, <1>5 DEF Begun
<1>8. Probed(log) => Probed(longer)
  BY <1>5, <1>6 DEF Probed
<1>9. type = "assessment.probes_completed" => Probed(longer)
  BY <1>4, <1>5, <1>6 DEF Probed
<1>10. type = "assessment.completed" => Ended(longer)
  BY <1>4, <1>5 DEF Ended
<1>11. QED
  BY <1>1, <1>2, <1>5, <1>7, <1>8, <1>9, <1>10 DEF c, log

\* The pair a process starts a step from.
LEMMA AtFacts ==
  ASSUME IInv, NEW p \in Proc, Started(p), Alone(p)
  PROVE  /\ WorkOK(At(p)) /\ At(p).mem = run[p] /\ At(p).dir = disk[run[p].run_id]
         /\ run[p].run_id \in RunId /\ run[p] \in Memory /\ BundleOK(disk[run[p].run_id])
         /\ LogOf(At(p).dir) \in Seq(Event)
         /\ Local(run[p], disk[run[p].run_id], returned[p], reports[run[p].run_id])
<1>1. run[p] \in Memory /\ run[p].run_id \in RunId
  BY DEF IInv, TypeOK, Memory
<1>2. BundleOK(disk[run[p].run_id])
  BY <1>1 DEF IInv, TypeOK
<1>3. WorkOK(At(p)) /\ At(p).mem = run[p] /\ At(p).dir = disk[run[p].run_id]
  BY <1>1, <1>2 DEF WorkOK, At, BundleOK
<1>4. LogOf(At(p).dir) \in Seq(Event)
  BY <1>3, LedgerOfFacts
<1>5. QED
  BY <1>1, <1>2, <1>3, <1>4 DEF IInv, AllLocal

\* A run that is alone in its directory takes a step.
Turn(p) == Started(p) /\ Alone(p) /\ Within(p) /\ TypeOK'

WorkingPC == {"import", "probes", "audit", "integrity", "complete", "assessment", "manifest"}

\* A step that ends in w at pc keeps the invariant if w has reached what pc says.
LEMMA BecomesKeeps ==
  ASSUME IInv, NEW p \in Proc, Turn(p), run[p].pc \in WorkingPC \cup {"open"},
         NEW w, WorkOK(w), w.mem.run_id = run[p].run_id,
         w.dir.manifest = disk[run[p].run_id].manifest,
         Promise!Extends(LogOf(disk[run[p].run_id]), LogOf(w.dir)),
         NEW pc \in WorkingPC,
         Begun(LogOf(w.dir)), InStep(w.mem, w.dir),
         pc \in ProbedPC => Probed(LogOf(w.dir)),
         pc \in JudgedPC => /\ w.mem.obs06 = "PARTIAL" => Sound(w.dir)
                            /\ w.mem.obs06 = "FAIL" => ~Sound(w.dir),
         pc \in EndedPC => Ended(LogOf(w.dir)),
         pc \in AnchoredPC => AnchoredBy(w.mem, w.dir),
         Becomes(p, w, pc)
  PROVE  IInv' /\ Evolves
<1> DEFINE m == [w.mem EXCEPT !.pc = pc]
           r == run[p].run_id
<1>1. /\ run' = [run EXCEPT ![p] = m]
      /\ disk' = [disk EXCEPT ![r] = w.dir]
      /\ UNCHANGED <<now, reports, returned>>
  BY DEF Becomes
<1>2. pc \in PC /\ w.mem \in Memory
  BY DEF WorkingPC, PC, WorkOK
<1>3. /\ m \in Memory /\ m.pc = pc
      /\ m.run_id = w.mem.run_id /\ m.sequence = w.mem.sequence
      /\ m.previous_hash = w.mem.previous_hash /\ m.obs06 = w.mem.obs06
  BY <1>2 DEF Memory
<1> HIDE DEF m
<1>4. r \in RunId /\ BundleOK(disk[r])
      /\ Local(run[p], disk[r], returned[p], reports[r])
  BY AtFacts DEF Turn
<1>5. disk[r].manifest.state # "whole"
  BY <1>4 DEF Local, WorkingPC, SealedPC
<1>6. BundleOK(w.dir) /\ w.dir.manifest.state # "whole"
  BY <1>4, <1>5 DEF BundleOK, WorkOK
<1>7. Local(m, w.dir, returned[p], reports[r])
  BY <1>3, <1>6 DEF Local, WorkingPC, SealedPC, InStep, AnchoredBy
<1>8. /\ disk = [s \in RunId |-> disk[s]] /\ run \in [Proc -> Memory]
  BY DEF IInv, TypeOK
<1>9. /\ run'[p] = m /\ disk'[r] = w.dir /\ returned' = returned /\ reports' = reports
      /\ \A s \in RunId \ {r} : disk'[s] = disk[s]
  BY <1>1, <1>4, <1>8
<1>10. IInv' /\ Moves
  BY <1>7, <1>9, Frame DEF Turn
<1>11. Grown(disk[r], disk'[r])
  BY <1>5, <1>6, <1>9 DEF Grown
<1>12. QED
  BY <1>4, <1>9, <1>10, <1>11 DEF Evolves

---------------------------------------------------------------------------
(* The actions, one by one. *)

\* Writing a file and noting a field of the memory that no append uses.
LEMMA NoteFacts ==
  ASSUME NEW w, WorkOK(w), NEW path \in OtherPath, NEW mem \in Memory,
         mem.run_id = w.mem.run_id, mem.sequence = w.mem.sequence,
         mem.previous_hash = w.mem.previous_hash
  PROVE  LET c == [Write(w, path) EXCEPT !.mem = mem] IN
         /\ WorkOK(c) /\ c.mem = mem
         /\ c.dir.manifest = w.dir.manifest
         /\ LogOf(c.dir) = LogOf(w.dir)
         /\ Sound(c.dir) <=> Sound(w.dir)
         /\ InStep(c.mem, c.dir) <=> InStep(w.mem, w.dir)
<1> DEFINE v == Write(w, path)
           c == [v EXCEPT !.mem = mem]
<1>1. /\ WorkOK(v) /\ v.mem = w.mem /\ v.dir.manifest = w.dir.manifest
      /\ LogOf(v.dir) = LogOf(w.dir) /\ (Torn(v.dir) <=> Torn(w.dir))
  BY WriteFacts
<1> HIDE DEF v
<1>2. c = [mem |-> mem, dir |-> v.dir]
  BY <1>1 DEF WorkOK
<1>3. WorkOK(c) /\ c.mem = mem /\ c.dir = v.dir
  BY <1>1, <1>2 DEF WorkOK
<1>4. QED
  BY <1>1, <1>3 DEF v, Sound, InStep

\* The configuration file and assessment.started: engine.py, the start of a run.
LEMMA OpenRunKeeps ==
  ASSUME IInv, NEW p \in Proc, Turn(p), OpenRun(p)
  PROVE  IInv' /\ Evolves
<1>1. Started(p) /\ Alone(p) /\ run[p].pc = "open"
  BY DEF OpenRun, Turn
<1> DEFINE w == Write(At(p), "config")
           c == Emit(w, "assessment.started")
<1>2. /\ WorkOK(At(p)) /\ At(p).mem = run[p] /\ At(p).dir = disk[run[p].run_id]
      /\ Local(run[p], disk[run[p].run_id], returned[p], reports[run[p].run_id])
  BY <1>1, AtFacts
<1>3. LogOf(disk[run[p].run_id]) = <<>>
  BY <1>1, <1>2 DEF Local
<1>4. /\ WorkOK(w) /\ w.mem = run[p]
      /\ w.dir.manifest = disk[run[p].run_id].manifest /\ LogOf(w.dir) = <<>>
  BY <1>2, <1>3, Tags, WriteFacts
<1> HIDE DEF w
<1>5. /\ WorkOK(c) /\ SameTask(c.mem, w.mem) /\ c.dir.manifest = w.dir.manifest
      /\ Promise!Extends(LogOf(w.dir), LogOf(c.dir))
      /\ InStep(c.mem, c.dir) /\ Begun(LogOf(c.dir))
  BY <1>4, Tags, EmitKeeps
<1>6. Becomes(p, c, "import")
  BY DEF OpenRun, w
<1> HIDE DEF c
<1>7. QED
  BY <1>1, <1>3, <1>4, <1>5, <1>6, BecomesKeeps
  DEF WorkingPC, ProbedPC, JudgedPC, EndedPC, AnchoredPC, SameTask

\* The imported session and its two records, whatever its manifest's verdict.
LEMMA ImportAgentRunKeeps ==
  ASSUME IInv, NEW p \in Proc, Turn(p), ImportAgentRun(p)
  PROVE  IInv' /\ Evolves
<1>1. Started(p) /\ Alone(p) /\ run[p].pc = "import"
  BY DEF ImportAgentRun, Turn
<1>2. PICK verdict \in {"valid", "invalid"} :
        Becomes(p, Emit(Emit([Write(At(p), "agent-run") EXCEPT !.mem.imported = verdict],
                             "agent.task.started"), "agent.task.completed"), "probes")
  BY DEF ImportAgentRun
<1> DEFINE d   == disk[run[p].run_id]
           mem == [run[p] EXCEPT !.imported = verdict]
           w   == [Write(At(p), "agent-run") EXCEPT !.mem = mem]
           b   == Emit(w, "agent.task.started")
           c   == Emit(b, "agent.task.completed")
<1>3. /\ WorkOK(At(p)) /\ At(p).mem = run[p] /\ At(p).dir = d
      /\ run[p] \in Memory /\ LogOf(d) \in Seq(Event)
      /\ Local(run[p], d, returned[p], reports[run[p].run_id])
  BY <1>1, AtFacts
<1>4. mem \in Memory /\ mem.run_id = run[p].run_id /\ mem.sequence = run[p].sequence
      /\ mem.previous_hash = run[p].previous_hash
  BY <1>3, NotedMemory
<1>5. [Write(At(p), "agent-run") EXCEPT !.mem.imported = verdict] = w
  BY <1>3, Tags, WriteFacts
<1> HIDE DEF mem
<1>6. /\ WorkOK(w) /\ w.mem = mem /\ w.dir.manifest = d.manifest /\ LogOf(w.dir) = LogOf(d)
  BY <1>3, <1>4, Tags, NoteFacts
<1>7. Begun(LogOf(w.dir))
  BY <1>1, <1>3, <1>6 DEF Local, OpenedPC
<1> HIDE DEF w
<1>8. /\ WorkOK(b) /\ SameTask(b.mem, w.mem) /\ b.dir.manifest = w.dir.manifest
      /\ Promise!Extends(LogOf(w.dir), LogOf(b.dir)) /\ Begun(LogOf(b.dir))
  BY <1>6, <1>7, Tags, EmitKeeps
<1>9. LogOf(b.dir) \in Seq(Event)
  BY <1>8, LedgerOfFacts
<1> HIDE DEF b
<1>10. /\ WorkOK(c) /\ SameTask(c.mem, b.mem) /\ c.dir.manifest = b.dir.manifest
       /\ Promise!Extends(LogOf(b.dir), LogOf(c.dir))
       /\ InStep(c.mem, c.dir) /\ Begun(LogOf(c.dir))
  BY <1>8, Tags, EmitKeeps
<1>11. LogOf(c.dir) \in Seq(Event)
  BY <1>10, LedgerOfFacts
<1>12. Promise!Extends(LogOf(d), LogOf(c.dir))
  BY <1>3, <1>6, <1>8, <1>9, <1>10, <1>11, ExtendsTransitive
<1>13. Becomes(p, c, "probes")
  BY <1>2, <1>5 DEF b, c
<1>14. c.mem.run_id = run[p].run_id /\ c.dir.manifest = d.manifest
  BY <1>4, <1>6, <1>8, <1>10 DEF SameTask
<1> HIDE DEF c
<1>15. QED
  BY <1>1, <1>10, <1>12, <1>13, <1>14, BecomesKeeps
  DEF WorkingPC, ProbedPC, JudgedPC, EndedPC, AnchoredPC

\* A step that logs nothing: NoAgentRun and NoAudit.
LEMMA SkipKeeps ==
  ASSUME IInv, NEW p \in Proc, Turn(p),
         NoAgentRun(p) \/ NoAudit(p)
  PROVE  IInv' /\ Evolves
<1> DEFINE d == disk[run[p].run_id]
<1>1. Started(p) /\ Alone(p) /\ run[p].pc \in {"import", "audit"}
  BY DEF NoAgentRun, NoAudit, Turn
<1>2. /\ WorkOK(At(p)) /\ At(p).mem = run[p] /\ At(p).dir = d
      /\ LogOf(d) \in Seq(Event)
      /\ Local(run[p], d, returned[p], reports[run[p].run_id])
  BY <1>1, AtFacts
<1>3. Begun(LogOf(d)) /\ InStep(run[p], d) /\ Promise!Extends(LogOf(d), LogOf(d))
  BY <1>1, <1>2, ExtendsReflexive DEF Local, OpenedPC, ProbedPC
<1>4. CASE NoAgentRun(p)
  BY <1>1, <1>2, <1>3, <1>4, BecomesKeeps
  DEF NoAgentRun, WorkingPC, ProbedPC, JudgedPC, EndedPC, AnchoredPC
<1>5. CASE NoAudit(p)
  <2>1. Probed(LogOf(d))
    BY <1>2, <1>5 DEF NoAudit, Local, ProbedPC
  <2>2. QED
    BY <1>1, <1>2, <1>3, <1>5, <2>1, BecomesKeeps
    DEF NoAudit, WorkingPC, JudgedPC, EndedPC, AnchoredPC
<1>6. QED
  BY <1>4, <1>5

\* What the pair looks like after a control has written its file and one of its
\* counters or verdicts has been noted.
LEMMA NotedAt ==
  ASSUME IInv, NEW p \in Proc, Started(p), Alone(p), NEW path \in OtherPath, NEW mem \in Memory,
         mem.run_id = run[p].run_id, mem.sequence = run[p].sequence,
         mem.previous_hash = run[p].previous_hash
  PROVE  LET w == [Write(At(p), path) EXCEPT !.mem = mem]
             d == disk[run[p].run_id]
         IN  /\ WorkOK(w) /\ w.mem = mem /\ w.dir.manifest = d.manifest
             /\ LogOf(w.dir) = LogOf(d) /\ LogOf(d) \in Seq(Event)
             /\ Promise!Extends(LogOf(d), LogOf(w.dir))
             /\ Sound(w.dir) <=> Sound(d)
             /\ InStep(w.mem, w.dir) <=> InStep(run[p], d)
<1> DEFINE d == disk[run[p].run_id]
<1>1. /\ WorkOK(At(p)) /\ At(p).mem = run[p] /\ At(p).dir = d /\ LogOf(d) \in Seq(Event)
  BY AtFacts
<1>2. Promise!Extends(LogOf(d), LogOf(d))
  BY <1>1, ExtendsReflexive
<1>3. QED
  BY <1>1, <1>2, NoteFacts

\* Noting a field through the pair is noting it in the memory.
LEMMA WrittenPair ==
  ASSUME IInv, NEW p \in Proc, Started(p), Alone(p), NEW path \in OtherPath
  PROVE  Write(At(p), path) = [mem |-> run[p], dir |-> Write(At(p), path).dir]
  BY AtFacts, WriteFacts DEF WorkOK

\* A control that is evaluated, or raises and is logged.
LEMMA EvaluateProbeKeeps ==
  ASSUME IInv, NEW p \in Proc, Turn(p), EvaluateProbe(p)
  PROVE  IInv' /\ Evolves
<1> DEFINE d   == disk[run[p].run_id]
           mem == [run[p] EXCEPT !.probes = @ - 1]
           w   == [Write(At(p), "controls") EXCEPT !.mem = mem]
<1>1. Started(p) /\ Alone(p) /\ run[p].pc = "probes" /\ run[p].probes > 0
  BY DEF EvaluateProbe, Turn
<1>2. run[p] \in Memory /\ Local(run[p], d, returned[p], reports[run[p].run_id])
  BY <1>1, AtFacts
<1>3. mem \in Memory /\ mem.run_id = run[p].run_id /\ mem.sequence = run[p].sequence
      /\ mem.previous_hash = run[p].previous_hash
  <2>1. run[p].probes - 1 \in 0 .. Probes
    BY <1>1, <1>2, Countdown
  <2>2. QED
    BY <1>2, <2>1, NotedMemory
<1>4. [Write(At(p), "controls") EXCEPT !.mem.probes = @ - 1] = w
  BY <1>1, Tags, WrittenPair
<1>5. \/ Becomes(p, w, "probes")
      \/ \E type \in {"probe", "control.error"} : Becomes(p, Emit(w, type), "probes")
  BY <1>4 DEF EvaluateProbe
<1> HIDE DEF mem
<1>6. /\ WorkOK(w) /\ w.mem = mem /\ w.dir.manifest = d.manifest
      /\ LogOf(w.dir) = LogOf(d) /\ Promise!Extends(LogOf(d), LogOf(w.dir))
      /\ InStep(w.mem, w.dir) <=> InStep(run[p], d)
  BY <1>1, <1>3, Tags, NotedAt
<1>7. Begun(LogOf(w.dir)) /\ InStep(w.mem, w.dir)
  BY <1>1, <1>2, <1>6 DEF Local, OpenedPC
<1> HIDE DEF w
<1>8. CASE Becomes(p, w, "probes")
  BY <1>1, <1>3, <1>6, <1>7, <1>8, BecomesKeeps
  DEF WorkingPC, ProbedPC, JudgedPC, EndedPC, AnchoredPC
<1>9. ASSUME NEW type \in {"probe", "control.error"}, Becomes(p, Emit(w, type), "probes")
      PROVE  IInv' /\ Evolves
  <2> DEFINE c == Emit(w, type)
  <2>1. /\ WorkOK(c) /\ SameTask(c.mem, w.mem) /\ c.dir.manifest = w.dir.manifest
        /\ Promise!Extends(LogOf(w.dir), LogOf(c.dir))
        /\ InStep(c.mem, c.dir) /\ Begun(LogOf(c.dir))
    BY <1>6, <1>7, Tags, EmitKeeps
  <2>2. Becomes(p, c, "probes")
    BY <1>9
  <2> HIDE DEF c
  <2>3. QED
    BY <1>1, <1>3, <1>6, <2>1, <2>2, BecomesKeeps
    DEF WorkingPC, ProbedPC, JudgedPC, EndedPC, AnchoredPC, SameTask
<1>10. QED
  BY <1>5, <1>8, <1>9

\* A control whose own append fails: the counter runs ahead of the ledger.
LEMMA ProbeAppendFailsKeeps ==
  ASSUME IInv, NEW p \in Proc, Turn(p), ProbeAppendFails(p)
  PROVE  IInv' /\ Evolves
<1> DEFINE d   == disk[run[p].run_id]
           mem == [run[p] EXCEPT !.probes = @ - 1]
           w   == [Write(At(p), "controls") EXCEPT !.mem = mem]
<1>1. Started(p) /\ Alone(p) /\ run[p].pc = "probes" /\ run[p].probes > 0
  BY DEF ProbeAppendFails, Turn
<1>2. PICK left \in Leaves :
        Becomes(p, Emit(EmitFails([Write(At(p), "controls") EXCEPT !.mem.probes = @ - 1], left),
                        "control.error"), "probes")
  BY DEF ProbeAppendFails, Leaves
<1>3. run[p] \in Memory /\ Local(run[p], d, returned[p], reports[run[p].run_id])
  BY <1>1, AtFacts
<1>4. mem \in Memory /\ mem.run_id = run[p].run_id /\ mem.sequence = run[p].sequence
      /\ mem.previous_hash = run[p].previous_hash
  <2>1. run[p].probes - 1 \in 0 .. Probes
    BY <1>1, <1>3, Countdown
  <2>2. QED
    BY <1>3, <2>1, NotedMemory
<1>5. [Write(At(p), "controls") EXCEPT !.mem.probes = @ - 1] = w
  BY <1>1, Tags, WrittenPair
<1> HIDE DEF mem
<1>6. /\ WorkOK(w) /\ w.mem = mem /\ w.dir.manifest = d.manifest
      /\ LogOf(w.dir) = LogOf(d)
  BY <1>1, <1>4, Tags, NotedAt
<1>7. Begun(LogOf(w.dir))
  BY <1>1, <1>3, <1>6 DEF Local, OpenedPC
<1> HIDE DEF w
<1> DEFINE b    == EmitFails(w, left)
           line == Emit(w, "probe")
<1>8. /\ Begun(LogOf(line.dir)) /\ Promise!Extends(LogOf(w.dir), LogOf(line.dir))
      /\ WorkOK(line)
  BY <1>6, <1>7, Tags, EmitKeeps
<1>9. /\ WorkOK(b) /\ SameTask(b.mem, w.mem) /\ b.dir.manifest = w.dir.manifest
      /\ LogOf(b.dir) = LogOf(w.dir) \/ b.dir = line.dir
  BY <1>6, EmitFailsFacts
<1> HIDE DEF b, line
<1>10. /\ Begun(LogOf(b.dir)) /\ Promise!Extends(LogOf(d), LogOf(b.dir))
       /\ LogOf(d) \in Seq(Event) /\ LogOf(b.dir) \in Seq(Event)
  <2>1. LogOf(w.dir) \in Seq(Event) /\ LogOf(b.dir) \in Seq(Event)
    BY <1>6, <1>9, LedgerOfFacts
  <2>2. QED
    BY <1>6, <1>7, <1>8, <1>9, <2>1, ExtendsReflexive
<1> DEFINE c == Emit(b, "control.error")
<1>11. /\ WorkOK(c) /\ SameTask(c.mem, b.mem) /\ c.dir.manifest = b.dir.manifest
       /\ Promise!Extends(LogOf(b.dir), LogOf(c.dir))
       /\ InStep(c.mem, c.dir) /\ Begun(LogOf(c.dir))
  BY <1>9, <1>10, Tags, EmitKeeps
<1>12. Becomes(p, c, "probes")
  BY <1>2, <1>5 DEF b
<1> HIDE DEF c
<1>13. Promise!Extends(LogOf(d), LogOf(c.dir))
  <2>1. LogOf(c.dir) \in Seq(Event)
    BY <1>11, LedgerOfFacts
  <2>2. QED
    BY <1>10, <1>11, <2>1, ExtendsTransitive
<1>14. QED
  BY <1>1, <1>4, <1>6, <1>9, <1>11, <1>12, <1>13, BecomesKeeps
  DEF WorkingPC, ProbedPC, JudgedPC, EndedPC, AnchoredPC, SameTask

\* assessment.probes_completed goes at the end of the ledger.
LEMMA ProbesCompletedKeeps ==
  ASSUME IInv, NEW p \in Proc, Turn(p), ProbesCompleted(p)
  PROVE  IInv' /\ Evolves
<1> DEFINE d == disk[run[p].run_id]
           c == Emit(At(p), "assessment.probes_completed")
<1>1. /\ Started(p) /\ Alone(p) /\ run[p].pc = "probes"
      /\ Becomes(p, c, "audit")
  BY DEF ProbesCompleted, Turn
<1>2. /\ WorkOK(At(p)) /\ At(p).mem = run[p] /\ At(p).dir = d
      /\ Local(run[p], d, returned[p], reports[run[p].run_id])
  BY <1>1, AtFacts
<1>3. Begun(LogOf(At(p).dir))
  BY <1>1, <1>2 DEF Local, OpenedPC
<1>4. /\ WorkOK(c) /\ SameTask(c.mem, run[p]) /\ c.dir.manifest = d.manifest
      /\ Promise!Extends(LogOf(d), LogOf(c.dir))
      /\ InStep(c.mem, c.dir) /\ Begun(LogOf(c.dir)) /\ Probed(LogOf(c.dir))
  BY <1>2, <1>3, Tags, EmitKeeps
<1> HIDE DEF c
<1>5. QED
  BY <1>1, <1>4, BecomesKeeps
  DEF WorkingPC, JudgedPC, EndedPC, AnchoredPC, SameTask

\* The audit file, and its record if there is one.
LEMMA IngestAuditKeeps ==
  ASSUME IInv, NEW p \in Proc, Turn(p), IngestAudit(p)
  PROVE  IInv' /\ Evolves
<1> DEFINE d == disk[run[p].run_id]
           w == Write(At(p), "docker-audit")
           c == Emit(w, "docker.audit")
<1>1. /\ Started(p) /\ Alone(p) /\ run[p].pc = "audit"
      /\ Becomes(p, c, "integrity") \/ Becomes(p, w, "integrity")
  BY DEF IngestAudit, Turn
<1>2. /\ WorkOK(At(p)) /\ At(p).mem = run[p] /\ At(p).dir = d /\ LogOf(d) \in Seq(Event)
      /\ Local(run[p], d, returned[p], reports[run[p].run_id])
  BY <1>1, AtFacts
<1>3. /\ WorkOK(w) /\ w.mem = run[p] /\ w.dir.manifest = d.manifest
      /\ LogOf(w.dir) = LogOf(d) /\ (Torn(w.dir) <=> Torn(d))
  BY <1>2, Tags, WriteFacts
<1>4. Begun(LogOf(w.dir)) /\ Probed(LogOf(w.dir)) /\ InStep(w.mem, w.dir)
  BY <1>1, <1>2, <1>3 DEF Local, OpenedPC, ProbedPC, InStep, Sound
<1>5. Promise!Extends(LogOf(d), LogOf(w.dir))
  BY <1>2, <1>3, ExtendsReflexive
<1> HIDE DEF w
<1>6. /\ WorkOK(c) /\ SameTask(c.mem, run[p]) /\ c.dir.manifest = d.manifest
      /\ Promise!Extends(LogOf(d), LogOf(c.dir))
      /\ InStep(c.mem, c.dir) /\ Begun(LogOf(c.dir)) /\ Probed(LogOf(c.dir))
  BY <1>3, <1>4, Tags, EmitKeeps
<1> HIDE DEF c
<1>7. CASE Becomes(p, c, "integrity")
  BY <1>1, <1>6, <1>7, BecomesKeeps
  DEF WorkingPC, JudgedPC, EndedPC, AnchoredPC, SameTask
<1>8. CASE Becomes(p, w, "integrity")
  BY <1>1, <1>3, <1>4, <1>5, <1>8, BecomesKeeps
  DEF WorkingPC, JudgedPC, EndedPC, AnchoredPC
<1>9. QED
  BY <1>1, <1>7, <1>8

\* A control that reads the ledger writes at most a control.error.
LEMMA EvaluateReaderKeeps ==
  ASSUME IInv, NEW p \in Proc, Turn(p), EvaluateReader(p)
  PROVE  IInv' /\ Evolves
<1> DEFINE d   == disk[run[p].run_id]
           mem == [run[p] EXCEPT !.readers = @ - 1]
           w   == [Write(At(p), "controls") EXCEPT !.mem = mem]
           c   == Emit(w, "control.error")
<1>1. Started(p) /\ Alone(p) /\ run[p].pc = "integrity" /\ run[p].readers > 0
  BY DEF EvaluateReader, Turn
<1>2. run[p] \in Memory /\ Local(run[p], d, returned[p], reports[run[p].run_id])
  BY <1>1, AtFacts
<1>3. mem \in Memory /\ mem.run_id = run[p].run_id /\ mem.sequence = run[p].sequence
      /\ mem.previous_hash = run[p].previous_hash
  <2>1. run[p].readers - 1 \in 0 .. Readers
    BY <1>1, <1>2, Countdown
  <2>2. QED
    BY <1>2, <2>1, NotedMemory
<1>4. [Write(At(p), "controls") EXCEPT !.mem.readers = @ - 1] = w
  BY <1>1, Tags, WrittenPair
<1>5. Becomes(p, w, "integrity") \/ Becomes(p, c, "integrity")
  BY <1>4 DEF EvaluateReader
<1> HIDE DEF mem
<1>6. /\ WorkOK(w) /\ w.mem = mem /\ w.dir.manifest = d.manifest
      /\ LogOf(w.dir) = LogOf(d) /\ Promise!Extends(LogOf(d), LogOf(w.dir))
      /\ InStep(w.mem, w.dir) <=> InStep(run[p], d)
  BY <1>1, <1>3, Tags, NotedAt
<1>7. Begun(LogOf(w.dir)) /\ Probed(LogOf(w.dir)) /\ InStep(w.mem, w.dir)
  BY <1>1, <1>2, <1>6 DEF Local, OpenedPC, ProbedPC
<1> HIDE DEF w
<1>8. /\ WorkOK(c) /\ SameTask(c.mem, w.mem) /\ c.dir.manifest = w.dir.manifest
      /\ Promise!Extends(LogOf(w.dir), LogOf(c.dir))
      /\ InStep(c.mem, c.dir) /\ Begun(LogOf(c.dir)) /\ Probed(LogOf(c.dir))
  BY <1>6, <1>7, Tags, EmitKeeps
<1> HIDE DEF c
<1>9. CASE Becomes(p, w, "integrity")
  BY <1>1, <1>3, <1>6, <1>7, <1>9, BecomesKeeps
  DEF WorkingPC, JudgedPC, EndedPC, AnchoredPC
<1>10. CASE Becomes(p, c, "integrity")
  BY <1>1, <1>3, <1>6, <1>8, <1>10, BecomesKeeps
  DEF WorkingPC, JudgedPC, EndedPC, AnchoredPC, SameTask
<1>11. QED
  BY <1>5, <1>9, <1>10

\* verify_trace and Sound agree on a ledger that holds a record.
LEMMA VerifyTraceIsSound ==
  ASSUME NEW d, Begun(LogOf(d))
  PROVE  VerifyTrace(d) <=> Sound(d)
  BY DEF Begun, VerifyTrace, Sound, Torn, LogOf, Events

\* OBS-06: its verdict is true of the ledger it read, and stays so.
LEMMA EvaluateIntegrityKeeps ==
  ASSUME IInv, NEW p \in Proc, Turn(p), EvaluateIntegrity(p)
  PROVE  IInv' /\ Evolves
<1> DEFINE d       == disk[run[p].run_id]
           v       == Write(At(p), "controls")
           verdict == IF VerifyTrace(v.dir) THEN "PARTIAL" ELSE "FAIL"
           judged  == [run[p] EXCEPT !.obs06 = verdict]
           raised  == [run[p] EXCEPT !.obs06 = "ERROR"]
           w       == [v EXCEPT !.mem = judged]
           b       == [v EXCEPT !.mem = raised]
           c       == Emit(b, "control.error")
<1>1. Started(p) /\ Alone(p) /\ run[p].pc = "integrity"
  BY DEF EvaluateIntegrity, Turn
<1>2. run[p] \in Memory /\ Local(run[p], d, returned[p], reports[run[p].run_id])
      /\ WorkOK(At(p)) /\ At(p).mem = run[p] /\ At(p).dir = d
  BY <1>1, AtFacts
<1>3. v = [mem |-> run[p], dir |-> v.dir]
  BY <1>1, Tags, WrittenPair
<1>4. [v EXCEPT !.mem.obs06 = verdict] = w /\ [v EXCEPT !.mem.obs06 = "ERROR"] = b
  BY <1>3
<1>5. Becomes(p, w, "complete") \/ Becomes(p, c, "complete")
  BY <1>4 DEF EvaluateIntegrity
<1>6. /\ judged \in Memory /\ judged.run_id = run[p].run_id /\ judged.sequence = run[p].sequence
      /\ judged.previous_hash = run[p].previous_hash /\ judged.obs06 = verdict
      /\ raised \in Memory /\ raised.run_id = run[p].run_id /\ raised.sequence = run[p].sequence
      /\ raised.previous_hash = run[p].previous_hash /\ raised.obs06 = "ERROR"
  <2>1. verdict \in {"PARTIAL", "FAIL", "ERROR"} /\ "ERROR" \in {"PARTIAL", "FAIL", "ERROR"}
    OBVIOUS
  <2> HIDE DEF verdict
  <2>2. QED
    BY <1>2, <2>1, NotedMemory
<1>7. LogOf(v.dir) = LogOf(d) /\ (Torn(v.dir) <=> Torn(d))
  BY <1>2, Tags, WriteFacts
<1>8. Begun(LogOf(d)) /\ Probed(LogOf(d)) /\ InStep(run[p], d)
  BY <1>1, <1>2 DEF Local, OpenedPC, ProbedPC
<1>9. /\ verdict = "PARTIAL" => Sound(d)
      /\ verdict = "FAIL" => ~Sound(d)
  <2>1. VerifyTrace(v.dir) <=> Sound(v.dir)
    BY <1>7, <1>8, VerifyTraceIsSound
  <2>2. Sound(v.dir) <=> Sound(d)
    BY <1>7 DEF Sound
  <2>3. QED
    BY <2>1, <2>2
<1> HIDE DEF judged, raised, verdict
<1>10. /\ WorkOK(w) /\ w.mem = judged /\ w.dir.manifest = d.manifest
       /\ LogOf(w.dir) = LogOf(d) /\ Promise!Extends(LogOf(d), LogOf(w.dir))
       /\ Sound(w.dir) <=> Sound(d)
       /\ InStep(w.mem, w.dir) <=> InStep(run[p], d)
  BY <1>1, <1>6, Tags, NotedAt
<1>11. /\ WorkOK(b) /\ b.mem = raised /\ b.dir.manifest = d.manifest
       /\ LogOf(b.dir) = LogOf(d)
  BY <1>1, <1>6, Tags, NotedAt
<1> HIDE DEF w, b
<1>12. /\ WorkOK(c) /\ SameTask(c.mem, b.mem) /\ c.dir.manifest = b.dir.manifest
       /\ Promise!Extends(LogOf(d), LogOf(c.dir))
       /\ InStep(c.mem, c.dir) /\ Begun(LogOf(c.dir)) /\ Probed(LogOf(c.dir))
  BY <1>8, <1>11, Tags, EmitKeeps
<1> HIDE DEF c, v
<1>13. CASE Becomes(p, w, "complete")
  BY <1>1, <1>6, <1>8, <1>9, <1>10, <1>13, BecomesKeeps
  DEF WorkingPC, EndedPC, AnchoredPC
<1>14. CASE Becomes(p, c, "complete")
  BY <1>1, <1>6, <1>11, <1>12, <1>14, BecomesKeeps
  DEF WorkingPC, EndedPC, AnchoredPC, SameTask
<1>15. QED
  BY <1>5, <1>13, <1>14

\* assessment.completed is the last record.
LEMMA CompleteRunKeeps ==
  ASSUME IInv, NEW p \in Proc, Turn(p), CompleteRun(p)
  PROVE  IInv' /\ Evolves
<1> DEFINE d == disk[run[p].run_id]
           c == Emit(At(p), "assessment.completed")
<1>1. /\ Started(p) /\ Alone(p) /\ run[p].pc = "complete"
      /\ Becomes(p, c, "assessment")
  BY DEF CompleteRun, Turn
<1>2. /\ WorkOK(At(p)) /\ At(p).mem = run[p] /\ At(p).dir = d
      /\ Local(run[p], d, returned[p], reports[run[p].run_id])
  BY <1>1, AtFacts
<1>3. /\ Begun(LogOf(d)) /\ Probed(LogOf(d)) /\ InStep(run[p], d)
      /\ run[p].obs06 = "PARTIAL" => Sound(d)
      /\ run[p].obs06 = "FAIL" => ~Sound(d)
  BY <1>1, <1>2 DEF Local, OpenedPC, ProbedPC, JudgedPC
<1>4. /\ WorkOK(c) /\ SameTask(c.mem, run[p]) /\ c.dir.manifest = d.manifest
      /\ Promise!Extends(LogOf(d), LogOf(c.dir))
      /\ InStep(c.mem, c.dir)
      /\ Sound(c.dir) => Sound(d)
      /\ Sound(d) => Sound(c.dir)
      /\ Begun(LogOf(c.dir)) /\ Probed(LogOf(c.dir)) /\ Ended(LogOf(c.dir))
  BY <1>2, <1>3, Tags, EmitKeeps
<1> HIDE DEF c
<1>5. QED
  BY <1>1, <1>3, <1>4, BecomesKeeps DEF WorkingPC, AnchoredPC, SameTask

\* The anchors are those of the ledger object, which a sound ledger agrees with.
LEMMA WriteAssessmentKeeps ==
  ASSUME IInv, NEW p \in Proc, Turn(p), WriteAssessment(p)
  PROVE  IInv' /\ Evolves
<1> DEFINE d      == disk[run[p].run_id]
           anchor == [meta |-> "recorded", head |-> run[p].previous_hash,
                      count |-> run[p].sequence, rest |-> run[p].config]
           dir    == WithFile(d, "assessment", anchor)
           c      == [mem |-> run[p], dir |-> dir]
<1>1. Started(p) /\ Alone(p) /\ run[p].pc = "assessment"
  BY DEF WriteAssessment, Turn
<1>2. /\ WorkOK(At(p)) /\ At(p).mem = run[p] /\ At(p).dir = d /\ LogOf(d) \in Seq(Event)
      /\ run[p] \in Memory /\ Shaped(d) /\ ContentOK(d)
      /\ Local(run[p], d, returned[p], reports[run[p].run_id])
  BY <1>1, AtFacts DEF BundleOK
<1>3. At(p) = [mem |-> run[p], dir |-> d]
  BY DEF At
<1>4. Becomes(p, c, "manifest")
  BY <1>3 DEF WriteAssessment
<1>5. anchor \in RunAnchors
  <2>1. run[p].previous_hash \in Digest /\ run[p].sequence \in Nat /\ run[p].config \in Bytes
    BY <1>2, RunAssumption DEF Memory
  <2>2. QED
    BY <2>1 DEF RunAnchors
<1>6. /\ anchor.meta = "recorded" /\ anchor.head = run[p].previous_hash
      /\ anchor.count = run[p].sequence
  OBVIOUS
<1> HIDE DEF anchor
<1>7. /\ Shaped(dir) /\ ContentOK(dir) /\ dir.manifest = d.manifest
      /\ "assessment" \in Present(dir) /\ dir.files["assessment"] = anchor
      /\ Present(dir) = Present(d) \cup {"assessment"}
      /\ \A path \in Present(d) : path # "assessment" => dir.files[path] = d.files[path]
  BY <1>2, <1>5, PathFacts, WithFileFacts, ContentKept
<1> HIDE DEF dir
<1>8. LogOf(dir) = LogOf(d) /\ (Torn(dir) <=> Torn(d))
  BY <1>7 DEF LogOf, Torn, Events
<1>9. /\ WorkOK(c) /\ c.mem = run[p] /\ c.dir = dir
  BY <1>2, <1>7 DEF WorkOK
<1>10. AnchoredBy(run[p], dir)
  BY <1>6, <1>7 DEF AnchoredBy
<1>11. /\ Begun(LogOf(d)) /\ Probed(LogOf(d)) /\ Ended(LogOf(d)) /\ InStep(run[p], d)
       /\ run[p].obs06 = "PARTIAL" => Sound(d)
       /\ run[p].obs06 = "FAIL" => ~Sound(d)
  BY <1>1, <1>2 DEF Local, OpenedPC, ProbedPC, JudgedPC, EndedPC
<1>12. (Sound(dir) <=> Sound(d)) /\ InStep(run[p], dir)
  BY <1>8, <1>11 DEF Sound, InStep
<1>13. Promise!Extends(LogOf(d), LogOf(dir))
  BY <1>2, <1>8, ExtendsReflexive
<1> HIDE DEF c
<1>14. QED
  BY <1>1, <1>4, <1>7, <1>8, <1>9, <1>10, <1>11, <1>12, <1>13, BecomesKeeps DEF WorkingPC

\* The manifest seals a directory whose ledger is complete.
LEMMA WriteManifestKeeps ==
  ASSUME IInv, NEW p \in Proc, Turn(p), WriteManifest(p)
  PROVE  IInv' /\ Evolves
<1> DEFINE r == run[p].run_id
           d == disk[r]
           f == Finalized(d)
           m == [run[p] EXCEPT !.pc = "attest"]
<1>1. Started(p) /\ Alone(p) /\ run[p].pc = "manifest"
  BY DEF WriteManifest, Turn
<1>2. /\ run[p] \in Memory /\ r \in RunId /\ BundleOK(d) /\ LogOf(d) \in Seq(Event)
      /\ Local(run[p], d, returned[p], reports[r])
  BY <1>1, AtFacts
<1>3. /\ run' = [run EXCEPT ![p] = m] /\ disk' = [disk EXCEPT ![r] = f]
      /\ UNCHANGED <<now, reports, returned>>
  BY DEF WriteManifest, Becomes, At
<1>4. /\ m \in Memory /\ m.pc = "attest" /\ m.run_id = r /\ m.sequence = run[p].sequence
      /\ m.previous_hash = run[p].previous_hash /\ m.obs06 = run[p].obs06
  BY <1>2 DEF Memory, PC
<1>5. /\ Shaped(f) /\ f.files = d.files /\ f.manifest = FinalManifest(f)
      /\ f.manifest = FinalManifest(d)
  BY <1>2, FinalizedFacts DEF BundleOK
<1>6. ContentOK(f)
  BY <1>2, PathFacts, ContentKept DEF BundleOK
<1>7. f.manifest.state = "whole"
  BY <1>5 DEF FinalManifest
<1> HIDE DEF f, m
<1>8. LogOf(f) = LogOf(d) /\ (Torn(f) <=> Torn(d))
      /\ (AnchoredBy(run[p], d) => AnchoredBy(m, f))
  BY <1>4, <1>5 DEF LogOf, Torn, Events, Present, AnchoredBy
<1>9. /\ Begun(LogOf(d)) /\ Probed(LogOf(d)) /\ Ended(LogOf(d)) /\ InStep(run[p], d)
      /\ AnchoredBy(run[p], d)
      /\ run[p].obs06 = "PARTIAL" => Sound(d)
      /\ run[p].obs06 = "FAIL" => ~Sound(d)
  BY <1>1, <1>2 DEF Local, OpenedPC, ProbedPC, JudgedPC, EndedPC, AnchoredPC
<1>10. Complete(LogOf(f)) /\ InStep(m, f) /\ (Sound(f) <=> Sound(d))
  BY <1>4, <1>8, <1>9 DEF Complete, InStep, Sound
<1>11. Local(m, f, returned[p], reports[r])
  BY <1>4, <1>5, <1>8, <1>9, <1>10 DEF Local, SealedPC, Complete
<1>12. /\ run'[p] = m /\ disk'[r] = f /\ returned' = returned /\ reports' = reports
       /\ \A s \in RunId \ {r} : disk'[s] = disk[s]
  BY <1>2, <1>3 DEF IInv, TypeOK
<1>13. IInv' /\ Moves
  BY <1>11, <1>12, Frame DEF Turn
<1>14. SealedNow(disk[r], disk'[r])
  BY <1>1, <1>2, <1>7, <1>8, <1>12 DEF Local, SealedPC, SealedNow
<1>15. QED
  BY <1>2, <1>12, <1>13, <1>14 DEF Evolves

\* The attestation and the returned anchor are of the manifest on disk.
LEMMA AttestKeeps ==
  ASSUME IInv, NEW p \in Proc, Turn(p), Attest(p)
  PROVE  IInv' /\ Evolves
<1> DEFINE r == run[p].run_id
           d == disk[r]
           m == [run[p] EXCEPT !.pc = "done"]
<1>1. Started(p) /\ Alone(p) /\ run[p].pc = "attest"
  BY DEF Attest, Turn
<1>2. /\ run[p] \in Memory /\ r \in RunId /\ BundleOK(d)
      /\ Local(run[p], d, returned[p], reports[r])
  BY <1>1, AtFacts
<1>3. /\ run' = [run EXCEPT ![p] = m]
      /\ reports' = [reports EXCEPT ![r] = {Sha256(d.manifest.entries)}]
      /\ returned' = [returned EXCEPT ![p] = {[manifest |-> Sha256(d.manifest.entries),
                                               head |-> run[p].previous_hash]}]
      /\ UNCHANGED <<now, disk>>
  BY DEF Attest
<1>4. /\ m \in Memory /\ m.pc = "done" /\ m.run_id = r /\ m.sequence = run[p].sequence
      /\ m.previous_hash = run[p].previous_hash /\ m.obs06 = run[p].obs06
  BY <1>2 DEF Memory, PC
<1> HIDE DEF m
<1>5. /\ run'[p] = m /\ disk'[r] = d /\ disk' = disk
      /\ reports'[r] = {Sha256(d.manifest.entries)}
      /\ returned'[p] = {[manifest |-> Sha256(d.manifest.entries), head |-> m.previous_hash]}
  BY <1>2, <1>3, <1>4 DEF IInv, TypeOK
<1>6. Local(m, d, returned'[p], reports'[r])
  BY <1>1, <1>2, <1>4, <1>5
  DEF Local, SealedPC, OpenedPC, ProbedPC, JudgedPC, EndedPC, AnchoredPC, InStep, AnchoredBy
<1>7. IInv' /\ Moves
  BY <1>5, <1>6, Frame DEF Turn
<1>8. QED
  BY <1>2, <1>5, <1>7 DEF Evolves

\* A crash leaves the ledger's records, and never a manifest that parses.
LEMMA CrashKeeps ==
  ASSUME IInv, NEW p \in Proc, Turn(p), Crash(p)
  PROVE  IInv' /\ Evolves
<1> DEFINE r == run[p].run_id
           d == disk[r]
           e == disk'[r]
           m == [run[p] EXCEPT !.pc = "crashed"]
<1>1. Started(p) /\ Alone(p) /\ run[p].pc # "done"
  BY DEF Crash, Turn
<1>2. /\ run[p] \in Memory /\ r \in RunId /\ BundleOK(d) /\ LogOf(d) \in Seq(Event)
      /\ Local(run[p], d, returned[p], reports[r])
  BY <1>1, AtFacts
<1>3. /\ run' = [run EXCEPT ![p] = m] /\ UNCHANGED <<now, reports, returned>>
  BY DEF Crash
<1>4. m \in Memory /\ m.pc = "crashed" /\ m.run_id = r
  BY <1>2 DEF Memory, PC
<1> HIDE DEF m
<1>5. /\ disk = [s \in RunId |-> disk[s]] /\ run'[p] = m
      /\ returned' = returned /\ reports' = reports
  BY <1>3 DEF IInv, TypeOK
<1>6. CASE UNCHANGED disk
  <2>1. Local(m, d, returned[p], reports[r])
    BY <1>2, <1>4
    DEF Local, SealedPC, OpenedPC, ProbedPC, JudgedPC, EndedPC, AnchoredPC
  <2>2. IInv' /\ Moves
    BY <1>5, <1>6, <2>1, Frame DEF Turn
  <2>3. QED
    BY <1>2, <1>6, <2>2 DEF Evolves
<1>7. ASSUME NEW new, disk' = [disk EXCEPT ![r] = new],
             d.manifest.state # "whole", new.manifest.state # "whole", LogOf(new) = LogOf(d)
      PROVE  IInv' /\ Evolves
  <2>1. Local(m, new, returned[p], reports[r])
    BY <1>4, <1>7 DEF Local, SealedPC, OpenedPC, ProbedPC, JudgedPC, EndedPC, AnchoredPC
  <2>2. disk'[r] = new /\ \A s \in RunId \ {r} : disk'[s] = disk[s]
    BY <1>2, <1>5, <1>7
  <2>3. IInv' /\ Moves
    BY <1>5, <2>1, <2>2, Frame DEF Turn
  <2>4. Grown(disk[r], disk'[r])
    BY <1>2, <1>7, <2>2, ExtendsReflexive DEF Grown
  <2>5. QED
    BY <1>2, <2>2, <2>3, <2>4 DEF Evolves
<1>8. CASE /\ "trace" \in Present(d)
           /\ run[p].pc \notin {"open", "assessment", "manifest", "attest"}
           /\ disk' = [disk EXCEPT ![r] =
                         WithFile(@, "trace", [@.files["trace"] EXCEPT !.torn = TRUE])]
  <2> DEFINE torn == [d.files["trace"] EXCEPT !.torn = TRUE]
             new  == WithFile(d, "trace", torn)
  <2>1. d.files["trace"] \in Ledger
    BY <1>2, <1>8 DEF BundleOK, ContentOK
  <2>2. torn \in Ledger /\ torn.events = d.files["trace"].events
    BY <2>1 DEF Ledger
  <2>3. disk' = [disk EXCEPT ![r] = new]
    BY <1>8
  <2> HIDE DEF torn
  <2>4. /\ new.manifest = d.manifest /\ Present(new) = Present(d)
        /\ new.files["trace"] = torn
    <3>1. Shaped(d) /\ "trace" \in Present(d)
      BY <1>2, <1>8 DEF BundleOK
    <3> HIDE DEF d
    <3>2. Present(new) = Present(d) \cup {"trace"}
      BY <3>1, WithFileFacts
    <3>3. Present(new) = Present(d)
      BY <3>1, <3>2
    <3>4. new.manifest = d.manifest /\ new.files["trace"] = torn
      BY <3>1, WithFileFacts
    <3>5. QED
      BY <3>3, <3>4
  <2> HIDE DEF new
  <2>5. LogOf(new) = LogOf(d)
    BY <2>2, <2>4 DEF LogOf, Events
  <2>6. d.manifest.state # "whole"
    BY <1>1, <1>2, <1>8 DEF Local, SealedPC, Crash
  <2>7. QED
    BY <1>7, <2>3, <2>4, <2>5, <2>6
<1>9. CASE /\ run[p].pc = "manifest"
            /\ disk' = [disk EXCEPT ![r].manifest = TornManifest]
  <2> DEFINE new == [d EXCEPT !.manifest = TornManifest]
  <2>1. new = [files |-> d.files, manifest |-> TornManifest]
    BY <1>2 DEF BundleOK, Shaped
  <2>2. disk' = [disk EXCEPT ![r] = new]
    BY <1>9
  <2> HIDE DEF new
  <2>3. new.manifest.state = "torn" /\ LogOf(new) = LogOf(d)
    BY <2>1 DEF Present, TornManifest, LogOf, Events
  <2>4. d.manifest.state # "whole"
    BY <1>2, <1>9 DEF Local, SealedPC
  <2>5. QED
    BY <1>7, <2>2, <2>3, <2>4
<1>10. QED
  BY <1>6, <1>8, <1>9 DEF Crash

\* A run that does not have its directory to itself may do anything to it, and to no
\* other.
LEMMA OtherKeeps ==
  ASSUME IInv, TypeOK', NEW p \in Proc, Started(p), ~Alone(p), Within(p)
  PROVE  IInv' /\ Evolves
<1>1. IInv' /\ Moves
  BY Frame
<1>2. run[p].run_id \in RunId /\ Shared(run[p].run_id)
  BY DEF IInv, TypeOK, Memory, Shared
<1>3. QED
  BY <1>1, <1>2 DEF Evolves, Within

\* A run that finds nobody in its second starts in an empty directory; one that finds
\* somebody leaves neither alone.
LEMMA StartKeeps ==
  ASSUME IInv, TypeOK', NEW p \in Proc, Start(p), Within(p)
  PROVE  IInv'
<1> DEFINE r == run[p].run_id
           m == [run[p] EXCEPT !.pc = "open"]
           d == WithoutFile(EmptyBundle, "trace")
<1>1. /\ run[p] \in Memory /\ r \in RunId /\ run \in [Proc -> Memory]
      /\ disk = [s \in RunId |-> disk[s]]
  BY DEF IInv, TypeOK, Memory
<1>2. /\ ~Started(p) /\ run'[p] = m /\ disk'[r] = WithoutFile(disk[r], "trace")
  BY <1>1 DEF Start, Started
<1>3. m.pc = "open" /\ m.run_id = r
  BY <1>1 DEF Memory
<1> HIDE DEF m
<1>4. /\ \A q \in Proc \ {p} : run'[q] = run[q] /\ returned'[q] = returned[q]
      /\ \A s \in RunId \ {r} : disk'[s] = disk[s] /\ reports'[s] = reports[s]
  BY DEF Within
<1>5. Started(p)' /\ \A q \in Proc \ {p} : Started(q)' <=> Started(q)
  BY <1>2, <1>3, <1>4 DEF Started
<1>6. Fresh'
  <2>1. SUFFICES ASSUME NEW s \in RunId,
                        \A q \in Proc : Started(q)' => run'[q].run_id # s
                 PROVE  disk'[s] = EmptyBundle
    BY DEF Fresh
  <2>2. s # r
    BY <1>2, <1>3, <1>5, <2>1
  <2>3. \A q \in Proc : Started(q) => run[q].run_id # s
    BY <1>2, <1>4, <1>5, <2>1
  <2>4. QED
    BY <1>4, <2>2, <2>3 DEF IInv, Fresh
<1>7. AllLocal'
  <2>1. SUFFICES ASSUME NEW q \in Proc, Started(q)', Alone(q)'
                 PROVE  Local(run'[q], disk'[run'[q].run_id], returned'[q], reports'[run'[q].run_id])
    BY AllLocalNext
  <2>2. \A o \in Proc \ {q} : Started(o)' => run'[o].run_id # run'[q].run_id
    BY <2>1 DEF Alone
  <2>3. CASE q = p
    <3>1. \A o \in Proc : Started(o) => run[o].run_id # r
      BY <1>2, <1>3, <1>4, <1>5, <2>2, <2>3
    <3>2. disk'[r] = d
      BY <1>1, <1>2, <3>1 DEF IInv, Fresh
    <3>3. LogOf(d) = <<>> /\ d.manifest.state = "absent"
      <4>1. Present(d) = {} /\ d.manifest = EmptyBundle.manifest
        BY EmptyBundleFacts, WithoutFileFacts
      <4> HIDE DEF d
      <4>2. QED
        BY <4>1, EmptyBundleFacts DEF LogOf
    <3> HIDE DEF d
    <3>4. QED
      BY <1>2, <1>3, <2>3, <3>2, <3>3
      DEF Local, SealedPC, OpenedPC, ProbedPC, JudgedPC, EndedPC, AnchoredPC
  <2>4. CASE q # p
    <3>1. Started(q) /\ run'[q] = run[q] /\ run[q].run_id \in RunId \ {r}
      BY <1>1, <1>2, <1>3, <1>4, <1>5, <2>1, <2>2, <2>4 DEF Memory
    <3>2. Alone(q)
      BY <1>2, <1>4, <1>5, <2>2, <3>1 DEF Alone
    <3>3. QED
      BY <1>4, <2>4, <3>1, <3>2 DEF IInv, AllLocal
  <2>5. QED
    BY <2>3, <2>4
<1>8. QED
  BY <1>6, <1>7 DEF IInv

\* A run that takes a step and is alone in its directory.
LEMMA TurnKeeps ==
  ASSUME IInv, NEW p \in Proc, Turn(p), Step(p) \/ Crash(p)
  PROVE  IInv' /\ Evolves
<1>1. ~Start(p)
  BY DEF Turn, Start, Started
<1>2. QED
  BY <1>1, OpenRunKeeps, ImportAgentRunKeeps, SkipKeeps, EvaluateProbeKeeps,
     ProbeAppendFailsKeeps, ProbesCompletedKeeps, IngestAuditKeeps, EvaluateReaderKeeps,
     EvaluateIntegrityKeeps, CompleteRunKeeps, WriteAssessmentKeeps, WriteManifestKeeps,
     AttestKeeps, CrashKeeps
  DEF Step

\* Every step keeps the invariant, and is a start or grows or seals one directory at
\* most.
LEMMA NextOK ==
  ASSUME SharedInv, IInv, TypeOK', [Next]_vars
  PROVE  IInv' /\ (Evolves \/ \E p \in Proc : Start(p) /\ Within(p))
<1>1. CASE UNCHANGED <<disk, run, reports, returned>>
  <2>1. (Fresh /\ AllLocal)' /\ Moves
    BY <1>1 DEF IInv, Fresh, AllLocal, Alone, Started, Moves
  <2>2. 0 \in RunId /\ \A s \in RunId : disk'[s] = disk[s]
    BY <1>1, RunAssumption DEF RunId
  <2>3. QED
    BY <2>1, <2>2 DEF IInv, Evolves
<1>2. ASSUME NEW p \in Proc, Step(p) \/ Crash(p)
      PROVE  IInv' /\ (Evolves \/ \E q \in Proc : Start(q) /\ Within(q))
  <2>1. Within(p)
    BY <1>2, StepShared
  <2>2. CASE Start(p)
    BY <2>1, <2>2, StartKeeps
  <2>3. CASE ~Start(p)
    <3>1. Started(p)
      BY <1>2, <2>3
      DEF Step, Crash, Started, OpenRun, ImportAgentRun, NoAgentRun, EvaluateProbe,
          ProbeAppendFails, ProbesCompleted, IngestAudit, NoAudit, EvaluateReader,
          EvaluateIntegrity, CompleteRun, WriteAssessment, WriteManifest, Attest
    <3>2. QED
      BY <1>2, <2>1, <3>1, TurnKeeps, OtherKeeps DEF Turn
  <2>4. QED
    BY <2>2, <2>3
<1>3. Tick \/ UNCHANGED vars => UNCHANGED <<disk, run, reports, returned>>
  BY DEF Tick, vars
<1>4. QED
  BY <1>1, <1>2, <1>3 DEF Next

---------------------------------------------------------------------------
(* The theorems. *)

\* What holds of a run that is alone in its directory, for every number of processes,
\* controls, seconds and failures.
THEOREM Invariance == Spec => []IInv
<1>1. SharedInv /\ SharedInv' /\ IInv /\ [Next]_vars => IInv'
  BY NextOK DEF SharedInv
<1>2. QED
  BY <1>1, InitOK, SharedInvariance, PTL DEF Spec

\* VerdictMatchesEvidence: the ledger verdict inside the assessment is the one
\* verify_bundle reaches on the finished directory with the returned anchors,
\* as long as the run is alone in it.
THEOREM VerdictTruthful == Spec => []VerdictMatchesEvidence
<1>1. IInv => VerdictMatchesEvidence
  <2> SUFFICES ASSUME IInv, NEW p \in Proc, run[p].pc = "done", Alone(p), NEW a \in returned[p]
               PROVE  LET verified == VerifyBundle(disk[run[p].run_id], {a.manifest}, {a.head})
                      IN  /\ run[p].obs06 = "PARTIAL" => verified
                          /\ run[p].obs06 = "FAIL" => ~verified
    BY DEF VerdictMatchesEvidence
  <2> DEFINE d == disk[run[p].run_id]
  <2>1. Started(p)
    BY DEF Started
  <2>2. Local(run[p], d, returned[p], reports[run[p].run_id]) /\ LogOf(d) \in Seq(Event)
    BY <2>1, AtFacts
  <2>3. /\ d.manifest = FinalManifest(d) /\ Begun(LogOf(d)) /\ InStep(run[p], d)
        /\ run[p].obs06 = "PARTIAL" => Sound(d)
        /\ run[p].obs06 = "FAIL" => ~Sound(d)
        /\ AnchoredBy(run[p], d)
        /\ a = [manifest |-> Sha256(d.manifest.entries), head |-> run[p].previous_hash]
    BY <2>2 DEF Local, SealedPC, OpenedPC, ProbedPC, JudgedPC, AnchoredPC
  <2>4. VerifyTrace(d) <=> Sound(d)
    BY <2>3, VerifyTraceIsSound
  <2>5. ASSUME run[p].obs06 = "FAIL" PROVE ~VerifyBundle(d, {a.manifest}, {a.head})
    BY <2>3, <2>4, <2>5 DEF VerifyBundle
  <2>6. ASSUME run[p].obs06 = "PARTIAL" PROVE VerifyBundle(d, {a.manifest}, {a.head})
    <3>1. VerifyTrace(d) /\ Sound(d)
      BY <2>3, <2>4, <2>6
    <3>2. Events(d) = LogOf(d) /\ Events(d) # <<>>
      BY <3>1 DEF VerifyTrace, LogOf
    <3>3. /\ run[p].sequence = Len(Events(d))
          /\ run[p].previous_hash = HeadHash(Events(d))
      BY <2>3, <3>1, <3>2 DEF InStep, NextPrev
    <3>4. AnchorsOK(d)
      BY <2>3, <3>3 DEF AnchoredBy, AnchorsOK
    <3>5. VerifyManifest(d)
      BY <2>3 DEF VerifyManifest, FinalManifest
    <3>6. a.manifest = Sha256(d.manifest.entries) /\ a.head = HeadHash(Events(d))
      BY <2>3, <3>3
    <3>7. QED
      BY <3>1, <3>4, <3>5, <3>6 DEF VerifyBundle
  <2>7. QED
    BY <2>5, <2>6
<1>2. QED
  BY <1>1, Invariance, PTL

\* AttestationMatchesManifest: the report of a run alone in its directory is of no
\* other manifest.
THEOREM AttestationTruthful == Spec => []AttestationMatchesManifest
<1>1. IInv => AttestationMatchesManifest
  <2> SUFFICES ASSUME IInv, NEW p \in Proc, run[p].pc = "done", Alone(p)
               PROVE  reports[run[p].run_id] = {Sha256(disk[run[p].run_id].manifest.entries)}
    BY DEF AttestationMatchesManifest
  <2>1. Started(p)
    BY DEF Started
  <2>2. QED
    BY <2>1 DEF IInv, AllLocal, Local
<1>2. QED
  BY <1>1, Invariance, PTL

\* The start of a run takes its directory from the promise if another run has it, and
\* otherwise finds it empty.
LEMMA StartMaps ==
  ASSUME IInv, NEW p \in Proc, Start(p), Within(p)
  PROVE  [Promise!Next]_(Promise!vars)
<1>0. PICK r \in RunId : r = run[p].run_id
  BY DEF IInv, TypeOK, Memory
<1> DEFINE log    == [s \in RunId |-> IF Shared(s) THEN <<>> ELSE LogOf(disk[s])]
           sealed == {s \in RunId : ~Shared(s) /\ disk[s].manifest.state = "whole"}
           shared == {s \in RunId : Shared(s)}
           taken  == \E q \in Proc : Started(q) /\ run[q].run_id = r
<1>1. /\ run[p] \in Memory /\ run \in [Proc -> Memory]
      /\ disk = [s \in RunId |-> disk[s]]
  BY DEF IInv, TypeOK
<1>2. /\ ~Started(p) /\ run'[p].run_id = r /\ run'[p].pc = "open"
      /\ disk'[r] = WithoutFile(disk[r], "trace")
  BY <1>0, <1>1 DEF Start, Started, Memory
<1>3. /\ \A q \in Proc \ {p} : run'[q] = run[q]
      /\ \A s \in RunId \ {r} : disk'[s] = disk[s]
  BY <1>0 DEF Within
<1>4. Started(p)' /\ \A q \in Proc \ {p} : Started(q)' <=> Started(q)
  BY <1>2, <1>3 DEF Started
<1>5. ASSUME NEW q \in Proc \ {p}, Started(q), run[q].run_id # r
      PROVE  Alone(q)' <=> Alone(q)
  BY <1>2, <1>3, <1>4, <1>5 DEF Alone
<1>6. ASSUME NEW s \in RunId \ {r} PROVE Shared(s)' <=> Shared(s)
  BY <1>2, <1>3, <1>4, <1>5, <1>6 DEF Shared
<1>7. \A s \in RunId : LogOf(disk[s])' = LogOf(disk'[s])
  BY DEF LogOf, Events, Present
<1>8. log' = [s \in RunId |-> IF Shared(s)' THEN <<>> ELSE LogOf(disk'[s])]
  BY <1>7
<1>9. CASE ~taken
  <2>1. Alone(p)' /\ ~Shared(r) /\ disk[r] = EmptyBundle
    BY <1>1, <1>2, <1>3, <1>4, <1>9 DEF Alone, Shared, IInv, Fresh
  <2>2. ~Shared(r)'
    BY <1>3, <1>4, <1>9, <2>1 DEF Shared
  <2>3. LogOf(disk'[r]) = <<>> /\ disk'[r].manifest.state = "absent"
    <3>1. Present(disk'[r]) = {} /\ disk'[r].manifest = EmptyBundle.manifest
      BY <1>2, <2>1, EmptyBundleFacts, WithoutFileFacts
    <3>2. QED
      BY <3>1, EmptyBundleFacts DEF LogOf
  <2>4. log' = log
    BY <1>3, <1>6, <1>8, <2>1, <2>2, <2>3, EmptyBundleFacts
  <2>5. shared' = shared
    BY <1>6, <2>1, <2>2
  <2>6. sealed' = sealed
    BY <1>3, <1>6, <2>1, <2>3, EmptyBundleFacts
  <2>7. QED
    BY <2>4, <2>5, <2>6 DEF Promise!vars
<1>10. CASE taken
  <2>1. Shared(r)'
    <3>1. ~Alone(p)'
      BY <1>2, <1>3, <1>4, <1>10 DEF Alone
    <3>2. QED
      BY <1>2, <1>4, <3>1 DEF Shared
  <2>2. shared' = shared \cup {r}
    BY <1>1, <1>6, <2>1
  <2>3. sealed' = sealed \ {r}
    BY <1>3, <1>6, <2>1
  <2>4. log' = [log EXCEPT ![r] = <<>>]
    BY <1>3, <1>6, <1>8, <2>1
  <2>5. CASE Shared(r)
    <3>1. log' = log
      BY <1>1, <2>4, <2>5
    <3>2. shared' = shared
      BY <1>1, <2>2, <2>5
    <3>3. sealed' = sealed
      BY <2>3, <2>5
    <3>4. QED
      BY <3>1, <3>2, <3>3 DEF Promise!vars
  <2>6. CASE ~Shared(r)
    <3>1. r \notin shared
      BY <2>6
    <3>2. Promise!Share(r)
      BY <2>2, <2>3, <2>4, <3>1 DEF Promise!Share
    <3>3. QED
      BY <1>1, <3>2 DEF Promise!Next
  <2>7. QED
    BY <2>5, <2>6
<1>11. QED
  BY <1>9, <1>10

\* Any other step is an append to one log, its seal, or nothing of the promise.
LEMMA EvolvesMaps ==
  ASSUME Evolves
  PROVE  [Promise!Next]_(Promise!vars)
<1> DEFINE log    == [s \in RunId |-> IF Shared(s) THEN <<>> ELSE LogOf(disk[s])]
           sealed == {s \in RunId : ~Shared(s) /\ disk[s].manifest.state = "whole"}
           shared == {s \in RunId : Shared(s)}
<1>1. \A s \in RunId : Shared(s)' <=> Shared(s)
  <2>1. Moves
    BY DEF Evolves
  <2>2. \A q \in Proc : Alone(q)' <=> Alone(q)
    BY <2>1, MovesAlone
  <2>3. QED
    BY <2>1, <2>2 DEF Moves, Shared
<1>2. PICK r \in RunId :
        /\ \A s \in RunId \ {r} : disk'[s] = disk[s]
        /\ \/ disk'[r] = disk[r] \/ Shared(r)
           \/ Grown(disk[r], disk'[r]) \/ SealedNow(disk[r], disk'[r])
  BY DEF Evolves
<1>3. \A s \in RunId : LogOf(disk[s])' = LogOf(disk'[s])
  BY DEF LogOf, Events, Present
<1>4. log' = [s \in RunId |-> IF Shared(s) THEN <<>> ELSE LogOf(disk'[s])]
  BY <1>1, <1>3
<1>5. shared' = shared /\ \A s \in RunId \ {r} : log'[s] = log[s]
  BY <1>1, <1>2, <1>4
<1>6. CASE disk'[r] = disk[r] \/ Shared(r)
  <2>1. log' = log
    BY <1>2, <1>4, <1>6
  <2>2. sealed' = sealed
    BY <1>1, <1>2, <1>6
  <2>3. QED
    BY <1>5, <2>1, <2>2 DEF Promise!vars
<1>7. CASE ~Shared(r) /\ Grown(disk[r], disk'[r])
  <2>1. r \notin sealed \cup shared
    BY <1>7 DEF Grown
  <2>2. sealed' = sealed
    BY <1>1, <1>2, <1>7 DEF Grown
  <2>3. Promise!Extends(log[r], log'[r])
    <3>1. log[r] = LogOf(disk[r]) /\ log'[r] = LogOf(disk'[r])
      BY <1>4, <1>7
    <3>2. QED
      BY <1>7, <3>1 DEF Grown
  <2>4. Promise!Extend(r)
    BY <1>5, <2>1, <2>2, <2>3 DEF Promise!Extend
  <2>5. QED
    BY <2>4 DEF Promise!Next
<1>8. CASE ~Shared(r) /\ SealedNow(disk[r], disk'[r])
  <2>1. r \notin sealed \cup shared
    BY <1>8 DEF SealedNow
  <2>2. sealed' = sealed \cup {r}
    BY <1>1, <1>2, <1>8 DEF SealedNow
  <2>3. log' = log
    BY <1>2, <1>4, <1>8 DEF SealedNow
  <2>4. Promise!Seal(r)
    BY <1>5, <2>1, <2>2, <2>3 DEF Promise!Seal
  <2>5. QED
    BY <2>4 DEF Promise!Next
<1>9. QED
  BY <1>2, <1>6, <1>7, <1>8

\* ImplementsSealedLog: a directory that one run has is an append-only log that its
\* manifest seals.
THEOREM Refinement == Spec => ImplementsSealedLog
<1>1. Init => Promise!Init
  <2> SUFFICES ASSUME Init PROVE Promise!Init
    OBVIOUS
  <2>1. \A r \in RunId : disk[r] = EmptyBundle /\ ~Shared(r)
    BY InitTypes DEF Shared
  <2>2. QED
    BY <2>1, EmptyBundleFacts DEF Promise!Init
<1>2. SharedInv /\ SharedInv' /\ IInv /\ [Next]_vars => [Promise!Next]_(Promise!vars)
  BY NextOK, StartMaps, EvolvesMaps DEF SharedInv
<1>3. QED
  BY <1>1, <1>2, Invariance, SharedInvariance, PTL DEF Spec, ImplementsSealedLog, Promise!Spec

=============================================================================
