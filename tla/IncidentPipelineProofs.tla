------------------------ MODULE IncidentPipelineProofs ------------------------
(***************************************************************************)
(* What the interview demo promises for any number of demos, of other      *)
(* writers to the registry and of writes that are cut short.               *)
(***************************************************************************)
EXTENDS IncidentPipeline, TLAPS

---------------------------------------------------------------------------
(* The registry only grows *)

\* A line can be read when it and all lines before it parse.
LEMMA ReadableMeans ==
  ASSUME NEW r \in Seq(Piece), NEW i \in 1 .. Len(r)
  PROVE  Readable(r, i) <=> \A j \in 1 .. i : r[j].whole
<1> DEFINE beginning == SubSeq(r, 1, i)
<1>1. Len(beginning) = i /\ \A j \in 1 .. i : beginning[j] = r[j]
  OBVIOUS
<1> HIDE DEF beginning
<1>2. (\A j \in 1 .. Len(beginning) : beginning[j].whole) <=> \A j \in 1 .. i : r[j].whole
  BY <1>1
<1>3. QED
  BY <1>2 DEF Readable, Loads, beginning

\* Appending changes no line that is there.
LEMMA AppendKeeps ==
  ASSUME NEW r \in Seq(Piece), NEW x \in Piece
  PROVE  /\ Append(r, x) \in Seq(Piece) /\ Len(Append(r, x)) = Len(r) + 1
         /\ Append(r, x)[Len(r) + 1] = x
         /\ \A j \in 1 .. Len(r) : Append(r, x)[j] = r[j]
  OBVIOUS

\* What can be read goes on being readable.
LEMMA ReadableStays ==
  ASSUME NEW r \in Seq(Piece), NEW x \in Piece, NEW i \in 1 .. Len(r), Readable(r, i)
  PROVE  Readable(Append(r, x), i)
<1>1. i \in 1 .. Len(Append(r, x))
  BY AppendKeeps
<1>2. \A j \in 1 .. i : j \in 1 .. Len(r) /\ r[j].whole
  BY ReadableMeans
<1>3. \A j \in 1 .. i : Append(r, x)[j].whole
  BY <1>2, AppendKeeps
<1>4. QED
  BY <1>1, <1>3, AppendKeeps, ReadableMeans

\* Whoever appends, a quarantine that can be read can be read afterwards.
LEMMA QuarantinedStays ==
  ASSUME NEW r \in Seq(Piece), NEW x \in Piece, NEW d \in Demo, Quarantined(d, r)
  PROVE  Quarantined(d, Append(r, x))
<1>1. PICK i \in 1 .. Len(r) :
        /\ Readable(r, i)
        /\ r[i].source_run_id = d /\ r[i].quarantine_id[2] = d
        /\ {r[i].response_evidence_sha256} = link[d]
  BY DEF Quarantined
<1>2. i \in 1 .. Len(Append(r, x)) /\ Append(r, x)[i] = r[i]
  BY AppendKeeps
<1>3. Readable(Append(r, x), i)
  BY <1>1, ReadableStays
<1>4. QED
  BY <1>1, <1>2, <1>3 DEF Quarantined

\* A beginning of the registry stays one.
LEMMA PrefixStays ==
  ASSUME NEW s \in Seq(Piece), NEW r \in Seq(Piece), NEW x \in Piece, IsPrefix(s, r)
  PROVE  IsPrefix(s, Append(r, x))
<1>1. Len(s) <= Len(r) /\ SubSeq(s, 1, Len(s)) = SubSeq(r, 1, Len(s))
  BY DEF IsPrefix
<1>2. SubSeq(Append(r, x), 1, Len(s)) = SubSeq(r, 1, Len(s))
  BY <1>1
<1>3. QED
  BY <1>1, <1>2, AppendKeeps DEF IsPrefix

---------------------------------------------------------------------------
(* Type correctness *)

Holding == [pc : PC, options : Options, executed : BOOLEAN, agent_ok : BOOLEAN,
            registered : BOOLEAN, incident_verified : BOOLEAN, cleanup_succeeded : BOOLEAN]

Incidents == [response : SUBSET Response, link : SUBSET Response, registry : Seq(Piece)]

Types ==
  /\ damage \in 0 .. MaxDamage /\ added \subseteq Adder
  /\ registry \in Seq(Piece)
  /\ demo \in [Demo -> Holding]
  /\ response \in [Demo -> SUBSET Response] /\ link \in [Demo -> SUBSET Response]
  /\ incident \in [Demo -> SUBSET Incidents]
  /\ DOMAIN summary = Demo
  /\ sandbox \in [Demo -> {"none", "up", "rm"}]

\* What is appended is a piece of a registry.
LEMMA LineType ==
  ASSUME NEW now \in 0 .. MaxSecond, NEW d \in Demo, NEW run \in Demo \cup Adder,
         NEW r \in Response
  PROVE  Line(now, d, run, r) \in Piece
  BY DEF Line, Piece

\* Part of a line is one too.
LEMMA FragmentType == Fragment \in Piece
  BY DEF Piece

\* How the registry changes: not at all, or by one piece.
Grows == UNCHANGED registry \/ \E x \in Piece : registry' = Append(registry, x)

\* Every appending command makes it grow, and a write that is cut short is counted.
LEMMA AppendsGrow ==
  ASSUME Types, NEW d \in Demo, NEW run \in Demo \cup Adder, NEW r \in Response
  PROVE  /\ Appends(d, run, r) => Grows /\ damage' = damage
         /\ AppendsPart => Grows /\ damage' \in 0 .. MaxDamage
<1>1. ASSUME Appends(d, run, r) PROVE Grows /\ damage' = damage
  <2>1. PICK now \in 0 .. MaxSecond : registry' = Append(registry, Line(now, d, run, r))
    BY <1>1 DEF Appends
  <2>2. QED
    BY <1>1, <2>1, LineType DEF Appends, Grows
<1>2. ASSUME AppendsPart PROVE Grows /\ damage' \in 0 .. MaxDamage
  <2>1. Grows
    BY <1>2, FragmentType DEF AppendsPart, Grows
  <2>2. damage' \in 0 .. MaxDamage
    BY <1>2, PipelineAssumption DEF AppendsPart, Types
  <2>3. QED
    BY <2>1, <2>2
<1>3. QED
  BY <1>1, <1>2

\* A registry that grows stays a sequence of pieces.
LEMMA GrowsType ==
  ASSUME Types, Grows
  PROVE  registry' \in Seq(Piece)
  BY AppendKeeps DEF Types, Grows

\* Every step of a demo keeps the types.
LEMMA DemoStepTypes ==
  ASSUME Types, NEW d \in Demo, Step(d) \/ RegisterFails(d) \/ Crash(d)
  PROVE  Types'
<1> USE DEF Types, Goes, Registry, files
<1>h. demo[d] \in Holding
  OBVIOUS
<1>raise. ASSUME NEW from, Raises(d, from) PROVE Types'
  <2>1. [demo[d] EXCEPT !.pc = "raised"] \in Holding
    BY <1>h DEF Holding, PC
  <2>2. QED
    BY <1>raise, <2>1 DEF Raises
<1>1. CASE RunAgentTask(d)
  <2>1. PICK executed \in BOOLEAN, ok \in BOOLEAN :
          /\ demo' = [demo EXCEPT ![d] = [demo[d] EXCEPT !.pc = "assess", !.executed = executed,
                                                         !.agent_ok = ok]]
          /\ sandbox' = [sandbox EXCEPT ![d] = IF executed THEN "up" ELSE @]
    BY <1>1 DEF RunAgentTask
  <2>2. [demo[d] EXCEPT !.pc = "assess", !.executed = executed, !.agent_ok = ok] \in Holding
    BY <1>h DEF Holding, PC
  <2>3. QED
    BY <1>1, <2>1, <2>2 DEF RunAgentTask
<1>2. CASE Assess(d)
  <2>1. [demo[d] EXCEPT !.pc = "drill"] \in Holding
    BY <1>h DEF Holding, PC
  <2>2. QED
    BY <1>2, <2>1 DEF Assess
<1>3. CASE Drill(d)
  <2>1. PICK stopped \in BOOLEAN, revoked \in BOOLEAN :
          response' = [response EXCEPT ![d] =
            {[by |-> d, verified_stopped |-> stopped, credential_revocation_tested |-> revoked]}]
    BY <1>3 DEF Drill
  <2>2. [by |-> d, verified_stopped |-> stopped, credential_revocation_tested |-> revoked]
          \in Response
    BY DEF Response
  <2>3. response' \in [Demo -> SUBSET Response]
    BY <2>1, <2>2
  <2>4. \E step \in {"summary", "link"} :
          demo' = [demo EXCEPT ![d] = [demo[d] EXCEPT !.pc = step]]
    BY <1>3 DEF Drill
  <2>5. \A step \in {"summary", "link"} : [demo[d] EXCEPT !.pc = step] \in Holding
    BY <1>h DEF Holding, PC
  <2>6. demo' \in [Demo -> Holding]
    BY <2>4, <2>5
  <2>7. QED
    BY <1>3, <2>3, <2>6 DEF Drill
<1>4. CASE LinkResponse(d)
  <2>1. PICK r \in response[d] : link' = [link EXCEPT ![d] = {r}]
    BY <1>4 DEF LinkResponse
  <2>2. [demo[d] EXCEPT !.pc = "register"] \in Holding
    BY <1>h DEF Holding, PC
  <2>3. QED
    BY <1>4, <2>1, <2>2 DEF LinkResponse
<1>5. CASE Register(d)
  <2>1. PICK r \in response[d] : Appends(d, d, r)
    BY <1>5 DEF Register
  <2>2. r \in Response
    BY <2>1
  <2>3. registry' \in Seq(Piece) /\ damage' = damage
    BY <2>1, <2>2, AppendsGrow, GrowsType
  <2>4. [demo[d] EXCEPT !.pc = "verify_registry"] \in Holding
    BY <1>h DEF Holding, PC
  <2>5. QED
    BY <1>5, <2>3, <2>4 DEF Register
<1>6. CASE CheckRegistry(d)
  <2>1. [demo[d] EXCEPT !.pc = "incident", !.registered = TRUE] \in Holding
    BY <1>h DEF Holding, PC
  <2>2. QED
    BY <1>6, <2>1 DEF CheckRegistry
<1>7. CASE CreateIncident(d)
  <2>1. [demo[d] EXCEPT !.pc = "verify_incident"] \in Holding
    BY <1>h DEF Holding, PC
  <2>2. [response |-> response[d], link |-> link[d], registry |-> registry] \in Incidents
    BY DEF Incidents
  <2>3. QED
    BY <1>7, <2>1, <2>2 DEF CreateIncident
<1>8. CASE CheckIncident(d)
  <2>1. PICK step \in {"cleanup", "summary"} :
          demo' = [demo EXCEPT ![d] = [demo[d] EXCEPT !.incident_verified = TRUE, !.pc = step]]
    BY <1>8 DEF CheckIncident
  <2>2. [demo[d] EXCEPT !.incident_verified = TRUE, !.pc = step] \in Holding
    BY <1>h DEF Holding, PC
  <2>3. QED
    BY <1>8, <2>1, <2>2 DEF CheckIncident
<1>9. CASE Cleanup(d)
  <2>1. PICK ok \in BOOLEAN :
          demo' = [demo EXCEPT ![d] = [demo[d] EXCEPT !.pc = "summary",
                                                      !.cleanup_succeeded = ok]]
    BY <1>9 DEF Cleanup
  <2>2. [demo[d] EXCEPT !.pc = "summary", !.cleanup_succeeded = ok] \in Holding
    BY <1>h DEF Holding, PC
  <2>3. QED
    BY <1>9, <2>1, <2>2 DEF Cleanup
<1>10. CASE WriteSummary(d)
  <2>1. [demo[d] EXCEPT !.pc = "done"] \in Holding
    BY <1>h DEF Holding, PC
  <2>2. DOMAIN summary' = Demo
    BY <1>10 DEF WriteSummary
  <2>3. QED
    BY <1>10, <2>1, <2>2 DEF WriteSummary
<1>11. CASE RegisterFails(d)
  <2>1. registry' \in Seq(Piece) /\ damage' \in 0 .. MaxDamage
    <3>1. AppendsPart
      BY <1>11 DEF RegisterFails
    <3>2. Grows /\ damage' \in 0 .. MaxDamage
      BY <3>1, PipelineAssumption, FragmentType DEF AppendsPart, Grows
    <3>3. QED
      BY <3>2, GrowsType
  <2>2. [demo[d] EXCEPT !.pc = "raised"] \in Holding
    BY <1>h DEF Holding, PC
  <2>3. QED
    BY <1>11, <2>1, <2>2 DEF RegisterFails
<1>12. CASE Crash(d) \/ DrillRaises(d) \/ LinkRaises(d) \/ CheckRegistryRaises(d)
            \/ CheckIncidentRaises(d)
  <2>1. \E from \in PC : Raises(d, from)
    BY <1>12, <1>h
       DEF Crash, DrillRaises, LinkRaises, CheckRegistryRaises, CheckIncidentRaises, Holding, PC
  <2>2. QED
    BY <2>1, <1>raise
<1>13. QED
  BY <1>1, <1>2, <1>3, <1>4, <1>5, <1>6, <1>7, <1>8, <1>9, <1>10, <1>11, <1>12 DEF Step

\* What `quarantine add` appends is a quarantine for evidence that exists, or a fragment.
LEMMA AddGrows ==
  ASSUME Types, NEW a \in Adder, Add(a)
  PROVE  Grows /\ damage' \in 0 .. MaxDamage /\ UNCHANGED <<demo, files, sandbox>>
<1>1. CASE AppendsPart
  BY <1>1, PipelineAssumption, FragmentType DEF Add, AppendsPart, Grows, Types
<1>2. CASE ~AppendsPart
  <2>1. PICK d \in Demo, e \in Demo : \E r \in response[e] : Appends(d, a, r)
    BY <1>2 DEF Add
  <2>2. PICK r \in response[e] : Appends(d, a, r)
    BY <2>1
  <2>3. r \in Response
    BY <2>2 DEF Types
  <2>4. Grows /\ damage' = damage
    BY <2>2, <2>3, AppendsGrow
  <2>5. QED
    BY <2>4 DEF Add, Types
<1>3. QED
  BY <1>1, <1>2

\* The types hold in every behaviour.
LEMMA TypesHold == Spec => []Types
<1>1. Init => Types
  <2> SUFFICES ASSUME Init PROVE Types
    OBVIOUS
  <2>1. PICK o \in [Demo -> Options] :
          demo = [d \in Demo |->
                    [pc |-> "live", options |-> o[d], executed |-> FALSE, agent_ok |-> FALSE,
                     registered |-> FALSE, incident_verified |-> FALSE,
                     cleanup_succeeded |-> TRUE]]
    BY DEF Init
  <2>2. demo \in [Demo -> Holding]
    BY <2>1 DEF Holding, PC
  <2>3. registry \in Seq(Piece)
    BY DEF Init
  <2>4. QED
    BY <2>2, <2>3, PipelineAssumption DEF Init, Types
<1>2. Types /\ [Next]_vars => Types'
  <2> SUFFICES ASSUME Types, [Next]_vars PROVE Types'
    OBVIOUS
  <2>1. ASSUME NEW d \in Demo, Step(d) \/ RegisterFails(d) \/ Crash(d) PROVE Types'
    BY <2>1, DemoStepTypes
  <2>2. ASSUME NEW a \in Adder, Add(a) PROVE Types'
    <3>1. registry' \in Seq(Piece) /\ damage' \in 0 .. MaxDamage
          /\ UNCHANGED <<demo, files, sandbox>>
      BY <2>2, AddGrows, GrowsType
    <3>2. added' \subseteq Adder
      BY <2>2 DEF Add, Types
    <3>3. QED
      BY <3>1, <3>2 DEF Types, files
  <2>3. CASE UNCHANGED vars
    BY <2>3 DEF vars, files, Types
  <2>4. QED
    BY <2>1, <2>2, <2>3 DEF Next
<1>3. QED
  BY <1>1, <1>2, PTL DEF Spec

\* TypeOK, the type invariant of the run.
THEOREM TypeCorrect == Spec => []TypeOK
<1>1. Types => TypeOK
  BY DEF Types, TypeOK, Holding
<1>2. QED
  BY <1>1, TypesHold, PTL

---------------------------------------------------------------------------
(* How far a demo is, and what it has by then *)

Early  == {"live", "assess", "drill"}
Linked == {"register", "verify_registry", "incident", "verify_incident", "cleanup"}
Ended  == {"summary", "done"}

\* Of one demo: what it holds in memory, its files and its sandbox.
Stage(m, resp, lnk, inc, summ, box) ==
  /\ m.pc \in Early => resp = {}
  /\ m.pc \in Early \cup {"link"} => lnk = {}
  /\ m.pc \in Early \cup {"link", "register", "verify_registry", "incident"} => inc = {}
  /\ m.pc \in Linked \cup {"link"} => ~m.options.dry_run /\ m.executed
  /\ m.pc \in Ended /\ ~m.options.dry_run => m.executed /\ m.incident_verified
  /\ m.pc \in Linked => lnk # {}
  /\ m.pc \in {"incident", "verify_incident", "cleanup"} => m.registered
  /\ m.pc = "cleanup" => m.incident_verified
  /\ m.incident_verified =>
       m.registered /\ inc # {} /\ m.pc \in {"cleanup", "summary", "done", "raised"}
  /\ m.registered =>
       lnk # {} /\ m.pc \in {"incident", "verify_incident", "cleanup", "summary", "done", "raised"}
  /\ m.pc \in Ended /\ ~m.options.dry_run /\ m.options.cleanup => box = "rm"
  /\ box = "rm" => m.incident_verified
  /\ lnk # {} => /\ lnk = resp
                 /\ \A r \in lnk : r.verified_stopped /\ r.credential_revocation_tested
  /\ \A r, q \in resp : r = q
  /\ m.pc # "done" => summ = {}
  /\ \A s \in summ :
       /\ \A r \in resp : /\ s.stopped => r.verified_stopped
                          /\ s.revoked => r.credential_revocation_tested
       /\ \A r \in resp : /\ r.verified_stopped => s.stopped
                          /\ r.credential_revocation_tested => s.revoked
       /\ s.linked <=> lnk # {}
       /\ s.registered <=> m.registered
       /\ s.incident_verified <=> m.incident_verified

StageOf(d) == Stage(demo[d], response[d], link[d], incident[d], summary[d], sandbox[d])

StageInv == \A d \in Demo : StageOf(d)

\* A step of one demo keeps its own stage right and leaves the others' alone.
LEMMA DemoStepStage ==
  ASSUME Types, NEW d \in Demo, StageOf(d), Step(d) \/ RegisterFails(d) \/ Crash(d)
  PROVE  /\ StageOf(d)'
         /\ \A e \in Demo \ {d} :
              /\ demo'[e] = demo[e] /\ response'[e] = response[e] /\ link'[e] = link[e]
              /\ incident'[e] = incident[e] /\ summary'[e] = summary[e]
              /\ sandbox'[e] = sandbox[e]
<1> DEFINE m == demo[d]
           m2 == demo'[d]
           Others == \A e \in Demo \ {d} :
              /\ demo'[e] = demo[e] /\ response'[e] = response[e] /\ link'[e] = link[e]
              /\ incident'[e] = incident[e] /\ summary'[e] = summary[e]
              /\ sandbox'[e] = sandbox[e]
           Goal == Stage(m2, response'[d], link'[d], incident'[d], summary'[d], sandbox'[d])
<1>h. /\ m \in Holding /\ Stage(m, response[d], link[d], incident[d], summary[d], sandbox[d])
      /\ demo \in [Demo -> Holding]
      /\ response \in [Demo -> SUBSET Response] /\ link \in [Demo -> SUBSET Response]
      /\ incident \in [Demo -> SUBSET Incidents] /\ DOMAIN summary = Demo
      /\ sandbox \in [Demo -> {"none", "up", "rm"}]
  BY DEF Types, StageOf
<1> SUFFICES Goal /\ Others
  BY DEF StageOf
<1> USE DEF Goes, files
<1>raise. ASSUME NEW from \in PC, Raises(d, from), from # "done" PROVE Goal /\ Others
  <2>1. /\ Others /\ m.pc = from /\ m2 = [m EXCEPT !.pc = "raised"]
        /\ UNCHANGED files /\ sandbox' = sandbox
    BY <1>h, <1>raise DEF Raises
  <2>2. /\ m2.pc = "raised" /\ m2.options = m.options /\ m2.executed = m.executed
        /\ m2.registered = m.registered /\ m2.incident_verified = m.incident_verified
    BY <1>h, <2>1 DEF Holding
  <2>3. QED
    BY <1>h, <1>raise, <2>1, <2>2 DEF Stage, Early, Linked, Ended
<1>1. CASE RunAgentTask(d)
  <2>1. PICK executed \in BOOLEAN, ok \in BOOLEAN :
          /\ m.options.dry_run => ~executed
          /\ Goes(d, "live", [m EXCEPT !.pc = "assess", !.executed = executed, !.agent_ok = ok])
          /\ sandbox' = [sandbox EXCEPT ![d] = IF executed THEN "up" ELSE @]
    BY <1>1 DEF RunAgentTask
  <2>2. Others /\ m.pc = "live" /\ m2 = [m EXCEPT !.pc = "assess", !.executed = executed, !.agent_ok = ok]
    BY <1>h, <1>1, <2>1 DEF RunAgentTask
  <2>3. /\ m2.pc = "assess"
        /\ m2.options = m.options
        /\ m2.executed = executed
        /\ m2.registered = m.registered
        /\ m2.incident_verified = m.incident_verified
    BY <1>h, <2>2 DEF Holding
  <2>4. /\ UNCHANGED files /\ (m.options.dry_run => ~executed)
        /\ sandbox'[d] = (IF executed THEN "up" ELSE sandbox[d])
    BY <1>h, <1>1, <2>1 DEF RunAgentTask
  <2>5. QED
    BY <1>h, <2>2, <2>3, <2>4 DEF Stage, Early, Linked, Ended
<1>2. CASE Assess(d)
  <2>1. Others /\ m.pc = "assess" /\ m2 = [m EXCEPT !.pc = "drill"]
    BY <1>h, <1>2 DEF Assess
  <2>2. /\ m2.pc = "drill"
        /\ m2.options = m.options
        /\ m2.executed = m.executed
        /\ m2.registered = m.registered
        /\ m2.incident_verified = m.incident_verified
    BY <1>h, <2>1 DEF Holding
  <2>3. UNCHANGED files /\ sandbox' = sandbox
    BY <1>h, <1>2 DEF Assess
  <2>4. QED
    BY <1>h, <2>1, <2>2, <2>3 DEF Stage, Early, Linked, Ended
<1>3. CASE Drill(d)
  <2>1. PICK stopped \in BOOLEAN, revoked \in BOOLEAN :
          response' = [response EXCEPT ![d] =
            {[by |-> d, verified_stopped |-> stopped, credential_revocation_tested |-> revoked]}]
    BY <1>3 DEF Drill
  <2>2. PICK step \in {"summary", "link"} :
          /\ Goes(d, "drill", [m EXCEPT !.pc = step])
          /\ step = "summary" <=> m.options.dry_run
    BY <1>3 DEF Drill
  <2>3. Others /\ m.pc = "drill" /\ m2 = [m EXCEPT !.pc = step]
    BY <1>h, <1>3, <2>1, <2>2 DEF Drill
  <2>4. /\ m2.pc = step /\ m2.options = m.options /\ m2.executed = m.executed
        /\ m2.registered = m.registered /\ m2.incident_verified = m.incident_verified
    BY <1>h, <2>3 DEF Holding
  <2>5. PICK r : response'[d] = {r}
    BY <1>h, <2>1
  <2>6. /\ UNCHANGED <<link, incident, summary, sandbox>>
        /\ m.options.dry_run \/ m.executed
    BY <1>3 DEF Drill
  <2>7. /\ link[d] = {} /\ incident[d] = {} /\ summary[d] = {}
        /\ ~m.registered /\ ~m.incident_verified /\ sandbox[d] # "rm"
    BY <1>h, <2>3 DEF Stage, Early
  <2>8. QED
    BY <2>2, <2>3, <2>4, <2>5, <2>6, <2>7 DEF Stage, Early, Linked, Ended
<1>4. CASE LinkResponse(d)
  <2>1. PICK r \in response[d] :
          /\ r.verified_stopped /\ r.credential_revocation_tested
          /\ link' = [link EXCEPT ![d] = {r}]
    BY <1>4 DEF LinkResponse
  <2>2. Others /\ m.pc = "link" /\ m2 = [m EXCEPT !.pc = "register"]
    BY <1>h, <1>4, <2>1 DEF LinkResponse
  <2>3. /\ m2.pc = "register"
        /\ m2.options = m.options
        /\ m2.executed = m.executed
        /\ m2.registered = m.registered
        /\ m2.incident_verified = m.incident_verified
    BY <1>h, <2>2 DEF Holding
  <2>4. /\ UNCHANGED <<response, incident, summary, sandbox>>
        /\ link'[d] = {r}
    BY <1>h, <1>4, <2>1 DEF LinkResponse
  <2>5. response[d] = {r}
    BY <1>h, <2>1 DEF Stage
  <2>6. /\ incident[d] = {} /\ summary[d] = {}
        /\ ~m.registered /\ ~m.incident_verified /\ sandbox[d] # "rm"
        /\ ~m.options.dry_run /\ m.executed
    BY <1>h, <2>2 DEF Stage, Early
  <2>7. QED
    BY <2>1, <2>2, <2>3, <2>4, <2>5, <2>6 DEF Stage, Early, Linked, Ended
<1>5. CASE Register(d)
  <2>1. Others /\ m.pc = "register" /\ m2 = [m EXCEPT !.pc = "verify_registry"]
    BY <1>h, <1>5 DEF Register
  <2>2. /\ m2.pc = "verify_registry"
        /\ m2.options = m.options
        /\ m2.executed = m.executed
        /\ m2.registered = m.registered
        /\ m2.incident_verified = m.incident_verified
    BY <1>h, <2>1 DEF Holding
  <2>3. UNCHANGED files /\ sandbox' = sandbox
    BY <1>h, <1>5 DEF Register
  <2>4. QED
    BY <1>h, <2>1, <2>2, <2>3 DEF Stage, Early, Linked, Ended
<1>6. CASE CheckRegistry(d)
  <2>1. Others /\ m.pc = "verify_registry" /\ m2 = [m EXCEPT !.pc = "incident", !.registered = TRUE]
    BY <1>h, <1>6 DEF CheckRegistry
  <2>2. /\ m2.pc = "incident"
        /\ m2.options = m.options
        /\ m2.executed = m.executed
        /\ m2.registered = TRUE
        /\ m2.incident_verified = m.incident_verified
    BY <1>h, <2>1 DEF Holding
  <2>3. UNCHANGED files /\ sandbox' = sandbox
    BY <1>h, <1>6 DEF CheckRegistry
  <2>4. QED
    BY <1>h, <2>1, <2>2, <2>3 DEF Stage, Early, Linked, Ended
<1>7. CASE CreateIncident(d)
  <2>1. Others /\ m.pc = "incident" /\ m2 = [m EXCEPT !.pc = "verify_incident"]
    BY <1>h, <1>7 DEF CreateIncident
  <2>2. /\ m2.pc = "verify_incident"
        /\ m2.options = m.options
        /\ m2.executed = m.executed
        /\ m2.registered = m.registered
        /\ m2.incident_verified = m.incident_verified
    BY <1>h, <2>1 DEF Holding
  <2>3. UNCHANGED <<response, link, summary, sandbox>>
    BY <1>h, <1>7 DEF CreateIncident
  <2>4. QED
    BY <1>h, <2>1, <2>2, <2>3 DEF Stage, Early, Linked, Ended
<1>8. CASE CheckIncident(d)
  <2>1. PICK step \in {"cleanup", "summary"} :
          /\ Goes(d, "verify_incident", [m EXCEPT !.incident_verified = TRUE, !.pc = step])
          /\ step = "summary" <=> ~(m.options.cleanup /\ m.executed)
    BY <1>8 DEF CheckIncident
  <2>2. Others /\ m.pc = "verify_incident" /\ m2 = [m EXCEPT !.incident_verified = TRUE, !.pc = step]
    BY <1>h, <1>8, <2>1 DEF CheckIncident
  <2>3. /\ m2.pc = step
        /\ m2.options = m.options
        /\ m2.executed = m.executed
        /\ m2.registered = m.registered
        /\ m2.incident_verified = TRUE
    BY <1>h, <2>2 DEF Holding
  <2>4. /\ UNCHANGED files /\ sandbox' = sandbox /\ incident[d] # {}
        /\ step = "summary" => ~(m.options.cleanup /\ m.executed)
    BY <1>h, <1>8, <2>1 DEF CheckIncident, VerifyIncident
  <2>5. QED
    BY <1>h, <2>2, <2>3, <2>4 DEF Stage, Early, Linked, Ended
<1>9. CASE Cleanup(d)
  <2>1. PICK ok \in BOOLEAN :
          Goes(d, "cleanup", [m EXCEPT !.pc = "summary", !.cleanup_succeeded = ok])
    BY <1>9 DEF Cleanup
  <2>2. Others /\ m.pc = "cleanup" /\ m2 = [m EXCEPT !.pc = "summary", !.cleanup_succeeded = ok]
    BY <1>h, <1>9, <2>1 DEF Cleanup
  <2>3. /\ m2.pc = "summary"
        /\ m2.options = m.options
        /\ m2.executed = m.executed
        /\ m2.registered = m.registered
        /\ m2.incident_verified = m.incident_verified
    BY <1>h, <2>2 DEF Holding
  <2>4. UNCHANGED files /\ sandbox'[d] = "rm"
    BY <1>h, <1>9, <2>1 DEF Cleanup
  <2>5. QED
    BY <1>h, <2>2, <2>3, <2>4 DEF Stage, Early, Linked, Ended
<1>10. CASE WriteSummary(d)
  <2>1. PICK r \in response[d] :
          summary' = [summary EXCEPT ![d] =
            {[stopped |-> r.verified_stopped, revoked |-> r.credential_revocation_tested,
              linked |-> link[d] # {}, registered |-> m.registered,
              incident_verified |-> m.incident_verified]}]
    BY <1>10 DEF WriteSummary
  <2>2. Others /\ m.pc = "summary" /\ m2 = [m EXCEPT !.pc = "done"]
    BY <1>h, <1>10, <2>1 DEF WriteSummary
  <2>3. /\ m2.pc = "done"
        /\ m2.options = m.options
        /\ m2.executed = m.executed
        /\ m2.registered = m.registered
        /\ m2.incident_verified = m.incident_verified
    BY <1>h, <2>2 DEF Holding
  <2>4. /\ UNCHANGED <<response, link, incident, sandbox>>
        /\ summary'[d] =
             {[stopped |-> r.verified_stopped, revoked |-> r.credential_revocation_tested,
               linked |-> link[d] # {}, registered |-> m.registered,
               incident_verified |-> m.incident_verified]}
    BY <1>h, <1>10, <2>1 DEF WriteSummary
  <2>5. \A q \in response[d] : q = r
    BY <1>h, <2>1 DEF Stage
  <2>6. ASSUME NEW s \in summary'[d]
        PROVE  /\ s.stopped <=> r.verified_stopped
               /\ s.revoked <=> r.credential_revocation_tested
               /\ s.linked <=> link[d] # {}
               /\ s.registered <=> m.registered
               /\ s.incident_verified <=> m.incident_verified
    <3>1. s = [stopped |-> r.verified_stopped, revoked |-> r.credential_revocation_tested,
               linked |-> link[d] # {}, registered |-> m.registered,
               incident_verified |-> m.incident_verified]
      BY <2>4
    <3>2. /\ s.stopped = r.verified_stopped /\ s.revoked = r.credential_revocation_tested
          /\ s.registered = m.registered /\ s.incident_verified = m.incident_verified
      BY <3>1
    <3>3. s.linked = (link[d] # {})
      BY <3>1
    <3>4. QED
      BY <3>2, <3>3, Zenon
  <2>7. QED
    BY <1>h, <2>2, <2>3, <2>4, <2>5, <2>6 DEF Stage, Early, Linked, Ended
<1>11. CASE RegisterFails(d)
  <2>1. Others /\ m.pc = "register" /\ m2 = [m EXCEPT !.pc = "raised"]
    BY <1>h, <1>11 DEF RegisterFails
  <2>2. /\ m2.pc = "raised" /\ m2.options = m.options /\ m2.executed = m.executed
        /\ m2.registered = m.registered /\ m2.incident_verified = m.incident_verified
    BY <1>h, <2>1 DEF Holding
  <2>3. UNCHANGED files /\ sandbox' = sandbox
    BY <1>11 DEF RegisterFails
  <2>4. QED
    BY <1>h, <2>1, <2>2, <2>3 DEF Stage, Early, Linked, Ended
<1>12. CASE Crash(d) \/ DrillRaises(d) \/ LinkRaises(d) \/ CheckRegistryRaises(d)
            \/ CheckIncidentRaises(d)
  <2>1. \E from \in PC : Raises(d, from) /\ from # "done"
    BY <1>12, <1>h
       DEF Crash, DrillRaises, LinkRaises, CheckRegistryRaises, CheckIncidentRaises, Holding, PC
  <2>2. QED
    BY <2>1, <1>raise
<1>13. QED
  BY <1>1, <1>2, <1>3, <1>4, <1>5, <1>6, <1>7, <1>8, <1>9, <1>10, <1>11, <1>12 DEF Step

---------------------------------------------------------------------------
(* What the registry holds *)

\* A line of r that parses by itself is demo d's.
Entered(d, r) ==
  \E i \in 1 .. Len(r) :
    /\ r[i].whole /\ r[i].source_run_id = d /\ r[i].quarantine_id[2] = d
    /\ {r[i].response_evidence_sha256} = link[d]

\* A piece is a decision with evidence if it is a demo's at all.
Decided(x) ==
  x.whole /\ x.source_run_id \in Demo => x.response_evidence_sha256 \in link[x.source_run_id]

RegistryInv ==
  /\ \A d \in Demo : demo[d].pc = "verify_registry" => Entered(d, registry)
  /\ \A d \in Demo : demo[d].registered => Quarantined(d, registry)
  /\ \A d \in Demo : \A i \in incident[d] :
       IsPrefix(i.registry, registry) /\ Quarantined(d, i.registry)
  /\ \A i \in 1 .. Len(registry) : Decided(registry[i])

\* A link that is there does not change.
LinksStay == \A d \in Demo : link[d] # {} => link'[d] = link[d]

\* At most one piece is appended, and a demo's has its evidence.
AppendsDecided == UNCHANGED registry \/ \E x \in Piece : registry' = Append(registry, x) /\ Decided(x)'

\* What is new of demo d is true of the registry.
Brings(d) ==
  /\ demo'[d].pc = "verify_registry" =>
       demo[d].pc = "verify_registry" \/ Entered(d, registry)'
  /\ demo'[d].registered => demo[d].registered \/ Quarantined(d, registry)'
  /\ \A i \in incident'[d] :
       i \in incident[d] \/ (IsPrefix(i.registry, registry') /\ Quarantined(d, i.registry)')

\* A step that appends at most one piece, changes no link, and brings with it what is
\* new, keeps the invariant of the registry.
LEMMA RegistryKeeps ==
  ASSUME Types, Types', RegistryInv, LinksStay, AppendsDecided, \A d \in Demo : Brings(d)
  PROVE  RegistryInv'
<1>1. registry \in Seq(Piece) /\ registry' \in Seq(Piece)
  BY DEF Types
<1>2. ASSUME NEW d \in Demo, NEW r, Quarantined(d, r) PROVE Quarantined(d, r)'
  BY <1>2 DEF Quarantined, LinksStay
<1>3. \/ UNCHANGED registry
      \/ \E x \in Piece : registry' = Append(registry, x) /\ Decided(x)'
  BY DEF AppendsDecided
<1>4. ASSUME NEW d \in Demo, Quarantined(d, registry) PROVE Quarantined(d, registry)'
  <2>1. CASE UNCHANGED registry
    BY <1>4, <2>1 DEF Quarantined, LinksStay
  <2>2. CASE \E x \in Piece : registry' = Append(registry, x) /\ Decided(x)'
    <3>1. PICK x \in Piece : registry' = Append(registry, x)
      BY <2>2
    <3>2. Quarantined(d, Append(registry, x))
      BY <1>1, <1>4, QuarantinedStays
    <3>3. QED
      BY <3>1, <3>2 DEF Quarantined, LinksStay
  <2>3. QED
    BY <1>3, <2>1, <2>2
<1>5. ASSUME NEW d \in Demo, Entered(d, registry) PROVE Entered(d, registry)'
  <2>1. \A i \in 1 .. Len(registry) : i \in 1 .. Len(registry') /\ registry'[i] = registry[i]
    BY <1>1, <1>3, AppendKeeps
  <2>2. QED
    BY <1>5, <2>1 DEF Entered, LinksStay
<1>6. ASSUME NEW d \in Demo, NEW i \in incident'[d]
      PROVE  IsPrefix(i.registry, registry') /\ Quarantined(d, i.registry)'
  <2>1. CASE i \in incident[d]
    <3>1. IsPrefix(i.registry, registry) /\ Quarantined(d, i.registry)
      BY <2>1 DEF RegistryInv
    <3>2. i.registry \in Seq(Piece)
      BY <2>1 DEF Types, Incidents
    <3>3. IsPrefix(i.registry, registry')
      BY <1>1, <1>3, <3>1, <3>2, PrefixStays
    <3>4. Quarantined(d, i.registry)'
      BY <3>1 DEF Quarantined, LinksStay
    <3>5. QED
      BY <3>3, <3>4
  <2>2. QED
    BY <1>6, <2>1 DEF Brings
<1>7. ASSUME NEW i \in 1 .. Len(registry') PROVE Decided(registry[i])'
  <2>1. CASE i \in 1 .. Len(registry)
    <3>1. registry'[i] = registry[i] /\ Decided(registry[i])
      BY <1>1, <1>3, <2>1, AppendKeeps DEF RegistryInv
    <3>2. QED
      BY <3>1 DEF Decided, LinksStay
  <2>2. CASE i \notin 1 .. Len(registry)
    <3>1. PICK x \in Piece : registry' = Append(registry, x) /\ Decided(x)'
      BY <1>3, <1>7, <2>2
    <3>2. i = Len(registry) + 1
      BY <1>1, <1>7, <2>2, <3>1, AppendKeeps
    <3>3. registry'[i] = x
      BY <1>1, <3>1, <3>2, AppendKeeps
    <3>4. QED
      BY <3>1, <3>3 DEF Decided
  <2>3. QED
    BY <2>1, <2>2
<1>8. ASSUME NEW d \in Demo
      PROVE  /\ demo'[d].pc = "verify_registry" => Entered(d, registry)'
             /\ demo'[d].registered => Quarantined(d, registry)'
  BY <1>4, <1>5 DEF RegistryInv, Brings
<1>9. QED
  BY <1>6, <1>7, <1>8 DEF RegistryInv

\* No step of a demo changes a link that is there.
LEMMA StepKeepsLinks ==
  ASSUME Types, NEW d \in Demo, StageOf(d), Step(d) \/ RegisterFails(d) \/ Crash(d)
  PROVE  LinksStay
<1> USE DEF files
<1>1. CASE LinkResponse(d)
  <2>1. link[d] = {}
    BY <1>1 DEF LinkResponse, Goes, StageOf, Stage
  <2>2. PICK r : link' = [link EXCEPT ![d] = {r}]
    BY <1>1 DEF LinkResponse
  <2>3. QED
    BY <2>1, <2>2 DEF LinksStay, Types
<1>2. CASE ~LinkResponse(d)
  <2>1. link' = link
    BY <1>2 DEF Step, RunAgentTask, Assess, Drill, DrillRaises, LinkRaises, Register, CheckRegistry,
                CheckRegistryRaises, CreateIncident, CheckIncident, CheckIncidentRaises, Cleanup,
                WriteSummary, RegisterFails, Crash, Raises
  <2>2. QED
    BY <2>1 DEF LinksStay
<1>3. QED
  BY <1>1, <1>2

\* The registry through every step of a demo.
LEMMA DemoStepRegistry ==
  ASSUME Types, Types', RegistryInv, NEW d \in Demo, StageOf(d),
         Step(d) \/ RegisterFails(d) \/ Crash(d)
  PROVE  RegistryInv'
<1>h. /\ LinksStay /\ demo[d] \in Holding
      /\ demo \in [Demo -> Holding] /\ incident \in [Demo -> SUBSET Incidents]
  BY StepKeepsLinks DEF Types
<1>o. \A e \in Demo \ {d} : demo'[e] = demo[e] /\ incident'[e] = incident[e]
  BY DemoStepStage
<1>b. ASSUME AppendsDecided, Brings(d), \A e \in Demo \ {d} : Brings(e) PROVE RegistryInv'
  BY <1>b, <1>h, RegistryKeeps
<1>c. ASSUME UNCHANGED registry PROVE AppendsDecided
  BY <1>c DEF AppendsDecided
<1>d. \A e \in Demo \ {d} : Brings(e)
  BY <1>o DEF Brings
<1> USE DEF Goes, Registry, files
<1>1. CASE Register(d)
  <2>1. PICK r \in response[d] : Appends(d, d, r)
    BY <1>1 DEF Register
  <2>2. PICK now \in 0 .. MaxSecond : registry' = Append(registry, Line(now, d, d, r))
    BY <2>1 DEF Appends
  <2> DEFINE x == Line(now, d, d, r)
  <2>3. /\ x.whole /\ x.source_run_id = d /\ x.quarantine_id[2] = d
        /\ x.response_evidence_sha256 = r
    BY DEF Line
  <2>4. x \in Piece
    BY <2>1, LineType DEF Types
  <2>5. link'[d] = {r} /\ UNCHANGED incident
    <3>1. link[d] = response[d] /\ \A q \in response[d] : q = r
      BY <1>1, <2>1 DEF Register, StageOf, Stage, Linked
    <3>2. link' = link /\ incident' = incident
      BY <1>1 DEF Register
    <3>3. QED
      BY <2>1, <3>1, <3>2
  <2>6. demo'[d].pc = "verify_registry" /\ demo'[d].registered = demo[d].registered
    BY <1>1, <1>h DEF Register, Holding
  <2>7. registry \in Seq(Piece)
    BY DEF Types
  <2> HIDE DEF x
  <2>8. Len(registry) + 1 \in 1 .. Len(registry') /\ registry'[Len(registry) + 1] = x
    BY <2>2, <2>4, <2>7, AppendKeeps DEF x
  <2>9. Entered(d, registry)'
    BY <2>3, <2>5, <2>8 DEF Entered
  <2>10. Decided(x)'
    BY <2>3, <2>5 DEF Decided
  <2>11. AppendsDecided
    BY <2>2, <2>4, <2>10 DEF AppendsDecided, x
  <2>12. Brings(d)
    BY <2>5, <2>6, <2>9 DEF Brings
  <2>13. QED
    BY <1>b, <1>d, <2>11, <2>12
<1>2. CASE CheckRegistry(d)
  <2>1. /\ UNCHANGED <<registry, link, incident>> /\ demo[d].pc = "verify_registry"
        /\ Loads(registry) /\ demo'[d].pc = "incident"
    BY <1>2, <1>h DEF CheckRegistry, VerifyRegistry, Holding
  <2>2. PICK i \in 1 .. Len(registry) :
          /\ registry[i].whole /\ registry[i].source_run_id = d /\ registry[i].quarantine_id[2] = d
          /\ {registry[i].response_evidence_sha256} = link[d]
    BY <2>1 DEF RegistryInv, Entered
  <2>3. registry \in Seq(Piece) /\ \A j \in 1 .. i : registry[j].whole
    BY <2>1 DEF Loads, Types
  <2>4. Readable(registry, i)
    BY <2>3, ReadableMeans
  <2>5. Quarantined(d, registry)'
    BY <2>1, <2>2, <2>4 DEF Quarantined
  <2>6. Brings(d)
    BY <2>1, <2>5 DEF Brings
  <2>7. QED
    BY <1>b, <1>c, <1>d, <2>1, <2>6
<1>3. CASE CreateIncident(d)
  <2>1. /\ UNCHANGED <<registry, link>> /\ demo[d].pc = "incident"
        /\ demo'[d].pc = "verify_incident" /\ demo'[d].registered = demo[d].registered
        /\ incident'[d] = {[response |-> response[d], link |-> link[d], registry |-> registry]}
    BY <1>3, <1>h DEF CreateIncident, Holding
  <2>2. demo[d].registered
    BY <2>1 DEF StageOf, Stage
  <2>3. Quarantined(d, registry)
    BY <2>2 DEF RegistryInv
  <2>4. registry \in Seq(Piece)
    BY DEF Types
  <2>5. IsPrefix(registry, registry)
    BY <2>4 DEF IsPrefix
  <2>6. \A i \in incident'[d] : i.registry = registry
    BY <2>1
  <2>7. \A i \in incident'[d] : IsPrefix(i.registry, registry') /\ Quarantined(d, i.registry)'
    BY <2>1, <2>3, <2>5, <2>6 DEF Quarantined
  <2>8. Brings(d)
    BY <2>1, <2>7 DEF Brings
  <2>9. QED
    BY <1>b, <1>c, <1>d, <2>1, <2>8
<1>4. CASE RegisterFails(d)
  <2>1. registry' = Append(registry, Fragment)
    BY <1>4 DEF RegisterFails, AppendsPart
  <2>2. Decided(Fragment)'
    BY DEF Decided, Fragment
  <2>3. /\ UNCHANGED incident /\ demo'[d].pc = "raised"
        /\ demo'[d].registered = demo[d].registered
    BY <1>4, <1>h DEF RegisterFails, Holding
  <2>4. AppendsDecided
    BY <2>1, <2>2, FragmentType DEF AppendsDecided
  <2>5. Brings(d)
    BY <2>3 DEF Brings
  <2>6. QED
    BY <1>b, <1>d, <2>4, <2>5
<1>5. CASE ~(Register(d) \/ CheckRegistry(d) \/ CreateIncident(d) \/ RegisterFails(d))
  <2>1. UNCHANGED <<registry, incident>>
    BY <1>5 DEF Step, RunAgentTask, Assess, Drill, DrillRaises, LinkResponse, LinkRaises,
                CheckRegistryRaises, CheckIncident, CheckIncidentRaises, Cleanup, WriteSummary,
                Crash, Raises
  <2>2. demo'[d].pc # "verify_registry" /\ demo'[d].registered = demo[d].registered
    <3>1. CASE RunAgentTask(d)
      BY <3>1, <1>h DEF RunAgentTask, Holding
    <3>2. CASE Assess(d)
      BY <3>2, <1>h DEF Assess, Holding
    <3>3. CASE Drill(d)
      BY <3>3, <1>h DEF Drill, Holding
    <3>4. CASE LinkResponse(d)
      BY <3>4, <1>h DEF LinkResponse, Holding
    <3>5. CASE CheckIncident(d)
      BY <3>5, <1>h DEF CheckIncident, Holding
    <3>6. CASE Cleanup(d)
      BY <3>6, <1>h DEF Cleanup, Holding
    <3>7. CASE WriteSummary(d)
      BY <3>7, <1>h DEF WriteSummary, Holding
    <3>8. CASE \E from \in PC : Raises(d, from)
      BY <3>8, <1>h DEF Raises, Holding
    <3>9. \/ RunAgentTask(d) \/ Assess(d) \/ Drill(d) \/ LinkResponse(d) \/ CheckIncident(d)
          \/ Cleanup(d) \/ WriteSummary(d) \/ \E from \in PC : Raises(d, from)
      BY <1>5, <1>h
         DEF Step, Crash, DrillRaises, LinkRaises, CheckRegistryRaises, CheckIncidentRaises,
             Holding, PC
    <3>10. QED
      BY <3>1, <3>2, <3>3, <3>4, <3>5, <3>6, <3>7, <3>8, <3>9
  <2>3. Brings(d)
    BY <2>1, <2>2 DEF Brings
  <2>4. QED
    BY <1>b, <1>c, <1>d, <2>1, <2>3
<1>6. QED
  BY <1>1, <1>2, <1>3, <1>4, <1>5

\* The registry through `quarantine add`, whose runs are not demos.
LEMMA AddRegistry ==
  ASSUME Types, Types', RegistryInv, NEW a \in Adder, Add(a)
  PROVE  RegistryInv'
<1>1. UNCHANGED <<demo, link, incident>> /\ a \notin Demo
  BY PipelineAssumption DEF Add, files
<1>2. LinksStay
  BY <1>1 DEF LinksStay
<1>3. \E x \in Piece : registry' = Append(registry, x) /\ Decided(x)'
  <2>1. CASE AppendsPart
    <3>1. registry' = Append(registry, Fragment)
      BY <2>1 DEF AppendsPart
    <3>2. Decided(Fragment)'
      BY DEF Decided, Fragment
    <3>3. QED
      BY <3>1, <3>2, FragmentType
  <2>2. CASE ~AppendsPart
    <3>1. PICK d \in Demo, e \in Demo : \E r \in response[e] : Appends(d, a, r)
      BY <2>2 DEF Add
    <3>2. PICK r \in response[e] : Appends(d, a, r)
      BY <3>1
    <3>3. PICK now \in 0 .. MaxSecond : registry' = Append(registry, Line(now, d, a, r))
      BY <3>2 DEF Appends
    <3>4. Line(now, d, a, r) \in Piece
      BY <3>2, LineType DEF Types
    <3>5. Decided(Line(now, d, a, r))'
      BY <1>1 DEF Decided, Line
    <3>6. QED
      BY <3>3, <3>4, <3>5
  <2>3. QED
    BY <2>1, <2>2
<1>4. AppendsDecided
  BY <1>3 DEF AppendsDecided
<1>5. \A d \in Demo : Brings(d)
  BY <1>1 DEF Brings
<1>6. QED
  BY <1>2, <1>4, <1>5, RegistryKeeps

---------------------------------------------------------------------------
(* The invariant, and what follows from it *)

PipelineInv == Types /\ StageInv /\ RegistryInv

\* Before anything is done, nothing is there.
LEMMA InitPipeline == Init => StageInv /\ RegistryInv
<1> SUFFICES ASSUME Init PROVE StageInv /\ RegistryInv
  OBVIOUS
<1>1. PICK o \in [Demo -> Options] :
        demo = [d \in Demo |->
                  [pc |-> "live", options |-> o[d], executed |-> FALSE, agent_ok |-> FALSE,
                   registered |-> FALSE, incident_verified |-> FALSE,
                   cleanup_succeeded |-> TRUE]]
  BY DEF Init
<1>2. ASSUME NEW d \in Demo
      PROVE  /\ demo[d].pc = "live" /\ ~demo[d].registered /\ ~demo[d].incident_verified
             /\ response[d] = {} /\ link[d] = {} /\ incident[d] = {} /\ summary[d] = {}
             /\ sandbox[d] = "none"
  BY <1>1 DEF Init
<1>3. StageInv
  BY <1>2 DEF StageInv, StageOf, Stage, Early, Linked, Ended
<1>4. registry = <<>>
  BY DEF Init
<1>5. RegistryInv
  BY <1>2, <1>4 DEF RegistryInv
<1>6. QED
  BY <1>3, <1>5

\* Every step keeps the stage of every demo and the registry.
LEMMA NextPipeline ==
  ASSUME Types, Types', StageInv, RegistryInv, [Next]_vars
  PROVE  StageInv' /\ RegistryInv'
<1>1. ASSUME NEW d \in Demo, Step(d) \/ RegisterFails(d) \/ Crash(d)
      PROVE  StageInv' /\ RegistryInv'
  <2>1. StageOf(d)
    BY DEF StageInv
  <2>2. StageOf(d)'
    BY <1>1, <2>1, DemoStepStage
  <2>3. ASSUME NEW e \in Demo \ {d} PROVE StageOf(e)'
    <3>1. /\ demo'[e] = demo[e] /\ response'[e] = response[e] /\ link'[e] = link[e]
          /\ incident'[e] = incident[e] /\ summary'[e] = summary[e]
          /\ sandbox'[e] = sandbox[e]
      BY <1>1, <2>1, DemoStepStage
    <3>2. QED
      BY <3>1 DEF StageInv, StageOf
  <2>4. StageInv'
    BY <2>2, <2>3 DEF StageInv
  <2>5. QED
    BY <1>1, <2>1, <2>4, DemoStepRegistry
<1>2. ASSUME NEW a \in Adder, Add(a) PROVE StageInv' /\ RegistryInv'
  <2>1. StageInv'
    BY <1>2 DEF Add, files, StageInv, StageOf
  <2>2. QED
    BY <1>2, <2>1, AddRegistry
<1>3. CASE UNCHANGED vars
  <2>1. StageInv'
    BY <1>3 DEF vars, files, StageInv, StageOf
  <2>2. LinksStay /\ AppendsDecided /\ \A d \in Demo : Brings(d)
    BY <1>3 DEF vars, files, LinksStay, AppendsDecided, Brings
  <2>3. QED
    BY <2>1, <2>2, RegistryKeeps
<1>4. QED
  BY <1>1, <1>2, <1>3 DEF Next

\* The invariant holds in every behaviour.
LEMMA PipelineInvHolds == Spec => []PipelineInv
<1>1. Init /\ Types => StageInv /\ RegistryInv
  BY InitPipeline
<1>2. Types /\ Types' /\ StageInv /\ RegistryInv /\ [Next]_vars => StageInv' /\ RegistryInv'
  BY NextPipeline
<1>3. QED
  BY <1>1, <1>2, TypesHold, PTL DEF Spec, PipelineInv

\* A demo that registered has the one response its link binds, which says both.
LEMMA RegisteredIsLinked ==
  ASSUME PipelineInv, NEW d \in Demo, demo[d].registered
  PROVE  /\ link[d] # {} /\ link[d] = response[d]
         /\ \A r \in response[d] : r.verified_stopped /\ r.credential_revocation_tested
         /\ Quarantined(d, registry)
<1>1. StageOf(d)
  BY DEF PipelineInv, StageInv
<1>2. QED
  BY <1>1 DEF PipelineInv, RegistryInv, StageOf, Stage

\* A summary is true for good: see SummaryIsTrue in IncidentPipeline.
THEOREM SummariesAreTrue == Spec => []SummaryIsTrue
<1>1. PipelineInv => SummaryIsTrue
  <2> SUFFICES ASSUME PipelineInv, NEW d \in Demo, NEW s \in summary[d]
               PROVE  /\ s.registered => s.linked /\ s.stopped /\ s.revoked /\ Quarantined(d, registry)
                      /\ s.incident_verified => s.registered
    BY DEF SummaryIsTrue
  <2>1. /\ \A r \in response[d] : /\ r.verified_stopped => s.stopped
                                  /\ r.credential_revocation_tested => s.revoked
        /\ s.linked <=> link[d] # {}
        /\ s.registered <=> demo[d].registered
        /\ s.incident_verified => demo[d].incident_verified
        /\ demo[d].incident_verified => demo[d].registered
    BY DEF PipelineInv, StageInv, StageOf, Stage
  <2>2. CASE demo[d].registered
    BY <2>1, <2>2, RegisteredIsLinked
  <2>3. QED
    BY <2>1, <2>2
<1>2. QED
  BY <1>1, PipelineInvHolds, PTL

\* Exit status zero is containment: see ExitZeroMeansContained in IncidentPipeline.
THEOREM ExitZeroIsContained == Spec => []ExitZeroMeansContained
<1>1. PipelineInv => ExitZeroMeansContained
  <2> SUFFICES ASSUME PipelineInv, NEW d \in Demo, demo[d].pc = "done", ~demo[d].options.dry_run
               PROVE  /\ demo[d].executed
                      /\ demo[d].options.cleanup => sandbox[d] = "rm"
                      /\ \A r \in response[d] : r.verified_stopped /\ r.credential_revocation_tested
                      /\ Quarantined(d, registry) /\ incident[d] # {}
    BY DEF ExitZeroMeansContained
  <2>1. /\ demo[d].executed /\ demo[d].registered /\ incident[d] # {}
        /\ demo[d].options.cleanup => sandbox[d] = "rm"
    BY DEF PipelineInv, StageInv, StageOf, Stage, Ended
  <2>2. QED
    BY <2>1, RegisteredIsLinked
<1>2. QED
  BY <1>1, PipelineInvHolds, PTL

\* A demo's decision, and the removal of its sandbox, have evidence behind them: see
\* DecisionsHaveEvidence in IncidentPipeline.
THEOREM DecisionsAreFounded == Spec => []DecisionsHaveEvidence
<1>1. PipelineInv => DecisionsHaveEvidence
  <2> SUFFICES ASSUME PipelineInv PROVE DecisionsHaveEvidence
    OBVIOUS
  <2>1. ASSUME NEW i \in 1 .. Len(registry), registry[i].whole,
               registry[i].source_run_id \in Demo,
               NEW d, d = registry[i].source_run_id,
               NEW r, r = registry[i].response_evidence_sha256
        PROVE  /\ r \in response[d] /\ r \in link[d]
               /\ r.verified_stopped /\ r.credential_revocation_tested
    <3>1. r \in link[d] /\ d \in Demo
      BY <2>1 DEF PipelineInv, RegistryInv, Decided
    <3>2. StageOf(d)
      BY <3>1 DEF PipelineInv, StageInv
    <3>3. QED
      BY <3>1, <3>2 DEF StageOf, Stage
  <2>2. ASSUME NEW d \in Demo, sandbox[d] = "rm"
        PROVE  demo[d].incident_verified /\ \A r \in response[d] : r \in link[d]
    <3>1. demo[d].incident_verified /\ demo[d].registered
      BY <2>2 DEF PipelineInv, StageInv, StageOf, Stage
    <3>2. QED
      BY <3>1, RegisteredIsLinked
  <2>3. QED
    BY <2>1, <2>2 DEF DecisionsHaveEvidence
<1>2. QED
  BY <1>1, PipelineInvHolds, PTL

\* What an incident recorded of the registry stays a beginning of it: see
\* IncidentPreservesHistory in IncidentPipeline.
THEOREM HistoryIsPreserved == Spec => []IncidentPreservesHistory
<1>1. PipelineInv => IncidentPreservesHistory
  BY DEF PipelineInv, RegistryInv, IncidentPreservesHistory
<1>2. QED
  BY <1>1, PipelineInvHolds, PTL


=============================================================================
