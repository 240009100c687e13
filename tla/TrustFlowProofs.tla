--------------------------- MODULE TrustFlowProofs ---------------------------
(***************************************************************************)
(* What the customer trust flow promises for every number of flows and of  *)
(* assurance commands on one root, whichever workspaces are edited: an     *)
(* exit with zero is earned, the disposition that is reported is the one   *)
(* that was signed, and what was packed and named is what the run made.    *)
(***************************************************************************)
EXTENDS TrustFlow, TLAPS

---------------------------------------------------------------------------
(* Types *)

\* What a flow holds in memory.
Memory == [pc : PC, options : Options, control_fails : BOOLEAN, assurance : SUBSET Conclusion,
           read : Seq(Flow), observed : Seq(Flow), trusted : Trusted,
           built : {"task", "edited"}, lineage : BOOLEAN, decision : Disposition,
           overall : Disposition]

Pack == [registry : Seq(Flow), incident : SUBSET Seq(Flow)]

Types ==
  /\ flow \in [Flow -> Memory]
  /\ newest \subseteq Flow /\ registry \in Seq(Flow) /\ summary \subseteq Conclusion
  /\ bundle \in [Flow -> {"none", "partial", "final"}]
  /\ incident \in [Flow -> SUBSET Seq(Flow)] /\ pack \in [Flow -> SUBSET Pack]
  /\ handoff = [f \in Flow |-> handoff[f]]
  /\ suite \in [Suite -> [pc : {"idle", "write", "done"}, result : SUBSET Conclusion]]
  /\ workspace \in [Flow -> {"task", "edited"}]

\* A step of one flow changes the memory of that flow, and no other's.
LEMMA GoesFacts ==
  ASSUME Types, NEW f \in Flow, NEW from, NEW r \in Memory, Goes(f, from, r)
  PROVE  /\ flow' \in [Flow -> Memory] /\ flow[f].pc = from /\ flow'[f] = r
         /\ \A g \in Flow : g # f => flow'[g] = flow[g]
BY DEF Types, Goes

\* What a flow starts with, and restarts with when it raised, has the type.
LEMMA FreshFacts ==
  ASSUME NEW o \in Options
  PROVE  /\ Fresh(o) \in Memory /\ [Fresh(o) EXCEPT !.pc = "raised"] \in Memory
         /\ Fresh(o).pc = "assess" /\ Fresh(o).options = o
         /\ Fresh(o).built = "task" /\ Fresh(o).lineage = FALSE
<1>1. NotRun \in Trusted /\ <<>> \in Seq(Flow)
  BY DEF Trusted
<1> HIDE DEF NotRun
<1>2. QED
  BY <1>1 DEF Fresh, Memory, PC, Disposition

\* What a step may report of an artifact is a report.
LEMMA ReportsAreTrusted ==
  ASSUME NEW o \in Options, NEW r \in Reports(o)
  PROVE  r \in Trusted
BY DEF Trusted

\* The decision is one of two dispositions.
LEMMA DecisionIsOne ==
  ASSUME NEW fails, NEW t, NEW a, NEW o
  PROVE  Decision(fails, t, a, o) \in {"BLOCKED", "CONDITIONAL"}
BY DEF Decision

---------------------------------------------------------------------------
(* The invariant: what each flow has done by the time it comes to a place *)

Early   == {"assess", "bundle", "register", "incident"}
Packing == {"pack", "pack_digest", "pack_incident", "write_pack", "sign_pack"}
Packed  == {"artifact", "lineage", "decide", "handoff", "done"}
Decided == {"handoff", "done"}

Registers(log, f) == \E i \in DOMAIN log : log[i] = f

\* A live flow's incident is made from a registry that has its entry, once it is
\* made; a dry run has none.
IncidentMade(f) ==
  /\ flow[f].pc \in {"register", "incident"} => ~dry(f)
  /\ flow[f].pc = "incident" => Registers(registry, f)
  /\ flow[f].pc \in Early => incident[f] = {}
  /\ flow[f].pc \notin Early \cup {"raised"} =>
       IF dry(f) THEN incident[f] = {}
       ELSE \E i \in incident[f] : incident[f] = {i} /\ Registers(i, f)

\* The assurance in memory is about this run; a blocking one ends the flow.
AssuredItself(f) ==
  /\ flow[f].pc = "assured" =>
       \E b \in BOOLEAN : flow[f].assurance = {[run |-> f, blocking |-> b]}
  /\ flow[f].pc \in Packing \cup Packed => flow[f].assurance = {[run |-> f, blocking |-> FALSE]}

\* The digest the pack is made with is the incident's, and a pack that was signed
\* holds the registry that has it.
PackHolds(f) ==
  /\ flow[f].pc = "pack_digest" => incident[f] # {}
  /\ flow[f].pc = "pack_incident" => incident[f] = {flow[f].observed}
  /\ flow[f].pc = "write_pack" => incident[f] \subseteq {flow[f].observed}
  /\ flow[f].pc \in {"sign_pack"} \cup Packed =>
       \E p \in pack[f] : pack[f] = {p} /\ p.incident = incident[f]
  /\ flow[f].pc \in Packed => \A p \in pack[f] : VerifyPack(p)

\* What was built is what the task left, as long as the workspace is; a lineage is
\* made of an artifact that verified.
LineageHolds(f) ==
  /\ workspace[f] = "task" => flow[f].built = "task"
  /\ flow[f].lineage => flow[f].built = "task"
  /\ flow[f].pc = "lineage" => flow[f].trusted.overall_status = "VERIFIED"
  /\ flow[f].pc \notin {"decide"} \cup Decided => ~flow[f].lineage
  /\ flow[f].pc = "decide" /\ ~flow[f].lineage => flow[f].trusted.overall_status # "VERIFIED"

\* What a live flow's decision says of the flow.
DecisionHolds(f) ==
  flow[f].pc \in Decided /\ ~dry(f) =>
    /\ flow[f].overall = flow[f].decision
    /\ flow[f].decision # "BLOCKED" =>
         ~flow[f].control_fails /\ flow[f].trusted.overall_status = "VERIFIED"

\* What is handed over is what the flow came to.
HandedOver(f) ==
  handoff[f] =
    IF flow[f].pc = "done"
      THEN {[dry_run |-> dry(f), decision |-> flow[f].decision, lineage |-> flow[f].lineage,
             trusted |-> flow[f].trusted, pack |-> pack[f]]}
      ELSE {}

FlowInv(f) ==
  /\ IncidentMade(f) /\ AssuredItself(f) /\ PackHolds(f)
  /\ LineageHolds(f) /\ DecisionHolds(f) /\ HandedOver(f)

\* The rest of the flows: nothing of theirs is touched, and the registry only grows.
LEMMA OthersKeep ==
  ASSUME Types, NEW f \in Flow, NEW g \in Flow, FlowInv(g),
         flow'[g] = flow[g], incident'[g] = incident[g], pack'[g] = pack[g],
         handoff'[g] = handoff[g], workspace'[g] = workspace[g],
         registry' = registry \/ registry' = Append(registry, f)
  PROVE  FlowInv(g)'
<1>1. Registers(registry, g) => Registers(registry', g)
  BY DEF Registers, Types
<1>2. IncidentMade(g)'
  BY <1>1 DEF FlowInv, IncidentMade, dry
<1>3. AssuredItself(g)'
  BY DEF FlowInv, AssuredItself
<1>4. PackHolds(g)'
  BY DEF FlowInv, PackHolds
<1>5. LineageHolds(g)' /\ DecisionHolds(g)' /\ HandedOver(g)'
  BY DEF FlowInv, LineageHolds, DecisionHolds, HandedOver, dry
<1>6. QED
  BY <1>2, <1>3, <1>4, <1>5 DEF FlowInv

\* A step that raises leaves nothing in memory that the invariant speaks of.
LEMMA RaisesKeeps ==
  ASSUME Types, NEW f \in Flow, FlowInv(f), NEW from, from # "done", Raises(f, from)
  PROVE  /\ Types' /\ FlowInv(f)'
         /\ \A g \in Flow : g # f => flow'[g] = flow[g]
<1> DEFINE r == [Fresh(flow[f].options) EXCEPT !.pc = "raised"]
<1>1. r \in Memory
  BY FreshFacts DEF Types, Memory
<1>2. r.pc = "raised" /\ r.built = "task" /\ r.lineage = FALSE
  BY DEF Fresh
<1>3. Goes(f, from, r) /\ UNCHANGED <<shared, own, suite, workspace>>
  BY DEF Raises
<1> HIDE DEF r
<1>4. /\ flow' \in [Flow -> Memory] /\ flow[f].pc = from /\ flow'[f] = r
      /\ \A g \in Flow : g # f => flow'[g] = flow[g]
  BY <1>1, <1>3, GoesFacts
<1>5. Types'
  BY <1>3, <1>4 DEF Types, shared, own
<1>6. FlowInv(f)'
  BY <1>2, <1>3, <1>4 DEF FlowInv, IncidentMade, AssuredItself, PackHolds, LineageHolds,
       DecisionHolds, HandedOver, Early, Packing, Packed, Decided, own
<1>7. QED
  BY <1>4, <1>5, <1>6

---------------------------------------------------------------------------
(* The steps that keep it *)

\* The memories differ in their place only.
Carries(r, m) ==
  /\ r.options = m.options /\ r.control_fails = m.control_fails /\ r.assurance = m.assurance
  /\ r.read = m.read /\ r.observed = m.observed /\ r.trusted = m.trusted
  /\ r.built = m.built /\ r.lineage = m.lineage /\ r.decision = m.decision
  /\ r.overall = m.overall

\* A flow that goes to another place takes the rest of its memory along.
LEMMA ToFacts ==
  ASSUME Types, NEW f \in Flow, NEW pc \in PC
  PROVE  To(f, pc) \in Memory /\ To(f, pc).pc = pc /\ Carries(To(f, pc), flow[f])
<1>1. flow[f] \in Memory
  BY DEF Types
<1>2. To(f, pc) = [flow[f] EXCEPT !.pc = pc]
  BY DEF To
<1>3. QED
  BY <1>1, <1>2 DEF Memory, Carries

\* The run's directory is made.
LEMMA AssessKeeps ==
  ASSUME Types, NEW f \in Flow, FlowInv(f), Assess(f)
  PROVE  /\ Types' /\ FlowInv(f)'
         /\ \A g \in Flow : g # f => flow'[g] = flow[g]
<1>0. flow[f] \in Memory
  BY DEF Types
<1> DEFINE r == To(f, "bundle")
<1>1. r \in Memory /\ r.pc = "bundle" /\ Carries(r, flow[f])
  BY ToFacts DEF PC
<1>2. Goes(f, "assess", r)
  BY DEF Assess
<1> HIDE DEF r
<1>3. /\ flow' \in [Flow -> Memory] /\ flow[f].pc = "assess" /\ flow'[f] = r
      /\ \A g \in Flow : g # f => flow'[g] = flow[g]
  BY <1>1, <1>2, GoesFacts
<1>4. Types'
  BY <1>3 DEF Types, Assess, shared, own
<1>5. FlowInv(f)'
  BY <1>1, <1>3 DEF Assess, Types, Carries, shared, own,
       FlowInv, IncidentMade, AssuredItself, PackHolds, LineageHolds, DecisionHolds,
       HandedOver, Early, Packing, Packed, Decided, dry
<1>6. QED
  BY <1>3, <1>4, <1>5

\* The run's directory is finished.
LEMMA FinishAssessmentKeeps ==
  ASSUME Types, NEW f \in Flow, FlowInv(f), FinishAssessment(f)
  PROVE  /\ Types' /\ FlowInv(f)'
         /\ \A g \in Flow : g # f => flow'[g] = flow[g]
<1>0. flow[f] \in Memory
  BY DEF Types
<1> DEFINE r == To(f, IF dry(f) THEN "attest" ELSE "register")
<1>1. r \in Memory /\ r.pc = (IF dry(f) THEN "attest" ELSE "register") /\ Carries(r, flow[f])
  BY ToFacts DEF PC
<1>2. Goes(f, "bundle", r)
  BY DEF FinishAssessment
<1> HIDE DEF r
<1>3. /\ flow' \in [Flow -> Memory] /\ flow[f].pc = "bundle" /\ flow'[f] = r
      /\ \A g \in Flow : g # f => flow'[g] = flow[g]
  BY <1>1, <1>2, GoesFacts
<1>4. Types'
  BY <1>3 DEF Types, FinishAssessment, shared, own
<1>5. FlowInv(f)'
  BY <1>1, <1>3 DEF FinishAssessment, Types, Carries, shared, own,
       FlowInv, IncidentMade, AssuredItself, PackHolds, LineageHolds, DecisionHolds,
       HandedOver, Early, Packing, Packed, Decided, dry
<1>6. QED
  BY <1>3, <1>4, <1>5

\* A live flow registers its run.
LEMMA RegisterKeeps ==
  ASSUME Types, NEW f \in Flow, FlowInv(f), Register(f)
  PROVE  /\ Types' /\ FlowInv(f)'
         /\ \A g \in Flow : g # f => flow'[g] = flow[g]
<1>0. flow[f] \in Memory
  BY DEF Types
<1> DEFINE r == To(f, "incident")
<1>1. r \in Memory /\ r.pc = "incident" /\ Carries(r, flow[f])
  BY ToFacts DEF PC
<1>2. Goes(f, "register", r)
  BY DEF Register
<1> HIDE DEF r
<1>3. /\ flow' \in [Flow -> Memory] /\ flow[f].pc = "register" /\ flow'[f] = r
      /\ \A g \in Flow : g # f => flow'[g] = flow[g]
  BY <1>1, <1>2, GoesFacts
<1>4. Types'
  BY <1>3 DEF Types, Register, shared, own
<1>e. Registers(registry', f)
  BY DEF Register, Registers, Types
<1>5. FlowInv(f)'
  BY <1>1, <1>3, <1>e DEF Register, Types, Carries, shared, own,
       FlowInv, IncidentMade, AssuredItself, PackHolds, LineageHolds, DecisionHolds,
       HandedOver, Early, Packing, Packed, Decided, dry
<1>6. QED
  BY <1>3, <1>4, <1>5

\* The incident is made from a registry that has the run.
LEMMA CreateIncidentKeeps ==
  ASSUME Types, NEW f \in Flow, FlowInv(f), CreateIncident(f)
  PROVE  /\ Types' /\ FlowInv(f)'
         /\ \A g \in Flow : g # f => flow'[g] = flow[g]
<1>0. flow[f] \in Memory
  BY DEF Types
<1> DEFINE r == To(f, "attest")
<1>1. r \in Memory /\ r.pc = "attest" /\ Carries(r, flow[f])
  BY ToFacts DEF PC
<1>2. Goes(f, "incident", r)
  BY DEF CreateIncident
<1> HIDE DEF r
<1>3. /\ flow' \in [Flow -> Memory] /\ flow[f].pc = "incident" /\ flow'[f] = r
      /\ \A g \in Flow : g # f => flow'[g] = flow[g]
  BY <1>1, <1>2, GoesFacts
<1>4. Types'
  BY <1>3 DEF Types, CreateIncident, shared, own
<1>5. FlowInv(f)'
  BY <1>1, <1>3 DEF CreateIncident, Types, Carries, shared, own,
       FlowInv, IncidentMade, AssuredItself, PackHolds, LineageHolds, DecisionHolds,
       HandedOver, Early, Packing, Packed, Decided, dry
<1>6. QED
  BY <1>3, <1>4, <1>5

\* The attestation is signed.
LEMMA SignAttestationKeeps ==
  ASSUME Types, NEW f \in Flow, FlowInv(f), SignAttestation(f)
  PROVE  /\ Types' /\ FlowInv(f)'
         /\ \A g \in Flow : g # f => flow'[g] = flow[g]
<1>0. flow[f] \in Memory
  BY DEF Types
<1> DEFINE r == To(f, "assure")
<1>1. r \in Memory /\ r.pc = "assure" /\ Carries(r, flow[f])
  BY ToFacts DEF PC
<1>2. Goes(f, "attest", r)
  BY DEF SignAttestation
<1> HIDE DEF r
<1>3. /\ flow' \in [Flow -> Memory] /\ flow[f].pc = "attest" /\ flow'[f] = r
      /\ \A g \in Flow : g # f => flow'[g] = flow[g]
  BY <1>1, <1>2, GoesFacts
<1>4. Types'
  BY <1>3 DEF Types, SignAttestation, shared, own
<1>5. FlowInv(f)'
  BY <1>1, <1>3 DEF SignAttestation, Types, Carries, shared, own,
       FlowInv, IncidentMade, AssuredItself, PackHolds, LineageHolds, DecisionHolds,
       HandedOver, Early, Packing, Packed, Decided, dry
<1>6. QED
  BY <1>3, <1>4, <1>5

\* The suite's conclusion is about this run.
LEMMA AssureKeeps ==
  ASSUME Types, NEW f \in Flow, FlowInv(f), Assure(f)
  PROVE  /\ Types' /\ FlowInv(f)'
         /\ \A g \in Flow : g # f => flow'[g] = flow[g]
<1>0. flow[f] \in Memory
  BY DEF Types
<1>p. PICK blocking \in BOOLEAN :
        Goes(f, "assure", [flow[f] EXCEPT !.pc = "assured",
          !.assurance = {[run |-> f, blocking |-> blocking]}])
  BY DEF Assure
<1>c. {[run |-> f, blocking |-> blocking]} \in SUBSET Conclusion
  BY DEF Conclusion
<1> DEFINE r == [flow[f] EXCEPT !.pc = "assured",
                     !.assurance = {[run |-> f, blocking |-> blocking]}]
<1>1. /\ r \in Memory
      /\ r.pc = "assured" /\ r.assurance = {[run |-> f, blocking |-> blocking]}
      /\ r.options = flow[f].options /\ r.control_fails = flow[f].control_fails /\ r.read = flow[f].read
      /\ r.observed = flow[f].observed /\ r.trusted = flow[f].trusted /\ r.built = flow[f].built
      /\ r.lineage = flow[f].lineage /\ r.decision = flow[f].decision /\ r.overall = flow[f].overall
  BY <1>0, <1>c DEF Memory, PC
<1>2. Goes(f, "assure", r)
  BY <1>p DEF Assure
<1> HIDE DEF r
<1>3. /\ flow' \in [Flow -> Memory] /\ flow[f].pc = "assure" /\ flow'[f] = r
      /\ \A g \in Flow : g # f => flow'[g] = flow[g]
  BY <1>1, <1>2, GoesFacts
<1>4. Types'
  BY <1>3 DEF Types, Assure, shared, own
<1>5. FlowInv(f)'
  BY <1>1, <1>3 DEF Assure, Types, Carries, shared, own,
       FlowInv, IncidentMade, AssuredItself, PackHolds, LineageHolds, DecisionHolds,
       HandedOver, Early, Packing, Packed, Decided, dry
<1>6. QED
  BY <1>3, <1>4, <1>5

\* The registry is read for the pack.
LEMMA PackRegistryKeeps ==
  ASSUME Types, NEW f \in Flow, FlowInv(f), PackRegistry(f)
  PROVE  /\ Types' /\ FlowInv(f)'
         /\ \A g \in Flow : g # f => flow'[g] = flow[g]
<1>0. flow[f] \in Memory
  BY DEF Types
<1> DEFINE r == [flow[f] EXCEPT !.read = registry,
                     !.pc = IF incident[f] = {} THEN "write_pack" ELSE "pack_digest"]
<1>1. /\ r \in Memory
      /\ r.pc = (IF incident[f] = {} THEN "write_pack" ELSE "pack_digest")
      /\ r.options = flow[f].options /\ r.control_fails = flow[f].control_fails /\ r.assurance = flow[f].assurance
      /\ r.observed = flow[f].observed /\ r.trusted = flow[f].trusted /\ r.built = flow[f].built
      /\ r.lineage = flow[f].lineage /\ r.decision = flow[f].decision /\ r.overall = flow[f].overall
  BY <1>0 DEF Memory, PC, Types
<1>2. Goes(f, "pack", r)
  BY DEF PackRegistry
<1> HIDE DEF r
<1>3. /\ flow' \in [Flow -> Memory] /\ flow[f].pc = "pack" /\ flow'[f] = r
      /\ \A g \in Flow : g # f => flow'[g] = flow[g]
  BY <1>1, <1>2, GoesFacts
<1>4. Types'
  BY <1>3 DEF Types, PackRegistry, shared, own
<1>5. FlowInv(f)'
  BY <1>1, <1>3 DEF PackRegistry, Types, Carries, shared, own,
       FlowInv, IncidentMade, AssuredItself, PackHolds, LineageHolds, DecisionHolds,
       HandedOver, Early, Packing, Packed, Decided, dry
<1>6. QED
  BY <1>3, <1>4, <1>5

\* The digest that is taken is the incident's.
LEMMA PackDigestKeeps ==
  ASSUME Types, NEW f \in Flow, FlowInv(f), PackDigest(f)
  PROVE  /\ Types' /\ FlowInv(f)'
         /\ \A g \in Flow : g # f => flow'[g] = flow[g]
<1>0. flow[f] \in Memory
  BY DEF Types
<1> DEFINE r == [flow[f] EXCEPT !.observed = registry, !.pc = "pack_incident"]
<1>1. /\ r \in Memory
      /\ r.pc = "pack_incident" /\ r.observed = registry
      /\ r.options = flow[f].options /\ r.control_fails = flow[f].control_fails /\ r.assurance = flow[f].assurance
      /\ r.read = flow[f].read /\ r.trusted = flow[f].trusted /\ r.built = flow[f].built
      /\ r.lineage = flow[f].lineage /\ r.decision = flow[f].decision /\ r.overall = flow[f].overall
  BY <1>0 DEF Memory, PC, Types
<1>2. Goes(f, "pack_digest", r)
  BY DEF PackDigest
<1> HIDE DEF r
<1>3. /\ flow' \in [Flow -> Memory] /\ flow[f].pc = "pack_digest" /\ flow'[f] = r
      /\ \A g \in Flow : g # f => flow'[g] = flow[g]
  BY <1>1, <1>2, GoesFacts
<1>4. Types'
  BY <1>3 DEF Types, PackDigest, shared, own
<1>e. \A i \in incident[f] : i = registry
  BY DEF PackDigest, IncidentVerifies
<1>5. FlowInv(f)'
  BY <1>1, <1>3, <1>e DEF PackDigest, Types, Carries, shared, own,
       FlowInv, IncidentMade, AssuredItself, PackHolds, LineageHolds, DecisionHolds,
       HandedOver, Early, Packing, Packed, Decided, dry
<1>6. QED
  BY <1>3, <1>4, <1>5

\* The registry is found as it was read.
LEMMA PackIncidentKeeps ==
  ASSUME Types, NEW f \in Flow, FlowInv(f), PackIncident(f)
  PROVE  /\ Types' /\ FlowInv(f)'
         /\ \A g \in Flow : g # f => flow'[g] = flow[g]
<1>0. flow[f] \in Memory
  BY DEF Types
<1> DEFINE r == To(f, "write_pack")
<1>1. r \in Memory /\ r.pc = "write_pack" /\ Carries(r, flow[f])
  BY ToFacts DEF PC
<1>2. Goes(f, "pack_incident", r)
  BY DEF PackIncident
<1> HIDE DEF r
<1>3. /\ flow' \in [Flow -> Memory] /\ flow[f].pc = "pack_incident" /\ flow'[f] = r
      /\ \A g \in Flow : g # f => flow'[g] = flow[g]
  BY <1>1, <1>2, GoesFacts
<1>4. Types'
  BY <1>3 DEF Types, PackIncident, shared, own
<1>5. FlowInv(f)'
  BY <1>1, <1>3 DEF PackIncident, Types, Carries, shared, own,
       FlowInv, IncidentMade, AssuredItself, PackHolds, LineageHolds, DecisionHolds,
       HandedOver, Early, Packing, Packed, Decided, dry
<1>6. QED
  BY <1>3, <1>4, <1>5

\* The ZIP is written, with the digest that was observed.
LEMMA WritePackKeeps ==
  ASSUME Types, NEW f \in Flow, FlowInv(f), WritePack(f)
  PROVE  /\ Types' /\ FlowInv(f)'
         /\ \A g \in Flow : g # f => flow'[g] = flow[g]
<1>0. flow[f] \in Memory
  BY DEF Types
<1>s. <<>> \in Seq(Flow)
  OBVIOUS
<1> DEFINE r == [flow[f] EXCEPT !.pc = "sign_pack", !.read = <<>>, !.observed = <<>>]
<1>1. /\ r \in Memory
      /\ r.pc = "sign_pack"
      /\ r.options = flow[f].options /\ r.control_fails = flow[f].control_fails /\ r.assurance = flow[f].assurance
      /\ r.trusted = flow[f].trusted /\ r.built = flow[f].built /\ r.lineage = flow[f].lineage
      /\ r.decision = flow[f].decision /\ r.overall = flow[f].overall
  BY <1>0, <1>s DEF Memory, PC
<1>2. Goes(f, "write_pack", r)
  BY DEF WritePack
<1> HIDE DEF r
<1>3. /\ flow' \in [Flow -> Memory] /\ flow[f].pc = "write_pack" /\ flow'[f] = r
      /\ \A g \in Flow : g # f => flow'[g] = flow[g]
  BY <1>1, <1>2, GoesFacts
<1>w. [registry |-> flow[f].read,
       incident |-> IF incident[f] = {} THEN {} ELSE {flow[f].observed}] \in Pack
  BY <1>0 DEF Memory, Pack
<1>4. Types'
  BY <1>3, <1>w DEF Types, WritePack, shared, own
<1>e. incident[f] = {} \/ incident[f] = {flow[f].observed}
  BY <1>3 DEF FlowInv, PackHolds
<1>5. FlowInv(f)'
  BY <1>1, <1>3, <1>e DEF WritePack, Types, Carries, shared, own,
       FlowInv, IncidentMade, AssuredItself, PackHolds, LineageHolds, DecisionHolds,
       HandedOver, Early, Packing, Packed, Decided, dry
<1>6. QED
  BY <1>3, <1>4, <1>5

\* The workspace is still what the task left.
LEMMA LineageKeeps ==
  ASSUME Types, NEW f \in Flow, FlowInv(f), Lineage(f)
  PROVE  /\ Types' /\ FlowInv(f)'
         /\ \A g \in Flow : g # f => flow'[g] = flow[g]
<1>0. flow[f] \in Memory
  BY DEF Types
<1> DEFINE r == [flow[f] EXCEPT !.lineage = TRUE, !.pc = "decide"]
<1>1. /\ r \in Memory
      /\ r.pc = "decide" /\ r.lineage = TRUE
      /\ r.options = flow[f].options /\ r.control_fails = flow[f].control_fails /\ r.assurance = flow[f].assurance
      /\ r.read = flow[f].read /\ r.observed = flow[f].observed /\ r.trusted = flow[f].trusted
      /\ r.built = flow[f].built /\ r.decision = flow[f].decision /\ r.overall = flow[f].overall
  BY <1>0 DEF Memory, PC
<1>2. Goes(f, "lineage", r)
  BY DEF Lineage
<1> HIDE DEF r
<1>3. /\ flow' \in [Flow -> Memory] /\ flow[f].pc = "lineage" /\ flow'[f] = r
      /\ \A g \in Flow : g # f => flow'[g] = flow[g]
  BY <1>1, <1>2, GoesFacts
<1>4. Types'
  BY <1>3 DEF Types, Lineage, shared, own
<1>5. FlowInv(f)'
  BY <1>1, <1>3 DEF Lineage, Types, Carries, shared, own,
       FlowInv, IncidentMade, AssuredItself, PackHolds, LineageHolds, DecisionHolds,
       HandedOver, Early, Packing, Packed, Decided, dry
<1>6. QED
  BY <1>3, <1>4, <1>5

\* What is handed over is in memory and in the pack.
LEMMA HandOverKeeps ==
  ASSUME Types, NEW f \in Flow, FlowInv(f), HandOver(f)
  PROVE  /\ Types' /\ FlowInv(f)'
         /\ \A g \in Flow : g # f => flow'[g] = flow[g]
<1>0. flow[f] \in Memory
  BY DEF Types
<1> DEFINE r == To(f, "done")
<1>1. r \in Memory /\ r.pc = "done" /\ Carries(r, flow[f])
  BY ToFacts DEF PC
<1>2. Goes(f, "handoff", r)
  BY DEF HandOver
<1> HIDE DEF r
<1>3. /\ flow' \in [Flow -> Memory] /\ flow[f].pc = "handoff" /\ flow'[f] = r
      /\ \A g \in Flow : g # f => flow'[g] = flow[g]
  BY <1>1, <1>2, GoesFacts
<1>4. Types'
  BY <1>3 DEF Types, HandOver, shared, own
<1>5. FlowInv(f)'
  BY <1>1, <1>3 DEF HandOver, Types, Carries, shared, own,
       FlowInv, IncidentMade, AssuredItself, PackHolds, LineageHolds, DecisionHolds,
       HandedOver, Early, Packing, Packed, Decided, dry
<1>6. QED
  BY <1>3, <1>4, <1>5

\* A conclusion that blocks ends the flow; one that does not is this run's.
LEMMA WriteAssuranceKeeps ==
  ASSUME Types, NEW f \in Flow, FlowInv(f), WriteAssurance(f)
  PROVE  /\ Types' /\ FlowInv(f)'
         /\ \A g \in Flow : g # f => flow'[g] = flow[g]
<1> DEFINE blocked == \E a \in flow[f].assurance : a.blocking
           raised == [Fresh(flow[f].options) EXCEPT !.pc = "raised"]
           packs == To(f, "pack")
           r == IF blocked THEN raised ELSE packs
<1>0. flow[f] \in Memory
  BY DEF Types
<1>1. raised \in Memory /\ raised.pc = "raised" /\ raised.built = "task" /\ raised.lineage = FALSE
  <2>1. raised \in Memory
    BY <1>0, FreshFacts DEF Memory
  <2>2. QED
    BY <2>1 DEF Fresh
<1>2. packs \in Memory /\ packs.pc = "pack" /\ Carries(packs, flow[f])
  BY ToFacts DEF PC
<1>3. flow[f].pc = "assured" /\ flow' = [flow EXCEPT ![f] = r]
  BY <1>0 DEF WriteAssurance, To, Types
<1> HIDE DEF raised, packs
<1>4. Goes(f, "assured", r) /\ r \in Memory
  BY <1>1, <1>2, <1>3 DEF Goes
<1> HIDE DEF r
<1>5. /\ flow' \in [Flow -> Memory] /\ flow'[f] = r
      /\ \A g \in Flow : g # f => flow'[g] = flow[g]
  BY <1>4, GoesFacts
<1>6. Types'
  BY <1>0, <1>5 DEF Types, WriteAssurance, own, Memory
<1>7. CASE blocked
  <2>1. r = raised
    BY <1>7 DEF r
  <2>2. FlowInv(f)'
    BY <1>1, <1>3, <1>5, <2>1 DEF WriteAssurance, own, FlowInv, IncidentMade, AssuredItself,
       PackHolds, LineageHolds, DecisionHolds, HandedOver, Early, Packing, Packed, Decided
  <2>3. QED
    BY <1>5, <1>6, <2>2
<1>8. CASE ~blocked
  <2>1. r = packs
    BY <1>8 DEF r
  <2>2. PICK b \in BOOLEAN : flow[f].assurance = {[run |-> f, blocking |-> b]}
    BY <1>3 DEF FlowInv, AssuredItself
  <2>3. b = FALSE
    BY <1>8, <2>2
  <2>4. FlowInv(f)'
    BY <1>2, <1>3, <1>5, <2>1, <2>2, <2>3 DEF WriteAssurance, own, Carries, FlowInv,
       IncidentMade, AssuredItself, PackHolds, LineageHolds, DecisionHolds, HandedOver, Early,
       Packing, Packed, Decided, dry
  <2>5. QED
    BY <1>5, <1>6, <2>4
<1>9. QED
  BY <1>7, <1>8

\* Only a pack that verifies is signed.
LEMMA SignPackKeeps ==
  ASSUME Types, NEW f \in Flow, FlowInv(f), SignPack(f)
  PROVE  /\ Types' /\ FlowInv(f)'
         /\ \A g \in Flow : g # f => flow'[g] = flow[g]
<1>1. CASE \A p \in pack[f] : VerifyPack(p)
  <2> DEFINE r == To(f, "artifact")
  <2>1. r \in Memory /\ r.pc = "artifact" /\ Carries(r, flow[f])
    BY ToFacts DEF PC
  <2>2. Goes(f, "sign_pack", r) /\ UNCHANGED <<shared, own, suite, workspace>>
    BY <1>1 DEF SignPack
  <2> HIDE DEF r
  <2>3. /\ flow' \in [Flow -> Memory] /\ flow[f].pc = "sign_pack" /\ flow'[f] = r
        /\ \A g \in Flow : g # f => flow'[g] = flow[g]
    BY <2>1, <2>2, GoesFacts
  <2>4. Types'
    BY <2>2, <2>3 DEF Types, shared, own
  <2>5. FlowInv(f)'
    BY <1>1, <2>1, <2>2, <2>3 DEF shared, own, Carries, FlowInv, IncidentMade, AssuredItself,
       PackHolds, LineageHolds, DecisionHolds, HandedOver, Early, Packing, Packed, Decided,
       dry, VerifyPack
  <2>6. QED
    BY <2>3, <2>4, <2>5
<1>2. CASE ~\A p \in pack[f] : VerifyPack(p)
  BY <1>2, RaisesKeeps DEF SignPack
<1>3. QED
  BY <1>1, <1>2

\* The artifact is built from the workspace as it is then.
LEMMA TrustArtifactKeeps ==
  ASSUME Types, NEW f \in Flow, FlowInv(f), TrustArtifact(f)
  PROVE  /\ Types' /\ FlowInv(f)'
         /\ \A g \in Flow : g # f => flow'[g] = flow[g]
<1>0. flow[f] \in Memory /\ flow[f].options \in Options /\ workspace[f] \in {"task", "edited"}
  BY DEF Types, Memory
<1>1. PICK report \in Reports(flow[f].options) :
        Goes(f, "artifact", [flow[f] EXCEPT !.trusted = report, !.built = workspace[f],
          !.pc = IF report.overall_status = "VERIFIED" THEN "lineage" ELSE "decide"])
  BY DEF TrustArtifact
<1> DEFINE r == [flow[f] EXCEPT !.trusted = report, !.built = workspace[f],
                   !.pc = IF report.overall_status = "VERIFIED" THEN "lineage" ELSE "decide"]
<1>2. report \in Trusted
  BY <1>0, ReportsAreTrusted
<1>3. /\ r \in Memory
      /\ r.pc = (IF report.overall_status = "VERIFIED" THEN "lineage" ELSE "decide")
      /\ r.options = flow[f].options /\ r.assurance = flow[f].assurance
      /\ r.trusted = report /\ r.built = workspace[f] /\ r.lineage = flow[f].lineage
  BY <1>0, <1>2 DEF Memory, PC
<1> HIDE DEF r
<1>4. Goes(f, "artifact", r) /\ UNCHANGED <<shared, own, suite, workspace>>
  BY <1>1 DEF r, TrustArtifact
<1>5. /\ flow' \in [Flow -> Memory] /\ flow[f].pc = "artifact" /\ flow'[f] = r
      /\ \A g \in Flow : g # f => flow'[g] = flow[g]
  BY <1>3, <1>4, GoesFacts
<1>6. Types'
  BY <1>4, <1>5 DEF Types, shared, own
<1>7. FlowInv(f)'
  BY <1>3, <1>4, <1>5 DEF shared, own, FlowInv, IncidentMade, AssuredItself, PackHolds,
     LineageHolds, DecisionHolds, HandedOver, Early, Packing, Packed, Decided, dry
<1>8. QED
  BY <1>5, <1>6, <1>7

\* A live flow whose artifact did not verify is blocked by its decision, too.
LEMMA DecideKeeps ==
  ASSUME Types, NEW f \in Flow, FlowInv(f), Decide(f)
  PROVE  /\ Types' /\ FlowInv(f)'
         /\ \A g \in Flow : g # f => flow'[g] = flow[g]
<1>0. flow[f] \in Memory
  BY DEF Types
<1>1. PICK fails \in BOOLEAN :
        LET d == Decision(fails, flow[f].trusted, summary, flow[f].options) IN
          Goes(f, "decide", [flow[f] EXCEPT !.pc = "handoff", !.control_fails = fails,
            !.decision = d,
            !.overall = CASE dry(f) -> "DRY_RUN"
                          [] ~dry(f) /\ ~flow[f].lineage -> "BLOCKED"
                          [] OTHER -> d])
  BY DEF Decide
<1> DEFINE d == Decision(fails, flow[f].trusted, summary, flow[f].options)
           o == CASE dry(f) -> "DRY_RUN" [] ~dry(f) /\ ~flow[f].lineage -> "BLOCKED" [] OTHER -> d
           r == [flow[f] EXCEPT !.pc = "handoff", !.control_fails = fails, !.decision = d,
                                !.overall = o]
<1>2. d \in {"BLOCKED", "CONDITIONAL"}
  BY DecisionIsOne
<1>3. /\ ~dry(f) /\ flow[f].trusted.overall_status # "VERIFIED" => d = "BLOCKED"
      /\ fails => d = "BLOCKED"
  BY DEF Decision, dry
<1>4. Goes(f, "decide", r) /\ UNCHANGED <<shared, own, suite, workspace>>
  BY <1>1 DEF Decide
<1> HIDE DEF d
<1>5. o \in Disposition /\ d \in Disposition
  BY <1>2 DEF Disposition
<1>6. /\ ~dry(f) /\ flow[f].lineage => o = d
      /\ ~dry(f) /\ ~flow[f].lineage => o = "BLOCKED"
  OBVIOUS
<1> HIDE DEF o
<1>7. /\ r \in Memory /\ r.pc = "handoff" /\ r.control_fails = fails /\ r.decision = d
      /\ r.overall = o /\ r.options = flow[f].options /\ r.assurance = flow[f].assurance
      /\ r.trusted = flow[f].trusted /\ r.built = flow[f].built /\ r.lineage = flow[f].lineage
  BY <1>0, <1>5 DEF Memory, PC
<1> HIDE DEF r
<1>8. /\ flow' \in [Flow -> Memory] /\ flow[f].pc = "decide" /\ flow'[f] = r
      /\ \A g \in Flow : g # f => flow'[g] = flow[g]
  BY <1>4, <1>7, GoesFacts
<1>9. Types'
  BY <1>4, <1>8 DEF Types, shared, own
<1>10. flow[f].lineage \in BOOLEAN
  BY <1>0 DEF Memory
<1>11. DecisionHolds(f)'
  <2>1. dry(f)' = dry(f)
    BY <1>7, <1>8 DEF dry
  <2>2. ~dry(f) /\ ~flow[f].lineage => d = "BLOCKED"
    BY <1>3, <1>8 DEF FlowInv, LineageHolds
  <2>3. ~dry(f) => o = d
    BY <1>6, <1>10, <2>2
  <2>4. ~dry(f) /\ d # "BLOCKED" => ~fails /\ flow[f].trusted.overall_status = "VERIFIED"
    BY <1>3
  <2>5. QED
    BY <1>7, <1>8, <2>1, <2>3, <2>4 DEF DecisionHolds
<1>12. FlowInv(f)'
  BY <1>4, <1>7, <1>8, <1>11 DEF shared, own, FlowInv, IncidentMade, AssuredItself, PackHolds,
     LineageHolds, HandedOver, Early, Packing, Packed, Decided, dry
<1>13. QED
  BY <1>8, <1>9, <1>12

\* An edit leaves the flow's memory alone, and the workspace not as the task left it.
LEMMA EditKeeps ==
  ASSUME Types, NEW f \in Flow, FlowInv(f), Edit(f)
  PROVE  Types' /\ FlowInv(f)'
<1>1. Types' /\ workspace'[f] = "edited"
  BY DEF Edit, Types, shared, own
<1>2. QED
  BY <1>1 DEF Edit, shared, own, FlowInv, IncidentMade, AssuredItself, PackHolds, LineageHolds,
     DecisionHolds, HandedOver, dry, VerifyPack

\* What a step of a flow leaves of the files of the others.
LEMMA StepTouches ==
  ASSUME Types, NEW f \in Flow, Step(f) \/ Crash(f) \/ Edit(f)
  PROVE  /\ \A g \in Flow : g # f =>
              /\ incident'[g] = incident[g] /\ pack'[g] = pack[g]
              /\ handoff'[g] = handoff[g] /\ workspace'[g] = workspace[g]
         /\ registry' = registry \/ registry' = Append(registry, f)
<1>1. CASE Assess(f) \/ FinishAssessment(f) \/ Register(f) \/ CreateIncident(f)
           \/ SignAttestation(f) \/ Assure(f) \/ AssureOther(f) \/ WriteAssurance(f)
  BY <1>1 DEF Types, Assess, FinishAssessment, Register, CreateIncident, SignAttestation,
     Assure, AssureOther, WriteAssurance, Raises, shared, own
<1>2. CASE PackRegistry(f) \/ PackDigest(f) \/ PackDigestRaises(f) \/ PackIncident(f)
           \/ PackIncidentRaises(f) \/ WritePack(f) \/ SignPack(f)
  BY <1>2 DEF Types, PackRegistry, PackDigest, PackDigestRaises, PackIncident,
     PackIncidentRaises, WritePack, SignPack, Raises, shared, own
<1>3. CASE TrustArtifact(f) \/ Lineage(f) \/ LineageRaises(f) \/ Decide(f) \/ HandOver(f)
           \/ Crash(f) \/ Edit(f)
  BY <1>3 DEF Types, TrustArtifact, Lineage, LineageRaises, Decide, HandOver, Crash, Edit,
     Raises, shared, own
<1>4. QED
  BY <1>1, <1>2, <1>3 DEF Step

\* A step of a flow, for that flow.
LEMMA StepKeeps ==
  ASSUME Types, NEW f \in Flow, FlowInv(f), Step(f) \/ Crash(f) \/ Edit(f)
  PROVE  /\ Types' /\ FlowInv(f)'
         /\ \A g \in Flow : g # f => flow'[g] = flow[g]
<1>1. CASE Assess(f)
  BY <1>1, AssessKeeps
<1>2. CASE FinishAssessment(f)
  BY <1>2, FinishAssessmentKeeps
<1>3. CASE Register(f)
  BY <1>3, RegisterKeeps
<1>4. CASE CreateIncident(f)
  BY <1>4, CreateIncidentKeeps
<1>5. CASE SignAttestation(f)
  BY <1>5, SignAttestationKeeps
<1>6. CASE Assure(f)
  BY <1>6, AssureKeeps
<1>7. CASE AssureOther(f) \/ PackDigestRaises(f) \/ PackIncidentRaises(f) \/ LineageRaises(f)
           \/ Crash(f)
  BY <1>7, RaisesKeeps DEF AssureOther, PackDigestRaises, PackIncidentRaises, LineageRaises, Crash
<1>8. CASE WriteAssurance(f)
  BY <1>8, WriteAssuranceKeeps
<1>9. CASE PackRegistry(f)
  BY <1>9, PackRegistryKeeps
<1>10. CASE PackDigest(f)
  BY <1>10, PackDigestKeeps
<1>11. CASE PackIncident(f)
  BY <1>11, PackIncidentKeeps
<1>12. CASE WritePack(f)
  BY <1>12, WritePackKeeps
<1>13. CASE SignPack(f)
  BY <1>13, SignPackKeeps
<1>14. CASE TrustArtifact(f)
  BY <1>14, TrustArtifactKeeps
<1>15. CASE Lineage(f)
  BY <1>15, LineageKeeps
<1>16. CASE Decide(f)
  BY <1>16, DecideKeeps
<1>17. CASE HandOver(f)
  BY <1>17, HandOverKeeps
<1>18. CASE Edit(f)
  BY <1>18, EditKeeps DEF Edit
<1>19. QED
  BY <1>1, <1>2, <1>3, <1>4, <1>5, <1>6, <1>7, <1>8, <1>9, <1>10, <1>11, <1>12, <1>13, <1>14,
     <1>15, <1>16, <1>17, <1>18 DEF Step

\* Every flow keeps its invariant, whichever moves, and whatever the assurance
\* commands write.
Inv == Types /\ \A f \in Flow : FlowInv(f)

LEMMA InvKept ==
  ASSUME Inv, [Next]_vars
  PROVE  Inv'
<1>1. ASSUME NEW f \in Flow, Step(f) \/ Crash(f) \/ Edit(f)
      PROVE  Inv'
  <2>1. /\ Types' /\ FlowInv(f)'
        /\ \A g \in Flow : g # f => flow'[g] = flow[g]
    BY <1>1, StepKeeps DEF Inv
  <2>2. ASSUME NEW g \in Flow, g # f
        PROVE  FlowInv(g)'
    BY <1>1, <2>1, <2>2, StepTouches, OthersKeep DEF Inv
  <2>3. QED
    BY <2>1, <2>2 DEF Inv
<1>2. CASE UNCHANGED <<flow, registry, own, workspace>>
           /\ newest' = newest /\ summary' \subseteq Conclusion
           /\ suite' \in [Suite -> [pc : {"idle", "write", "done"}, result : SUBSET Conclusion]]
  <2>1. Types'
    BY <1>2 DEF Inv, Types, own
  <2>2. ASSUME NEW f \in Flow
        PROVE  FlowInv(f)'
    <3>1. FlowInv(f)
      BY DEF Inv
    <3>2. IncidentMade(f)' /\ AssuredItself(f)' /\ PackHolds(f)'
      BY <1>2, <3>1 DEF own, FlowInv, IncidentMade, AssuredItself, PackHolds, dry
    <3>3. LineageHolds(f)' /\ DecisionHolds(f)' /\ HandedOver(f)'
      BY <1>2, <3>1 DEF own, FlowInv, LineageHolds, DecisionHolds, HandedOver, dry
    <3>4. QED
      BY <3>2, <3>3 DEF FlowInv
  <2>3. QED
    BY <2>1, <2>2 DEF Inv
<1>3. ASSUME NEW s \in Suite, StartSuite(s)
      PROVE  Inv'
  <2>1. PICK r \in Flow, blocking \in BOOLEAN :
          suite' = [suite EXCEPT ![s] =
            [pc |-> "write", result |-> {[run |-> r, blocking |-> blocking]}]]
    BY <1>3 DEF StartSuite
  <2>2. {[run |-> r, blocking |-> blocking]} \in SUBSET Conclusion
    BY DEF Conclusion
  <2>3. suite' \in [Suite -> [pc : {"idle", "write", "done"}, result : SUBSET Conclusion]]
    BY <2>1, <2>2 DEF Inv, Types
  <2>4. QED
    BY <1>2, <1>3, <2>3 DEF StartSuite, shared, Inv, Types
<1>4. ASSUME NEW s \in Suite, EndSuite(s)
      PROVE  Inv'
  <2>1. suite' \in [Suite -> [pc : {"idle", "write", "done"}, result : SUBSET Conclusion]]
    BY <1>4 DEF EndSuite, Inv, Types
  <2>2. summary' \subseteq Conclusion
    BY <1>4 DEF EndSuite, Inv, Types
  <2>3. QED
    BY <1>2, <1>4, <2>1, <2>2 DEF EndSuite
<1>5. CASE UNCHANGED vars
  BY <1>2, <1>5 DEF vars, shared, own, Inv, Types
<1>6. QED
  BY <1>1, <1>3, <1>4, <1>5 DEF Next

\* Every flow begins with nothing done.
LEMMA InvBegins ==
  ASSUME Init
  PROVE  Inv
<1>1. PICK o \in [Flow -> Options] : flow = [f \in Flow |-> Fresh(o[f])]
  BY DEF Init
<1>2. \A f \in Flow : o[f] \in Options /\ flow[f] = Fresh(o[f])
  BY <1>1
<1>3. flow \in [Flow -> Memory]
  BY <1>1, <1>2, FreshFacts
<1>4. Types
  BY <1>3 DEF Init, Types
<1>5. ASSUME NEW f \in Flow
      PROVE  flow[f].pc = "assess" /\ flow[f].built = "task" /\ flow[f].lineage = FALSE
  <2>1. o[f] \in Options /\ flow[f] = Fresh(o[f])
    BY <1>2
  <2>2. QED
    BY <2>1, FreshFacts
<1>6. \A f \in Flow : FlowInv(f)
  BY <1>5 DEF Init, FlowInv, IncidentMade, AssuredItself, PackHolds, LineageHolds,
     DecisionHolds, HandedOver, Early, Packing, Packed, Decided
<1>7. QED
  BY <1>4, <1>6 DEF Inv

---------------------------------------------------------------------------
(* The theorems *)

\* The invariant holds throughout.
LEMMA InvHolds == Spec => []Inv
<1>1. Init => Inv
  BY InvBegins
<1>2. Inv /\ [Next]_vars => Inv'
  BY InvKept
<1>3. QED
  BY <1>1, <1>2, PTL DEF Spec

\* The memories of the flows and the files they share have their types.
THEOREM FlowTypeCorrect == Spec => []TypeOK
<1>1. Inv => TypeOK
  BY DEF Inv, Types, Memory, TypeOK
<1>2. QED
  BY <1>1, InvHolds, PTL

\* A live flow that exits with zero has its own assurance without a blocking failure,
\* no failed control, an artifact that verified, and its quarantine entry in the pack
\* it handed over; however many flows and commands share the summary and the registry.
THEOREM ZeroIsEarned == Spec => []ExitZeroIsEarned
<1>1. Inv => ExitZeroIsEarned
  <2> SUFFICES ASSUME Inv, NEW f \in Flow, flow[f].pc = "done", ExitsZero(f), ~dry(f)
               PROVE  /\ flow[f].assurance = {[run |-> f, blocking |-> FALSE]}
                      /\ ~flow[f].control_fails /\ flow[f].trusted.overall_status = "VERIFIED"
                      /\ \E h \in handoff[f] : \E p \in h.pack :
                           \E i \in DOMAIN p.registry : p.registry[i] = f
    BY DEF ExitZeroIsEarned
  <2>1. FlowInv(f)
    BY DEF Inv
  <2>2. flow[f].assurance = {[run |-> f, blocking |-> FALSE]}
    BY <2>1 DEF FlowInv, AssuredItself, Packed
  <2>3. ~flow[f].control_fails /\ flow[f].trusted.overall_status = "VERIFIED"
    BY <2>1 DEF FlowInv, DecisionHolds, Decided, ExitsZero
  <2>4. PICK i \in incident[f] : incident[f] = {i} /\ Registers(i, f)
    BY <2>1 DEF FlowInv, IncidentMade, Early
  <2>5. PICK p \in pack[f] : pack[f] = {p} /\ p.incident = incident[f] /\ VerifyPack(p)
    BY <2>1 DEF FlowInv, PackHolds, Packed
  <2>6. Registers(p.registry, f)
    BY <2>4, <2>5 DEF VerifyPack
  <2>7. PICK h \in handoff[f] : h.pack = pack[f]
    BY <2>1 DEF FlowInv, HandedOver
  <2>8. QED
    BY <2>2, <2>3, <2>6, <2>7 DEF Registers
<1>2. QED
  BY <1>1, InvHolds, PTL

\* The parts of a hand-over.
LEMMA HandOverParts ==
  ASSUME NEW dry_run, NEW decision, NEW lineage, NEW trusted, NEW packed
  PROVE  LET h == [dry_run |-> dry_run, decision |-> decision, lineage |-> lineage,
                   trusted |-> trusted, pack |-> packed]
         IN  h.decision = decision /\ h.lineage = lineage /\ h.pack = packed
OBVIOUS

\* What is handed over is what the flow holds.
LEMMA HandedParts ==
  ASSUME NEW f \in Flow, FlowInv(f), NEW h \in handoff[f]
  PROVE  h.decision = flow[f].decision /\ h.lineage = flow[f].lineage /\ h.pack = pack[f]
<1>1. h = [dry_run |-> dry(f), decision |-> flow[f].decision, lineage |-> flow[f].lineage,
           trusted |-> flow[f].trusted, pack |-> pack[f]]
  BY DEF FlowInv, HandedOver
<1>2. QED
  BY <1>1, HandOverParts, Zenon

\* The disposition a live flow reports is the one in the decision it handed over.
THEOREM ReportedIsSigned == Spec => []SignedDecisionIsReported
<1>1. Inv => SignedDecisionIsReported
  <2> SUFFICES ASSUME Inv, NEW f \in Flow, flow[f].pc = "done", ~dry(f), NEW h \in handoff[f]
               PROVE  h.decision = flow[f].overall
    BY DEF SignedDecisionIsReported
  <2>1. h.decision = flow[f].decision
    BY HandedParts DEF Inv
  <2>2. flow[f].overall = flow[f].decision
    BY DEF Inv, FlowInv, DecisionHolds, Decided
  <2>3. QED
    BY <2>1, <2>2
<1>2. QED
  BY <1>1, InvHolds, PTL

\* A signed pack has the registry its incident was made from, whoever registers while
\* the pack is made.
THEOREM PackedIsTheIncidents == Spec => []PackedRegistryIsTheIncidents
<1>1. Inv => PackedRegistryIsTheIncidents
  BY DEF Inv, FlowInv, PackHolds, Packed, VerifyPack, PackedRegistryIsTheIncidents
<1>2. QED
  BY <1>1, InvHolds, PTL

\* What a handed-over lineage calls the agent's artifact was built from what the
\* agent's task left, whichever workspaces are edited, if edits do not restore them.
THEOREM LineageIsTheTasks == Spec => []LineageNamesTheWorkspace
<1>1. Inv => LineageNamesTheWorkspace
  <2> SUFFICES ASSUME Inv, NEW f \in Flow, NEW h \in handoff[f], h.lineage
               PROVE  flow[f].built = "task"
    BY DEF LineageNamesTheWorkspace
  <2>1. h.lineage = flow[f].lineage
    BY HandedParts DEF Inv
  <2>2. flow[f].lineage
    BY <2>1, Zenon
  <2>3. QED
    BY <2>2 DEF Inv, FlowInv, LineageHolds
<1>2. QED
  BY <1>1, InvHolds, PTL

=============================================================================
