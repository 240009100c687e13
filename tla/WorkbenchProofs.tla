-------------------------- MODULE WorkbenchProofs ---------------------------
(***************************************************************************)
(* What the parts of the workbench promise, each for any number of its     *)
(* processes, and that a behaviour of the workbench is one of every part.  *)
(***************************************************************************)
EXTENDS Workbench, FiniteSetTheorems, WellFoundedInduction, TLAPS

---------------------------------------------------------------------------
(* What a verdict says *)

\* The loop over the statuses: if each of its checks passed, each status is allowed.
LEMMA StatusChecksPass ==
  ASSUME NEW profile, NEW decision, \A c \in StatusChecks(profile, decision) : c[2]
  PROVE  \A f \in DOMAIN profile.allowed :
           At(decision.status, f, NotPresent) \in profile.allowed[f]
<1> SUFFICES ASSUME NEW f \in DOMAIN profile.allowed
             PROVE  At(decision.status, f, NotPresent) \in profile.allowed[f]
  OBVIOUS
<1> DEFINE check == <<f, At(decision.status, f, NotPresent) \in profile.allowed[f]>>
<1>1. check \in StatusChecks(profile, decision)
  BY Zenon DEF StatusChecks
<1>2. check[2]
  BY <1>1
<1>3. QED
  BY <1>2

\* The loop over the counts: each count that is recorded is a number within its limit.
LEMMA CountChecksPass ==
  ASSUME NEW profile, NEW decision, \A c \in CountChecks(profile, decision) : c[2],
         \A s \in DOMAIN profile.max_assessment_counts : profile.max_assessment_counts[s] \in Int
  PROVE  \A s \in DOMAIN profile.max_assessment_counts : s \in DOMAIN decision.counts =>
           decision.counts[s] >= 0 /\ decision.counts[s] <= profile.max_assessment_counts[s]
<1> SUFFICES ASSUME NEW s \in DOMAIN profile.max_assessment_counts, s \in DOMAIN decision.counts
             PROVE  decision.counts[s] >= 0 /\ decision.counts[s] <= profile.max_assessment_counts[s]
  OBVIOUS
<1> DEFINE check == <<s, At(decision.counts, s, 0) \in 0 .. profile.max_assessment_counts[s]>>
<1>1. check \in CountChecks(profile, decision)
  BY Zenon DEF CountChecks
<1>2. check[2]
  BY <1>1
<1>3. At(decision.counts, s, 0) \in 0 .. profile.max_assessment_counts[s]
  BY <1>2
<1>4. QED
  BY <1>3 DEF At

\* The loop over the artifact's checks: each is recorded with a status that is allowed,
\* or is not there and the profile allows that.
LEMMA ArtifactChecksPass ==
  ASSUME NEW profile, NEW artifact, \A c \in ArtifactChecks(profile, artifact) : c[2]
  PROVE  \A c \in DOMAIN profile.trusted_artifact_checks :
           \/ /\ artifact # NoArtifact /\ c \in DOMAIN artifact.checks
              /\ artifact.checks[c] \in profile.trusted_artifact_checks[c]
           \/ /\ artifact = NoArtifact \/ c \notin DOMAIN artifact.checks
              /\ NotPresent \in profile.trusted_artifact_checks[c]
<1> SUFFICES ASSUME NEW c \in DOMAIN profile.trusted_artifact_checks
             PROVE  \/ /\ artifact # NoArtifact /\ c \in DOMAIN artifact.checks
                       /\ artifact.checks[c] \in profile.trusted_artifact_checks[c]
                    \/ /\ artifact = NoArtifact \/ c \notin DOMAIN artifact.checks
                       /\ NotPresent \in profile.trusted_artifact_checks[c]
  OBVIOUS
<1> DEFINE check == <<c, At(Checks(artifact), c, NotPresent) \in profile.trusted_artifact_checks[c]>>
<1>1. check \in ArtifactChecks(profile, artifact)
  BY Zenon DEF ArtifactChecks
<1>2. check[2]
  BY <1>1
<1>3. At(Checks(artifact), c, NotPresent) \in profile.trusted_artifact_checks[c]
  BY <1>2
<1>4. CASE artifact = NoArtifact
  BY <1>3, <1>4 DEF At, Checks
<1>5. CASE artifact # NoArtifact
  BY <1>3, <1>5 DEF At, Checks
<1>6. QED
  BY <1>4, <1>5

\* The loop over the facts: each is recorded beside the integrity check, as required.
LEMMA FactChecksPass ==
  ASSUME NEW profile, NEW artifact, \A c \in FactChecks(profile, artifact) : c[2]
  PROVE  \A f \in DOMAIN profile.artifact_facts :
           /\ artifact # NoArtifact /\ Integrity \in DOMAIN artifact.checks
           /\ f \in DOMAIN artifact.facts
           /\ artifact.facts[f] <=> profile.artifact_facts[f]
<1> SUFFICES ASSUME NEW f \in DOMAIN profile.artifact_facts
             PROVE  /\ artifact # NoArtifact /\ Integrity \in DOMAIN artifact.checks
                    /\ f \in DOMAIN artifact.facts
                    /\ artifact.facts[f] <=> profile.artifact_facts[f]
  OBVIOUS
<1> DEFINE passed == /\ f \in DOMAIN Facts(artifact)
                     /\ Facts(artifact)[f] <=> profile.artifact_facts[f]
           check == <<f, passed>>
<1>1. check \in FactChecks(profile, artifact)
  BY Zenon DEF FactChecks
<1>2. check[2]
  BY <1>1
<1>3. passed
  BY <1>2
<1>4. artifact # NoArtifact /\ Integrity \in DOMAIN Checks(artifact)
  BY <1>3 DEF Facts
<1>5. Checks(artifact) = artifact.checks /\ Facts(artifact) = artifact.facts
  BY <1>4 DEF Facts, Checks
<1>6. QED
  BY <1>3, <1>4, <1>5, Zenon

\* A profile that asks for nothing yields no check.
LEMMA ChecksAskSomething ==
  ASSUME NEW profile, NEW decision, NEW artifact, AllChecks(profile, decision, artifact) # {}
  PROVE  \/ DOMAIN profile.allowed # {}
         \/ DOMAIN profile.max_assessment_counts # {}
         \/ DOMAIN profile.trusted_artifact_checks # {}
         \/ DOMAIN profile.artifact_facts # {}
<1> USE DEF StatusChecks, CountChecks, ArtifactChecks, FactChecks
<1>1. DOMAIN profile.allowed = {} => StatusChecks(profile, decision) = {}
  BY Zenon
<1>2. DOMAIN profile.max_assessment_counts = {} => CountChecks(profile, decision) = {}
  BY Zenon
<1>3. DOMAIN profile.trusted_artifact_checks = {} => ArtifactChecks(profile, artifact) = {}
  BY Zenon
<1>4. DOMAIN profile.artifact_facts = {} => FactChecks(profile, artifact) = {}
  BY Zenon
<1> HIDE DEF StatusChecks, CountChecks, ArtifactChecks, FactChecks
<1>5. QED
  BY <1>1, <1>2, <1>3, <1>4 DEF AllChecks

\* A PASS is earned: the recorded checks are all the requirements, one by one.
LEMMA PassMeets ==
  ASSUME NEW profile, NEW decision, NEW artifact,
         \A s \in DOMAIN profile.max_assessment_counts : profile.max_assessment_counts[s] \in Int,
         Verdict(AllChecks(profile, decision, artifact)) = "PASS"
  PROVE  Meets(profile, decision, artifact)
<1>1. AllChecks(profile, decision, artifact) # {} /\ \A c \in AllChecks(profile, decision, artifact) : c[2]
  BY DEF Verdict
<1>2. /\ \A c \in StatusChecks(profile, decision) : c[2]
      /\ \A c \in CountChecks(profile, decision) : c[2]
      /\ \A c \in ArtifactChecks(profile, artifact) : c[2]
      /\ \A c \in FactChecks(profile, artifact) : c[2]
  BY <1>1, Zenon DEF AllChecks
<1>3. \A f \in DOMAIN profile.allowed :
        At(decision.status, f, NotPresent) \in profile.allowed[f]
  BY <1>2, StatusChecksPass, Zenon
<1>4. \A s \in DOMAIN profile.max_assessment_counts : s \in DOMAIN decision.counts =>
        decision.counts[s] >= 0 /\ decision.counts[s] <= profile.max_assessment_counts[s]
  BY <1>2, CountChecksPass, Zenon
<1>5. \A c \in DOMAIN profile.trusted_artifact_checks :
        \/ /\ artifact # NoArtifact /\ c \in DOMAIN artifact.checks
           /\ artifact.checks[c] \in profile.trusted_artifact_checks[c]
        \/ /\ artifact = NoArtifact \/ c \notin DOMAIN artifact.checks
           /\ NotPresent \in profile.trusted_artifact_checks[c]
  BY <1>2, ArtifactChecksPass, Zenon
<1>6. \A f \in DOMAIN profile.artifact_facts :
        /\ artifact # NoArtifact /\ Integrity \in DOMAIN artifact.checks
        /\ f \in DOMAIN artifact.facts
        /\ artifact.facts[f] <=> profile.artifact_facts[f]
  BY <1>2, FactChecksPass, Zenon
<1>7. QED
  BY <1>1, <1>3, <1>4, <1>5, <1>6, ChecksAskSomething, Zenon DEF Meets

---------------------------------------------------------------------------
(* Type correctness *)

Profiles == Profile \cup {Builtin}

\* The evaluations, the envelopes, and whatever else the output can hold.
EvaluationOf(p, h) == EvaluatePolicy(p, h.decision, h.artifact, 2)
Evaluations == {EvaluationOf(pair[1], pair[2]) : pair \in Profiles \X Handoff}

Packed(h, p, e) ==
  [whole |-> TRUE, handoff |-> h, profile |-> p, evaluation |-> e,
   statement |-> Bindings(h, e), manifest |-> Bindings(h, e)]
Envelopes ==
  {Packed(triple[1], triple[2], triple[3]) : triple \in Handoff \X Profiles \X Evaluations}

Unfinished == {Opened(a) : a \in Acceptor} \cup {Mixed}
Outputs == Envelopes \cup Unfinished

Held == [pc : AcceptorPC, handoff : Handoff, source : {"file", "builtin"},
         bytes : SUBSET Profiles, evaluation : SUBSET Evaluations, opened : BOOLEAN,
         signs : SUBSET Outputs]

AcceptTypes ==
  /\ policy \in Profile /\ edits \in 0 .. MaxEdits
  /\ envelope \subseteq Outputs /\ envelopeSignature \subseteq Outputs
  /\ acceptor \in [Acceptor -> Held]

\* What a process packs is one of the envelopes.
LEMMA EnvelopeType ==
  ASSUME NEW a \in Acceptor, AcceptTypes
  PROVE  Envelope(a) \subseteq Envelopes
<1>1. acceptor[a] \in Held
  BY DEF AcceptTypes
<1>2. /\ acceptor[a].handoff \in Handoff /\ acceptor[a].bytes \subseteq Profiles
      /\ acceptor[a].evaluation \subseteq Evaluations
  BY <1>1 DEF Held
<1>3. ASSUME NEW p \in acceptor[a].bytes, NEW e \in acceptor[a].evaluation
      PROVE  Packed(acceptor[a].handoff, p, e) \in Envelopes
  <2> DEFINE triple == <<acceptor[a].handoff, p, e>>
  <2>1. triple \in Handoff \X Profiles \X Evaluations
    BY <1>2
  <2>2. QED
    BY <2>1 DEF Envelopes
<1>4. ASSUME NEW x \in Envelope(a)
      PROVE  \E p \in acceptor[a].bytes, e \in acceptor[a].evaluation :
               x = Packed(acceptor[a].handoff, p, e)
  BY <1>4 DEF Envelope, Packed
<1>5. QED
  BY <1>3, <1>4

\* The evaluation a process makes is one of the evaluations.
LEMMA EvaluationType ==
  ASSUME NEW a \in Acceptor, AcceptTypes
  PROVE  PolicySource(a) \in Profiles /\ Evaluation(a) \in Evaluations
<1>1. acceptor[a].handoff \in Handoff
  BY DEF AcceptTypes, Held
<1>2. PolicySource(a) \in Profiles
  BY DEF AcceptTypes, PolicySource, Profiles
<1>3. <<PolicySource(a), acceptor[a].handoff>> \in Profiles \X Handoff
  BY <1>1, <1>2
<1>4. Evaluation(a) = EvaluationOf(PolicySource(a), acceptor[a].handoff)
  BY Zenon DEF Evaluation, EvaluationOf
<1>5. QED
  BY <1>2, <1>3, <1>4 DEF Evaluations

\* Every step of a process keeps the types.
LEMMA StepTypes ==
  ASSUME AcceptTypes, NEW a \in Acceptor, AcceptStep(a)
  PROVE  AcceptTypes'
<1> USE DEF AcceptTypes, AcceptorAt
<1>h. acceptor[a] \in Held
  OBVIOUS
<1>1. CASE AcceptReadPolicy(a)
  <2> DEFINE next == [acceptor[a] EXCEPT !.pc = "handoff", !.bytes = {PolicySource(a)}]
  <2>1. next \in Held
    BY EvaluationType, <1>h DEF Held, AcceptorPC
  <2>2. acceptor' = [acceptor EXCEPT ![a] = next]
    BY <1>1 DEF AcceptReadPolicy
  <2>3. QED
    BY <1>1, <2>1, <2>2 DEF AcceptReadPolicy
<1>2. CASE AcceptHandoff(a)
  BY <1>2 DEF AcceptHandoff, Held, AcceptorPC
<1>3. CASE AcceptHandoffRaises(a)
  BY <1>3 DEF AcceptHandoffRaises, Held, AcceptorPC
<1>4. CASE AcceptEvaluate(a)
  <2> DEFINE next == [acceptor[a] EXCEPT !.pc = "open", !.evaluation = {Evaluation(a)}]
  <2>1. next \in Held
    BY EvaluationType, <1>h DEF Held, AcceptorPC
  <2>2. acceptor' = [acceptor EXCEPT ![a] = next]
    BY <1>4 DEF AcceptEvaluate
  <2>3. QED
    BY <1>4, <2>1, <2>2 DEF AcceptEvaluate
<1>5. CASE AcceptEvaluateRaises(a)
  BY <1>5 DEF AcceptEvaluateRaises, Held, AcceptorPC
<1>6. CASE AcceptOpen(a)
  <2>1. Opened(a) \in Outputs
    BY Zenon DEF Outputs, Unfinished
  <2>2. [acceptor[a] EXCEPT !.pc = "write", !.opened = TRUE] \in Held
    BY <1>h DEF Held, AcceptorPC
  <2>3. QED
    BY <1>6, <2>1, <2>2 DEF AcceptOpen
<1>7. CASE AcceptWrite(a)
  <2>1. Mixed \in Outputs /\ Envelope(a) \subseteq Outputs
    BY EnvelopeType, Zenon DEF Outputs, Unfinished
  <2>2. acceptor' \in [Acceptor -> Held]
    BY <1>7 DEF AcceptWrite, Held, AcceptorPC
  <2>3. QED
    BY <1>7, <2>1, <2>2 DEF AcceptWrite
<1>8. CASE AcceptSign(a)
  <2> DEFINE next == [acceptor[a] EXCEPT !.pc = "signature", !.signs = envelope]
  <2>1. next \in Held
    BY <1>h DEF Held, AcceptorPC
  <2>2. acceptor' = [acceptor EXCEPT ![a] = next]
    BY <1>8 DEF AcceptSign
  <2>3. QED
    BY <1>8, <2>1, <2>2 DEF AcceptSign
<1>9. CASE AcceptWriteSignature(a)
  BY <1>9 DEF AcceptWriteSignature, Held, AcceptorPC
<1>10. CASE AcceptVerify(a)
  BY <1>10 DEF AcceptVerify, Held, AcceptorPC
<1>11. CASE AcceptVerifySignature(a)
  BY <1>11 DEF AcceptVerifySignature, Held, AcceptorPC
<1>12. CASE AcceptVerifyRaises(a)
  BY <1>12 DEF AcceptVerifyRaises, Held, AcceptorPC
<1>13. QED
  BY <1>1, <1>2, <1>3, <1>4, <1>5, <1>6, <1>7, <1>8, <1>9, <1>10, <1>11, <1>12 DEF AcceptStep

\* The types hold in every behaviour.
THEOREM AcceptTypesHold == AcceptSpec => []AcceptTypes
<1>1. AcceptInit => AcceptTypes
  <2> SUFFICES ASSUME NEW p \in Profile, NEW h \in [Acceptor -> Handoff],
                      NEW s \in [Acceptor -> {"file", "builtin"}], AcceptStart(p, h, s)
               PROVE  AcceptTypes
    BY DEF AcceptInit
  <2> QED
    BY AcceptanceAssumption DEF AcceptStart, AcceptTypes, Held, AcceptorPC
<1>2. AcceptTypes /\ [AcceptNext]_acceptVars => AcceptTypes'
  <2> SUFFICES ASSUME AcceptTypes, [AcceptNext]_acceptVars PROVE AcceptTypes'
    OBVIOUS
  <2>1. CASE EditPolicy
    BY <2>1, AcceptanceAssumption DEF EditPolicy, AcceptTypes
  <2>2. CASE \E a \in Acceptor : AcceptStep(a)
    BY <2>2, StepTypes
  <2>3. CASE UNCHANGED acceptVars
    BY <2>3 DEF acceptVars, AcceptTypes
  <2>4. QED
    BY <2>1, <2>2, <2>3 DEF AcceptNext
<1>3. QED
  BY <1>1, <1>2, PTL DEF AcceptSpec

\* Each evaluation names the profile it was made of.
LEMMA EvaluationNames ==
  ASSUME NEW v \in Evaluations
  PROVE  v.profile_sha256 \in Profiles
<1>1. PICK pair \in Profiles \X Handoff : v = EvaluationOf(pair[1], pair[2])
  BY DEF Evaluations
<1>2. QED
  BY <1>1 DEF EvaluationOf, EvaluatePolicy

\* Only an envelope is whole.
LEMMA WholeIsEnvelope ==
  ASSUME NEW e \in Outputs, e.whole
  PROVE  e.handoff \in Handoff /\ e.profile \in Profiles
<1>1. e \notin Unfinished
  BY DEF Unfinished, Opened, Mixed
<1>2. e \in Envelopes
  BY <1>1 DEF Outputs
<1>3. PICK triple \in Handoff \X Profiles \X Evaluations :
        e = Packed(triple[1], triple[2], triple[3])
  BY <1>2 DEF Envelopes
<1>4. QED
  BY <1>3 DEF Packed

\* AcceptTypeOK, the type invariant of the run.
THEOREM AcceptTypeCorrect == AcceptSpec => []AcceptTypeOK
<1>1. AcceptTypes => AcceptTypeOK
  <2> SUFFICES ASSUME AcceptTypes PROVE AcceptTypeOK
    OBVIOUS
  <2>1. ASSUME NEW a \in Acceptor
        PROVE  /\ acceptor[a].pc \in AcceptorPC
               /\ acceptor[a].handoff \in Handoff /\ acceptor[a].source \in {"file", "builtin"}
               /\ acceptor[a].bytes \subseteq Profile \cup {Builtin}
               /\ acceptor[a].opened \in BOOLEAN
               /\ \A e \in acceptor[a].evaluation : e.profile_sha256 \in Profile \cup {Builtin}
    <3>1. acceptor[a] \in Held
      BY DEF AcceptTypes
    <3>2. acceptor[a].evaluation \subseteq Evaluations
      BY <3>1 DEF Held
    <3>3. \A e \in acceptor[a].evaluation : e.profile_sha256 \in Profiles
      BY <3>2, EvaluationNames
    <3>4. QED
      BY <3>1, <3>3 DEF Held, Profiles
  <2>2. \A e \in envelope \cup envelopeSignature : e.whole => e.handoff \in Handoff
    BY WholeIsEnvelope DEF AcceptTypes
  <2>3. QED
    BY <2>1, <2>2 DEF AcceptTypeOK, AcceptTypes
<1>2. QED
  BY <1>1, AcceptTypesHold, PTL

---------------------------------------------------------------------------
(* An envelope that verifies, and a create that returned, meet the policy *)

Past == {"evaluate", "open", "write", "sign", "signature", "verify", "signed", "done"}

\* What a process holds is a verdict on its own hand-over, once that has verified.
HoldsPass(r) ==
  /\ r.pc \in Past => r.handoff.verifies
  /\ \A v \in r.evaluation :
       Verdict(AllChecks(v.profile_sha256, r.handoff.decision, r.handoff.artifact)) = "PASS"

PassInv == \A a \in Acceptor : HoldsPass(acceptor[a])

\* The verdict of an evaluation is the one of its profile.
LEMMA EvaluationPasses ==
  ASSUME NEW a \in Acceptor, Evaluation(a).status = "PASS"
  PROVE  Verdict(AllChecks(Evaluation(a).profile_sha256, acceptor[a].handoff.decision,
                           acceptor[a].handoff.artifact)) = "PASS"
  BY DEF Evaluation, EvaluatePolicy

\* Every step of a process keeps what it holds.
LEMMA StepHoldsPass ==
  ASSUME AcceptTypes, PassInv, NEW a \in Acceptor, AcceptStep(a)
  PROVE  PassInv'
<1>1. SUFFICES /\ HoldsPass(acceptor[a])'
               /\ \A b \in Acceptor \ {a} : acceptor'[b] = acceptor[b]
  BY DEF PassInv, HoldsPass
<1>2. acceptor \in [Acceptor -> Held] /\ acceptor[a] \in Held /\ HoldsPass(acceptor[a])
  BY DEF AcceptTypes, PassInv
<1> USE DEF AcceptorAt, Past
<1>3. CASE AcceptEvaluate(a)
  <2>1. /\ acceptor'[a] = [acceptor[a] EXCEPT !.pc = "open", !.evaluation = {Evaluation(a)}]
        /\ \A b \in Acceptor \ {a} : acceptor'[b] = acceptor[b]
    BY <1>2, <1>3 DEF AcceptEvaluate
  <2>2. /\ acceptor'[a].pc = "open" /\ acceptor'[a].evaluation = {Evaluation(a)}
        /\ acceptor'[a].handoff = acceptor[a].handoff
    BY <1>2, <2>1 DEF Held
  <2>3. acceptor[a].handoff.verifies
    BY <1>2, <1>3 DEF AcceptEvaluate, HoldsPass
  <2>4. Verdict(AllChecks(Evaluation(a).profile_sha256, acceptor[a].handoff.decision,
                          acceptor[a].handoff.artifact)) = "PASS"
    BY <1>3, EvaluationPasses DEF AcceptEvaluate
  <2>5. QED
    BY <2>1, <2>2, <2>3, <2>4 DEF HoldsPass
<1>4. CASE ~AcceptEvaluate(a)
  <2>1. /\ \A b \in Acceptor \ {a} : acceptor'[b] = acceptor[b]
        /\ acceptor'[a].handoff = acceptor[a].handoff
        /\ acceptor'[a].evaluation = acceptor[a].evaluation
        /\ acceptor'[a].pc \in Past => acceptor[a].pc \in Past \/ acceptor[a].handoff.verifies
    <3>1. CASE AcceptReadPolicy(a)
      BY <3>1, <1>2 DEF AcceptReadPolicy, Held
    <3>2. CASE AcceptHandoff(a) \/ AcceptHandoffRaises(a)
      BY <3>2, <1>2 DEF AcceptHandoff, AcceptHandoffRaises, Held
    <3>3. CASE AcceptEvaluateRaises(a) \/ AcceptOpen(a)
      BY <3>3, <1>2 DEF AcceptEvaluateRaises, AcceptOpen, Held
    <3>4. CASE AcceptWrite(a) \/ AcceptSign(a) \/ AcceptWriteSignature(a)
      BY <3>4, <1>2 DEF AcceptWrite, AcceptSign, AcceptWriteSignature, Held
    <3>5. CASE AcceptVerify(a) \/ AcceptVerifySignature(a) \/ AcceptVerifyRaises(a)
      BY <3>5, <1>2 DEF AcceptVerify, AcceptVerifySignature, AcceptVerifyRaises, Held
    <3>6. QED
      BY <1>4, <3>1, <3>2, <3>3, <3>4, <3>5 DEF AcceptStep
  <2>2. HoldsPass(acceptor'[a])
    BY <1>2, <2>1 DEF HoldsPass
  <2>3. QED
    BY <2>1, <2>2 DEF HoldsPass
<1>5. QED
  BY <1>1, <1>3, <1>4

\* What every process holds is a pass, in every behaviour.
LEMMA PassInvHolds == AcceptSpec => []PassInv
<1>1. AcceptInit => PassInv
  <2> SUFFICES ASSUME NEW p \in Profile, NEW h \in [Acceptor -> Handoff],
                      NEW s \in [Acceptor -> {"file", "builtin"}], AcceptStart(p, h, s)
               PROVE  PassInv
    BY DEF AcceptInit
  <2> QED
    BY DEF AcceptStart, PassInv, HoldsPass, Past
<1>2. AcceptTypes /\ PassInv /\ [AcceptNext]_acceptVars => PassInv'
  <2> SUFFICES ASSUME AcceptTypes, PassInv, [AcceptNext]_acceptVars PROVE PassInv'
    OBVIOUS
  <2>1. CASE \E a \in Acceptor : AcceptStep(a)
    BY <2>1, StepHoldsPass
  <2>2. CASE UNCHANGED acceptor
    BY <2>2 DEF PassInv, HoldsPass
  <2>3. QED
    BY <2>1, <2>2 DEF AcceptNext, EditPolicy, acceptVars
<1>3. QED
  BY <1>1, <1>2, AcceptTypesHold, PTL DEF AcceptSpec

\* AcceptedMeetsItsPolicy: whatever is edited and whoever writes, what is accepted meets
\* the policy it names, requirement by requirement.
THEOREM AcceptedMeetsPolicy == AcceptSpec => []AcceptedMeetsItsPolicy
<1>1. AcceptTypes /\ PassInv => AcceptedMeetsItsPolicy
  <2> SUFFICES ASSUME AcceptTypes, PassInv PROVE AcceptedMeetsItsPolicy
    OBVIOUS
  <2>1. ASSUME NEW e \in envelope, VerifyEnvelope(e)
        PROVE  e.handoff.verifies /\ Meets(e.profile, e.handoff.decision, e.handoff.artifact)
    <3>1. e.whole /\ e.handoff.verifies
      BY <2>1 DEF VerifyEnvelope
    <3>2. e.profile \in Profiles
      BY <3>1, WholeIsEnvelope DEF AcceptTypes
    <3>3. Verdict(AllChecks(e.profile, e.handoff.decision, e.handoff.artifact)) = "PASS"
      BY <2>1 DEF VerifyEnvelope, EvaluatePolicy
    <3>4. QED
      BY <3>1, <3>2, <3>3, PassMeets, AcceptanceAssumption DEF Profiles
  <2>2. ASSUME NEW a \in Acceptor, acceptor[a].pc = "done", NEW v \in acceptor[a].evaluation
        PROVE  /\ acceptor[a].handoff.verifies
               /\ Meets(v.profile_sha256, acceptor[a].handoff.decision,
                        acceptor[a].handoff.artifact)
    <3>1. acceptor[a] \in Held /\ HoldsPass(acceptor[a])
      BY DEF AcceptTypes, PassInv
    <3>2. v \in Evaluations
      BY <2>2, <3>1 DEF Held
    <3>3. v.profile_sha256 \in Profiles
      BY <3>2, EvaluationNames
    <3>4. /\ acceptor[a].handoff.verifies
          /\ Verdict(AllChecks(v.profile_sha256, acceptor[a].handoff.decision,
                               acceptor[a].handoff.artifact)) = "PASS"
      BY <2>2, <3>1 DEF HoldsPass, Past
    <3>5. QED
      BY <3>3, <3>4, PassMeets, AcceptanceAssumption DEF Profiles
  <2>3. QED
    BY <2>1, <2>2 DEF AcceptedMeetsItsPolicy
<1>2. QED
  BY <1>1, AcceptTypesHold, PassInvHolds, PTL

---------------------------------------------------------------------------
(* A settled output verifies *)

\* Somebody who touched the output has not yet looked at what lies there, or saw
\* that it does not verify and raised.
Looking(r, where) == r.opened /\ r.pc \in where

Unverified == {"write", "sign", "signature", "verify", "raised"}
Unsigned == Unverified \cup {"signed"}

EnvelopeWatched ==
  \/ \A e \in envelope : VerifyEnvelope(e)
  \/ \E a \in Acceptor : Looking(acceptor[a], Unverified)

SignatureWatched ==
  \/ envelopeSignature = envelope
  \/ \E a \in Acceptor : Looking(acceptor[a], Unsigned)

\* A process that is past the opening has touched the output.
Touched ==
  \A a \in Acceptor : acceptor[a].pc \in {"write", "sign", "signature", "verify", "signed"}
                        => acceptor[a].opened

SettledInv == Touched /\ EnvelopeWatched /\ SignatureWatched

\* What a step of process a leaves alone, and how far it goes.
LEMMA StepLooks ==
  ASSUME AcceptTypes, Touched, NEW a \in Acceptor, AcceptStep(a)
  PROVE  /\ \A b \in Acceptor \ {a} : acceptor'[b] = acceptor[b]
         /\ Touched'
         /\ envelope' # envelope => Looking(acceptor'[a], Unverified)
         /\ envelopeSignature' # envelopeSignature => Looking(acceptor'[a], Unverified)
         /\ Looking(acceptor[a], Unverified) /\ ~Looking(acceptor'[a], Unverified) =>
              /\ \A e \in envelope : VerifyEnvelope(e)
              /\ envelope' = envelope /\ Looking(acceptor'[a], {"signed"})
         /\ Looking(acceptor[a], {"signed"}) /\ ~Looking(acceptor'[a], Unsigned) =>
              /\ envelopeSignature = envelope
              /\ UNCHANGED <<envelope, envelopeSignature>>
<1>1. acceptor \in [Acceptor -> Held] /\ acceptor[a] \in Held
  BY DEF AcceptTypes
<1> USE DEF AcceptorAt, Touched, Looking, Unverified, Unsigned
<1>2. CASE AcceptReadPolicy(a) \/ AcceptHandoff(a) \/ AcceptHandoffRaises(a)
  BY <1>1, <1>2 DEF AcceptReadPolicy, AcceptHandoff, AcceptHandoffRaises, Held
<1>3. CASE AcceptEvaluate(a) \/ AcceptEvaluateRaises(a)
  BY <1>1, <1>3 DEF AcceptEvaluate, AcceptEvaluateRaises, Held
<1>4. CASE AcceptOpen(a) \/ AcceptWrite(a)
  BY <1>1, <1>4 DEF AcceptOpen, AcceptWrite, Held
<1>5. CASE AcceptSign(a) \/ AcceptWriteSignature(a)
  BY <1>1, <1>5 DEF AcceptSign, AcceptWriteSignature, Held
<1>6. CASE AcceptVerify(a) \/ AcceptVerifySignature(a)
  BY <1>1, <1>6 DEF AcceptVerify, AcceptVerifySignature, Held
<1>7. CASE AcceptVerifyRaises(a)
  BY <1>1, <1>7 DEF AcceptVerifyRaises, Held
<1>8. QED
  BY <1>2, <1>3, <1>4, <1>5, <1>6, <1>7 DEF AcceptStep

\* An output that nobody watches is one that verifies.
LEMMA StepSettles ==
  ASSUME AcceptTypes, SettledInv, NEW a \in Acceptor, AcceptStep(a)
  PROVE  SettledInv'
<1>2. EnvelopeWatched'
  <2>1. CASE Looking(acceptor'[a], Unverified)
    BY <2>1 DEF EnvelopeWatched, Looking
  <2>2. CASE ~Looking(acceptor'[a], Unverified)
    <3>1. envelope' = envelope
      BY <2>2, StepLooks DEF SettledInv
    <3>2. CASE \A e \in envelope : VerifyEnvelope(e)
      BY <3>1, <3>2 DEF EnvelopeWatched, VerifyEnvelope
    <3>3. CASE \E c \in Acceptor : Looking(acceptor[c], Unverified)
      <4>1. PICK c \in Acceptor : Looking(acceptor[c], Unverified)
        BY <3>3
      <4>2. CASE c = a
        BY <4>1, <4>2, <2>2, <3>1, StepLooks DEF SettledInv, EnvelopeWatched, VerifyEnvelope
      <4>3. CASE c # a
        BY <4>1, <4>3, StepLooks DEF SettledInv, EnvelopeWatched, Looking
      <4>4. QED
        BY <4>2, <4>3
    <3>4. QED
      BY <3>2, <3>3 DEF SettledInv, EnvelopeWatched
  <2>3. QED
    BY <2>1, <2>2
<1>3. SignatureWatched'
  <2>1. CASE Looking(acceptor'[a], Unsigned)
    BY <2>1 DEF SignatureWatched, Looking
  <2>2. CASE ~Looking(acceptor'[a], Unsigned)
    <3>1. ~Looking(acceptor'[a], Unverified) /\ ~Looking(acceptor'[a], {"signed"})
      BY <2>2 DEF Looking, Unsigned
    <3>2. envelope' = envelope /\ envelopeSignature' = envelopeSignature
      BY <3>1, StepLooks DEF SettledInv
    <3>3. CASE envelopeSignature = envelope
      BY <3>2, <3>3 DEF SignatureWatched
    <3>4. CASE \E c \in Acceptor : Looking(acceptor[c], Unsigned)
      <4>1. PICK c \in Acceptor : Looking(acceptor[c], Unsigned)
        BY <3>4
      <4>2. CASE c = a
        <5>1. Looking(acceptor[a], Unverified) \/ Looking(acceptor[a], {"signed"})
          BY <4>1, <4>2 DEF Looking, Unsigned
        <5>2. envelopeSignature = envelope
          BY <5>1, <3>1, <2>2, StepLooks DEF SettledInv
        <5>3. QED
          BY <5>2, <3>2 DEF SignatureWatched
      <4>3. CASE c # a
        BY <4>1, <4>3, StepLooks DEF SettledInv, SignatureWatched, Looking
      <4>4. QED
        BY <4>2, <4>3
    <3>5. QED
      BY <3>3, <3>4 DEF SettledInv, SignatureWatched
  <2>3. QED
    BY <2>1, <2>2
<1>4. QED
  BY <1>2, <1>3, StepLooks DEF SettledInv

\* SettledEnvelopeVerifies: when every process that touched the output has returned, the
\* envelope there verifies and the signature beside it is of it.
THEOREM SettledEnvelope == AcceptSpec => []SettledEnvelopeVerifies
<1>1. AcceptInit => SettledInv
  <2> SUFFICES ASSUME NEW p \in Profile, NEW h \in [Acceptor -> Handoff],
                      NEW s \in [Acceptor -> {"file", "builtin"}], AcceptStart(p, h, s)
               PROVE  SettledInv
    BY DEF AcceptInit
  <2> QED
    BY DEF AcceptStart, SettledInv, Touched, EnvelopeWatched, SignatureWatched
<1>2. AcceptTypes /\ SettledInv /\ [AcceptNext]_acceptVars => SettledInv'
  <2> SUFFICES ASSUME AcceptTypes, SettledInv, [AcceptNext]_acceptVars PROVE SettledInv'
    OBVIOUS
  <2>1. CASE \E a \in Acceptor : AcceptStep(a)
    BY <2>1, StepSettles
  <2>2. CASE UNCHANGED <<acceptor, envelope, envelopeSignature>>
    BY <2>2 DEF SettledInv, Touched, EnvelopeWatched, SignatureWatched, Looking, VerifyEnvelope
  <2>3. QED
    BY <2>1, <2>2 DEF AcceptNext, EditPolicy, acceptVars
<1>3. SettledInv => SettledEnvelopeVerifies
  <2> SUFFICES ASSUME SettledInv, \A a \in Acceptor : acceptor[a].opened => acceptor[a].pc = "done"
               PROVE  (\A e \in envelope : VerifyEnvelope(e)) /\ envelopeSignature = envelope
    BY DEF SettledEnvelopeVerifies
  <2>1. \A a \in Acceptor : ~Looking(acceptor[a], Unsigned) /\ ~Looking(acceptor[a], Unverified)
    BY DEF Looking, Unsigned, Unverified
  <2>2. QED
    BY <2>1 DEF SettledInv, EnvelopeWatched, SignatureWatched
<1>4. QED
  BY <1>1, <1>2, <1>3, AcceptTypesHold, PTL DEF AcceptSpec

---------------------------------------------------------------------------
(* Inventories *)

\* An inventory lists some of the files, each with what it holds.
Trees == UNION {[D -> Text \ {Absent}] : D \in SUBSET File}
Workspaces == [File -> Text \cup {Absent}]

\* A tree is a function on some of the files.
LEMMA TreeType ==
  ASSUME NEW t \in Trees
  PROVE  /\ DOMAIN t \subseteq File /\ t \in [DOMAIN t -> Text \ {Absent}]
         /\ \A f \in DOMAIN t : t[f] \in Text /\ t[f] # Absent
<1>1. PICK D \in SUBSET File : t \in [D -> Text \ {Absent}]
  BY DEF Trees
<1>2. QED
  BY <1>1

\* The inventory that lists nothing.
LEMMA NothingIsTree == Nothing \in Trees /\ DOMAIN Nothing = {}
<1>1. Nothing \in [{} -> Text \ {Absent}] /\ DOMAIN Nothing = {}
  BY DEF Nothing
<1>2. QED
  BY <1>1 DEF Trees

\* One more file is listed.
LEMMA WithIsTree ==
  ASSUME NEW t \in Trees, NEW f \in File, NEW x \in Text \ {Absent}
  PROVE  /\ With(t, f, x) \in Trees /\ DOMAIN With(t, f, x) = DOMAIN t \cup {f}
         /\ \A g \in DOMAIN t \cup {f} : With(t, f, x)[g] = IF g = f THEN x ELSE t[g]
<1> DEFINE D == DOMAIN t \cup {f}
           u == [g \in D |-> IF g = f THEN x ELSE t[g]]
<1>1. D \in SUBSET File /\ u \in [D -> Text \ {Absent}]
  BY TreeType
<1>2. u \in Trees
  BY <1>1 DEF Trees
<1>3. With(t, f, x) = u
  BY Zenon DEF With
<1>4. QED
  BY <1>2, <1>3

\* A tree that lists every file that is there, as it is, is the inventory.
LEMMA TreeIsInventory ==
  ASSUME NEW t \in Trees, NEW w, DOMAIN t = Present(w), \A f \in DOMAIN t : t[f] = w[f]
  PROVE  t = Inventory(w)
<1>1. t \in [DOMAIN t -> Text \ {Absent}]
  BY TreeType
<1>2. t = [f \in DOMAIN t |-> t[f]]
  BY <1>1
<1>3. QED
  BY <1>2 DEF Inventory

\* What is written to the capsule is there, and the rest stays.
LEMMA WithAdds ==
  ASSUME NEW c, NEW name, NEW x
  PROVE  /\ DOMAIN With(c, name, x) = DOMAIN c \cup {name}
         /\ With(c, name, x)[name] = x
         /\ \A n \in DOMAIN c : n # name => With(c, name, x)[n] = c[n]
  BY DEF With

---------------------------------------------------------------------------
(* Type correctness *)

SessionPC == {"copy", "inventory", "run", "wait", "observe", "inventory again", "session",
              "config", "finalize", "manifest", "done", "raised"}

Sessions == [pc : SessionPC, todo : SUBSET File, tree : Trees, before : Trees,
             returncode : SUBSET {0, 1, 124, 127}]

LiveTypes ==
  /\ template \in Workspaces /\ workspace \in Workspaces
  /\ sandbox \in {"none", "running", "ended"}
  /\ DOMAIN capsule \subseteq CapsuleFile
  /\ session \in Sessions

\* What is there can be listed.
LEMMA PresentType ==
  ASSUME NEW w
  PROVE  Present(w) \in SUBSET File
  BY DEF Present

\* Every step of the session, of the agent and of others keeps the types.
LEMMA LiveStepTypes ==
  ASSUME LiveTypes, LiveNext
  PROVE  LiveTypes'
<1> USE DEF LiveTypes, SessionTo
<1>1. CASE CopyFile
  <2>1. PICK f \in session.todo : /\ workspace' = [workspace EXCEPT ![f] = template[f]]
                                  /\ session' = [session EXCEPT !.todo = @ \ {f}]
    BY <1>1 DEF CopyFile
  <2>2. session' \in Sessions
    BY <2>1 DEF Sessions
  <2>3. f \in File /\ workspace' \in Workspaces
    BY <2>1 DEF Sessions, Workspaces
  <2>4. QED
    BY <1>1, <2>2, <2>3 DEF CopyFile
<1>2. CASE CopyEnds
  <2>1. session' \in Sessions
    BY <1>2, PresentType DEF CopyEnds, Sessions, SessionPC
  <2>2. QED
    BY <1>2, <2>1 DEF CopyEnds
<1>3. CASE HashFile
  <2>1. PICK f \in session.todo : /\ workspace[f] # Absent
                                  /\ session' = [session EXCEPT !.todo = @ \ {f},
                                                   !.tree = With(session.tree, f, workspace[f])]
    BY <1>3 DEF HashFile
  <2>2. f \in File /\ session.tree \in Trees
    BY <2>1 DEF Sessions
  <2>3. workspace[f] \in Text \ {Absent}
    BY <2>1, <2>2 DEF Workspaces
  <2>4. With(session.tree, f, workspace[f]) \in Trees
    BY <2>2, <2>3, WithIsTree
  <2>5. session' \in Sessions
    BY <2>1, <2>4 DEF Sessions
  <2>6. QED
    BY <1>3, <2>5 DEF HashFile
<1>4. CASE SkipFile
  <2>1. PICK f \in session.todo : session' = [session EXCEPT !.todo = @ \ {f}]
    BY <1>4 DEF SkipFile
  <2>2. session' \in Sessions
    BY <2>1 DEF Sessions
  <2>3. QED
    BY <1>4, <2>2 DEF SkipFile
<1>5. CASE TreeRaises
  BY <1>5 DEF TreeRaises, Sessions, SessionPC
<1>6. CASE WriteBefore
  <2>1. session' \in Sessions
    BY <1>6, NothingIsTree DEF WriteBefore, Sessions, SessionPC
  <2>2. DOMAIN capsule' = DOMAIN capsule \cup {"workspace-before"}
    <3>1. PICK content : capsule' = With(capsule, "workspace-before", content)
      BY <1>6, Zenon DEF WriteBefore, Writes
    <3>2. QED
      BY <3>1, WithAdds, Zenon
  <2>3. DOMAIN capsule' \subseteq CapsuleFile
    BY <2>2 DEF CapsuleFile
  <2>4. UNCHANGED <<template, workspace, sandbox>>
    BY <1>6 DEF WriteBefore
  <2>5. QED
    BY <2>1, <2>3, <2>4
<1>7. CASE RunAgent
  BY <1>7 DEF RunAgent, Sessions, SessionPC
<1>8. CASE RunsNothing
  <2>1. PICK code \in {0, 127} : session' = [session EXCEPT !.pc = "observe", !.returncode = {code}]
    BY <1>8 DEF RunsNothing
  <2>2. session' \in Sessions
    BY <2>1 DEF Sessions, SessionPC
  <2>3. QED
    BY <1>8, <2>2 DEF RunsNothing
<1>9. CASE RunTimeout
  <2>1. session' \in Sessions
    BY <1>9 DEF RunTimeout, Sessions, SessionPC
  <2>2. QED
    BY <1>9, <2>1 DEF RunTimeout
<1>10. CASE WriteExecution
  <2>1. session' \in Sessions
    BY <1>10, PresentType DEF WriteExecution, Sessions, SessionPC
  <2>2. DOMAIN capsule' = DOMAIN capsule \cup {"agent-execution"}
    <3>1. PICK content : capsule' = With(capsule, "agent-execution", content)
      BY <1>10, Zenon DEF WriteExecution, Writes
    <3>2. QED
      BY <3>1, WithAdds, Zenon
  <2>3. DOMAIN capsule' \subseteq CapsuleFile
    BY <2>2 DEF CapsuleFile
  <2>4. UNCHANGED <<template, workspace, sandbox>>
    BY <1>10 DEF WriteExecution
  <2>5. QED
    BY <2>1, <2>3, <2>4
<1>11. CASE WriteAfter
  <2>1. session' \in Sessions
    BY <1>11 DEF WriteAfter, Sessions, SessionPC
  <2>2. DOMAIN capsule' = DOMAIN capsule \cup {"workspace-after"} \cup {"workspace-changes"}
    <3>1. PICK x, y : capsule' = With(With(capsule, "workspace-after", x), "workspace-changes", y)
      BY <1>11, Zenon DEF WriteAfter
    <3> DEFINE first == With(capsule, "workspace-after", x)
    <3>2. DOMAIN first = DOMAIN capsule \cup {"workspace-after"}
      BY WithAdds, Zenon
    <3>3. DOMAIN With(first, "workspace-changes", y) = DOMAIN first \cup {"workspace-changes"}
      BY WithAdds, Zenon
    <3>4. QED
      BY <3>1, <3>2, <3>3, Zenon
  <2>3. DOMAIN capsule' \subseteq CapsuleFile
    BY <2>2 DEF CapsuleFile
  <2>4. UNCHANGED <<template, workspace, sandbox>>
    BY <1>11 DEF WriteAfter
  <2>5. QED
    BY <2>1, <2>3, <2>4
<1>12. CASE WriteSession
  <2>1. session' \in Sessions
    BY <1>12 DEF WriteSession, Sessions, SessionPC
  <2>2. DOMAIN capsule' = DOMAIN capsule \cup {"session"}
    <3>1. PICK content : capsule' = With(capsule, "session", content)
      BY <1>12, Zenon DEF WriteSession, Writes
    <3>2. QED
      BY <3>1, WithAdds, Zenon
  <2>3. DOMAIN capsule' \subseteq CapsuleFile
    BY <2>2 DEF CapsuleFile
  <2>4. UNCHANGED <<template, workspace, sandbox>>
    BY <1>12 DEF WriteSession
  <2>5. QED
    BY <2>1, <2>3, <2>4
<1>13. CASE MakeAssessmentConfig
  <2>1. session' \in Sessions
    BY <1>13 DEF MakeAssessmentConfig, Sessions, SessionPC
  <2>2. DOMAIN capsule' = DOMAIN capsule \cup {"assessment-config"}
    <3>1. PICK content : capsule' = With(capsule, "assessment-config", content)
      BY <1>13, Zenon DEF MakeAssessmentConfig, Writes
    <3>2. QED
      BY <3>1, WithAdds, Zenon
  <2>3. DOMAIN capsule' \subseteq CapsuleFile
    BY <2>2 DEF CapsuleFile
  <2>4. UNCHANGED <<template, workspace, sandbox>>
    BY <1>13 DEF MakeAssessmentConfig
  <2>5. QED
    BY <2>1, <2>3, <2>4
<1>14. CASE OpenManifest \/ FinalizeManifest
  BY <1>14 DEF OpenManifest, FinalizeManifest, Sessions, SessionPC
<1>15. CASE AgentEdits
  BY <1>15 DEF AgentEdits, Workspaces
<1>16. CASE AgentEnds
  <2>1. CASE UNCHANGED session
    BY <1>16, <2>1 DEF AgentEnds
  <2>2. CASE ~UNCHANGED session
    <3>1. PICK code \in {0, 1} : session' = [session EXCEPT !.pc = "observe", !.returncode = {code}]
      BY <1>16, <2>2 DEF AgentEnds
    <3>2. session' \in Sessions
      BY <3>1 DEF Sessions, SessionPC
    <3>3. QED
      BY <1>16, <3>2 DEF AgentEnds
  <2>3. QED
    BY <2>1, <2>2
<1>17. CASE EditTemplate
  BY <1>17 DEF EditTemplate, Workspaces
<1>18. QED
  BY <1>1, <1>2, <1>3, <1>4, <1>5, <1>6, <1>7, <1>8, <1>9, <1>10, <1>11, <1>12, <1>13, <1>14,
     <1>15, <1>16, <1>17 DEF LiveNext, LiveStep

\* The types hold in every behaviour.
LEMMA LiveTypesHold == LiveSpec => []LiveTypes
<1>1. LiveInit => LiveTypes
  <2> SUFFICES ASSUME NEW tree \in [File -> Text \cup {Absent}], LiveStart(tree)
               PROVE  LiveTypes
    BY DEF LiveInit
  <2>1. session \in Sessions
    BY NothingIsTree, PresentType DEF LiveStart, Sessions, SessionPC
  <2>2. QED
    BY <2>1, NothingIsTree DEF LiveStart, LiveTypes, Workspaces
<1>2. LiveTypes /\ [LiveNext]_liveVars => LiveTypes'
  BY LiveStepTypes DEF liveVars, LiveTypes
<1>3. QED
  BY <1>1, <1>2, PTL DEF LiveSpec

\* LiveTypeOK, the type invariant of the run.
THEOREM LiveTypeCorrect == LiveSpec => []LiveTypeOK
<1>1. LiveTypes => LiveTypeOK
  <2> SUFFICES ASSUME LiveTypes PROVE LiveTypeOK
    OBVIOUS
  <2>1. session.tree \in Trees
    BY DEF LiveTypes, Sessions
  <2>2. DOMAIN session.tree \subseteq File
    BY <2>1, TreeType
  <2>3. QED
    BY <2>2 DEF LiveTypes, LiveTypeOK, Sessions, SessionPC, Workspaces
<1>2. QED
  BY <1>1, LiveTypesHold, PTL

---------------------------------------------------------------------------
(* The inductive invariant *)

HasBefore    == {"run", "wait", "observe", "inventory again", "session", "config", "finalize",
                 "manifest", "done"}
HasReturned  == HasBefore \ {"run", "wait"}
HasExecution == HasReturned \ {"observe"}
HasAfter     == HasExecution \ {"inventory again"}
HasSession   == HasAfter \ {"session"}
HasConfig    == HasSession \ {"config"}

\* The session's record of itself.
SessionRecord ==
  [execution |-> session.returncode, workspace_before |-> session.before,
   workspace_after |-> session.tree, changes |-> ChangedPaths(session.before, session.tree)]

\* The capsule holds what the session has gathered so far.
CapsuleInv ==
  /\ session.pc \in HasBefore =>
       "workspace-before" \in DOMAIN capsule /\ capsule["workspace-before"] = session.before
  /\ session.pc \in HasExecution =>
       "agent-execution" \in DOMAIN capsule /\ capsule["agent-execution"] = session.returncode
  /\ session.pc \in HasAfter =>
       /\ {"workspace-after", "workspace-changes"} \subseteq DOMAIN capsule
       /\ capsule["workspace-after"] = session.tree
       /\ capsule["workspace-changes"] = ChangedPaths(session.before, session.tree)
  /\ session.pc \in HasSession =>
       "session" \in DOMAIN capsule /\ capsule["session"] = SessionRecord
  /\ session.pc \in HasConfig => "assessment-config" \in DOMAIN capsule

\* A whole manifest is there once the session is done, and nothing is left to list then.
ManifestInv ==
  /\ session.pc # "done" => \A m \in manifest : ~m.whole
  /\ session.todo # {} => session.pc \in {"copy", "inventory", "inventory again", "raised"}

\* Where the agent can be at work: while it is waited for, and afterwards only when it
\* was given up.
AgentInv ==
  /\ session.pc \in {"copy", "inventory", "run"} => sandbox = "none"
  /\ session.pc = "wait" => sandbox = "running"
  /\ session.pc \in HasReturned =>
       (sandbox = "running" => session.returncode = {124})
  /\ sandbox = "none" => session.returncode # {124}

\* The inventory that is being made lists what was reached of the workspace, which does
\* not change meanwhile; the finished ones list all of it.
TreeInv ==
  /\ session.pc \in {"copy", "run", "wait", "observe"} => session.tree = Nothing
  /\ session.pc \in {"inventory", "inventory again"} /\ session.returncode # {124} =>
       /\ session.todo \cup DOMAIN session.tree = Present(workspace)
       /\ \A f \in DOMAIN session.tree : session.tree[f] = workspace[f]
  /\ session.pc \in HasAfter /\ session.returncode # {124} =>
       session.tree = Inventory(workspace)
  /\ session.pc \in HasBefore /\ sandbox = "none" => session.before = Inventory(workspace)

\* A session that runs nothing does not say 124.
LEMMA CodeIsNoTimeout ==
  ASSUME NEW code \in {0, 127}
  PROVE  {code} # {124}
<1>1. SUFFICES ASSUME {code} = {124} PROVE FALSE
  OBVIOUS
<1>2. code \in {124}
  BY <1>1
<1>3. QED
  BY <1>2

\* Nobody waits for an agent that was never started, and one that is not given up has ended.
LEMMA AgentInvStep ==
  ASSUME LiveTypes, AgentInv, LiveNext
  PROVE  AgentInv'
<1> USE DEF AgentInv, SessionTo, HasReturned, HasBefore, LiveTypes
<1>1. session \in Sessions
  OBVIOUS
<1>2. CASE CopyFile
  BY <1>1, <1>2 DEF CopyFile, Sessions
<1>3. CASE CopyEnds
  BY <1>1, <1>3 DEF CopyEnds, Sessions
<1>4. CASE HashFile
  BY <1>1, <1>4 DEF HashFile, Sessions
<1>5. CASE SkipFile
  BY <1>1, <1>5 DEF SkipFile, Sessions
<1>6. CASE TreeRaises
  BY <1>1, <1>6 DEF TreeRaises, Sessions
<1>7. CASE WriteBefore
  BY <1>1, <1>7 DEF WriteBefore, Sessions
<1>8. CASE RunAgent
  BY <1>1, <1>8 DEF RunAgent, Sessions
<1>9. CASE RunTimeout
  BY <1>1, <1>9 DEF RunTimeout, Sessions
<1>10. CASE RunsNothing
  <2>1. PICK code \in {0, 127} : session' = [session EXCEPT !.pc = "observe", !.returncode = {code}]
    BY <1>10 DEF RunsNothing
  <2>2. session'.pc = "observe" /\ session'.returncode = {code}
    BY <1>1, <2>1 DEF Sessions
  <2>3. {code} # {124}
    BY CodeIsNoTimeout
  <2>4. QED
    BY <1>10, <2>2, <2>3 DEF RunsNothing
<1>11. CASE WriteExecution
  BY <1>1, <1>11 DEF WriteExecution, Sessions
<1>12. CASE WriteAfter
  BY <1>1, <1>12 DEF WriteAfter, Sessions
<1>13. CASE WriteSession
  BY <1>1, <1>13 DEF WriteSession, Sessions
<1>14. CASE MakeAssessmentConfig
  BY <1>1, <1>14 DEF MakeAssessmentConfig, Sessions
<1>15. CASE OpenManifest
  BY <1>1, <1>15 DEF OpenManifest, Sessions
<1>16. CASE FinalizeManifest
  BY <1>1, <1>16 DEF FinalizeManifest, Sessions
<1>17. CASE AgentEdits
  BY <1>17 DEF AgentEdits
<1>18. CASE EditTemplate
  BY <1>18 DEF EditTemplate
<1>19. CASE AgentEnds
  <2>1. sandbox' = "ended"
    BY <1>19 DEF AgentEnds
  <2>2. session'.pc \notin {"copy", "inventory", "run", "wait"}
    BY <1>1, <1>19 DEF AgentEnds, Sessions
  <2>3. QED
    BY <2>1, <2>2
<1>20. QED
  BY <1>2, <1>3, <1>4, <1>5, <1>6, <1>7, <1>8, <1>9, <1>10, <1>11, <1>12, <1>13, <1>14, <1>15, <1>16, <1>17, <1>18, <1>19 DEF LiveNext, LiveStep

\* A manifest is whole only at the end, and the listings are over by then.
LEMMA ManifestInvStep ==
  ASSUME LiveTypes, ManifestInv, LiveNext
  PROVE  ManifestInv'
<1> USE DEF ManifestInv, SessionTo, LiveTypes
<1>1. session \in Sessions
  OBVIOUS
<1>2. CASE CopyFile
  BY <1>1, <1>2 DEF CopyFile, Sessions
<1>3. CASE CopyEnds
  BY <1>1, <1>3 DEF CopyEnds, Sessions
<1>4. CASE HashFile
  BY <1>1, <1>4 DEF HashFile, Sessions
<1>5. CASE SkipFile
  BY <1>1, <1>5 DEF SkipFile, Sessions
<1>6. CASE TreeRaises
  BY <1>1, <1>6 DEF TreeRaises, Sessions
<1>7. CASE WriteBefore
  BY <1>1, <1>7 DEF WriteBefore, Sessions
<1>8. CASE RunAgent
  BY <1>1, <1>8 DEF RunAgent, Sessions
<1>9. CASE RunTimeout
  BY <1>1, <1>9 DEF RunTimeout, Sessions
<1>10. CASE RunsNothing
  BY <1>1, <1>10 DEF RunsNothing, Sessions
<1>11. CASE WriteExecution
  BY <1>1, <1>11 DEF WriteExecution, Sessions
<1>12. CASE WriteAfter
  BY <1>1, <1>12 DEF WriteAfter, Sessions
<1>13. CASE WriteSession
  BY <1>1, <1>13 DEF WriteSession, Sessions
<1>14. CASE MakeAssessmentConfig
  BY <1>1, <1>14 DEF MakeAssessmentConfig, Sessions
<1>15. CASE OpenManifest
  BY <1>1, <1>15 DEF OpenManifest, Sessions
<1>16. CASE FinalizeManifest
  BY <1>1, <1>16 DEF FinalizeManifest, Sessions
<1>17. CASE AgentEdits
  BY <1>17 DEF AgentEdits
<1>18. CASE EditTemplate
  BY <1>18 DEF EditTemplate
<1>19. CASE AgentEnds
  <2>1. manifest' = manifest /\ session'.todo = session.todo
    BY <1>1, <1>19 DEF AgentEnds, Sessions
  <2>2. \/ session'.pc = session.pc
        \/ session.pc = "wait" /\ session'.pc = "observe"
    BY <1>1, <1>19 DEF AgentEnds, Sessions
  <2>3. QED
    BY <2>1, <2>2
<1>20. QED
  BY <1>2, <1>3, <1>4, <1>5, <1>6, <1>7, <1>8, <1>9, <1>10, <1>11, <1>12, <1>13, <1>14, <1>15, <1>16, <1>17, <1>18, <1>19 DEF LiveNext, LiveStep


\* What is written to the capsule is what the session holds, and neither changes after.
LEMMA CapsuleInvStep ==
  ASSUME LiveTypes, CapsuleInv, LiveNext
  PROVE  CapsuleInv'
<1> USE DEF CapsuleInv, SessionRecord, SessionTo, LiveTypes, HasConfig, HasSession, HasAfter,
            HasExecution, HasReturned, HasBefore
<1>1. session \in Sessions
  OBVIOUS
<1>2. CASE CopyFile
  BY <1>1, <1>2 DEF CopyFile, Sessions
<1>3. CASE CopyEnds
  BY <1>1, <1>3 DEF CopyEnds, Sessions
<1>4. CASE HashFile
  BY <1>1, <1>4 DEF HashFile, Sessions
<1>5. CASE SkipFile
  BY <1>1, <1>5 DEF SkipFile, Sessions
<1>6. CASE TreeRaises
  BY <1>1, <1>6 DEF TreeRaises, Sessions
<1>7. CASE WriteBefore
  <2>1. capsule' = With(capsule, "workspace-before", session.tree)
    BY <1>7, Zenon DEF WriteBefore, Writes
  <2>2. /\ DOMAIN capsule' = DOMAIN capsule \cup {"workspace-before"} /\ capsule'["workspace-before"] = session.tree
        /\ \A n \in DOMAIN capsule : n # "workspace-before" => capsule'[n] = capsule[n]
    BY <2>1 DEF With
  <2>3. QED
    BY <1>1, <1>7, <2>2 DEF WriteBefore, Sessions
<1>8. CASE RunAgent
  BY <1>1, <1>8 DEF RunAgent, Sessions
<1>9. CASE RunsNothing
  BY <1>1, <1>9 DEF RunsNothing, Sessions
<1>10. CASE RunTimeout
  BY <1>1, <1>10 DEF RunTimeout, Sessions
<1>11. CASE WriteExecution
  <2>1. capsule' = With(capsule, "agent-execution", session.returncode)
    BY <1>11, Zenon DEF WriteExecution, Writes
  <2>2. /\ DOMAIN capsule' = DOMAIN capsule \cup {"agent-execution"} /\ capsule'["agent-execution"] = session.returncode
        /\ \A n \in DOMAIN capsule : n # "agent-execution" => capsule'[n] = capsule[n]
    BY <2>1 DEF With
  <2>3. QED
    BY <1>1, <1>11, <2>2 DEF WriteExecution, Sessions
<1>12. CASE WriteAfter
  <2> DEFINE changes == ChangedPaths(session.before, session.tree)
             first == With(capsule, "workspace-after", session.tree)
  <2>1. capsule' = With(first, "workspace-changes", changes)
    BY <1>12, Zenon DEF WriteAfter
  <2>2. /\ DOMAIN first = DOMAIN capsule \cup {"workspace-after"}
        /\ first["workspace-after"] = session.tree
        /\ \A n \in DOMAIN capsule : n # "workspace-after" => first[n] = capsule[n]
    BY DEF With
  <2> HIDE DEF first, changes
  <2>3. /\ DOMAIN capsule' = DOMAIN first \cup {"workspace-changes"}
        /\ capsule'["workspace-changes"] = changes
        /\ \A n \in DOMAIN first : n # "workspace-changes" => capsule'[n] = first[n]
    BY <2>1 DEF With
  <2>4. session' = [session EXCEPT !.pc = "session"] /\ session.pc = "inventory again"
    BY <1>12 DEF WriteAfter
  <2>5. QED
    BY <1>1, <2>2, <2>3, <2>4 DEF changes, Sessions
<1>13. CASE WriteSession
  <2>1. capsule' = With(capsule, "session", SessionRecord)
    BY <1>13, Zenon DEF WriteSession, Writes, SessionRecord
  <2>2. /\ DOMAIN capsule' = DOMAIN capsule \cup {"session"} /\ capsule'["session"] = SessionRecord
        /\ \A n \in DOMAIN capsule : n # "session" => capsule'[n] = capsule[n]
    BY <2>1 DEF With
  <2>3. QED
    BY <1>1, <1>13, <2>2 DEF WriteSession, Sessions
<1>14. CASE MakeAssessmentConfig
  <2>1. capsule' = With(capsule, "assessment-config", "session")
    BY <1>14, Zenon DEF MakeAssessmentConfig, Writes
  <2>2. /\ DOMAIN capsule' = DOMAIN capsule \cup {"assessment-config"} /\ capsule'["assessment-config"] = "session"
        /\ \A n \in DOMAIN capsule : n # "assessment-config" => capsule'[n] = capsule[n]
    BY <2>1 DEF With
  <2>3. QED
    BY <1>1, <1>14, <2>2 DEF MakeAssessmentConfig, Sessions
<1>15. CASE OpenManifest
  BY <1>1, <1>15 DEF OpenManifest, Sessions
<1>16. CASE FinalizeManifest
  BY <1>1, <1>16 DEF FinalizeManifest, Sessions
<1>17. CASE AgentEdits
  BY <1>1, <1>17 DEF AgentEdits, Sessions
<1>18. CASE AgentEnds
  BY <1>1, <1>18 DEF AgentEnds, Sessions
<1>19. CASE EditTemplate
  BY <1>1, <1>19 DEF EditTemplate, Sessions
<1>20. QED
  BY <1>2, <1>3, <1>4, <1>5, <1>6, <1>7, <1>8, <1>9, <1>10, <1>11, <1>12, <1>13, <1>14, <1>15, <1>16, <1>17, <1>18, <1>19 DEF LiveNext, LiveStep


\* The inventory follows the workspace: what changes one changes the other, or is too
\* late for a session that does not say 124.
LEMMA TreeInvStep ==
  ASSUME LiveTypes, ManifestInv, AgentInv, TreeInv, LiveNext
  PROVE  TreeInv'
<1> USE DEF TreeInv, SessionTo, LiveTypes, HasAfter, HasExecution, HasReturned, HasBefore
<1>1. session \in Sessions /\ session.tree \in Trees /\ session.todo \subseteq File
  BY DEF Sessions
<1>2. CASE CopyFile
  BY <1>1, <1>2 DEF CopyFile, Sessions
<1>3. CASE CopyEnds
  <2>1. /\ session'.pc = "inventory" /\ session'.todo = Present(workspace)
        /\ session'.tree = Nothing /\ workspace' = workspace
    BY <1>1, <1>3 DEF CopyEnds, Sessions
  <2>2. QED
    BY <2>1, NothingIsTree
<1>4. CASE HashFile
  <2>1. PICK f \in session.todo :
          /\ workspace[f] # Absent
          /\ session' = [session EXCEPT !.todo = @ \ {f}, !.tree = With(@, f, workspace[f])]
    BY <1>4 DEF HashFile
  <2> DEFINE longer == With(session.tree, f, workspace[f])
  <2>2. /\ session'.pc = session.pc /\ session'.todo = session.todo \ {f}
        /\ session'.tree = longer
        /\ session'.returncode = session.returncode /\ session'.before = session.before
        /\ workspace' = workspace /\ sandbox' = sandbox
    BY <1>1, <1>4, <2>1 DEF HashFile, Sessions
  <2>3. session.pc \in {"inventory", "inventory again"}
    BY <1>4 DEF HashFile
  <2>4. f \in File /\ workspace[f] \in Text \ {Absent} /\ f \in Present(workspace)
    BY <1>1, <2>1 DEF Workspaces, Present
  <2>5. /\ DOMAIN longer = DOMAIN session.tree \cup {f}
        /\ \A g \in DOMAIN session.tree \cup {f} :
             longer[g] = IF g = f THEN workspace[f] ELSE session.tree[g]
    BY DEF With
  <2> HIDE DEF longer
  <2>6. session.returncode # {124} =>
          /\ session'.todo \cup DOMAIN session'.tree = Present(workspace)
          /\ \A g \in DOMAIN session'.tree : session'.tree[g] = workspace[g]
    <3>1. SUFFICES ASSUME session.returncode # {124}
                   PROVE  /\ session'.todo \cup DOMAIN session'.tree = Present(workspace)
                          /\ \A g \in DOMAIN session'.tree : session'.tree[g] = workspace[g]
      OBVIOUS
    <3>2. /\ session.todo \cup DOMAIN session.tree = Present(workspace)
          /\ \A g \in DOMAIN session.tree : session.tree[g] = workspace[g]
      BY <2>3, <3>1
    <3>3. session'.todo \cup DOMAIN session'.tree = Present(workspace)
      BY <2>1, <2>2, <2>5, <3>2
    <3>4. \A g \in DOMAIN session'.tree : session'.tree[g] = workspace[g]
      BY <2>2, <2>5, <3>2
    <3>5. QED
      BY <3>3, <3>4
  <2>7. QED
    BY <2>2, <2>3, <2>6
<1>5. CASE SkipFile
  <2>1. PICK f \in session.todo :
          workspace[f] = Absent /\ session' = [session EXCEPT !.todo = @ \ {f}]
    BY <1>5 DEF SkipFile
  <2>2. /\ session'.pc = session.pc /\ session'.todo = session.todo \ {f}
        /\ session'.tree = session.tree
        /\ session'.returncode = session.returncode /\ session'.before = session.before
        /\ workspace' = workspace /\ sandbox' = sandbox
    BY <1>1, <1>5, <2>1 DEF SkipFile, Sessions
  <2>3. f \notin Present(workspace)
    BY <2>1 DEF Present
  <2>4. QED
    BY <2>1, <2>2, <2>3
<1>6. CASE TreeRaises
  BY <1>1, <1>6 DEF TreeRaises, Sessions
<1>7. CASE WriteBefore
  <2>1. /\ session'.pc = "run" /\ session'.tree = Nothing /\ session'.before = session.tree
        /\ workspace' = workspace
    BY <1>1, <1>7 DEF WriteBefore, Sessions
  <2>2. session.todo = {} /\ session.pc = "inventory" /\ session.returncode # {124}
    BY <1>7 DEF WriteBefore, AgentInv
  <2>3. DOMAIN session.tree = Present(workspace)
    BY <2>2
  <2>4. session.tree = Inventory(workspace)
    BY <1>1, <2>2, <2>3, TreeIsInventory
  <2>5. QED
    BY <2>1, <2>4 DEF Inventory, Present
<1>8. CASE RunAgent
  BY <1>1, <1>8 DEF RunAgent, Sessions
<1>9. CASE RunsNothing
  BY <1>1, <1>9 DEF RunsNothing, Sessions
<1>10. CASE RunTimeout
  BY <1>1, <1>10 DEF RunTimeout, Sessions
<1>11. CASE WriteExecution
  <2>1. /\ session'.pc = "inventory again" /\ session'.todo = Present(workspace)
        /\ session'.tree = Nothing /\ session'.before = session.before
        /\ workspace' = workspace /\ sandbox' = sandbox
    BY <1>1, <1>11 DEF WriteExecution, Sessions
  <2>2. session.pc = "observe"
    BY <1>11 DEF WriteExecution
  <2>3. QED
    BY <2>1, <2>2, NothingIsTree
<1>12. CASE WriteAfter
  <2>1. /\ session'.pc = "session" /\ session'.tree = session.tree
        /\ session'.returncode = session.returncode /\ session'.before = session.before
        /\ workspace' = workspace /\ sandbox' = sandbox
    BY <1>1, <1>12 DEF WriteAfter, Sessions
  <2>2. session.todo = {} /\ session.pc = "inventory again"
    BY <1>12 DEF WriteAfter
  <2>3. session.returncode # {124} => session.tree = Inventory(workspace)
    BY <1>1, <2>2, TreeIsInventory
  <2>4. QED
    BY <2>1, <2>2, <2>3 DEF Inventory, Present
<1>13. CASE WriteSession
  BY <1>1, <1>13 DEF WriteSession, Sessions
<1>14. CASE MakeAssessmentConfig
  BY <1>1, <1>14 DEF MakeAssessmentConfig, Sessions
<1>15. CASE OpenManifest
  BY <1>1, <1>15 DEF OpenManifest, Sessions
<1>16. CASE FinalizeManifest
  BY <1>1, <1>16 DEF FinalizeManifest, Sessions
<1>17. CASE AgentEdits
  <2>1. sandbox = "running" /\ UNCHANGED <<sandbox, session>>
    BY <1>17 DEF AgentEdits
  <2>2. session.pc \in {"run", "wait", "observe"} \cup HasBefore \cup {"raised"}
    BY <1>1, <2>1 DEF AgentInv, Sessions, SessionPC
  <2>3. session.pc \in HasReturned => session.returncode = {124}
    BY <2>1 DEF AgentInv
  <2>4. QED
    BY <2>1, <2>2, <2>3
<1>18. CASE AgentEnds
  <2>1. sandbox = "running" /\ sandbox' = "ended" /\ workspace' = workspace
    BY <1>18 DEF AgentEnds
  <2>2. CASE UNCHANGED session
    <3>1. session.pc \in HasReturned => session.returncode = {124}
      BY <2>1 DEF AgentInv
    <3>2. QED
      BY <2>1, <2>2, <3>1
  <2>3. CASE ~UNCHANGED session
    <3>1. session'.pc = "observe" /\ session.pc = "wait" /\ session'.tree = session.tree
      BY <1>1, <1>18, <2>3 DEF AgentEnds, Sessions
    <3>2. QED
      BY <2>1, <3>1
  <2>4. QED
    BY <2>2, <2>3
<1>19. CASE EditTemplate
  BY <1>19 DEF EditTemplate
<1>20. QED
  BY <1>2, <1>3, <1>4, <1>5, <1>6, <1>7, <1>8, <1>9, <1>10, <1>11, <1>12, <1>13, <1>14, <1>15,
     <1>16, <1>17, <1>18, <1>19 DEF LiveNext, LiveStep

---------------------------------------------------------------------------
(* What a valid capsule says *)

LiveInv == LiveTypes /\ CapsuleInv /\ ManifestInv /\ AgentInv /\ TreeInv

\* The inductive invariant holds in every behaviour.
LEMMA LiveInvHolds == LiveSpec => []LiveInv
<1>1. LiveInit => CapsuleInv /\ ManifestInv /\ AgentInv /\ TreeInv
  <2> SUFFICES ASSUME NEW tree \in [File -> Text \cup {Absent}], LiveStart(tree)
               PROVE  CapsuleInv /\ ManifestInv /\ AgentInv /\ TreeInv
    BY DEF LiveInit
  <2>1. /\ session.pc = "copy" /\ session.tree = Nothing /\ session.returncode = {}
        /\ sandbox = "none" /\ manifest = {}
    BY DEF LiveStart
  <2>2. {} # {124}
    OBVIOUS
  <2>3. QED
    BY <2>1, <2>2 DEF CapsuleInv, ManifestInv, AgentInv, TreeInv, HasConfig, HasSession,
                      HasAfter, HasExecution, HasReturned, HasBefore
<1>2. LiveInv /\ [LiveNext]_liveVars => (CapsuleInv /\ ManifestInv /\ AgentInv /\ TreeInv)'
  <2> SUFFICES ASSUME LiveInv, [LiveNext]_liveVars
               PROVE  (CapsuleInv /\ ManifestInv /\ AgentInv /\ TreeInv)'
    OBVIOUS
  <2>1. CASE LiveNext
    BY <2>1, CapsuleInvStep, ManifestInvStep, AgentInvStep, TreeInvStep DEF LiveInv
  <2>2. CASE UNCHANGED liveVars
    <3>1. LiveInv /\ UNCHANGED <<workspace, sandbox, capsule, manifest, session>>
      BY <2>2 DEF liveVars
    <3>2. CapsuleInv'
      BY <3>1 DEF LiveInv, CapsuleInv, SessionRecord
    <3>3. ManifestInv' /\ AgentInv'
      BY <3>1 DEF LiveInv, ManifestInv, AgentInv
    <3>4. TreeInv'
      BY <3>1 DEF LiveInv, TreeInv, Present, Inventory
    <3>5. QED
      BY <3>2, <3>3, <3>4
  <2>3. QED
    BY <2>1, <2>2
<1>3. QED
  BY <1>1, <1>2, LiveTypesHold, PTL DEF LiveSpec, LiveInv

\* The paths an inventory of the workspace names as changed are those that changed.
LEMMA ChangesAreReal ==
  ASSUME NEW before \in Trees, NEW w, NEW f \in File
  PROVE  LET c == ChangedPaths(before, Inventory(w)) IN
         (f \in c.added \cup c.removed \cup c.modified)
           <=> (IF f \in DOMAIN before THEN before[f] ELSE Absent) # w[f]
<1> DEFINE after == Inventory(w)
           c == ChangedPaths(before, after)
<1>1. f \in DOMAIN after <=> w[f] # Absent
  BY DEF Inventory, Present
<1>2. f \in DOMAIN after => after[f] = w[f]
  BY DEF Inventory
<1>3. f \in DOMAIN before => before[f] # Absent
  BY TreeType
<1> HIDE DEF after
<1>4. f \in c.added \cup c.removed \cup c.modified <=>
        \/ f \in DOMAIN after /\ f \notin DOMAIN before
        \/ f \in DOMAIN before /\ f \notin DOMAIN after
        \/ f \in DOMAIN before /\ f \in DOMAIN after /\ before[f] # after[f]
  BY DEF ChangedPaths
<1>5. QED
  BY <1>1, <1>2, <1>3, <1>4 DEF after

\* ValidCapsuleIsTheRun: what load_agent_run calls valid is of one run, and tells its
\* changes truly unless it says that the agent was given up.
THEOREM ValidCapsule == LiveSpec => []ValidCapsuleIsTheRun
<1>1. LiveInv => ValidCapsuleIsTheRun
  <2> SUFFICES ASSUME LiveInv, ManifestValid PROVE ValidCapsuleIsTheRun
    BY DEF ValidCapsuleIsTheRun
  <2> DEFINE s == capsule["session"]
             before == capsule["workspace-before"]
             after == capsule["workspace-after"]
  <2>1. session.pc = "done"
    BY DEF LiveInv, ManifestInv, ManifestValid
  <2>2. /\ s = SessionRecord /\ before = session.before /\ after = session.tree
        /\ capsule["workspace-changes"] = ChangedPaths(session.before, session.tree)
        /\ capsule["agent-execution"] = session.returncode
        /\ CapsuleFile \subseteq DOMAIN capsule
    BY <2>1 DEF LiveInv, CapsuleInv, CapsuleFile, HasConfig, HasSession, HasAfter,
                HasExecution, HasReturned, HasBefore
  <2>3. DOMAIN capsule = CapsuleFile
    BY <2>2 DEF LiveInv, LiveTypes
  <2>4. /\ s.workspace_before = before /\ s.workspace_after = after
        /\ s.changes = ChangedPaths(before, after) /\ s.execution = session.returncode
    BY <2>2 DEF SessionRecord
  <2>5. before \in Trees
    BY <2>2 DEF LiveInv, LiveTypes, Sessions
  <2>6. s.execution # {124} => after = Inventory(workspace)
    BY <2>1, <2>2, <2>4 DEF LiveInv, TreeInv, HasAfter, HasExecution, HasReturned, HasBefore
  <2>7. sandbox = "none" => before = Inventory(workspace) /\ after = Inventory(workspace)
    BY <2>1, <2>2, <2>4, <2>6 DEF LiveInv, AgentInv, TreeInv, HasBefore
  <2> HIDE DEF s, before, after
  <2>8. s.execution # {124} => \A f \in File :
          (f \in s.changes.added \cup s.changes.removed \cup s.changes.modified)
            <=> (IF f \in DOMAIN before THEN before[f] ELSE Absent) # workspace[f]
    BY <2>4, <2>5, <2>6, ChangesAreReal
  <2>9. sandbox = "none" => s.changes = ChangedPaths(before, before)
    BY <2>4, <2>7
  <2>10. s.changes = capsule["workspace-changes"] /\ s.execution = capsule["agent-execution"]
    BY <2>2, <2>4 DEF before, after
  <2>11. QED
    BY <2>3, <2>4, <2>6, <2>8, <2>9, <2>10 DEF ValidCapsuleIsTheRun, s, before, after
<1>2. QED
  BY <1>1, LiveInvHolds, PTL
---------------------------------------------------------------------------
(* Transition packs: the values the variables take *)

Layouts == Layout \cup {left.layout : left \in Earlier}
Bases == {job.base : job \in Job} \cup {left.base : left \in Earlier}

\* A path holds one file: an archive or a report, whole or half-written.
Singles(S) == {{x} : x \in S}
Archives == {ArchiveOf(pair[1], pair[2]) : pair \in (Place \cup Builder) \X Layouts}
Contents == Archives \cup {Partial}
WholeReports ==
  [whole : {TRUE}, by : Place \cup Builder, overall : {"VERIFIED", "FAILED"}, place : Place,
   archive_sha256 : Singles(Contents), base : Bases, scout : Scout]
Reports == WholeReports \cup {Partial}

Builders == [pc : {"idle", "exporting", "verify", "report", "done", "killed"},
             place : Place, base : Bases, verified : BOOLEAN]

MoverPC == {"delta", "pack", "report", "hash", "graph", "statements", "snapshot",
            "rehash", "compare", "embed", "write", "done", "raised"}

MoverFields == {"pc", "evidence", "place", "comparison", "pass", "side", "held", "taken", "seen",
                "diff", "reports"}

MoverShape(r) ==
  /\ r = [f \in MoverFields |-> r[f]]
  /\ r.pc \in MoverPC /\ r.pass \in {1, 2} /\ r.side \in Side
  /\ [evidence |-> r.evidence, place |-> r.place] \in Order
  /\ r.seen = [s \in Side |-> r.seen[s]]

TransitionTypes ==
  /\ registry \in 0 .. MaxEntries
  /\ archive \in [Place -> Singles(Contents)]
  /\ report \in [Place -> Singles(Reports)]
  /\ \A p \in Place : \A r \in report[p] : r # Partial => r.place = p
  /\ builder \in [Builder -> Builders]
  /\ mover = [m \in Mover |-> mover[m]] /\ \A m \in Mover : MoverShape(mover[m])
  /\ pack = [m \in Mover |-> pack[m]]

---------------------------------------------------------------------------
(* Transition packs: what was replaced does not come back *)

\* An archive and a report that a build wrote: it will not write another.
ArchiveWritten(a) ==
  a.bytes.by \in Builder => builder[a.bytes.by].pc \notin {"idle", "exporting"}
ReportWritten(r) == r.by \in Builder => builder[r.by].pc = "done"

ArchiveGone(p, a) == archive[p] # {a} /\ ArchiveWritten(a)
ReportGone(p, r) == report[p] # {r} /\ ReportWritten(r)

Written ==
  \A p \in Place :
    /\ \A a \in archive[p] : a # Partial => ArchiveWritten(a)
    /\ \A r \in report[p] : r # Partial => ReportWritten(r)

---------------------------------------------------------------------------
(* Transition packs: what a mover knows *)

\* A snapshot that is the one of an archive that passed both verifiers.
TakenOf(t, a) ==
  /\ VerifyLayout(a) /\ VerifyAttestations(a)
  /\ t.runnable = Snapshot(a).runnable /\ t.predicates = Snapshot(a).predicates
  /\ t.materials = Snapshot(a).materials /\ t.statements = Snapshot(a).statements

\* What a finished snapshot tells, as far as its archive was not replaced meanwhile.
Told(p, snap) ==
  /\ snap.archive \in Singles(Contents) /\ snap.report \in Singles(Reports)
  /\ \A a \in snap.archive : a # Partial =>
       ArchiveWritten(a) /\ (ArchiveGone(p, a) \/ TakenOf(snap, a))
  /\ \A r \in snap.report : r # Partial => ReportWritten(r)

\* What a snapshot tells when the second pass found the same again.
Sure(snap) ==
  /\ snap.archive \in Singles(Contents) /\ snap.report \in Singles(Reports)
  /\ \A a \in snap.archive : a # Partial => TakenOf(snap, a)
  /\ \A r \in snap.report : r # Partial =>
       /\ r.overall = "VERIFIED" /\ snap.archive = r.archive_sha256
       /\ snap.base = r.base /\ snap.scout = r.scout

HasReport == {"hash", "graph", "statements", "snapshot", "rehash"}
HasHash   == HasReport \ {"hash"}
HasGraph  == HasHash \ {"graph"}
HasBound  == HasGraph \ {"statements"}

\* While one side is looked at: each read is of the archive of the digest, or that
\* archive is gone.
LooksAt(r) ==
  LET p == r.place[r.side]
  IN  /\ r.pc \in HasReport =>
           /\ r.held \in Singles(WholeReports)
           /\ \A h \in r.held : h.overall = "VERIFIED" /\ h.place = p
      /\ \A h \in r.held : \A a \in h.archive_sha256 : a # Partial =>
           /\ r.pc \in HasHash => ArchiveWritten(a)
           /\ r.pc \in HasGraph => ArchiveGone(p, a) \/ VerifyLayout(a)
           /\ r.pc \in HasBound => ArchiveGone(p, a) \/ VerifyAttestations(a)
           /\ r.pc = "rehash" => ArchiveGone(p, a) \/ r.taken = {Snapshot(a)}
      /\ r.pc = "rehash" => r.taken \in Singles({t : t \in r.taken})

\* Both sides of the diff, and of what the second pass compares it with.
HasTold(r) ==
  /\ \A s \in Side : \A t \in r.seen[s] : Told(r.place[s], t)
  /\ \A d \in r.diff :
       /\ d = BuildDiff(d.before, d.after)
       /\ \A s \in Side : Told(r.place[s], d[s])

\* The second pass: the side that is looked at, the sides that were, and the diff when
\* it has been verified.
LooksAgain(r) ==
  r.pass = 2 => \A d \in r.diff :
    /\ \A h \in r.held :
         /\ r.pc \in HasReport => \A y \in d[r.side].report :
              y # Partial => h = y \/ ReportGone(r.place[r.side], y)
         /\ r.pc \in HasHash => \A a \in h.archive_sha256 :
              a # Partial /\ d[r.side].archive = {a} => TakenOf(d[r.side], a)
    /\ (r.pc = "compare" \/ r.side = "after") /\ d.before \in r.seen["before"] => Sure(d.before)
    /\ r.pc = "compare" /\ d.after \in r.seen["after"] => Sure(d.after)

Compared(r) ==
  /\ r.pc = "pack" => \A s \in Side : r.evidence[s].attested
  /\ \A c \in r.comparison :
       VerifyComparison(c) /\ \A s \in Side : c[s].bundle.verifies /\ c[s].bundle.attested

Embedded(r) ==
  /\ r.pc \in {"embed", "write"} => \A d \in r.diff, s \in Side : Sure(d[s])
  /\ r.pc = "write" => \A d \in r.diff, s \in Side : r.reports[s] = d[s].report

MoverInv(r) == LooksAt(r) /\ HasTold(r) /\ LooksAgain(r) /\ Compared(r) /\ Embedded(r)

PackInv(m) ==
  /\ mover[m].pc = "done" => \A p \in pack[m] : p.whole
  /\ \A p \in pack[m] : p.whole =>
       /\ VerifyTransition(p)
       /\ p.diff = BuildDiff(p.diff.before, p.diff.after)
       /\ \A s \in Side : Sure(p.diff[s])
       /\ \A s \in Side : p.comparison[s].bundle.verifies /\ p.comparison[s].bundle.attested

TransitionInv ==
  TransitionTypes /\ Written /\ \A m \in Mover : MoverInv(mover[m]) /\ PackInv(m)

---------------------------------------------------------------------------
(* Transition packs: archives and what is said of two of them *)

\* What passes both verifiers is undamaged and attested.
LEMMA VerifiedIsSound ==
  ASSUME NEW a, VerifyLayout(a), VerifyAttestations(a)
  PROVE  Sound(a)
<1>1. \A desc \in a.index : \A d \in {desc.digest} \cup Layers(desc) : d \notin a.lacks
  BY DEF VerifyLayout, IntactManifest, Readable
<1>2. PICK spdx \in Statements(a) : Content[spdx].predicate = Spdx
  BY Zenon DEF VerifyAttestations, Predicates
<1>3. PICK slsa \in Statements(a) : Content[slsa].predicate \in Slsa
  BY Zenon DEF VerifyAttestations, Predicates
<1>4. /\ spdx \in DOMAIN Content \ a.lacks /\ Content[spdx].kind = "statement"
      /\ slsa \in DOMAIN Content \ a.lacks /\ Content[slsa].kind = "statement"
  BY Zenon DEF VerifyAttestations, Readable, Statements, IsStatement
<1>5. \A desc \in Attesting(a) : desc.refers # NoDigest =>
        \E r \in Runnable(a) : r.digest = desc.refers
  BY Zenon DEF VerifyAttestations, BoundToItsImage
<1>6. QED
  BY <1>1, <1>2, <1>3, <1>4, <1>5 DEF Sound

\* What a snapshot holds of the images says which they are: a digest is what it is
\* taken of.
LEMMA RunnableIsImages ==
  ASSUME NEW b, NEW a, VerifyLayout(b), VerifyLayout(a)
  PROVE  Snapshot(b).runnable = Snapshot(a).runnable <=> Images(b) = Images(a)
<1> DEFINE run(desc) == [platform |-> desc.platform, manifest |-> desc.digest,
                         config |-> Content[desc.digest].config, layers |-> Layers(desc)]
           image(desc) == <<desc.platform, Content[desc.digest], {Content[l] : l \in Layers(desc)}>>
<1>1. \A c, d : run(c) = run(d) => image(c) = image(d)
  BY DEF Layers
<1>2. \A c \in Runnable(a) \cup Runnable(b), d \in Runnable(a) \cup Runnable(b) :
        image(c) = image(d) => run(c) = run(d)
  <2> SUFFICES ASSUME NEW c \in Runnable(a) \cup Runnable(b),
                      NEW d \in Runnable(a) \cup Runnable(b), image(c) = image(d)
               PROVE  run(c) = run(d)
    OBVIOUS
  <2>1. c.digest \in DOMAIN Content /\ d.digest \in DOMAIN Content
    BY DEF Runnable, VerifyLayout, IntactManifest, Readable
  <2>2. c.platform = d.platform /\ Content[c.digest] = Content[d.digest]
    OBVIOUS
  <2>3. c.digest = d.digest
    BY <2>1, <2>2, TransitionAssumption
  <2>4. QED
    BY <2>2, <2>3 DEF Layers
<1>3. Snapshot(b).runnable = {run(desc) : desc \in Runnable(b)}
  BY DEF Snapshot
<1>4. Snapshot(a).runnable = {run(desc) : desc \in Runnable(a)}
  BY DEF Snapshot
<1>5. /\ Images(b) = {image(desc) : desc \in Runnable(b)}
      /\ Images(a) = {image(desc) : desc \in Runnable(a)}
  BY DEF Images
<1> HIDE DEF run, image
<1>6. ASSUME NEW x, NEW y, x \in {a, b}, y \in {a, b}
      PROVE  {run(desc) : desc \in Runnable(x)} \subseteq {run(desc) : desc \in Runnable(y)}
               <=> {image(desc) : desc \in Runnable(x)} \subseteq {image(desc) : desc \in Runnable(y)}
  <2>1. ASSUME {run(desc) : desc \in Runnable(x)} \subseteq {run(desc) : desc \in Runnable(y)},
               NEW c \in Runnable(x)
        PROVE  image(c) \in {image(desc) : desc \in Runnable(y)}
    <3>1. PICK d \in Runnable(y) : run(c) = run(d)
      BY <2>1
    <3>2. QED
      BY <1>1, <3>1
  <2>2. ASSUME {image(desc) : desc \in Runnable(x)} \subseteq {image(desc) : desc \in Runnable(y)},
               NEW c \in Runnable(x)
        PROVE  run(c) \in {run(desc) : desc \in Runnable(y)}
    <3>1. PICK d \in Runnable(y) : image(c) = image(d)
      BY <2>2
    <3>2. c \in Runnable(a) \cup Runnable(b) /\ d \in Runnable(a) \cup Runnable(b)
      BY <1>6
    <3>3. QED
      BY <1>2, <3>1, <3>2
  <2>3. QED
    BY <2>1, <2>2
<1>7. {run(desc) : desc \in Runnable(b)} = {run(desc) : desc \in Runnable(a)}
        <=> {image(desc) : desc \in Runnable(b)} = {image(desc) : desc \in Runnable(a)}
  <2> DEFINE rb == {run(desc) : desc \in Runnable(b)}
             ra == {run(desc) : desc \in Runnable(a)}
             ib == {image(desc) : desc \in Runnable(b)}
             ia == {image(desc) : desc \in Runnable(a)}
  <2>1. (rb \subseteq ra <=> ib \subseteq ia) /\ (ra \subseteq rb <=> ia \subseteq ib)
    BY <1>6
  <2> HIDE DEF rb, ra, ib, ia
  <2>2. rb = ra <=> ib = ia
    BY <2>1
  <2>3. QED
    BY <2>2 DEF rb, ra, ib, ia
<1>8. QED
  BY <1>3, <1>4, <1>5, <1>7

\* An archive's bytes say who wrote it and what it is.
LEMMA ArchiveFields ==
  ASSUME NEW by, NEW l \in Layouts
  PROVE  LET a == ArchiveOf(by, l) IN
         /\ a.bytes = [by |-> by, of |-> l] /\ a.whole = l.whole /\ a # Partial
<1>1. l = [whole |-> l.whole, layout |-> l.layout, lacks |-> l.lacks, bytes |-> l.bytes,
           index |-> l.index]
  BY TransitionAssumption DEF Layouts
<1>2. QED
  BY <1>1 DEF ArchiveOf, Partial

\* Two archives with the same bytes are the same.
LEMMA BytesAreTheArchive ==
  ASSUME NEW a \in Archives, NEW b \in Archives, a.bytes = b.bytes
  PROVE  a = b
<1>1. PICK x \in Place \cup Builder, k \in Layouts : a = ArchiveOf(x, k)
  BY DEF Archives
<1>2. PICK y \in Place \cup Builder, l \in Layouts : b = ArchiveOf(y, l)
  BY DEF Archives
<1>3. [by |-> x, of |-> k] = [by |-> y, of |-> l]
  BY <1>1, <1>2, ArchiveFields
<1>4. x = y /\ k = l
  BY <1>3
<1>5. QED
  BY <1>1, <1>2, <1>4

\* The classification is that of the two archives, when the snapshots are of them and the
\* reports' bases and Scout status are those of the snapshots.
LEMMA ClassifiedTruly ==
  ASSUME NEW before, NEW after, NEW sb, NEW sa, NEW b \in Archives, NEW a \in Archives,
         TakenOf(sb, b), TakenOf(sa, a), sb.archive = {b}, sa.archive = {a},
         sb.base = before.base, sa.base = after.base,
         sb.scout = before.scout, sa.scout = after.scout
  PROVE  BuildDiff(sb, sa).classification = TrueClassification(before, after, b, a)
<1>1. sb.runnable = sa.runnable <=> Images(b) = Images(a)
  BY RunnableIsImages DEF TakenOf
<1>2. /\ sb.predicates = Predicates(b) /\ sa.predicates = Predicates(a)
      /\ sb.materials = UNION {Content[l].materials : l \in Statements(b)}
      /\ sa.materials = UNION {Content[l].materials : l \in Statements(a)}
  BY DEF TakenOf, Snapshot
<1>3. sb.archive = sa.archive <=> b.bytes = a.bytes
  BY BytesAreTheArchive
<1> DEFINE changes == Changes(sb, sa)
<1>4. HasBaseChange(changes) <=> before.base # after.base
  BY DEF HasBaseChange, Changes, SetChanges
<1>5. /\ changes.runnable <=> sb.runnable # sa.runnable
      /\ changes.archive <=> sb.archive # sa.archive
  BY DEF Changes
<1>6. changes.supply <=> \/ Predicates(b) # Predicates(a)
                         \/ UNION {Content[l].materials : l \in Statements(b)}
                              # UNION {Content[l].materials : l \in Statements(a)}
  BY <1>2 DEF Changes
<1>7. BuildDiff(sb, sa).classification = Classification(sb, sa, changes)
  BY DEF BuildDiff
<1> HIDE DEF changes
<1>8. QED
  BY <1>1, <1>3, <1>4, <1>5, <1>6, <1>7 DEF Classification, TrueClassification
---------------------------------------------------------------------------
(* Transition packs: the types hold *)

\* What a mover's step may leave in its record.
LEMMA MoverUpdate ==
  ASSUME TransitionTypes, NEW m \in Mover, NEW r, MoverShape(r),
         mover' = [mover EXCEPT ![m] = r], UNCHANGED <<registry, archive, report, builder>>,
         \/ UNCHANGED pack
         \/ \E new : pack' = [pack EXCEPT ![m] = new]
  PROVE  /\ TransitionTypes' /\ mover'[m] = r
         /\ \A n \in Mover : n # m => mover'[n] = mover[n] /\ pack'[n] = pack[n]
<1>1. mover' = [n \in Mover |-> mover'[n]] /\ mover'[m] = r
  BY DEF TransitionTypes
<1>2. \A n \in Mover : n # m => mover'[n] = mover[n]
  BY DEF TransitionTypes
<1>3. pack' = [n \in Mover |-> pack'[n]] /\ \A n \in Mover : n # m => pack'[n] = pack[n]
  BY DEF TransitionTypes
<1>4. \A x : MoverShape(x)' <=> MoverShape(x)
  BY DEF MoverShape
<1>5. \A n \in Mover : MoverShape(mover'[n])
  BY <1>1, <1>2 DEF TransitionTypes
<1>6. \A n \in Mover : MoverShape(mover[n])'
  BY <1>4, <1>5
<1>7. TransitionTypes'
  BY <1>1, <1>3, <1>6 DEF TransitionTypes
<1>8. QED
  BY <1>1, <1>2, <1>3, <1>7

\* A record with another program counter is still one.
LEMMA ShapeOfAt ==
  ASSUME NEW r, MoverShape(r), NEW to \in MoverPC
  PROVE  MoverShape([r EXCEPT !.pc = to])
  BY DEF MoverShape, MoverFields

\* The same of a mover that only goes on.
LEMMA MoverGoes ==
  ASSUME TransitionTypes, NEW m \in Mover, NEW from, NEW to \in MoverPC, MoverAt(m, from, to),
         UNCHANGED <<registry, archive, report, builder>>,
         \/ UNCHANGED pack
         \/ \E new : pack' = [pack EXCEPT ![m] = new]
  PROVE  /\ TransitionTypes' /\ mover[m].pc = from
         /\ mover'[m] = [mover[m] EXCEPT !.pc = to]
         /\ \A n \in Mover : n # m => mover'[n] = mover[n] /\ pack'[n] = pack[n]
<1>1. MoverShape([mover[m] EXCEPT !.pc = to])
  BY ShapeOfAt DEF TransitionTypes
<1>2. mover' = [mover EXCEPT ![m] = [mover[m] EXCEPT !.pc = to]] /\ mover[m].pc = from
  BY DEF MoverAt
<1>3. QED
  BY <1>1, <1>2, MoverUpdate
\* Each step of a mover replaces its record by another one, and what is at its output.
LEMMA MoverStepTypes ==
  ASSUME TransitionTypes, NEW m \in Mover, MoveStep(m) \/ MoverCrash(m)
  PROVE  /\ TransitionTypes'
         /\ \A n \in Mover : n # m => mover'[n] = mover[n] /\ pack'[n] = pack[n]
         /\ UNCHANGED <<registry, archive, report, builder>>
<1> DEFINE Good == /\ TransitionTypes'
                   /\ \A n \in Mover : n # m => mover'[n] = mover[n] /\ pack'[n] = pack[n]
           r == mover[m]
<1>0. MoverShape(r)
  BY DEF TransitionTypes
<1>a. ASSUME NEW from, NEW to \in MoverPC, MoverAt(m, from, to),
             UNCHANGED <<registry, archive, report, builder, pack>>
      PROVE  Good
  BY <1>a, MoverGoes
<1>b. ASSUME NEW q, MoverShape(q), mover' = [mover EXCEPT ![m] = q],
             UNCHANGED <<registry, archive, report, builder, pack>>
      PROVE  Good
  BY <1>b, MoverUpdate
<1>u. UNCHANGED <<registry, archive, report, builder>>
  BY DEF MoveStep, MoverCrash, MoveDelta, MoveCompare, MoveCompareRaises, ReadReport,
     HashArchive, VerifyGraph, VerifyStatements, ReadArchive, SnapshotRaises, HashReport,
     WriteDiff, VerifyDiff, VerifyDiffRaises, EmbedReports, EmbedReportsRaises, WriteTransition
<1> SUFFICES Good
  BY <1>u
<1> HIDE DEF Good
<1>1. CASE MoveDelta(m)
  BY <1>1, <1>a DEF MoveDelta, MoverPC
<1>2. CASE MoveCompare(m)
  <2>1. PICK c : mover' = [mover EXCEPT ![m].pc = "report", ![m].comparison = {c}]
    BY <1>2 DEF MoveCompare
  <2> DEFINE q == [r EXCEPT !.pc = "report", !.comparison = {c}]
  <2>3. MoverShape(q)
    BY <1>0 DEF MoverShape, MoverFields, MoverPC
  <2>4. QED
    BY <1>2, <1>b, <2>1, <2>3 DEF MoveCompare
<1>3. CASE MoveCompareRaises(m)
  BY <1>3, <1>a DEF MoveCompareRaises, MoverPC
<1>4. CASE SnapshotRaises(m)
  <2>1. MoverShape([r EXCEPT !.pc = "raised"])
    BY <1>0, ShapeOfAt DEF MoverPC
  <2>2. mover' = [mover EXCEPT ![m] = [r EXCEPT !.pc = "raised"]]
    BY <1>4 DEF SnapshotRaises
  <2>3. QED
    BY <1>4, <1>b, <2>1, <2>2 DEF SnapshotRaises
<1>5. CASE ReadReport(m)
  <2> DEFINE q == [r EXCEPT !.pc = "hash", !.held = Reported(m)]
  <2>3. MoverShape(q)
    BY <1>0 DEF MoverShape, MoverFields, MoverPC
  <2>4. QED
    BY <1>5, <1>b, <2>3 DEF ReadReport
<1>6. CASE HashArchive(m)
  BY <1>6, <1>a DEF HashArchive, MoverPC
<1>7. CASE VerifyGraph(m)
  BY <1>7, <1>a DEF VerifyGraph, MoverPC
<1>8. CASE VerifyStatements(m)
  BY <1>8, <1>a DEF VerifyStatements, MoverPC
<1>9. CASE ReadArchive(m)
  <2> DEFINE t == {Snapshot(a) : a \in Pointed(m)}
             q == [r EXCEPT !.pc = "rehash", !.taken = t]
  <2> HIDE DEF t
  <2>3. MoverShape(q)
    BY <1>0 DEF MoverShape, MoverFields, MoverPC
  <2>4. QED
    BY <1>9, <1>b, <2>3 DEF ReadArchive, t
<1>10. CASE HashReport(m)
  <2> DEFINE t == ArtifactSnapshot(m)
             to == IF r.side = "before" THEN "report" ELSE "compare"
             seen == [r.seen EXCEPT ![r.side] = t]
             q == [r EXCEPT !.seen = seen, !.held = {}, !.taken = {}, !.side = "after", !.pc = to]
  <2>1. seen = [s \in Side |-> seen[s]] /\ to \in MoverPC
    BY <1>0 DEF MoverShape, MoverPC
  <2>5. mover' = [mover EXCEPT ![m].seen[r.side] = t, ![m].held = {}, ![m].taken = {},
                               ![m].side = "after", ![m].pc = to]
    BY <1>10 DEF HashReport
  <2>6. mover' = [mover EXCEPT ![m] = q]
    BY <1>0, <2>5 DEF MoverShape, MoverFields
  <2> HIDE DEF t, to, seen
  <2>3. MoverShape(q)
    BY <1>0, <2>1 DEF MoverShape, MoverFields, Side
  <2>4. QED
    BY <1>10, <1>b, <2>3, <2>6 DEF HashReport
<1>11. CASE WriteDiff(m)
  <2> DEFINE d == Diffs(m)
             q == [r EXCEPT !.pc = "report", !.side = "before", !.pass = 2, !.diff = d]
  <2> HIDE DEF d
  <2>3. MoverShape(q)
    BY <1>0 DEF MoverShape, MoverFields, MoverPC, Side
  <2>4. QED
    BY <1>11, <1>b, <2>3 DEF WriteDiff, d
<1>12. CASE VerifyDiff(m) \/ VerifyDiffRaises(m)
  BY <1>12, <1>a DEF VerifyDiff, VerifyDiffRaises, MoverPC
<1>13. CASE EmbedReports(m)
  <2> DEFINE e == [s \in Side |-> EmbedReport(m, s)]
             q == [r EXCEPT !.pc = "write", !.reports = e]
  <2> HIDE DEF e
  <2>3. MoverShape(q)
    BY <1>0 DEF MoverShape, MoverFields, MoverPC
  <2>4. QED
    BY <1>13, <1>b, <2>3 DEF EmbedReports, e
<1>14. CASE EmbedReportsRaises(m)
  BY <1>14, <1>a DEF EmbedReportsRaises, MoverPC
<1>15. CASE WriteTransition(m) \/ MoverCrash(m)
  <2>1. \E to \in MoverPC : MoverAt(m, "write", to)
    BY <1>15 DEF WriteTransition, MoverCrash, MoverPC
  <2>2. \E new : pack' = [pack EXCEPT ![m] = new]
    BY <1>15 DEF WriteTransition, MoverCrash
  <2>3. QED
    BY <1>u, <2>1, <2>2, MoverGoes DEF Good
<1>16. QED
  BY <1>1, <1>2, <1>3, <1>4, <1>5, <1>6, <1>7, <1>8, <1>9, <1>10, <1>11, <1>12, <1>13, <1>14,
     <1>15 DEF MoveStep
---------------------------------------------------------------------------
(* Transition packs: builds *)

\* What a step leaves as it was: what is gone and who has written.
Keeps ==
  /\ \A p \in Place : \A a : a # Partial /\ ArchiveGone(p, a) => ArchiveGone(p, a)'
  /\ \A a : ArchiveWritten(a) => ArchiveWritten(a)'
  /\ \A p \in Place : \A r : r # Partial /\ ReportGone(p, r) => ReportGone(p, r)'
  /\ \A r : ReportWritten(r) => ReportWritten(r)'

\* A step that touches neither archives nor reports nor builds keeps all.
LEMMA FrozenKeeps ==
  ASSUME UNCHANGED <<archive, report, builder>>
  PROVE  Keeps /\ (Written => Written')
<1>1. \A p, a : ArchiveGone(p, a)' <=> ArchiveGone(p, a)
  BY DEF ArchiveGone, ArchiveWritten
<1>2. \A a : ArchiveWritten(a)' <=> ArchiveWritten(a)
  BY DEF ArchiveWritten
<1>3. \A p, r : ReportGone(p, r)' <=> ReportGone(p, r)
  BY DEF ReportGone, ReportWritten
<1>4. \A r : ReportWritten(r)' <=> ReportWritten(r)
  BY DEF ReportWritten
<1>5. Keeps
  BY <1>1, <1>2, <1>3, <1>4 DEF Keeps
<1>6. Partial' = Partial
  BY DEF Partial
<1>7. Written => Written'
  BY <1>2, <1>4, <1>6 DEF Written
<1>8. QED
  BY <1>5, <1>7

\* A build that goes on.
LEMMA BuilderGoes ==
  ASSUME TransitionTypes, NEW b \in Builder, NEW from, NEW to, BuilderAt(b, from, to),
         to \in {"exporting", "verify", "report", "done", "killed"}
  PROVE  /\ builder' \in [Builder -> Builders] /\ builder[b].pc = from /\ builder'[b].pc = to
         /\ \A c \in Builder : c # b => builder'[c] = builder[c]
<1>1. [builder[b] EXCEPT !.pc = to] \in Builders
  BY DEF TransitionTypes, Builders
<1>2. builder' = [builder EXCEPT ![b] = [builder[b] EXCEPT !.pc = to]]
  BY DEF BuilderAt
<1>3. QED
  BY <1>1, <1>2 DEF BuilderAt, TransitionTypes, Builders

\* The movers' part of the types, in a step of somebody else.
LEMMA BuilderTypes ==
  ASSUME TransitionTypes, UNCHANGED <<registry, mover, pack>>,
         archive' \in [Place -> Singles(Contents)], report' \in [Place -> Singles(Reports)],
         \A p \in Place : \A r \in report'[p] : r # Partial => r.place = p,
         builder' \in [Builder -> Builders]
  PROVE  TransitionTypes'
<1>1. \A x : MoverShape(x)' <=> MoverShape(x)
  BY DEF MoverShape
<1>2. Singles(Contents)' = Singles(Contents) /\ Singles(Reports)' = Singles(Reports)
  BY DEF Singles, Contents, Reports, Archives, Layouts, WholeReports, ArchiveOf, Partial, Bases
<1>3. Builders' = Builders /\ Partial' = Partial
  BY DEF Builders, Bases, Partial
<1>4. \A m \in Mover : MoverShape(mover[m])'
  BY <1>1 DEF TransitionTypes
<1>5. QED
  BY <1>2, <1>3, <1>4 DEF TransitionTypes

\* An archive and a report that can be at a path.
LEMMA ArchiveIsContent ==
  ASSUME NEW by \in Place \cup Builder, NEW l \in Layouts
  PROVE  /\ ArchiveOf(by, l) \in Archives
         /\ {ArchiveOf(by, l)} \in Singles(Contents) /\ {Partial} \in Singles(Contents)
<1>1. <<by, l>> \in (Place \cup Builder) \X Layouts
  OBVIOUS
<1>2. ArchiveOf(by, l) \in Archives
  BY <1>1 DEF Archives
<1>3. QED
  BY <1>2 DEF Singles, Contents

\* When a build changes only where it is, and does not go back.
LEMMA BuilderKeeps ==
  ASSUME TransitionTypes, Written, NEW b \in Builder, UNCHANGED <<archive, report>>,
         builder' \in [Builder -> Builders], \A c \in Builder : c # b => builder'[c] = builder[c],
         builder[b].pc # "done",
         builder[b].pc \in {"idle", "exporting"} \/ builder'[b].pc \notin {"idle", "exporting"}
  PROVE  Keeps /\ Written'
<1>1. \A a : ArchiveWritten(a) => ArchiveWritten(a)'
  BY DEF ArchiveWritten
<1>2. \A r : ReportWritten(r) => ReportWritten(r)'
  BY DEF ReportWritten
<1>3. \A p, a : ArchiveGone(p, a) => ArchiveGone(p, a)'
  BY <1>1 DEF ArchiveGone
<1>4. \A p, r : ReportGone(p, r) => ReportGone(p, r)'
  BY <1>2 DEF ReportGone
<1>5. Partial' = Partial
  BY DEF Partial
<1>6. Written'
  BY <1>1, <1>2, <1>5 DEF Written
<1>7. QED
  BY <1>1, <1>2, <1>3, <1>4, <1>6 DEF Keeps

\* When it writes an archive: its own, or half of one.
LEMMA ArchiveKeeps ==
  ASSUME TransitionTypes, Written, NEW b \in Builder, NEW q \in Place, NEW new \in Contents,
         archive' = [archive EXCEPT ![q] = {new}], UNCHANGED report,
         builder' \in [Builder -> Builders], \A c \in Builder : c # b => builder'[c] = builder[c],
         \/ new = Partial /\ builder[b].pc = "idle"
         \/ /\ new # Partial /\ new.bytes.by = b
            /\ builder[b].pc = "exporting" /\ builder'[b].pc = "verify"
  PROVE  Keeps /\ Written'
<1>1. \A a : ArchiveWritten(a) => ArchiveWritten(a)'
  BY DEF ArchiveWritten
<1>2. \A r : ReportWritten(r) => ReportWritten(r)'
  BY DEF ReportWritten
<1>3. \A p, r : ReportGone(p, r) => ReportGone(p, r)'
  BY <1>2 DEF ReportGone
<1>4. Partial' = Partial
  BY DEF Partial
<1>5. ASSUME NEW p \in Place, NEW a, a # Partial, ArchiveGone(p, a)
      PROVE  ArchiveGone(p, a)'
  <2>1. a # new
    BY <1>5 DEF ArchiveGone, ArchiveWritten
  <2>2. archive'[p] # {a}
    BY <1>5, <2>1 DEF ArchiveGone, TransitionTypes
  <2>3. QED
    BY <1>1, <1>5, <2>2 DEF ArchiveGone
<1>6. new # Partial => ArchiveWritten(new)'
  BY DEF ArchiveWritten
<1>7. \A p \in Place : \A a \in archive'[p] : a = new \/ a \in archive[p]
  BY DEF TransitionTypes
<1>8. report' = report
  OBVIOUS
<1>9. \A p \in Place : \A a \in archive'[p] : a # Partial => ArchiveWritten(a)'
  BY <1>1, <1>6, <1>7 DEF Written
<1>10. \A p \in Place : \A r \in report'[p] : r # Partial => ReportWritten(r)'
  BY <1>2, <1>8 DEF Written
<1>11. Written'
  BY <1>4, <1>9, <1>10 DEF Written
<1>12. QED
  BY <1>1, <1>2, <1>3, <1>5, <1>11 DEF Keeps

\* When it writes a report: its own, or half of one.
LEMMA ReportKeeps ==
  ASSUME TransitionTypes, Written, NEW b \in Builder, NEW q \in Place, NEW new \in Reports,
         report' = [report EXCEPT ![q] = {new}], UNCHANGED archive,
         builder' \in [Builder -> Builders], \A c \in Builder : c # b => builder'[c] = builder[c],
         builder[b].pc = "report",
         \/ new = Partial /\ builder'[b].pc = "killed"
         \/ new # Partial /\ new.by = b /\ builder'[b].pc = "done"
  PROVE  Keeps /\ Written'
<1>1. \A a : ArchiveWritten(a) => ArchiveWritten(a)'
  BY DEF ArchiveWritten
<1>2. \A r : ReportWritten(r) => ReportWritten(r)'
  BY DEF ReportWritten
<1>3. \A p, a : ArchiveGone(p, a) => ArchiveGone(p, a)'
  BY <1>1 DEF ArchiveGone
<1>4. Partial' = Partial
  BY DEF Partial
<1>5. ASSUME NEW p \in Place, NEW r, r # Partial, ReportGone(p, r)
      PROVE  ReportGone(p, r)'
  <2>1. r # new
    BY <1>5 DEF ReportGone, ReportWritten
  <2>2. report'[p] # {r}
    BY <1>5, <2>1 DEF ReportGone, TransitionTypes
  <2>3. QED
    BY <1>2, <1>5, <2>2 DEF ReportGone
<1>6. new # Partial => ReportWritten(new)'
  BY DEF ReportWritten
<1>7. \A p \in Place : \A r \in report'[p] : r = new \/ r \in report[p]
  BY DEF TransitionTypes
<1>8. \A p \in Place : \A r \in report'[p] : r # Partial => ReportWritten(r)'
  BY <1>2, <1>6, <1>7 DEF Written
<1>9. archive' = archive
  OBVIOUS
<1>10. \A p \in Place : \A a \in archive'[p] : a # Partial => ArchiveWritten(a)'
  BY <1>1, <1>9 DEF Written
<1>11. Written'
  BY <1>4, <1>8, <1>10 DEF Written
<1>12. QED
  BY <1>1, <1>2, <1>3, <1>5, <1>11 DEF Keeps

\* Each step of a build.
LEMMA BuildStepKeeps ==
  ASSUME TransitionTypes, Written, NEW b \in Builder, BuildStep(b)
  PROVE  TransitionTypes' /\ Written' /\ Keeps /\ UNCHANGED <<registry, mover, pack>>
<1> DEFINE q == builder[b].place
<1>0. /\ q \in Place /\ builder[b].base \in Bases /\ builder \in [Builder -> Builders]
      /\ archive \in [Place -> Singles(Contents)] /\ report \in [Place -> Singles(Reports)]
      /\ \A p \in Place : \A r \in report[p] : r # Partial => r.place = p
  BY DEF TransitionTypes, Builders
<1>u. UNCHANGED <<registry, mover, pack>>
  BY DEF BuildStep, BuildExport, BuildEnd, BuildFails, BuildVerify, BuildReport, BuildCrash
<1>p. Partial \in Contents /\ Partial \in Reports
  BY DEF Contents, Reports
<1>1. CASE BuildExport(b)
  <2>1. /\ builder' \in [Builder -> Builders] /\ builder[b].pc = "idle"
        /\ \A c \in Builder : c # b => builder'[c] = builder[c]
    BY <1>1, BuilderGoes DEF BuildExport
  <2>2. archive' = [archive EXCEPT ![q] = {Partial}] /\ report' = report
    BY <1>1 DEF BuildExport
  <2>3. archive' \in [Place -> Singles(Contents)]
    BY <1>0, <1>p, <2>2 DEF Singles
  <2>4. TransitionTypes'
    BY <1>0, <1>u, <2>1, <2>2, <2>3, BuilderTypes
  <2>5. Keeps /\ Written'
    BY <1>0, <1>p, <2>1, <2>2, ArchiveKeeps
  <2>6. QED
    BY <1>u, <2>4, <2>5
<1>2. CASE BuildEnd(b)
  <2>1. /\ builder' \in [Builder -> Builders] /\ builder[b].pc = "exporting"
        /\ builder'[b].pc = "verify"
        /\ \A c \in Builder : c # b => builder'[c] = builder[c]
    BY <1>2, BuilderGoes DEF BuildEnd
  <2>2. PICK l \in Layout : archive' = [archive EXCEPT ![q] = {ArchiveOf(b, l)}]
    BY <1>2 DEF BuildEnd
  <2>3. report' = report
    BY <1>2 DEF BuildEnd
  <2>4. /\ ArchiveOf(b, l) \in Contents /\ {ArchiveOf(b, l)} \in Singles(Contents)
        /\ ArchiveOf(b, l) # Partial /\ ArchiveOf(b, l).bytes.by = b
    <3>1. l \in Layouts
      BY DEF Layouts
    <3>2. ArchiveOf(b, l) \in Archives /\ {ArchiveOf(b, l)} \in Singles(Contents)
      BY <3>1, ArchiveIsContent
    <3>3. ArchiveOf(b, l) # Partial /\ ArchiveOf(b, l).bytes = [by |-> b, of |-> l]
      BY <3>1, ArchiveFields
    <3>4. QED
      BY <3>2, <3>3 DEF Contents
  <2>5. archive' \in [Place -> Singles(Contents)]
    BY <1>0, <2>2, <2>4
  <2>6. TransitionTypes'
    BY <1>0, <1>u, <2>1, <2>3, <2>5, BuilderTypes
  <2>7. Keeps /\ Written'
    BY <1>0, <2>1, <2>2, <2>3, <2>4, ArchiveKeeps
  <2>8. QED
    BY <1>u, <2>6, <2>7
<1>3. CASE BuildFails(b)
  <2>1. /\ builder' \in [Builder -> Builders] /\ builder[b].pc \in {"idle", "exporting"}
        /\ \A c \in Builder : c # b => builder'[c] = builder[c]
    BY <1>3, BuilderGoes DEF BuildFails
  <2>2. UNCHANGED <<archive, report>>
    BY <1>3 DEF BuildFails
  <2>3. TransitionTypes'
    BY <1>0, <1>u, <2>1, <2>2, BuilderTypes
  <2>4. Keeps /\ Written'
    BY <2>1, <2>2, BuilderKeeps
  <2>5. QED
    BY <1>u, <2>3, <2>4
<1>4. CASE BuildVerify(b)
  <2> DEFINE ok == \A a \in archive[builder[b].place] : VerifyAttestations(a)
             next == [builder[b] EXCEPT !.pc = "report", !.verified = ok]
  <2> HIDE DEF ok
  <2>1. builder' = [builder EXCEPT ![b] = next] /\ builder[b].pc = "verify"
    BY <1>4 DEF BuildVerify, ok
  <2>2. ok \in BOOLEAN
    BY DEF ok
  <2>3. next \in Builders /\ next.pc = "report"
    BY <1>0, <2>2 DEF Builders
  <2> HIDE DEF next
  <2>4. /\ builder' \in [Builder -> Builders] /\ builder'[b].pc = "report"
        /\ \A c \in Builder : c # b => builder'[c] = builder[c]
    BY <1>0, <2>1, <2>3
  <2>5. UNCHANGED <<archive, report>>
    BY <1>4 DEF BuildVerify
  <2>6. TransitionTypes'
    BY <1>0, <1>u, <2>4, <2>5, BuilderTypes
  <2>7. Keeps /\ Written'
    BY <2>1, <2>4, <2>5, BuilderKeeps
  <2>8. QED
    BY <1>u, <2>6, <2>7
<1>5. CASE BuildReport(b)
  <2>1. /\ builder' \in [Builder -> Builders] /\ builder[b].pc = "report"
        /\ builder'[b].pc = "done"
        /\ \A c \in Builder : c # b => builder'[c] = builder[c]
    BY <1>5, BuilderGoes DEF BuildReport
  <2>a. PICK scout \in Scout : \E overall \in Overall(b) :
          report' = [report EXCEPT ![q] =
            {ReportOf(b, overall, q, archive[q], builder[b].base, scout)}]
    BY <1>5 DEF BuildReport
  <2>2. PICK overall \in Overall(b) :
          report' = [report EXCEPT ![q] =
            {ReportOf(b, overall, q, archive[q], builder[b].base, scout)}]
    BY <2>a
  <2> DEFINE new == ReportOf(b, overall, q, archive[q], builder[b].base, scout)
  <2>3. new \in WholeReports /\ new.place = q /\ new.by = b /\ new # Partial
    BY <1>0 DEF ReportOf, WholeReports, Overall, Partial
  <2>4. archive' = archive
    BY <1>5 DEF BuildReport
  <2> HIDE DEF new
  <2>5. new \in Reports
    BY <2>3 DEF Reports
  <2>6. report' \in [Place -> Singles(Reports)] /\ report' = [report EXCEPT ![q] = {new}]
    BY <1>0, <2>2, <2>5 DEF Singles, new
  <2>7. \A p \in Place : \A r \in report'[p] : r # Partial => r.place = p
    BY <1>0, <2>3, <2>6
  <2>8. TransitionTypes'
    BY <1>0, <1>u, <2>1, <2>4, <2>6, <2>7, BuilderTypes
  <2>9. Keeps /\ Written'
    BY <1>0, <2>1, <2>3, <2>4, <2>5, <2>6, ReportKeeps
  <2>10. QED
    BY <1>u, <2>8, <2>9
<1>6. CASE BuildCrash(b)
  <2>1. /\ builder' \in [Builder -> Builders] /\ builder[b].pc = "report"
        /\ builder'[b].pc = "killed"
        /\ \A c \in Builder : c # b => builder'[c] = builder[c]
    BY <1>6, BuilderGoes DEF BuildCrash
  <2>2. report' = [report EXCEPT ![q] = {Partial}] /\ archive' = archive
    BY <1>6 DEF BuildCrash
  <2>3. report' \in [Place -> Singles(Reports)]
    BY <1>0, <1>p, <2>2 DEF Singles
  <2>4. \A p \in Place : \A r \in report'[p] : r # Partial => r.place = p
    BY <1>0, <2>2
  <2>5. TransitionTypes'
    BY <1>0, <1>u, <2>1, <2>2, <2>3, <2>4, BuilderTypes
  <2>6. Keeps /\ Written'
    BY <1>0, <1>p, <2>1, <2>2, ReportKeeps
  <2>7. QED
    BY <1>u, <2>5, <2>6
<1>7. QED
  BY <1>1, <1>2, <1>3, <1>4, <1>5, <1>6 DEF BuildStep
---------------------------------------------------------------------------
(* Transition packs: what a mover knows stays true, whoever moves *)

\* The places of a mover's order are places.
LEMMA MoverPlaces ==
  ASSUME NEW r, MoverShape(r), NEW s \in Side
  PROVE  r.place[s] \in Place
<1>1. [evidence |-> r.evidence, place |-> r.place] \in Order
  BY DEF MoverShape
<1>2. QED
  BY <1>1, TransitionAssumption

\* What is said of contents does not depend on the state.
LEMMA ContentsStay ==
  /\ \A a : VerifyLayout(a)' <=> VerifyLayout(a)
  /\ \A a : VerifyAttestations(a)' <=> VerifyAttestations(a)
  /\ \A a : Snapshot(a)' = Snapshot(a)
  /\ \A t, a : TakenOf(t, a)' <=> TakenOf(t, a)
  /\ \A t : Sure(t)' <=> Sure(t)
  /\ \A b, a : BuildDiff(b, a)' = BuildDiff(b, a)
  /\ \A c : VerifyComparison(c)' <=> VerifyComparison(c)
<1>1. \A a : VerifyLayout(a)' <=> VerifyLayout(a)
  BY DEF VerifyLayout, IntactManifest, Readable, Layers
<1>2. \A a : VerifyAttestations(a)' <=> VerifyAttestations(a)
  BY DEF VerifyAttestations, Readable, Runnable, Attesting, Layers, BoundToItsImage, Statements,
     Predicates, IsStatement
<1>3. \A a : Snapshot(a)' = Snapshot(a)
  BY DEF Snapshot, Runnable, Layers, Predicates, Statements, Attesting, IsStatement
<1>4. \A t, a : TakenOf(t, a)' <=> TakenOf(t, a)
  BY <1>1, <1>2, <1>3 DEF TakenOf
<1>5. Singles(Contents)' = Singles(Contents) /\ Singles(Reports)' = Singles(Reports)
  BY DEF Singles, Contents, Reports, Archives, Layouts, WholeReports, ArchiveOf, Partial, Bases
<1>6. Partial' = Partial
  BY DEF Partial
<1>7. \A t : Sure(t)' <=> Sure(t)
  BY <1>4, <1>5, <1>6 DEF Sure
<1>8. \A b, a : BuildDiff(b, a)' = BuildDiff(b, a)
  BY DEF BuildDiff, Changes, SetChanges, Classification, HasBaseChange
<1>9. \A c : VerifyComparison(c)' <=> VerifyComparison(c)
  BY DEF VerifyComparison, VerifyPack, VerifyDelta, Comparable, Measured, BuildDelta, Anchor,
     ChangeCounts, ClassifyChange, Improvements, Side
<1>10. QED
  BY <1>1, <1>2, <1>3, <1>4, <1>7, <1>8, <1>9

\* A mover that rests knows what it knew.
LEMMA KnowledgeStays ==
  ASSUME Keeps, NEW r, MoverShape(r), MoverInv(r)
  PROVE  MoverInv(r)'
<1>p. \A s \in Side : r.place[s] \in Place
  BY MoverPlaces
<1>s. r.side \in Side
  BY DEF MoverShape
<1>k. /\ \A p \in Place : \A a : a # Partial /\ ArchiveGone(p, a) => ArchiveGone(p, a)'
      /\ \A a : ArchiveWritten(a) => ArchiveWritten(a)'
      /\ \A p \in Place : \A y : y # Partial /\ ReportGone(p, y) => ReportGone(p, y)'
      /\ \A y : ReportWritten(y) => ReportWritten(y)'
  BY DEF Keeps
<1>c. /\ Singles(Contents)' = Singles(Contents) /\ Singles(Reports)' = Singles(Reports)
      /\ Singles(WholeReports)' = Singles(WholeReports) /\ Partial' = Partial
  BY DEF Singles, Contents, Reports, Archives, Layouts, WholeReports, ArchiveOf, Partial, Bases
<1>1. LooksAt(r)'
  BY <1>p, <1>s, <1>k, <1>c, ContentsStay DEF MoverInv, LooksAt, HasReport, HasHash, HasGraph, HasBound
<1>2. \A p \in Place : \A t : Told(p, t) => Told(p, t)'
  BY <1>k, <1>c, ContentsStay DEF Told
<1>3. HasTold(r)'
  BY <1>p, <1>2, ContentsStay DEF MoverInv, HasTold
<1>4. LooksAgain(r)'
  BY <1>p, <1>s, <1>k, <1>c, ContentsStay DEF MoverInv, LooksAgain, HasReport, HasHash
<1>5. Compared(r)'
  BY ContentsStay DEF MoverInv, Compared
<1>6. Embedded(r)'
  BY ContentsStay DEF MoverInv, Embedded
<1>7. QED
  BY <1>1, <1>3, <1>4, <1>5, <1>6 DEF MoverInv
---------------------------------------------------------------------------
(* Transition packs: what a mover learns *)

\* A record but for some of its fields: the fields that are never changed, and those that
\* are changed together.
SameOrder(r, q) == q.evidence = r.evidence /\ q.place = r.place
SameDiff(r, q) == q.pass = r.pass /\ q.seen = r.seen /\ q.diff = r.diff
SameSide(r, q) == q.side = r.side /\ q.held = r.held /\ q.taken = r.taken

\* The program counter is all that a mover changes that only goes on.
LEMMA OnlyPc ==
  ASSUME NEW r, MoverShape(r), NEW to
  PROVE  LET q == [r EXCEPT !.pc = to] IN
         /\ q.pc = to /\ q.comparison = r.comparison /\ q.reports = r.reports
         /\ SameOrder(r, q) /\ SameDiff(r, q) /\ SameSide(r, q)
  BY DEF MoverShape, MoverFields, SameOrder, SameDiff, SameSide

\* A mover that ends, or that looks at nothing yet, knows no more.
LEMMA EndsKnowing ==
  ASSUME NEW r, NEW q, MoverInv(r), q.pc \in {"raised", "done", "pack"},
         SameOrder(r, q), SameDiff(r, q), SameSide(r, q), q.comparison = r.comparison,
         q.pc = "pack" => \A s \in Side : q.evidence[s].attested
  PROVE  MoverInv(q)
<1> USE DEF MoverInv, SameOrder, SameDiff, SameSide
<1>1. LooksAt(q)
  BY DEF LooksAt, HasReport, HasHash, HasGraph, HasBound
<1>2. HasTold(q)
  BY DEF HasTold
<1>3. LooksAgain(q)
  BY DEF LooksAgain, HasReport, HasHash
<1>4. Compared(q) /\ Embedded(q)
  BY DEF Compared, Embedded
<1>5. QED
  BY <1>1, <1>2, <1>3, <1>4

\* What is at the path that the report in hand names.
LEMMA PointedIsThere ==
  ASSUME TransitionTypes, NEW m \in Mover, MoverInv(mover[m]), mover[m].pc \in HasReport
  PROVE  LET p == mover[m].place[mover[m].side] IN
         /\ p \in Place /\ Pointed(m) = archive[p] /\ archive[p] \in Singles(Contents)
         /\ mover[m].held \in Singles(WholeReports)
         /\ \A h \in mover[m].held : h.archive_sha256 \in Singles(Contents)
<1> DEFINE p == mover[m].place[mover[m].side]
<1>1. p \in Place
  BY MoverPlaces DEF TransitionTypes, MoverShape
<1>2. mover[m].held \in Singles(WholeReports) /\ \A h \in mover[m].held : h.place = p
  BY DEF MoverInv, LooksAt
<1>3. PICK h \in WholeReports : mover[m].held = {h}
  BY <1>2 DEF Singles
<1>4. h.place = p
  BY <1>2, <1>3
<1>5. Pointed(m) = archive[p]
  BY <1>3, <1>4 DEF Pointed
<1>6. h.archive_sha256 \in Singles(Contents)
  BY <1>3 DEF WholeReports
<1>7. archive[p] \in Singles(Contents)
  BY <1>1 DEF TransitionTypes
<1>8. QED
  BY <1>1, <1>2, <1>3, <1>5, <1>6, <1>7

\* A report that is accepted is whole, and what the second pass compares it with is the
\* same report, or gone.
LEMMA ReadReportKnows ==
  ASSUME TransitionTypes, NEW m \in Mover, MoverInv(mover[m]), ReadReport(m)
  PROVE  MoverInv(mover'[m])
<1> SUFFICES ASSUME NEW r, r = mover[m], NEW q, q = mover'[m] PROVE MoverInv(q)
  OBVIOUS
<1> DEFINE p == r.place[r.side]
<1>1. q = [r EXCEPT !.pc = "hash", !.held = Reported(m)]
  BY DEF ReadReport, TransitionTypes
<1>2. MoverShape(r)
  BY DEF TransitionTypes
<1>3. /\ q.pc = "hash" /\ q.held = Reported(m) /\ q.side = r.side /\ q.comparison = r.comparison
      /\ SameOrder(r, q) /\ SameDiff(r, q)
  BY <1>1, <1>2 DEF MoverShape, MoverFields, SameOrder, SameDiff
<1>4. Reported(m) = report[p] /\ p \in Place
  BY <1>2, MoverPlaces DEF Reported, MoverShape
<1>5. PICK y \in Reports : report[p] = {y}
  BY <1>4 DEF TransitionTypes, Singles
<1>6. y.whole /\ y.overall = "VERIFIED"
  BY <1>4, <1>5 DEF ReadReport, Acceptable
<1>7. y \in WholeReports /\ y # Partial
  BY <1>5, <1>6 DEF Reports, Partial
<1>8. y.place = p
  BY <1>4, <1>5, <1>7 DEF TransitionTypes
<1>9. LooksAt(q)
  <2>1. q.held = {y}
    BY <1>3, <1>4, <1>5
  <2>2. {y} \in Singles(WholeReports)
    BY <1>7 DEF Singles
  <2>3. q.place[q.side] = p
    BY <1>3 DEF SameOrder
  <2>4. QED
    BY <1>3, <1>6, <1>8, <2>1, <2>2, <2>3 DEF LooksAt, HasReport, HasHash, HasGraph, HasBound
<1>10. HasTold(q)
  BY <1>3 DEF MoverInv, HasTold, SameOrder, SameDiff
<1>11. LooksAgain(q)
  <2>1. ASSUME NEW d \in q.diff, NEW h \in q.held, NEW z \in d[q.side].report, z # Partial
        PROVE  h = z \/ ReportGone(q.place[q.side], z)
    <3>1. h = y /\ q.place[q.side] = p /\ d \in r.diff /\ q.side = r.side
      BY <1>3, <1>4, <1>5, <2>1 DEF SameOrder, SameDiff
    <3>2. Told(p, d[r.side])
      BY <1>2, <3>1 DEF MoverInv, HasTold, MoverShape
    <3>3. ReportWritten(z)
      BY <2>1, <3>1, <3>2 DEF Told
    <3>4. QED
      BY <1>5, <3>1, <3>3 DEF ReportGone
  <2>2. LooksAgain(r)
    BY DEF MoverInv
  <2>3. r.pc = "report"
    BY DEF ReadReport
  <2>4. QED
    BY <1>3, <2>1, <2>2, <2>3 DEF LooksAgain, HasReport, HasHash, SameDiff
<1>12. Compared(q) /\ Embedded(q)
  BY <1>3 DEF MoverInv, Compared, Embedded, SameOrder
<1>13. QED
  BY <1>9, <1>10, <1>11, <1>12 DEF MoverInv

\* The three verifications: of the archive that has the digest, or that one is gone.
LEMMA VerifyKnows ==
  ASSUME TransitionTypes, Written, NEW m \in Mover, MoverInv(mover[m]),
         HashArchive(m) \/ VerifyGraph(m) \/ VerifyStatements(m)
  PROVE  MoverInv(mover'[m])
<1> SUFFICES ASSUME NEW r, r = mover[m], NEW q, q = mover'[m] PROVE MoverInv(q)
  OBVIOUS
<1> DEFINE p == r.place[r.side]
<1>2. MoverShape(r)
  BY DEF TransitionTypes
<1>1. PICK to \in {"graph", "statements", "snapshot"} :
        /\ q = [r EXCEPT !.pc = to]
        /\ to = "graph" => r.pc = "hash" /\ HashArchive(m)
        /\ to = "statements" => r.pc = "graph" /\ VerifyGraph(m)
        /\ to = "snapshot" => r.pc = "statements" /\ VerifyStatements(m)
  BY DEF HashArchive, VerifyGraph, VerifyStatements, MoverAt, TransitionTypes
<1>3. /\ q.pc = to /\ q.comparison = r.comparison
      /\ SameOrder(r, q) /\ SameDiff(r, q) /\ SameSide(r, q)
  BY <1>1, <1>2, OnlyPc
<1>4. r.pc \in HasReport
  BY <1>1 DEF HasReport
<1>5. /\ p \in Place /\ Pointed(m) = archive[p] /\ archive[p] \in Singles(Contents)
      /\ r.held \in Singles(WholeReports)
      /\ \A h \in r.held : h.archive_sha256 \in Singles(Contents)
  BY <1>4, PointedIsThere
<1>6. PICK x \in Contents : archive[p] = {x}
  BY <1>5 DEF Singles
<1>7. /\ to = "graph" => \A h \in r.held : h.archive_sha256 = {x}
      /\ to = "statements" => VerifyLayout(x)
      /\ to = "snapshot" => VerifyAttestations(x)
  BY <1>1, <1>5, <1>6 DEF HashArchive, VerifyGraph, VerifyStatements, Acceptable
<1>8. LooksAt(r)
  BY DEF MoverInv
<1>9. ASSUME NEW h \in r.held, NEW a \in h.archive_sha256, a # Partial
      PROVE  /\ ArchiveWritten(a)
             /\ to \in {"statements", "snapshot"} => ArchiveGone(p, a) \/ VerifyLayout(a)
             /\ to = "snapshot" => ArchiveGone(p, a) \/ VerifyAttestations(a)
  <2>1. ArchiveWritten(a)
    <3>1. CASE to = "graph"
      BY <1>5, <1>6, <1>7, <1>9, <3>1 DEF Written
    <3>2. CASE to # "graph"
      BY <1>1, <1>8, <1>9, <3>2 DEF LooksAt, HasHash, HasReport
    <3>3. QED
      BY <3>1, <3>2
  <2>2. a # x => ArchiveGone(p, a)
    BY <1>6, <2>1 DEF ArchiveGone
  <2>3. to = "snapshot" => ArchiveGone(p, a) \/ VerifyLayout(a)
    BY <1>1, <1>8, <1>9 DEF LooksAt, HasGraph, HasHash, HasReport
  <2>4. QED
    BY <1>7, <2>1, <2>2, <2>3
<1>10. LooksAt(q)
  <2>1. q.held = r.held /\ q.place[q.side] = p
    BY <1>3 DEF SameOrder, SameSide
  <2>2. \A h \in r.held : h.overall = "VERIFIED" /\ h.place = p
    BY <1>4, <1>8 DEF LooksAt
  <2>3. QED
    BY <1>3, <1>5, <1>9, <2>1, <2>2 DEF LooksAt, HasReport, HasHash, HasGraph, HasBound
<1>11. HasTold(q)
  BY <1>3 DEF MoverInv, HasTold, SameOrder, SameDiff
<1>12. LooksAgain(q)
  <2>1. LooksAgain(r) /\ HasTold(r)
    BY DEF MoverInv
  <2>2. ASSUME q.pass = 2, NEW d \in q.diff, NEW h \in q.held, NEW a \in h.archive_sha256,
               a # Partial, d[q.side].archive = {a}
        PROVE  TakenOf(d[q.side], a)
    <3>1. q.side = r.side /\ h \in r.held /\ d \in r.diff /\ r.pass = 2
      BY <1>3, <2>2 DEF SameSide, SameDiff
    <3>2. CASE to = "graph"
      <4>1. a = x
        BY <1>7, <2>2, <3>1, <3>2
      <4>2. Told(p, d[r.side])
        BY <1>2, <2>1, <3>1 DEF HasTold, MoverShape
      <4>3. ArchiveGone(p, a) \/ TakenOf(d[r.side], a)
        BY <2>2, <3>1, <4>2 DEF Told
      <4>4. ~ArchiveGone(p, a)
        BY <1>6, <4>1 DEF ArchiveGone
      <4>5. QED
        BY <3>1, <4>3, <4>4
    <3>3. CASE to # "graph"
      BY <1>1, <2>1, <2>2, <3>1, <3>3 DEF LooksAgain, HasHash, HasReport
    <3>4. QED
      BY <3>2, <3>3
  <2>3. q.held = r.held /\ q.side = r.side /\ q.place = r.place
    BY <1>3 DEF SameOrder, SameSide
  <2>4. QED
    BY <1>3, <1>4, <2>1, <2>2, <2>3 DEF LooksAgain, SameDiff
<1>13. Compared(q) /\ Embedded(q)
  BY <1>3 DEF MoverInv, Compared, Embedded, SameOrder
<1>14. QED
  BY <1>10, <1>11, <1>12, <1>13 DEF MoverInv
\* The snapshot is of the archive that was looked at.
LEMMA ReadArchiveKnows ==
  ASSUME TransitionTypes, NEW m \in Mover, MoverInv(mover[m]), ReadArchive(m)
  PROVE  MoverInv(mover'[m])
<1> SUFFICES ASSUME NEW r, r = mover[m], NEW q, q = mover'[m] PROVE MoverInv(q)
  OBVIOUS
<1> DEFINE p == r.place[r.side]
           taken == {Snapshot(a) : a \in Pointed(m)}
<1> HIDE DEF taken
<1>1. q = [r EXCEPT !.pc = "rehash", !.taken = taken]
  BY DEF ReadArchive, TransitionTypes, taken
<1>2. MoverShape(r) /\ r.pc = "snapshot"
  BY DEF TransitionTypes, ReadArchive
<1>3. /\ q.pc = "rehash" /\ q.taken = taken /\ q.held = r.held /\ q.side = r.side
      /\ q.comparison = r.comparison /\ SameOrder(r, q) /\ SameDiff(r, q)
  BY <1>1, <1>2 DEF MoverShape, MoverFields, SameOrder, SameDiff
<1>4. r.pc \in HasReport
  BY <1>2 DEF HasReport
<1>5. /\ Pointed(m) = archive[p] /\ archive[p] \in Singles(Contents)
      /\ r.held \in Singles(WholeReports)
  BY <1>4, PointedIsThere
<1>6. PICK x \in Contents : archive[p] = {x}
  BY <1>5 DEF Singles
<1>7. taken = {Snapshot(x)}
  BY <1>5, <1>6 DEF taken
<1>8. LooksAt(r)
  BY DEF MoverInv
<1>9. ASSUME NEW h \in r.held, NEW a \in h.archive_sha256, a # Partial
      PROVE  /\ ArchiveWritten(a)
             /\ ArchiveGone(p, a) \/ VerifyLayout(a)
             /\ ArchiveGone(p, a) \/ VerifyAttestations(a)
             /\ ArchiveGone(p, a) \/ taken = {Snapshot(a)}
  <2>1. /\ ArchiveWritten(a)
        /\ ArchiveGone(p, a) \/ VerifyLayout(a)
        /\ ArchiveGone(p, a) \/ VerifyAttestations(a)
    BY <1>2, <1>8, <1>9 DEF LooksAt, HasReport, HasHash, HasGraph, HasBound
  <2>2. a # x => ArchiveGone(p, a)
    BY <1>6, <2>1 DEF ArchiveGone
  <2>3. QED
    BY <1>7, <2>1, <2>2
<1>10. LooksAt(q)
  <2>1. q.held = r.held /\ q.place[q.side] = p
    BY <1>3 DEF SameOrder
  <2>2. \A h \in r.held : h.overall = "VERIFIED" /\ h.place = p
    BY <1>4, <1>8 DEF LooksAt
  <2>3. taken \in Singles({t : t \in taken})
    BY <1>7 DEF Singles
  <2>4. QED
    BY <1>3, <1>5, <1>9, <2>1, <2>2, <2>3 DEF LooksAt, HasReport, HasHash, HasGraph, HasBound
<1>11. HasTold(q)
  BY <1>3 DEF MoverInv, HasTold, SameOrder, SameDiff
<1>12. LooksAgain(q)
  <2>1. LooksAgain(r)
    BY DEF MoverInv
  <2>2. q.held = r.held /\ q.side = r.side /\ q.place = r.place
    BY <1>3 DEF SameOrder
  <2>3. r.pc \in HasHash
    BY <1>2 DEF HasHash, HasReport
  <2>4. QED
    BY <1>2, <1>3, <1>4, <2>1, <2>2, <2>3 DEF LooksAgain, SameDiff
<1>13. Compared(q) /\ Embedded(q)
  BY <1>3 DEF MoverInv, Compared, Embedded, SameOrder
<1>14. QED
  BY <1>10, <1>11, <1>12, <1>13 DEF MoverInv

\* What is written down of a side: it tells, and in the second pass it is sure if it is
\* what the diff says.
LEMMA SnapshotKnows ==
  ASSUME TransitionTypes, Written, NEW m \in Mover, MoverInv(mover[m]), mover[m].pc = "rehash",
         NEW snap \in ArtifactSnapshot(m)
  PROVE  /\ Told(mover[m].place[mover[m].side], snap)
         /\ mover[m].pass = 2 =>
              \A d \in mover[m].diff : d[mover[m].side] = snap => Sure(snap)
<1> DEFINE r == mover[m]
           p == r.place[r.side]
<1>1. r.pc \in HasReport /\ r.pc \in HasHash /\ r.pc \in HasGraph /\ r.pc \in HasBound
  BY DEF HasReport, HasHash, HasGraph, HasBound
<1>2. /\ p \in Place /\ r.held \in Singles(WholeReports)
      /\ \A h \in r.held : h.archive_sha256 \in Singles(Contents)
  BY <1>1, PointedIsThere
<1>3. PICK h \in r.held, t \in r.taken :
        snap = [report |-> Reported(m), archive |-> h.archive_sha256, runnable |-> t.runnable,
                predicates |-> t.predicates, materials |-> t.materials,
                statements |-> t.statements, base |-> h.base, scout |-> h.scout]
  BY DEF ArtifactSnapshot
<1>4. /\ snap.report = report[p] /\ snap.archive = h.archive_sha256 /\ snap.base = h.base
      /\ snap.scout = h.scout /\ snap.runnable = t.runnable /\ snap.predicates = t.predicates
      /\ snap.materials = t.materials /\ snap.statements = t.statements
  BY <1>3 DEF Reported
<1>5. report[p] \in Singles(Reports) /\ h.archive_sha256 \in Singles(Contents)
  BY <1>2 DEF TransitionTypes
<1>6. LooksAt(r) /\ LooksAgain(r)
  BY DEF MoverInv
<1>7. ASSUME NEW a \in snap.archive, a # Partial
      PROVE  ArchiveWritten(a) /\ (ArchiveGone(p, a) \/ TakenOf(snap, a))
  <2>1. /\ ArchiveWritten(a)
        /\ ArchiveGone(p, a) \/ VerifyLayout(a)
        /\ ArchiveGone(p, a) \/ VerifyAttestations(a)
        /\ ArchiveGone(p, a) \/ r.taken = {Snapshot(a)}
    BY <1>1, <1>4, <1>6, <1>7 DEF LooksAt
  <2>2. r.taken = {Snapshot(a)} => t = Snapshot(a)
    OBVIOUS
  <2>3. QED
    BY <1>4, <2>1, <2>2 DEF TakenOf
<1>8. \A y \in snap.report : y # Partial => ReportWritten(y)
  BY <1>2, <1>4 DEF Written
<1>9. Told(p, snap)
  BY <1>4, <1>5, <1>7, <1>8 DEF Told
<1>10. ASSUME r.pass = 2, NEW d \in r.diff, d[r.side] = snap
       PROVE  Sure(snap)
  <2>1. ASSUME NEW y \in snap.report, y # Partial
        PROVE  /\ y.overall = "VERIFIED" /\ snap.archive = y.archive_sha256
               /\ snap.base = y.base /\ snap.scout = y.scout
    <3>1. h = y \/ ReportGone(p, y)
      BY <1>1, <1>6, <1>10, <2>1 DEF LooksAgain
    <3>2. report[p] = {y}
      BY <1>4, <1>5, <2>1 DEF Singles
    <3>3. h = y
      BY <3>1, <3>2 DEF ReportGone
    <3>4. h.overall = "VERIFIED"
      BY <1>1, <1>6 DEF LooksAt
    <3>5. QED
      BY <1>4, <3>3, <3>4
  <2>2. ASSUME NEW a \in snap.archive, a # Partial
        PROVE  TakenOf(snap, a)
    <3>1. snap.archive = {a} /\ a \in h.archive_sha256
      BY <1>4, <1>5, <2>2 DEF Singles
    <3>2. QED
      BY <1>1, <1>6, <1>10, <2>2, <3>1 DEF LooksAgain
  <2>3. QED
    BY <1>4, <1>5, <2>1, <2>2 DEF Sure
<1>11. QED
  BY <1>9, <1>10

\* The snapshot of a side is kept, and the other side is next, or the comparison.
LEMMA HashReportKnows ==
  ASSUME TransitionTypes, Written, NEW m \in Mover, MoverInv(mover[m]), HashReport(m)
  PROVE  MoverInv(mover'[m])
<1> DEFINE snaps == ArtifactSnapshot(m)
<1> SUFFICES ASSUME NEW r, r = mover[m], NEW q, q = mover'[m] PROVE MoverInv(q)
  OBVIOUS
<1> DEFINE to == IF r.side = "before" THEN "report" ELSE "compare"
           seen == [r.seen EXCEPT ![r.side] = snaps]
<1>s. \A snap \in snaps :
        /\ Told(r.place[r.side], snap)
        /\ r.pass = 2 => \A d \in r.diff : d[r.side] = snap => Sure(snap)
  BY SnapshotKnows DEF HashReport
<1> HIDE DEF snaps
<1>2. MoverShape(r) /\ r.pc = "rehash" /\ r.side \in Side
  BY DEF TransitionTypes, HashReport, MoverShape
<1>1. q = [r EXCEPT !.seen = seen, !.held = {}, !.taken = {}, !.side = "after", !.pc = to]
  <2>1. mover' = [mover EXCEPT ![m].seen[r.side] = snaps, ![m].held = {}, ![m].taken = {},
                               ![m].side = "after", ![m].pc = to]
    BY DEF HashReport, snaps
  <2>2. QED
    BY <1>2, <2>1 DEF TransitionTypes, MoverShape, MoverFields
<1>3. /\ q.pc = to /\ q.seen = seen /\ q.held = {} /\ q.side = "after" /\ q.pass = r.pass
      /\ q.comparison = r.comparison /\ SameOrder(r, q) /\ q.diff = r.diff
  BY <1>1, <1>2 DEF MoverShape, MoverFields, SameOrder
<1>4. /\ seen[r.side] = snaps /\ \A s \in Side : s # r.side => seen[s] = r.seen[s]
  BY <1>2 DEF MoverShape
<1>5. q.pc \in {"report", "compare"} /\ (q.pc = "compare" <=> r.side = "after")
  BY <1>2, <1>3 DEF Side
<1>6. LooksAt(q)
  BY <1>3, <1>5 DEF LooksAt, HasReport, HasHash, HasGraph, HasBound
<1>7. HasTold(r) /\ LooksAgain(r)
  BY DEF MoverInv
<1>8. HasTold(q)
  <2>1. \A s \in Side : \A t \in q.seen[s] : Told(q.place[s], t)
    BY <1>s, <1>3, <1>4, <1>7 DEF HasTold, SameOrder
  <2>2. QED
    BY <1>3, <1>7, <2>1 DEF HasTold, SameOrder
<1>9. LooksAgain(q)
  <2> SUFFICES ASSUME q.pass = 2, NEW d \in q.diff
               PROVE  /\ d.before \in q.seen["before"] => Sure(d.before)
                      /\ q.pc = "compare" /\ d.after \in q.seen["after"] => Sure(d.after)
    BY <1>3 DEF LooksAgain
  <2>1. d \in r.diff /\ r.pass = 2
    BY <1>3
  <2>2. CASE r.side = "before"
    <3>1. q.seen["before"] = snaps /\ q.pc # "compare"
      BY <1>3, <1>4, <1>5, <2>2
    <3>2. d.before \in snaps => Sure(d.before)
      BY <1>s, <2>1, <2>2
    <3>3. QED
      BY <3>1, <3>2
  <2>3. CASE r.side = "after"
    <3>1. q.seen["after"] = snaps /\ q.seen["before"] = r.seen["before"]
      BY <1>3, <1>4, <2>3 DEF Side
    <3>2. d.after \in snaps => Sure(d.after)
      BY <1>s, <2>1, <2>3
    <3>3. d.before \in r.seen["before"] => Sure(d.before)
      BY <1>7, <2>1, <2>3 DEF LooksAgain
    <3>4. QED
      BY <3>1, <3>2, <3>3
  <2>4. QED
    BY <1>2, <2>2, <2>3 DEF Side
<1>10. Compared(q) /\ Embedded(q)
  BY <1>3, <1>5 DEF MoverInv, Compared, Embedded, SameOrder
<1>11. QED
  BY <1>6, <1>8, <1>9, <1>10 DEF MoverInv
\* What is compared verifies and is attested.
LEMMA MoveCompareKnows ==
  ASSUME TransitionTypes, NEW m \in Mover, MoverInv(mover[m]), MoveCompare(m)
  PROVE  MoverInv(mover'[m])
<1> SUFFICES ASSUME NEW r, r = mover[m], NEW q, q = mover'[m] PROVE MoverInv(q)
  OBVIOUS
<1>1. PICK c : /\ mover' = [mover EXCEPT ![m].pc = "report", ![m].comparison = {c}]
               /\ VerifyComparison(c) /\ \A s \in Side : c[s].bundle = Given(m, s)
  <2> DEFINE c == [before |-> [bundle |-> Given(m, "before"), registry |-> registry],
                   after  |-> [bundle |-> Given(m, "after"), registry |-> registry],
                   delta  |-> BuildDelta(Given(m, "before"), Given(m, "after")),
                   run_ids |-> <<Given(m, "before").run_id, Given(m, "after").run_id>>]
  <2>1. /\ mover' = [mover EXCEPT ![m].pc = "report", ![m].comparison = {c}]
        /\ VerifyComparison(c)
    BY DEF MoveCompare
  <2>2. \A s \in Side : c[s].bundle = Given(m, s)
    BY DEF Side
  <2> HIDE DEF c
  <2>3. QED
    BY <2>1, <2>2
<1>2. MoverShape(r) /\ r.pc = "pack"
  BY DEF TransitionTypes, MoveCompare
<1>3. q = [r EXCEPT !.pc = "report", !.comparison = {c}]
  BY <1>1, <1>2 DEF TransitionTypes, MoverShape, MoverFields
<1>4. /\ q.pc = "report" /\ q.comparison = {c}
      /\ SameOrder(r, q) /\ SameDiff(r, q) /\ SameSide(r, q)
  BY <1>2, <1>3 DEF MoverShape, MoverFields, SameOrder, SameDiff, SameSide
<1>5. \A s \in Side : c[s].bundle.verifies /\ c[s].bundle.attested
  <2>1. \A s \in Side : Given(m, s).attested
    BY <1>2 DEF MoverInv, Compared, Given
  <2>2. \A s \in Side : c[s].bundle.verifies
    BY <1>1 DEF VerifyComparison, VerifyPack
  <2>3. QED
    BY <1>1, <2>1, <2>2
<1>6. Compared(q)
  BY <1>1, <1>4, <1>5 DEF Compared
<1>7. LooksAt(q) /\ Embedded(q)
  BY <1>4 DEF LooksAt, HasReport, HasHash, HasGraph, HasBound, Embedded
<1>8. HasTold(q)
  BY <1>4 DEF MoverInv, HasTold, SameOrder, SameDiff
<1>9. LooksAgain(q)
  BY <1>4 DEF MoverInv, LooksAgain, HasReport, HasHash, SameDiff, SameSide
<1>10. QED
  BY <1>6, <1>7, <1>8, <1>9 DEF MoverInv

\* The diff is of the two snapshots; the second pass has still to look at both sides.
LEMMA WriteDiffKnows ==
  ASSUME TransitionTypes, NEW m \in Mover, MoverInv(mover[m]), WriteDiff(m)
  PROVE  MoverInv(mover'[m])
<1> SUFFICES ASSUME NEW r, r = mover[m], NEW q, q = mover'[m] PROVE MoverInv(q)
  OBVIOUS
<1> DEFINE diff == Diffs(m)
<1>1. \A d \in diff : \E b \in r.seen["before"], a \in r.seen["after"] : d = BuildDiff(b, a)
  BY DEF Diffs
<1> HIDE DEF diff
<1>2. MoverShape(r)
  BY DEF TransitionTypes
<1>3. q = [r EXCEPT !.pc = "report", !.side = "before", !.pass = 2, !.diff = diff]
  BY <1>2 DEF WriteDiff, TransitionTypes, MoverShape, MoverFields, diff
<1>4. /\ q.pc = "report" /\ q.side = "before" /\ q.diff = diff /\ q.seen = r.seen
      /\ q.comparison = r.comparison /\ SameOrder(r, q)
  BY <1>2, <1>3 DEF MoverShape, MoverFields, SameOrder
<1>5. HasTold(r)
  BY DEF MoverInv
<1>6. HasTold(q)
  <2>1. ASSUME NEW d \in q.diff
        PROVE  d = BuildDiff(d.before, d.after) /\ \A s \in Side : Told(q.place[s], d[s])
    <3>1. PICK b \in r.seen["before"], a \in r.seen["after"] : d = BuildDiff(b, a)
      BY <1>1, <1>4, <2>1
    <3>2. d.before = b /\ d.after = a
      BY <3>1 DEF BuildDiff
    <3>3. Told(q.place["before"], d.before) /\ Told(q.place["after"], d.after)
      BY <1>4, <1>5, <3>2 DEF HasTold, Side, SameOrder
    <3>4. QED
      BY <3>1, <3>2, <3>3 DEF Side
  <2>2. QED
    BY <1>4, <1>5, <2>1 DEF HasTold, SameOrder
<1>7. LooksAt(q) /\ Embedded(q)
  BY <1>4 DEF LooksAt, HasReport, HasHash, HasGraph, HasBound, Embedded
<1>8. LooksAgain(q)
  BY <1>4 DEF LooksAgain, HasReport, HasHash
<1>9. Compared(q)
  BY <1>4 DEF MoverInv, Compared, SameOrder
<1>10. QED
  BY <1>6, <1>7, <1>8, <1>9 DEF MoverInv

\* A diff that the second pass makes again is sure of both sides.
LEMMA VerifyDiffKnows ==
  ASSUME TransitionTypes, NEW m \in Mover, MoverInv(mover[m]), VerifyDiff(m)
  PROVE  MoverInv(mover'[m])
<1> SUFFICES ASSUME NEW r, r = mover[m], NEW q, q = mover'[m] PROVE MoverInv(q)
  OBVIOUS
<1>1. MoverShape(r) /\ r.pc = "compare" /\ r.pass = 2 /\ q = [r EXCEPT !.pc = "embed"]
  BY DEF TransitionTypes, VerifyDiff, MoverAt
<1>2. /\ q.pc = "embed" /\ q.comparison = r.comparison
      /\ SameOrder(r, q) /\ SameDiff(r, q) /\ SameSide(r, q)
  BY <1>1, OnlyPc
<1>3. LooksAgain(r)
  BY DEF MoverInv
<1>4. ASSUME NEW d \in q.diff, NEW s \in Side
      PROVE  Sure(d[s])
  <2>1. d \in r.diff /\ d \in Diffs(m)
    BY <1>2, <1>4 DEF VerifyDiff, SameDiff
  <2>2. PICK b \in r.seen["before"], a \in r.seen["after"] : d = BuildDiff(b, a)
    BY <2>1 DEF Diffs
  <2>3. d.before = b /\ d.after = a
    BY <2>2 DEF BuildDiff
  <2>4. Sure(d.before) /\ Sure(d.after)
    BY <1>1, <1>3, <2>1, <2>3 DEF LooksAgain
  <2>5. QED
    BY <2>4 DEF Side
<1>5. Embedded(q)
  BY <1>2, <1>4 DEF Embedded
<1>6. LooksAt(q) /\ Compared(q)
  BY <1>2 DEF MoverInv, LooksAt, HasReport, HasHash, HasGraph, HasBound, Compared, SameOrder
<1>7. HasTold(q)
  BY <1>2 DEF MoverInv, HasTold, SameOrder, SameDiff
<1>8. LooksAgain(q)
  BY <1>1, <1>2, <1>3 DEF LooksAgain, HasReport, HasHash, SameDiff, SameSide
<1>9. QED
  BY <1>5, <1>6, <1>7, <1>8 DEF MoverInv

\* The reports that are embedded are those of the diff.
LEMMA EmbedReportsKnows ==
  ASSUME TransitionTypes, NEW m \in Mover, MoverInv(mover[m]), EmbedReports(m)
  PROVE  MoverInv(mover'[m])
<1> SUFFICES ASSUME NEW r, r = mover[m], NEW q, q = mover'[m] PROVE MoverInv(q)
  OBVIOUS
<1> DEFINE reports == [s \in Side |-> EmbedReport(m, s)]
<1>1. MoverShape(r) /\ r.pc = "embed"
  BY DEF TransitionTypes, EmbedReports
<1>2. q = [r EXCEPT !.pc = "write", !.reports = reports]
  BY DEF EmbedReports, TransitionTypes
<1>3. \A d \in r.diff, s \in Side : reports[s] = d[s].report
  BY DEF EmbedReports, Embeds
<1> HIDE DEF reports
<1>4. /\ q.pc = "write" /\ q.reports = reports /\ q.comparison = r.comparison
      /\ SameOrder(r, q) /\ SameDiff(r, q) /\ SameSide(r, q)
  BY <1>1, <1>2 DEF MoverShape, MoverFields, SameOrder, SameDiff, SameSide
<1>5. Embedded(q)
  BY <1>1, <1>3, <1>4 DEF MoverInv, Embedded, SameDiff
<1>6. LooksAt(q) /\ Compared(q)
  BY <1>4 DEF MoverInv, LooksAt, HasReport, HasHash, HasGraph, HasBound, Compared, SameOrder
<1>7. HasTold(q)
  BY <1>4 DEF MoverInv, HasTold, SameOrder, SameDiff
<1>8. LooksAgain(q)
  BY <1>1, <1>4 DEF MoverInv, LooksAgain, HasReport, HasHash, SameDiff, SameSide
<1>9. QED
  BY <1>5, <1>6, <1>7, <1>8 DEF MoverInv

\* Each step of a mover.
LEMMA MoverStepKnows ==
  ASSUME TransitionTypes, Written, NEW m \in Mover, MoverInv(mover[m]),
         MoveStep(m) \/ MoverCrash(m)
  PROVE  MoverInv(mover'[m])
<1> DEFINE r == mover[m]
           q == mover'[m]
<1>0. MoverShape(r)
  BY DEF TransitionTypes
<1>a. ASSUME NEW from, NEW to \in {"raised", "done", "pack"}, MoverAt(m, from, to),
             to = "pack" => \A s \in Side : r.evidence[s].attested
      PROVE  MoverInv(q)
  <2>1. q = [r EXCEPT !.pc = to]
    BY <1>a DEF MoverAt, TransitionTypes
  <2>2. /\ q.pc = to /\ q.comparison = r.comparison
        /\ SameOrder(r, q) /\ SameDiff(r, q) /\ SameSide(r, q)
    BY <1>0, <2>1, OnlyPc
  <2>3. q.pc = "pack" => \A s \in Side : q.evidence[s].attested
    BY <1>a, <2>2 DEF SameOrder
  <2> HIDE DEF q, r
  <2>4. MoverInv(r)
    BY DEF r
  <2>5. QED
    BY <1>a, <2>2, <2>3, <2>4, EndsKnowing
<1>1. CASE MoveDelta(m)
  <2>1. \A s \in Side : r.evidence[s].attested
    BY <1>1 DEF MoveDelta, Given
  <2>2. MoverAt(m, "delta", "pack")
    BY <1>1 DEF MoveDelta
  <2>3. QED
    BY <1>a, <2>1, <2>2
<1>2. CASE \/ MoveCompareRaises(m) \/ VerifyDiffRaises(m) \/ EmbedReportsRaises(m)
           \/ WriteTransition(m) \/ MoverCrash(m)
  <2>1. \E from \in {"delta", "pack", "compare", "embed", "write"} :
          \E to \in {"raised", "done"} : MoverAt(m, from, to)
    BY <1>2 DEF MoveCompareRaises, VerifyDiffRaises, EmbedReportsRaises, WriteTransition, MoverCrash
  <2>2. QED
    BY <1>a, <2>1
<1>3. CASE SnapshotRaises(m)
  <2>1. MoverAt(m, r.pc, "raised")
    BY <1>3 DEF SnapshotRaises, MoverAt
  <2>2. QED
    BY <1>a, <2>1
<1>4. QED
  BY <1>1, <1>2, <1>3, MoveCompareKnows, ReadReportKnows, VerifyKnows, ReadArchiveKnows,
     HashReportKnows, WriteDiffKnows, VerifyDiffKnows, EmbedReportsKnows DEF MoveStep
---------------------------------------------------------------------------
(* Transition packs: what was written *)

\* What is said of a pack does not depend on the state.
LEMMA PacksStay ==
  \A p : VerifyTransition(p)' <=> VerifyTransition(p)
<1>1. Side' = Side
  BY DEF Side
<1>2. QED
  BY <1>1, ContentsStay DEF VerifyTransition

\* A pack that nobody touches is as good as it was.
LEMMA PackRests ==
  ASSUME NEW m \in Mover, PackInv(m), pack'[m] = pack[m],
         mover'[m].pc = "done" => mover[m].pc = "done"
  PROVE  PackInv(m)'
<1>1. Side' = Side
  BY DEF Side
<1>2. QED
  BY <1>1, PacksStay, ContentsStay DEF PackInv

\* A mover ends well only by writing its pack.
LEMMA OnlyWritesEnd ==
  ASSUME TransitionTypes, NEW m \in Mover, MoveStep(m), ~WriteTransition(m)
  PROVE  pack' = pack /\ mover'[m].pc # "done"
<1>0. MoverShape(mover[m]) /\ mover = [n \in Mover |-> mover[n]]
  BY DEF TransitionTypes
<1>1. ASSUME NEW from, NEW to, MoverAt(m, from, to), to # "done"
      PROVE  mover'[m].pc # "done"
  BY <1>0, <1>1 DEF MoverAt, MoverShape, MoverFields
<1>2. CASE MoveDelta(m) \/ HashArchive(m) \/ VerifyGraph(m) \/ VerifyStatements(m) \/ VerifyDiff(m)
  <2>1. \E from, to \in {"delta", "pack", "hash", "graph", "statements", "snapshot",
                         "compare", "embed"} : MoverAt(m, from, to)
    BY <1>2 DEF MoveDelta, HashArchive, VerifyGraph, VerifyStatements, VerifyDiff
  <2>2. pack' = pack
    BY <1>2 DEF MoveDelta, HashArchive, VerifyGraph, VerifyStatements, VerifyDiff
  <2>3. QED
    BY <1>1, <2>1, <2>2
<1>3. CASE MoveCompareRaises(m) \/ VerifyDiffRaises(m) \/ EmbedReportsRaises(m)
  <2>1. \E from \in {"delta", "pack", "compare", "embed"} : MoverAt(m, from, "raised")
    BY <1>3 DEF MoveCompareRaises, VerifyDiffRaises, EmbedReportsRaises
  <2>2. pack' = pack
    BY <1>3 DEF MoveCompareRaises, VerifyDiffRaises, EmbedReportsRaises
  <2>3. QED
    BY <1>1, <2>1, <2>2
<1>4. CASE MoveCompare(m)
  <2>1. \E c : mover' = [mover EXCEPT ![m].pc = "report", ![m].comparison = {c}]
    BY <1>4 DEF MoveCompare
  <2>2. pack' = pack
    BY <1>4 DEF MoveCompare
  <2>3. QED
    BY <1>0, <2>1, <2>2 DEF MoverShape, MoverFields
<1>5. CASE SnapshotRaises(m)
  BY <1>0, <1>5 DEF SnapshotRaises, MoverShape, MoverFields
<1>6. CASE ReadReport(m)
  BY <1>0, <1>6 DEF ReadReport, MoverShape, MoverFields
<1>7. CASE ReadArchive(m)
  BY <1>0, <1>7 DEF ReadArchive, MoverShape, MoverFields
<1>8. CASE HashReport(m)
  <2> DEFINE r == mover[m]
             snaps == ArtifactSnapshot(m)
             to == IF r.side = "before" THEN "report" ELSE "compare"
             seen == [r.seen EXCEPT ![r.side] = snaps]
             q == [r EXCEPT !.seen = seen, !.held = {}, !.taken = {}, !.side = "after", !.pc = to]
  <2>1. mover' = [mover EXCEPT ![m].seen[r.side] = snaps, ![m].held = {}, ![m].taken = {},
                               ![m].side = "after", ![m].pc = to]
    BY <1>8 DEF HashReport
  <2>2. mover' = [mover EXCEPT ![m] = q] /\ to # "done"
    BY <1>0, <2>1 DEF MoverShape, MoverFields
  <2> HIDE DEF to, seen
  <2>3. q.pc = to
    BY <1>0 DEF MoverShape, MoverFields
  <2> HIDE DEF q
  <2>4. mover'[m] = q
    BY <1>0, <2>2
  <2>5. QED
    BY <1>8, <2>2, <2>3, <2>4 DEF HashReport
<1>9. CASE WriteDiff(m)
  BY <1>0, <1>9 DEF WriteDiff, MoverShape, MoverFields
<1>10. CASE EmbedReports(m)
  BY <1>0, <1>10 DEF EmbedReports, MoverShape, MoverFields
<1>11. QED
  BY <1>2, <1>3, <1>4, <1>5, <1>6, <1>7, <1>8, <1>9, <1>10 DEF MoveStep

\* A pack that is written is one that verifies, of a diff that is sure of both sides.
LEMMA WriteTransitionPacks ==
  ASSUME TransitionTypes, NEW m \in Mover, MoverInv(mover[m]), WriteTransition(m)
  PROVE  PackInv(m)'
<1> SUFFICES ASSUME NEW r, r = mover[m], MoverInv(r)
             PROVE  PackInv(m)'
  OBVIOUS
<1>1. r.pc = "write"
  BY DEF WriteTransition, MoverAt
<1>2. pack'[m] = {[whole |-> TRUE, comparison |-> c, diff |-> d, reports |-> r.reports,
                   manifest |-> [run_ids |-> c.run_ids, classification |-> d.classification]] :
                     c \in r.comparison, d \in r.diff}
  BY DEF WriteTransition, TransitionTypes
<1>3. ASSUME NEW c \in r.comparison, NEW d \in r.diff, NEW p,
             p = [whole |-> TRUE, comparison |-> c, diff |-> d, reports |-> r.reports,
                  manifest |-> [run_ids |-> c.run_ids, classification |-> d.classification]]
      PROVE  /\ p.whole /\ VerifyTransition(p)
             /\ p.diff = BuildDiff(p.diff.before, p.diff.after)
             /\ \A s \in Side : Sure(p.diff[s])
             /\ \A s \in Side : p.comparison[s].bundle.verifies /\ p.comparison[s].bundle.attested
  <2>1. /\ p.whole /\ p.comparison = c /\ p.diff = d /\ p.reports = r.reports
        /\ p.manifest = [run_ids |-> c.run_ids, classification |-> d.classification]
    BY <1>3
  <2>2. VerifyComparison(c) /\ \A s \in Side : c[s].bundle.verifies /\ c[s].bundle.attested
    BY DEF MoverInv, Compared
  <2>3. \A s \in Side : Sure(d[s]) /\ r.reports[s] = d[s].report
    BY <1>1 DEF MoverInv, Embedded
  <2>4. d = BuildDiff(d.before, d.after)
    BY DEF MoverInv, HasTold
  <2>5. QED
    BY <2>1, <2>2, <2>3, <2>4 DEF VerifyTransition
<1>4. ASSUME NEW p \in pack'[m]
      PROVE  /\ p.whole /\ VerifyTransition(p)
             /\ p.diff = BuildDiff(p.diff.before, p.diff.after)
             /\ \A s \in Side : Sure(p.diff[s])
             /\ \A s \in Side : p.comparison[s].bundle.verifies /\ p.comparison[s].bundle.attested
  BY <1>2, <1>3
<1>5. Side' = Side
  BY DEF Side
<1>6. QED
  BY <1>4, <1>5, PacksStay, ContentsStay DEF PackInv

\* Each step of a mover, and what is at its output.
LEMMA MoverStepPacks ==
  ASSUME TransitionTypes, NEW m \in Mover, MoverInv(mover[m]), PackInv(m),
         MoveStep(m) \/ MoverCrash(m)
  PROVE  PackInv(m)'
<1>1. CASE WriteTransition(m)
  BY <1>1, WriteTransitionPacks
<1>2. CASE MoverCrash(m)
  <2>1. mover'[m].pc # "done" /\ pack'[m] = {Partial} /\ ~Partial.whole
    BY <1>2 DEF MoverCrash, MoverAt, TransitionTypes, MoverShape, MoverFields, Partial
  <2>2. \A p \in pack'[m] : ~p.whole
    BY <2>1
  <2>3. QED
    BY <2>1, <2>2 DEF PackInv
<1>3. CASE MoveStep(m) /\ ~WriteTransition(m)
  BY <1>3, OnlyWritesEnd, PackRests
<1>4. QED
  BY <1>1, <1>2, <1>3

---------------------------------------------------------------------------
(* Transition packs: the invariant holds *)

\* In the beginning nothing is known, and nothing was written by a build.
LEMMA TransitionInitHolds ==
  TransitionInit => TransitionInv
<1> SUFFICES ASSUME NEW left \in [Place -> Earlier], NEW job \in [Builder -> Job],
                    NEW order \in [Mover -> Order], TransitionStart(left, job, order)
             PROVE  TransitionInv
  BY DEF TransitionInit
<1> USE DEF TransitionStart
<1>1. ASSUME NEW p \in Place
      PROVE  /\ left[p].layout \in Layouts /\ left[p].base \in Bases /\ left[p].scout \in Scout
             /\ {ArchiveOf(p, left[p].layout)} \in Singles(Contents)
             /\ ArchiveOf(p, left[p].layout).bytes.by = p
  <2>1. left[p] \in Earlier
    OBVIOUS
  <2>2. left[p].layout \in Layouts /\ left[p].base \in Bases /\ left[p].scout \in Scout
    BY <2>1, TransitionAssumption DEF Layouts, Bases
  <2>3. {ArchiveOf(p, left[p].layout)} \in Singles(Contents)
    BY <2>2, ArchiveIsContent
  <2>4. ArchiveOf(p, left[p].layout).bytes = [by |-> p, of |-> left[p].layout]
    BY <2>2, ArchiveFields
  <2>5. QED
    BY <2>2, <2>3, <2>4
<1>2. archive \in [Place -> Singles(Contents)]
  BY <1>1
<1>3. ASSUME NEW p \in Place, NEW r,
             r = ReportOf(p, "VERIFIED", p, {ArchiveOf(p, left[p].layout)}, left[p].base, left[p].scout)
      PROVE  r \in WholeReports /\ r.place = p /\ r.by = p
  BY <1>1, <1>3 DEF ReportOf, WholeReports
<1>4. report \in [Place -> Singles(Reports)] /\ \A p \in Place : \A r \in report[p] : r.place = p
  BY <1>3 DEF Reports, Singles
<1>5. builder \in [Builder -> Builders]
  <2>1. ASSUME NEW b \in Builder
        PROVE  job[b].place \in Place /\ job[b].base \in Bases
    BY TransitionAssumption DEF Bases
  <2>2. QED
    BY <2>1 DEF Builders
<1>6. ASSUME NEW m \in Mover
      PROVE  MoverShape(mover[m])
  <2>1. order[m] \in Order
    OBVIOUS
  <2>2. [evidence |-> order[m].evidence, place |-> order[m].place] \in Order
    BY <2>1, TransitionAssumption
  <2>3. mover[m] = [pc |-> "delta", evidence |-> order[m].evidence, place |-> order[m].place,
                    comparison |-> {}, pass |-> 1, side |-> "before", held |-> {}, taken |-> {},
                    seen |-> [s \in Side |-> {}], diff |-> {}, reports |-> [s \in Side |-> {}]]
    OBVIOUS
  <2> HIDE DEF TransitionStart
  <2> SUFFICES ASSUME NEW r, r = mover[m] PROVE MoverShape(r)
    OBVIOUS
  <2>4. r = [f \in MoverFields |-> r[f]]
    BY <2>3 DEF MoverFields
  <2>5. /\ r.pc = "delta" /\ r.pass = 1 /\ r.side = "before" /\ r.seen = [s \in Side |-> {}]
        /\ r.evidence = order[m].evidence /\ r.place = order[m].place
    BY <2>3
  <2>6. QED
    BY <2>2, <2>4, <2>5 DEF MoverShape, MoverPC, Side
<1>7. TransitionTypes
  <2>1. registry \in 0 .. MaxEntries
    BY TransitionAssumption
  <2>2. \A p \in Place : \A r \in report[p] : r # Partial => r.place = p
    BY <1>4
  <2>3. mover = [m \in Mover |-> mover[m]] /\ pack = [m \in Mover |-> pack[m]]
    OBVIOUS
  <2> HIDE DEF TransitionStart
  <2>4. QED
    BY <1>2, <1>4, <1>5, <1>6, <2>1, <2>2, <2>3 DEF TransitionTypes
<1>8. Written
  <2>1. \A p \in Place : p \notin Builder
    BY TransitionAssumption
  <2>2. ASSUME NEW p \in Place, NEW a \in archive[p]
        PROVE  ArchiveWritten(a)
    BY <1>1, <2>1, <2>2 DEF ArchiveWritten
  <2>3. ASSUME NEW p \in Place, NEW r \in report[p]
        PROVE  ReportWritten(r)
    BY <1>3, <2>1, <2>3 DEF ReportWritten
  <2>4. QED
    BY <2>2, <2>3 DEF Written
<1>9. ASSUME NEW m \in Mover
      PROVE  MoverInv(mover[m]) /\ PackInv(m)
  <2> SUFFICES ASSUME NEW r, r = mover[m] PROVE MoverInv(r) /\ PackInv(m)
    OBVIOUS
  <2>1. /\ r.pc = "delta" /\ r.held = {} /\ r.diff = {} /\ r.comparison = {}
        /\ \A s \in Side : r.seen[s] = {}
    OBVIOUS
  <2>2. pack[m] = {}
    OBVIOUS
  <2>3. LooksAt(r) /\ HasTold(r) /\ LooksAgain(r) /\ Compared(r) /\ Embedded(r)
    BY <2>1 DEF LooksAt, HasTold, LooksAgain, Compared, Embedded, HasReport, HasHash, HasGraph, HasBound
  <2>4. QED
    BY <2>2, <2>3 DEF MoverInv, PackInv
<1>10. QED
  BY <1>7, <1>8, <1>9 DEF TransitionInv

\* When others move: nobody's archive, report or build came back.
LEMMA MoverRests ==
  ASSUME TransitionTypes, Keeps, NEW m \in Mover, MoverInv(mover[m]), PackInv(m),
         mover'[m] = mover[m], pack'[m] = pack[m]
  PROVE  MoverInv(mover[m])' /\ PackInv(m)'
<1>1. PackInv(m)'
  BY PackRests
<1>2. MoverShape(mover[m])
  BY DEF TransitionTypes
<1>3. PICK r : r = mover[m] /\ mover'[m] = r
  OBVIOUS
<1>4. MoverInv(r)'
  BY <1>2, <1>3, KnowledgeStays
<1>5. MoverInv(mover[m])'
  BY <1>3, <1>4
<1>6. QED
  BY <1>1, <1>5

\* The invariant is inductive.
LEMMA TransitionStepHolds ==
  ASSUME TransitionInv, [TransitionNext]_transitionVars
  PROVE  TransitionInv'
<1> USE DEF TransitionInv
<1>1. CASE Register
  <2>1. UNCHANGED <<archive, report, builder, mover, pack>> /\ registry' \in 0 .. MaxEntries
    BY <1>1, TransitionAssumption DEF Register, TransitionTypes
  <2>2. Keeps /\ Written'
    BY <2>1, FrozenKeeps
  <2>3. TransitionTypes'
    <3>1. \A x : MoverShape(x)' <=> MoverShape(x)
      BY DEF MoverShape
    <3>2. Singles(Contents)' = Singles(Contents) /\ Singles(Reports)' = Singles(Reports)
      BY DEF Singles, Contents, Reports, Archives, Layouts, WholeReports, ArchiveOf, Partial, Bases
    <3>3. Builders' = Builders /\ Partial' = Partial
      BY DEF Builders, Bases, Partial
    <3>4. \A m \in Mover : MoverShape(mover[m])'
      BY <2>1, <3>1 DEF TransitionTypes
    <3>5. QED
      BY <2>1, <3>2, <3>3, <3>4 DEF TransitionTypes
  <2>4. QED
    BY <2>1, <2>2, <2>3, MoverRests
<1>2. CASE \E b \in Builder : BuildStep(b)
  <2>1. TransitionTypes' /\ Written' /\ Keeps /\ UNCHANGED <<registry, mover, pack>>
    BY <1>2, BuildStepKeeps
  <2>2. QED
    BY <2>1, MoverRests
<1>3. CASE \E m \in Mover : MoveStep(m) \/ MoverCrash(m)
  <2>1. PICK m \in Mover : MoveStep(m) \/ MoverCrash(m)
    BY <1>3
  <2>2. /\ TransitionTypes' /\ UNCHANGED <<registry, archive, report, builder>>
        /\ \A n \in Mover : n # m => mover'[n] = mover[n] /\ pack'[n] = pack[n]
    BY <2>1, MoverStepTypes
  <2>3. Keeps /\ Written'
    BY <2>2, FrozenKeeps
  <2>4. MoverInv(mover'[m]) /\ PackInv(m)'
    BY <2>1, MoverStepKnows, MoverStepPacks
  <2>5. MoverShape(mover'[m])
    <3>1. MoverShape(mover[m])'
      BY <2>2 DEF TransitionTypes
    <3>2. \A x : MoverShape(x)' <=> MoverShape(x)
      BY DEF MoverShape
    <3>3. QED
      BY <3>1, <3>2
  <2>6. PICK r : r = mover'[m]
    OBVIOUS
  <2>7. MoverInv(r)'
    BY <2>3, <2>4, <2>5, <2>6, KnowledgeStays
  <2>8. MoverInv(mover[m])'
    BY <2>6, <2>7
  <2>9. \A n \in Mover : n # m => MoverInv(mover[n])' /\ PackInv(n)'
    BY <2>2, <2>3, MoverRests
  <2>10. QED
    BY <2>2, <2>3, <2>4, <2>8, <2>9
<1>4. CASE UNCHANGED transitionVars
  <2>1. UNCHANGED <<registry, archive, report, builder, mover, pack>>
    BY <1>4 DEF transitionVars
  <2>2. Keeps /\ Written'
    BY <2>1, FrozenKeeps
  <2>3. TransitionTypes'
    BY <2>1, BuilderTypes DEF TransitionTypes
  <2>4. QED
    BY <2>1, <2>2, <2>3, MoverRests
<1>5. QED
  BY <1>1, <1>2, <1>3, <1>4 DEF TransitionNext
---------------------------------------------------------------------------
(* Transition packs: the theorems *)

\* The values in every state are of the types.
LEMMA TransitionTypesAreOK ==
  TransitionTypes => TransitionTypeOK
<1> SUFFICES ASSUME TransitionTypes PROVE TransitionTypeOK
  OBVIOUS
<1>1. ASSUME NEW p \in Place, NEW a \in archive[p], a.whole
      PROVE  a.bytes.by \in Place \cup Builder
  <2>1. a \in Contents /\ a # Partial
    BY <1>1 DEF TransitionTypes, Singles, Partial
  <2>2. PICK by \in Place \cup Builder, l \in Layouts : a = ArchiveOf(by, l)
    BY <2>1 DEF Contents, Archives
  <2>3. a.bytes = [by |-> by, of |-> l]
    BY <2>2, ArchiveFields
  <2>4. QED
    BY <2>3
<1>2. ASSUME NEW p \in Place, NEW r \in report[p], r.whole
      PROVE  r.overall \in {"VERIFIED", "FAILED"} /\ r.place = p /\ r.scout \in Scout
  <2>1. r \in Reports /\ r # Partial
    BY <1>2 DEF TransitionTypes, Singles, Partial
  <2>2. r \in WholeReports
    BY <2>1 DEF Reports
  <2>3. r.overall \in {"VERIFIED", "FAILED"} /\ r.scout \in Scout
    BY <2>2 DEF WholeReports
  <2>4. r.place = p
    BY <2>1 DEF TransitionTypes
  <2>5. QED
    BY <2>3, <2>4
<1>3. \A b \in Builder :
        builder[b].pc \in {"idle", "exporting", "verify", "report", "done", "killed"}
  BY DEF TransitionTypes, Builders
<1>4. \A m \in Mover :
       /\ mover[m].pc \in MoverPC
       /\ mover[m].pass \in {1, 2} /\ mover[m].side \in Side
       /\ [evidence |-> mover[m].evidence, place |-> mover[m].place] \in Order
  BY DEF TransitionTypes, MoverShape
<1>5. registry \in 0 .. MaxEntries
  BY DEF TransitionTypes
<1>6. QED
  BY <1>1, <1>2, <1>3, <1>4, <1>5 DEF TransitionTypeOK, MoverPC

\* What is known of a pack makes what it says true.
LEMMA PacksTellTheTruth ==
  ASSUME TransitionInv, NEW m \in Mover, NEW p \in pack[m], p.whole, NothingHalfWritten(p)
  PROVE  TellsTheTruth(p)
<1>1. /\ VerifyTransition(p) /\ p.diff = BuildDiff(p.diff.before, p.diff.after)
      /\ \A s \in Side : Sure(p.diff[s])
      /\ \A s \in Side : p.comparison[s].bundle.verifies /\ p.comparison[s].bundle.attested
  BY DEF TransitionInv, PackInv
<1>2. ASSUME NEW s \in Side, NEW r \in p.reports[s], NEW a \in r.archive_sha256
      PROVE  /\ r.overall = "VERIFIED" /\ a \in Archives
             /\ p.diff[s].archive = {a} /\ TakenOf(p.diff[s], a)
             /\ p.diff[s].base = r.base /\ p.diff[s].scout = r.scout
  <2>1. r \in p.diff[s].report
    BY <1>1 DEF VerifyTransition
  <2>2. r # Partial /\ a # Partial
    BY DEF NothingHalfWritten, Partial
  <2>3. /\ r.overall = "VERIFIED" /\ p.diff[s].archive = r.archive_sha256
        /\ p.diff[s].base = r.base /\ p.diff[s].scout = r.scout
    BY <1>1, <2>1, <2>2 DEF Sure
  <2>4. r.archive_sha256 \in Singles(Contents) /\ TakenOf(p.diff[s], a)
    BY <1>1, <2>2, <2>3 DEF Sure
  <2>5. r.archive_sha256 = {a} /\ a \in Contents
    BY <2>4 DEF Singles
  <2>6. a \in Archives
    BY <2>2, <2>5 DEF Contents
  <2>7. QED
    BY <2>3, <2>4, <2>5, <2>6
<1>3. ASSUME NEW s \in Side, NEW r \in p.reports[s]
      PROVE  r.overall = "VERIFIED"
  <2>1. r \in p.diff[s].report
    BY <1>1 DEF VerifyTransition
  <2>2. r # Partial
    BY DEF NothingHalfWritten, Partial
  <2>3. QED
    BY <1>1, <2>1, <2>2 DEF Sure
<1>4. ASSUME NEW s \in Side, NEW r \in p.reports[s], NEW a \in r.archive_sha256
      PROVE  Sound(a) /\ p.diff[s].runnable = Snapshot(a).runnable
  <2>1. TakenOf(p.diff[s], a)
    BY <1>2
  <2>2. VerifyLayout(a) /\ VerifyAttestations(a) /\ p.diff[s].runnable = Snapshot(a).runnable
    BY <2>1 DEF TakenOf
  <2>3. QED
    BY <2>2, VerifiedIsSound
<1>5. ASSUME NEW rb \in p.reports["before"], NEW ra \in p.reports["after"],
             NEW b \in rb.archive_sha256, NEW a \in ra.archive_sha256
      PROVE  p.diff.classification = TrueClassification(rb, ra, b, a)
  <2>1. "before" \in Side /\ "after" \in Side
    BY DEF Side
  <2>2. /\ b \in Archives /\ p.diff.before.archive = {b} /\ TakenOf(p.diff.before, b)
        /\ p.diff.before.base = rb.base /\ p.diff.before.scout = rb.scout
    BY <1>2, <2>1
  <2>3. /\ a \in Archives /\ p.diff.after.archive = {a} /\ TakenOf(p.diff.after, a)
        /\ p.diff.after.base = ra.base /\ p.diff.after.scout = ra.scout
    BY <1>2, <2>1
  <2>4. BuildDiff(p.diff.before, p.diff.after).classification = TrueClassification(rb, ra, b, a)
    BY <2>2, <2>3, ClassifiedTruly
  <2>5. QED
    BY <1>1, <2>4
<1>6. QED
  BY <1>1, <1>2, <1>3, <1>4, <1>5 DEF TellsTheTruth

\* The inductive invariant holds in every state.
LEMMA TransitionInvariant ==
  TransitionSpec => []TransitionInv
<1>1. TransitionInv /\ [TransitionNext]_transitionVars => TransitionInv'
  BY TransitionStepHolds
<1>2. QED
  BY TransitionInitHolds, <1>1, PTL DEF TransitionSpec

\* The variables stay in their types.
THEOREM TransitionTypeCorrect == TransitionSpec => []TransitionTypeOK
<1>1. TransitionInv => TransitionTypeOK
  BY TransitionTypesAreOK DEF TransitionInv
<1>2. QED
  BY TransitionInvariant, <1>1, PTL

\* create_transition_pack does not verify the ZIP it made; it made one that verifies.
THEOREM CreatedTransition == TransitionSpec => []CreatedTransitionVerifies
<1>1. TransitionInv => CreatedTransitionVerifies
  BY DEF TransitionInv, PackInv, CreatedTransitionVerifies
<1>2. QED
  BY TransitionInvariant, <1>1, PTL

\* A finished pack of two whole reports of two whole archives says of them what is true,
\* though it was made of five readings of paths that builds write to.
THEOREM TransitionTruth == TransitionSpec => []TransitionTellsTheTruth
<1>1. TransitionInv => TransitionTellsTheTruth
  BY PacksTellTheTruth DEF TransitionTellsTheTruth
<1>2. QED
  BY TransitionInvariant, <1>1, PTL
---------------------------------------------------------------------------
(* Studies: sums over the keys of a function, by induction on how many     *)
(* there are                                                               *)

\* The order of the naturals, as a set of pairs.
LessThan == {pair \in Nat \X Nat : pair[1] < pair[2]}

\* The order of the naturals is well founded, as a set of pairs.
LEMMA LessThanWellFounded == IsWellFoundedOn(LessThan, Nat)
  BY NatLessThanWellFounded, Zenon DEF OpToRel, LessThan

\* A set of naturals that holds 0 and every successor of its members is Nat.
LEMMA SetInduction ==
  ASSUME NEW S, 0 \in S, \A n \in Nat : n \in S => n + 1 \in S
  PROVE  \A n \in Nat : n \in S
<1> DEFINE Missing == {n \in Nat : n \notin S}
<1>1. SUFFICES ASSUME Missing # {} PROVE FALSE
  OBVIOUS
<1>2. PICK least \in Missing : \A n \in Missing : <<n, least>> \notin LessThan
  BY <1>1, LessThanWellFounded, WFMin
<1>3. least # 0 /\ least - 1 \in Nat
  BY <1>2
<1>4. <<least - 1, least>> \in LessThan
  BY <1>2, <1>3 DEF LessThan
<1>5. QED
  BY <1>2, <1>3, <1>4

\* How FoldFunction goes through the keys, and what it has at each of their sets.
Chosen(s) == CHOOSE x \in s : TRUE
SumOf(g, sum) ==
  sum = [s \in SUBSET DOMAIN g |-> IF s = {} THEN 0 ELSE g[Chosen(s)] + sum[s \ {Chosen(s)}]]


\* FoldFunction takes the sum.
LEMMA FoldIsSum ==
  ASSUME NEW g
  PROVE  Functions!FoldFunction(+, 0, g) = (CHOOSE sum : SumOf(g, sum))[DOMAIN g]
  BY DEF Functions!FoldFunction, Functions!FoldFunctionOnSet, Functions!MapThenFoldSet, SumOf,
     Chosen
\* A sum over the keys of a function is taken of one key after the other.
LEMMA SumExists ==
  ASSUME NEW g, IsFiniteSet(DOMAIN g)
  PROVE  \E sum : SumOf(g, sum)
<1> DEFINE K == DOMAIN g
           Small(n) == {s \in SUBSET K : Cardinality(s) <= n}
           Step(sum, s) == IF s = {} THEN 0 ELSE g[Chosen(s)] + sum[s \ {Chosen(s)}]
           E == {n \in Nat : \E sum : sum = [s \in Small(n) |-> Step(sum, s)]}
<1>1. \A s \in SUBSET K : /\ Cardinality(s) \in Nat /\ Cardinality(s) <= Cardinality(K)
                          /\ IsFiniteSet(s) /\ (Cardinality(s) = 0 <=> s = {})
  BY FS_Subset, FS_CardinalityType, FS_EmptySet
<1>2. ASSUME NEW s \in SUBSET K, s # {}
      PROVE  /\ Chosen(s) \in s /\ s \ {Chosen(s)} \in SUBSET K
             /\ Cardinality(s \ {Chosen(s)}) = Cardinality(s) - 1
  <2>1. Chosen(s) \in s
    BY <1>2 DEF Chosen
  <2>2. QED
    BY <1>1, <2>1, FS_RemoveElement
<1>3. 0 \in E
  <2>1. Small(0) = {{}}
    BY <1>1, FS_EmptySet
  <2>2. [s \in Small(0) |-> 0] = [s \in Small(0) |-> Step([s0 \in Small(0) |-> 0], s)]
    BY <2>1
  <2>3. QED
    BY <2>2
<1>4. ASSUME NEW n \in Nat, n \in E
      PROVE  n + 1 \in E
  <2>1. PICK sum : sum = [s \in Small(n) |-> Step(sum, s)]
    BY <1>4
  <2> DEFINE next == [s \in Small(n + 1) |-> IF s \in Small(n) THEN sum[s] ELSE Step(sum, s)]
  <2>2. ASSUME NEW s \in Small(n + 1)
        PROVE  next[s] = Step(next, s)
    <3>1. CASE s = {}
      <4>1. s \in Small(n)
        BY <1>1, <3>1
      <4>2. QED
        BY <2>1, <3>1, <4>1
    <3>2. CASE s # {}
      <4>1. s \ {Chosen(s)} \in Small(n) /\ s \ {Chosen(s)} \in Small(n + 1)
        BY <1>1, <1>2, <3>2
      <4>2. next[s \ {Chosen(s)}] = sum[s \ {Chosen(s)}]
        BY <4>1
      <4>3. next[s] = Step(sum, s)
        BY <2>1
      <4>4. QED
        BY <3>2, <4>2, <4>3
    <3>3. QED
      BY <3>1, <3>2
  <2>3. next = [s \in Small(n + 1) |-> next[s]]
    OBVIOUS
  <2> HIDE DEF next, Small, Step
  <2>4. next = [s \in Small(n + 1) |-> Step(next, s)]
    BY <2>2, <2>3
  <2>5. QED
    BY <2>4
<1>5. Cardinality(K) \in E
  <2> HIDE DEF E
  <2>1. \A n \in Nat : n \in E
    BY <1>3, <1>4, SetInduction
  <2>2. QED
    BY <1>1, <2>1
<1>6. Small(Cardinality(K)) = SUBSET K
  BY <1>1
<1>7. QED
  BY <1>5, <1>6 DEF SumOf

\* What is counted under one of the names is counted once.
LEMMA CountsAddUp ==
  ASSUME NEW f, IsFiniteSet(DOMAIN f)
  PROVE  Functions!FoldFunction(+, 0, ChangeCounts(f)) = Cardinality(DOMAIN f)
<1> DEFINE D == DOMAIN f
           g == ChangeCounts(f)
           K == {f[c] : c \in D}
           Named(s) == {c \in D : f[c] \in s}
           sum == CHOOSE u : SumOf(g, u)
           E == {n \in Nat : \A s \in SUBSET K : Cardinality(s) = n => sum[s] = Cardinality(Named(s))}
<1>1. IsFiniteSet(K)
  <2>1. [c \in D |-> f[c]] \in Surjection(D, K)
    BY DEF Surjection
  <2>2. QED
    BY <2>1, FS_Surjection
<1>2. DOMAIN g = K /\ \A k \in K : g[k] = Cardinality({c \in D : f[c] = k})
  BY DEF ChangeCounts
<1> HIDE DEF g
<1>3. SumOf(g, sum)
  BY <1>1, <1>2, SumExists
<1> HIDE DEF sum
<1>4. \A s \in SUBSET K : IsFiniteSet(s) /\ Cardinality(s) \in Nat /\ (Cardinality(s) = 0 <=> s = {})
  BY <1>1, FS_Subset, FS_CardinalityType, FS_EmptySet
<1>5. 0 \in E
  BY <1>2, <1>3, <1>4, FS_EmptySet DEF SumOf
<1>6. ASSUME NEW n \in Nat, n \in E
      PROVE  n + 1 \in E
  <2> SUFFICES ASSUME NEW s \in SUBSET K, Cardinality(s) = n + 1
               PROVE  sum[s] = Cardinality(Named(s))
    OBVIOUS
  <2> DEFINE k == Chosen(s)
             rest == s \ {k}
             one == {c \in D : f[c] = k}
  <2>1. s # {} /\ k \in s
    BY <1>4 DEF Chosen
  <2> HIDE DEF k
  <2>2. rest \in SUBSET K /\ Cardinality(rest) = n
    BY <1>4, <2>1, FS_RemoveElement
  <2>3. sum[rest] = Cardinality(Named(rest))
    BY <1>6, <2>2
  <2>4. sum[s] = g[k] + sum[rest]
    BY <1>2, <1>3, <2>1 DEF SumOf, k
  <2>5. g[k] = Cardinality(one)
    BY <1>2, <2>1
  <2>6. Named(s) = one \cup Named(rest) /\ one \cap Named(rest) = {}
    BY <2>1
  <2>7. IsFiniteSet(one) /\ IsFiniteSet(Named(rest))
    BY FS_Subset
  <2>8. Cardinality(Named(s)) = Cardinality(one) + Cardinality(Named(rest))
    <3>1. Cardinality(one \cup Named(rest)) =
            Cardinality(one) + Cardinality(Named(rest)) - Cardinality(one \cap Named(rest))
      BY <2>7, FS_Union
    <3>2. Cardinality(one) \in Nat /\ Cardinality(Named(rest)) \in Nat
      BY <2>7, FS_CardinalityType
    <3>3. Cardinality(one \cap Named(rest)) = 0
      BY <2>6, FS_EmptySet
    <3> HIDE DEF one, Named
    <3>4. QED
      BY <2>6, <3>1, <3>2, <3>3
  <2>9. QED
    BY <2>3, <2>4, <2>5, <2>8
<1>7. Cardinality(K) \in E
  <2> HIDE DEF E
  <2>1. \A n \in Nat : n \in E
    BY <1>5, <1>6, SetInduction
  <2>2. QED
    BY <1>4, <2>1
<1>8. sum[K] = Cardinality(D)
  <2>1. Named(K) = D
    OBVIOUS
  <2>2. QED
    BY <1>7, <2>1
<1>9. QED
  BY <1>2, <1>8, FoldIsSum DEF g, sum
---------------------------------------------------------------------------
(* Studies: what a verified statement says *)

\* A delta that verifies is true of the two bundles.
LEMMA VerifiedDeltaIsTrue ==
  ASSUME NEW t \in Task, NEW delta, VerifyDelta(delta, t.before, t.after)
  PROVE  DeltaIsTrue(delta, t.before, t.after)
<1> DEFINE D == DOMAIN t.before.results
           changes == [c \in D |-> ClassifyChange(t.before.results[c], t.after.results[c])]
<1>1. /\ IsFiniteSet(D) /\ DOMAIN t.after.results = D
      /\ \A c \in D : t.before.results[c] \in Status /\ t.after.results[c] \in Status
  BY StudyAssumption DEF VerifyDelta, Comparable
<1>2. delta.changes = changes /\ delta.change_counts = ChangeCounts(changes)
  BY DEF VerifyDelta, BuildDelta
<1>3. ASSUME NEW b \in Status, NEW a \in Status
      PROVE  ChangeIsTrue(ClassifyChange(b, a), b, a)
  <2>1. \A x \in Status : x \in {"FAIL", "PARTIAL", "PASS"} \/ x \in {"MANUAL", "ERROR", "N/A"}
    BY DEF Status
  <2>2. CASE b \in {"FAIL", "PARTIAL", "PASS"} /\ a \in {"FAIL", "PARTIAL", "PASS"}
    <3>1. Rank("FAIL") = 1 /\ Rank("PARTIAL") = 2 /\ Rank("PASS") = 3
      BY DEF Rank
    <3>2. /\ Mirror("control-improvement") = "control-regression"
          /\ Mirror("control-regression") = "control-improvement"
          /\ Mirror("unchanged") = "unchanged"
      BY DEF Mirror
    <3>3. CASE b = "FAIL"
      BY <2>2, <3>1, <3>2, <3>3 DEF ChangeIsTrue, ClassifyChange, Improvements
    <3>4. CASE b = "PARTIAL"
      BY <2>2, <3>1, <3>2, <3>4 DEF ChangeIsTrue, ClassifyChange, Improvements
    <3>5. CASE b = "PASS"
      BY <2>2, <3>1, <3>2, <3>5 DEF ChangeIsTrue, ClassifyChange, Improvements
    <3>6. QED
      BY <2>2, <3>3, <3>4, <3>5
  <2>3. CASE b \in {"FAIL", "PARTIAL", "PASS"} /\ a \in {"MANUAL", "ERROR", "N/A"}
    BY <2>3 DEF ChangeIsTrue, ClassifyChange, Improvements, Mirror
  <2>4. CASE b \in {"MANUAL", "ERROR", "N/A"} /\ a \in {"FAIL", "PARTIAL", "PASS"}
    BY <2>4 DEF ChangeIsTrue, ClassifyChange, Improvements, Mirror
  <2>5. CASE b \in {"MANUAL", "ERROR", "N/A"} /\ a \in {"MANUAL", "ERROR", "N/A"}
    BY <2>5 DEF ChangeIsTrue, ClassifyChange, Improvements, Mirror
  <2>6. QED
    BY <2>1, <2>2, <2>3, <2>4, <2>5
<1>4. Functions!FoldFunction(+, 0, ChangeCounts(changes)) = Cardinality(D)
  <2> DEFINE f == changes
  <2>1. DOMAIN f = D
    OBVIOUS
  <2> HIDE DEF f
  <2>2. QED
    BY <1>1, <2>1, CountsAddUp DEF f
<1>5. ASSUME NEW kind \in DOMAIN ChangeCounts(changes)
      PROVE  ChangeCounts(changes)[kind] > 0
  <2> DEFINE f == changes
             those == {c \in D : f[c] = kind}
  <2>1. DOMAIN f = D
    OBVIOUS
  <2> HIDE DEF f
  <2>2. kind \in {f[c] : c \in D} /\ ChangeCounts(f)[kind] = Cardinality(those)
    BY <1>5, <2>1 DEF ChangeCounts, f
  <2>3. those # {} /\ IsFiniteSet(those)
    BY <1>1, <2>2, FS_Subset
  <2>4. Cardinality(those) \in Nat /\ Cardinality(those) # 0
    BY <2>3, FS_CardinalityType, FS_EmptySet
  <2>5. QED
    BY <2>2, <2>4 DEF f
<1>6. \A c \in D : changes[c] = ClassifyChange(t.before.results[c], t.after.results[c])
  OBVIOUS
<1>7. DOMAIN changes = D
  OBVIOUS
<1> HIDE DEF changes
<1>8. ASSUME NEW c \in DOMAIN delta.changes
      PROVE  ChangeIsTrue(delta.changes[c], t.before.results[c], t.after.results[c])
  BY <1>1, <1>2, <1>3, <1>6, <1>7
<1>9. CountsAreTrue(delta.change_counts, D)
  BY <1>2, <1>4, <1>5 DEF CountsAreTrue
<1>10. QED
  BY <1>8, <1>9 DEF DeltaIsTrue

\* A statement that verifies says of the experiment what the two contexts say.
LEMMA VerifiedStatementIsTrue ==
  ASSUME NEW t \in Task, NEW statement, VerifyStatement(statement, t.before, t.after)
  PROVE  StatementIsTrue(statement, t.before, t.after)
<1> DEFINE status == {DimensionStatus(t.before, t.after, d) : d \in Dimension}
           changed == t.before.treatment # t.after.treatment
<1>1. statement.eligibility = Eligibility(status, changed)
  <2> DEFINE checks == [d \in Dimension |-> DimensionStatus(t.before, t.after, d)]
  <2>1. {checks[d] : d \in Dimension} = status
    OBVIOUS
  <2>2. statement.eligibility = Eligibility({checks[d] : d \in Dimension}, changed)
    BY DEF VerifyStatement, BuildStatement
  <2>3. QED
    BY <2>1, <2>2
<1>2. ASSUME NEW d \in Dimension
      PROVE  /\ DimensionStatus(t.before, t.after, d) \in {"MISSING", "MATCH", "DIFFERENT"}
             /\ DimensionStatus(t.before, t.after, d) = "MISSING" <=>
                  d \notin DOMAIN t.before.context \/ d \notin DOMAIN t.after.context
             /\ DimensionStatus(t.before, t.after, d) = "MATCH" <=>
                  /\ d \in DOMAIN t.before.context /\ d \in DOMAIN t.after.context
                  /\ t.before.context[d] = t.after.context[d]
  BY StudyAssumption DEF DimensionStatus, Measured
<1>3. "MISSING" \in status <=>
        \E d \in Dimension : d \notin DOMAIN t.before.context \/ d \notin DOMAIN t.after.context
  BY <1>2
<1>4. "MISSING" \notin status /\ "DIFFERENT" \notin status <=>
        \A d \in Dimension : /\ d \in DOMAIN t.before.context /\ d \in DOMAIN t.after.context
                             /\ t.before.context[d] = t.after.context[d]
  <2>1. "MISSING" \notin status /\ "DIFFERENT" \notin status <=>
          \A d \in Dimension : DimensionStatus(t.before, t.after, d) = "MATCH"
    BY <1>2
  <2>2. QED
    BY <1>2, <2>1
<1> HIDE DEF status
<1>5. QED
  BY <1>1, <1>3, <1>4 DEF StatementIsTrue, Eligibility

---------------------------------------------------------------------------
(* Studies: the invariant *)

StudentPC == {"build", "open", "write", "verify", "accepted", "rejected", "raised"}

FileOK(file) == file.whole \in BOOLEAN

StudentFields == {"pc", "task", "accepted"}
StudentShape(r) ==
  /\ r = [f \in StudentFields |-> r[f]]
  /\ r.pc \in StudentPC /\ r.task \in Task

\* A file stays where one was written, and what a verify accepted was verified.
StudentInv(s) ==
  /\ StudentShape(student[s])
  /\ student[s].pc \in {"write", "verify"} => study[student[s].task.kind] # {}
  /\ student[s].accepted # {} <=> student[s].pc = "accepted"
  /\ \A file \in student[s].accepted : Verifies(student[s].task, file)

StudyInv ==
  /\ study = [k \in Kind |-> study[k]]
  /\ \A k \in Kind : \A file \in study[k] : FileOK(file)
  /\ student = [s \in Student |-> student[s]]
  /\ \A s \in Student : StudentInv(s)

\* Whether a file verifies does not depend on the state.
LEMMA VerifiesStays ==
  \A t, file : Verifies(t, file)' <=> Verifies(t, file)
<1>1. \A t, file : VerifyDelta(file.content, t.before, t.after)'
                     <=> VerifyDelta(file.content, t.before, t.after)
  BY DEF VerifyDelta, Comparable, Measured, BuildDelta, Anchor, ChangeCounts, ClassifyChange,
     Improvements
<1>2. \A t, file : VerifyStatement(file.content, t.before, t.after)'
                     <=> VerifyStatement(file.content, t.before, t.after)
  BY DEF VerifyStatement, Testable, BuildStatement, Dimension, DimensionStatus, Measured,
     Eligibility
<1>3. QED
  BY <1>1, <1>2 DEF Verifies

\* A process that goes on, with what is in the files by then.
LEMMA StudentGoes ==
  ASSUME StudyInv, NEW s \in Student, NEW r, StudentShape(r), r.task = student[s].task,
         student' = [student EXCEPT ![s] = r],
         study' = [k \in Kind |-> study'[k]],
         \A k \in Kind : \A file \in study'[k] : FileOK(file),
         \A k \in Kind : study[k] # {} => study'[k] # {},
         r.pc \in {"write", "verify"} => study'[r.task.kind] # {},
         r.accepted # {} <=> r.pc = "accepted",
         \A file \in r.accepted : Verifies(r.task, file)
  PROVE  StudyInv'
<1>1. student' = [n \in Student |-> student'[n]] /\ student'[s] = r
  BY DEF StudyInv
<1>2. \A n \in Student : n # s => student'[n] = student[n]
  BY DEF StudyInv
<1>3. ASSUME NEW n \in Student
      PROVE  StudentInv(n)'
  <2>1. \A x : StudentShape(x)' <=> StudentShape(x)
    BY DEF StudentShape, StudentFields, StudentPC
  <2>2. CASE n = s
    BY <1>1, <2>1, <2>2, VerifiesStays DEF StudentInv
  <2>3. CASE n # s
    <3>1. student'[n] = student[n] /\ student[n].task.kind \in Kind /\ StudentInv(n)
      BY <1>2, <2>3, StudyAssumption DEF StudyInv, StudentInv, StudentShape
    <3>2. QED
      BY <2>1, <3>1, VerifiesStays DEF StudentInv
  <2>4. QED
    BY <2>2, <2>3
<1>4. Kind' = Kind
  BY DEF Kind
<1>5. QED
  BY <1>1, <1>3, <1>4 DEF StudyInv

\* The same of one that changes only where it is.
LEMMA StudentGoesOn ==
  ASSUME StudyInv, NEW s \in Student, NEW from, NEW to, StudentAt(s, from, to),
         to \in StudentPC \ {"accepted"}, from # "accepted",
         study' = [k \in Kind |-> study'[k]],
         \A k \in Kind : \A file \in study'[k] : FileOK(file),
         \A k \in Kind : study[k] # {} => study'[k] # {},
         to \in {"write", "verify"} => study'[student[s].task.kind] # {}
  PROVE  StudyInv'
<1> DEFINE r == [student[s] EXCEPT !.pc = to]
<1>1. student' = [student EXCEPT ![s] = r] /\ student[s].pc = from
  BY DEF StudentAt
<1>2. StudentShape(student[s]) /\ student[s].accepted = {}
  BY <1>1 DEF StudyInv, StudentInv
<1>3. /\ StudentShape(r) /\ r.task = student[s].task /\ r.accepted = {} /\ r.pc = to
  BY <1>2 DEF StudentShape, StudentFields
<1> HIDE DEF r
<1>4. QED
  BY <1>1, <1>3, StudentGoes

\* The record of a process that accepts.
LEMMA AcceptedShape ==
  ASSUME NEW q, StudentShape(q), NEW new
  PROVE  LET r == [q EXCEPT !.pc = "accepted", !.accepted = new] IN
         StudentShape(r) /\ r.task = q.task /\ r.pc = "accepted" /\ r.accepted = new
  BY DEF StudentShape, StudentFields, StudentPC

\* Each step keeps it.
LEMMA StudyStepHolds ==
  ASSUME StudyInv, NEW s \in Student, StudyStep(s)
  PROVE  StudyInv'
<1> DEFINE t == student[s].task
<1>0. /\ StudentShape(student[s]) /\ StudentInv(s) /\ t \in Task /\ t.kind \in Kind
      /\ study = [k \in Kind |-> study[k]]
      /\ \A k \in Kind : \A file \in study[k] : FileOK(file)
  BY StudyAssumption DEF StudyInv, StudentInv, StudentShape
<1>1. CASE StudyBuild(s) \/ StudyRaises(s) \/ StudyReject(s)
  <2>1. /\ study' = study
        /\ \/ StudentAt(s, "build", "open") \/ StudentAt(s, "build", "raised")
           \/ StudentAt(s, "verify", "rejected")
    BY <1>1 DEF StudyBuild, StudyRaises, StudyReject
  <2>2. QED
    BY <1>0, <2>1, StudentGoesOn DEF StudentPC
<1>2. ASSUME NEW file, FileOK(file), study' = [study EXCEPT ![t.kind] = {file}],
             StudentAt(s, "open", "write") \/ StudentAt(s, "write", "verify")
      PROVE  StudyInv'
  <2>1. /\ study' = [k \in Kind |-> study'[k]] /\ study'[t.kind] = {file}
        /\ \A k \in Kind : k # t.kind => study'[k] = study[k]
    BY <1>0, <1>2
  <2>2. /\ \A k \in Kind : \A f \in study'[k] : FileOK(f)
        /\ \A k \in Kind : study[k] # {} => study'[k] # {}
    BY <1>0, <1>2, <2>1
  <2>3. CASE StudentAt(s, "open", "write")
    BY <2>1, <2>2, <2>3, StudentGoesOn DEF StudentPC
  <2>4. CASE StudentAt(s, "write", "verify")
    BY <2>1, <2>2, <2>4, StudentGoesOn DEF StudentPC
  <2>5. QED
    BY <1>2, <2>3, <2>4
<1>3. CASE StudyOpen(s)
  <2>1. FileOK(OpenedBy(s))
    BY DEF OpenedBy, FileOK
  <2>2. StudentAt(s, "open", "write") /\ study' = [study EXCEPT ![t.kind] = {OpenedBy(s)}]
    BY <1>3 DEF StudyOpen
  <2>3. QED
    BY <1>2, <2>1, <2>2
<1>4. CASE StudyWrite(s)
  <2> DEFINE made == [whole |-> TRUE, content |-> Build(t)]
  <2>1. FileOK(made) /\ FileOK(MixedStudy)
    BY DEF MixedStudy, FileOK
  <2>2. /\ StudentAt(s, "write", "verify")
        /\ \/ study' = [study EXCEPT ![t.kind] = {made}]
           \/ study' = [study EXCEPT ![t.kind] = {MixedStudy}]
    BY <1>4 DEF StudyWrite
  <2> HIDE DEF made
  <2>3. QED
    BY <1>2, <2>1, <2>2
<1>5. CASE StudyAccept(s)
  <2> DEFINE r == [student[s] EXCEPT !.pc = "accepted", !.accepted = study[t.kind]]
  <2>1. student[s].pc = "verify" /\ study' = study /\ \A file \in study[t.kind] : Verifies(t, file)
    BY <1>5 DEF StudyAccept
  <2>2. student' = [student EXCEPT ![s] = r]
    BY <1>0, <1>5 DEF StudyAccept, StudyInv, StudentShape, StudentFields
  <2>3. study[t.kind] # {}
    BY <1>0, <2>1 DEF StudentInv
  <2>4. StudentShape(r) /\ r.task = t /\ r.pc = "accepted" /\ r.accepted = study[t.kind]
    BY <1>0, AcceptedShape
  <2> HIDE DEF r
  <2>5. QED
    BY <1>0, <2>1, <2>2, <2>3, <2>4, StudentGoes
<1>6. QED
  BY <1>1, <1>3, <1>4, <1>5 DEF StudyStep

\* The invariant holds in every state.
LEMMA StudyInvariant ==
  StudySpec => []StudyInv
<1>1. StudyInit => StudyInv
  <2> SUFFICES ASSUME NEW task \in [Student -> Task], StudyStart(task) PROVE StudyInv
    BY DEF StudyInit
  <2>1. \A s \in Student : student[s] = [pc |-> "build", task |-> task[s], accepted |-> {}]
    BY DEF StudyStart
  <2>2. ASSUME NEW s \in Student PROVE StudentInv(s)
    <3>1. PICK r : r = student[s]
      OBVIOUS
    <3>2. r = [pc |-> "build", task |-> task[s], accepted |-> {}] /\ task[s] \in Task
      BY <2>1, <3>1
    <3>3. StudentShape(r) /\ r.pc = "build" /\ r.accepted = {}
      BY <3>2 DEF StudentShape, StudentFields, StudentPC
    <3>4. QED
      BY <3>1, <3>3 DEF StudentInv
  <2>3. QED
    BY <2>2 DEF StudyStart, StudyInv
<1>2. StudyInv /\ [StudyNext]_studyVars => StudyInv'
  <2> SUFFICES ASSUME StudyInv, [StudyNext]_studyVars PROVE StudyInv'
    OBVIOUS
  <2>1. CASE UNCHANGED studyVars
    <3>1. study' = study /\ student' = student
      BY <2>1 DEF studyVars
    <3>2. \A s \in Student : StudentInv(s)'
      BY <3>1, VerifiesStays DEF StudyInv, StudentInv, StudentShape, StudentPC
    <3>3. QED
      BY <3>1, <3>2 DEF StudyInv, Kind
  <2>2. QED
    BY <2>1, StudyStepHolds DEF StudyNext
<1>3. QED
  BY <1>1, <1>2, PTL DEF StudySpec

\* The variables stay in their types.
THEOREM StudyTypeCorrect == StudySpec => []StudyTypeOK
<1>1. StudyInv => StudyTypeOK
  <2> SUFFICES ASSUME StudyInv PROVE StudyTypeOK
    OBVIOUS
  <2>1. \A k \in Kind : \A file \in study[k] : file.whole \in BOOLEAN
    BY Zenon DEF StudyInv, FileOK
  <2>2. ASSUME NEW s \in Student
        PROVE  /\ student[s].pc \in StudentPC /\ student[s].task \in Task
               /\ student[s].accepted # {} <=> student[s].pc = "accepted"
    BY DEF StudyInv, StudentInv, StudentShape
  <2>3. QED
    BY <2>1, <2>2, Zenon DEF StudyTypeOK, StudentPC
<1>2. QED
  BY StudyInvariant, <1>1, PTL

\* What a verify accepted is true of the two bundles it was given, whoever else wrote the
\* file meanwhile.
THEOREM AcceptedStudy == StudySpec => []AcceptedStudyIsTrue
<1>1. StudyInv => AcceptedStudyIsTrue
  <2> SUFFICES ASSUME StudyInv, NEW s \in Student, NEW file \in student[s].accepted,
                      NEW t, t = student[s].task
               PROVE  /\ t.before.verifies /\ t.after.verifies
                      /\ IF t.kind = "delta" THEN DeltaIsTrue(file.content, t.before, t.after)
                         ELSE /\ StatementIsTrue(file.content, t.before, t.after)
                              /\ t.before.run_id # t.after.run_id
    BY DEF AcceptedStudyIsTrue
  <2>1. t \in Task /\ Verifies(t, file)
    BY DEF StudyInv, StudentInv, StudentShape
  <2>2. CASE t.kind = "delta"
    <3>1. VerifyDelta(file.content, t.before, t.after)
      BY <2>1, <2>2 DEF Verifies
    <3>2. t.before.verifies /\ t.after.verifies
      BY <3>1 DEF VerifyDelta, Comparable
    <3>3. QED
      BY <2>1, <2>2, <3>1, <3>2, VerifiedDeltaIsTrue
  <2>3. CASE t.kind # "delta"
    <3>1. VerifyStatement(file.content, t.before, t.after)
      BY <2>1, <2>3 DEF Verifies
    <3>2. t.before.verifies /\ t.after.verifies /\ t.before.run_id # t.after.run_id
      BY <3>1 DEF VerifyStatement, Testable
    <3>3. QED
      BY <2>1, <2>3, <3>1, <3>2, VerifiedStatementIsTrue
  <2>4. QED
    BY <2>2, <2>3
<1>2. QED
  BY StudyInvariant, <1>1, PTL

---------------------------------------------------------------------------
(* Audit correlation: what the audit directory says of a session *)

\* The values of the audit directory and of a session.
AuditFile == [daemon : Daemon, records : Seq(Record) \ {<<>>}, final : BOOLEAN]
AuditPC == {"ready", "started", "probed", "analyzing", "listed", "done", "dry-run-no-correlation"}
Correlation ==
  [pc : AuditPC, agent : SessionAgent, since : Nat, probed : SUBSET (0 .. MaxTime), until : Nat,
   records : SUBSET Record, seen : {"final", "open", "none"}, rotated : BOOLEAN,
   strength : Strength \cup {"none"}]

\* The values of the variables, field by field.
AuditTypes ==
  /\ clock \in 0 .. MaxTime
  /\ logs \in Seq(AuditFile)
  /\ correlated \in [Session -> Correlation]

\* Below, l is a value of the audit directory, t of the clock, and r what session s is at.
LinesOf(l) == UNION {{i} \X DOMAIN l[i].records : i \in DOMAIN l}
FinalsOf(l) == {p \in LinesOf(l) : l[p[1]].final}
EntryAt(l, p) == l[p[1]].records[p[2]]
EvidenceOf(l, r) ==
  {p \in FinalsOf(l) : EntryAt(l, p).agent = r.agent /\ EntryAt(l, p).timestamp >= r.since}
BehindOf(l, s, r) ==
  {p \in EvidenceOf(l, r) : \E q \in FinalsOf(l) : EntryAt(l, q).resource_id = s /\ After(p, q)}

\* A record with the session's marker is of the one probe it has sent.
OwnProbeOnly(l, t, s, r) ==
  /\ r.pc \in {"ready", "started"} => r.probed = {}
  /\ \A x \in r.probed : x <= t
  /\ \A p \in LinesOf(l) : EntryAt(l, p).resource_id = s => EntryAt(l, p).timestamp \in r.probed

\* What a listing read is among the finalized records, and holds the probe's record if it
\* was finalized, unless enough later ones are there.
ListedTruly(l, s, r) ==
  /\ \A record \in r.records : \E p \in EvidenceOf(l, r) : EntryAt(l, p) = record
  /\ r.seen = "final" =>
       /\ r.records # {}
       /\ \/ \E record \in r.records : record.resource_id = s
          \/ Cardinality(BehindOf(l, s, r)) >= MaxRecords

\* A record in a file in progress at the listing is still in one, or a file was rotated.
OpenIsSeen(l, r) ==
  r.pc = "listed" /\ r.seen = "open" => r.rotated \/ \E i \in DOMAIN l : ~l[i].final

\* What a strength says of the records that were read.
GradedTruly(s, r) ==
  /\ r.strength = "exact-marker" <=> \E q \in r.records : q.resource_id = s
  /\ r.strength = "single-daemon-session" =>
       \E d \in Daemon : {q.audit_session_id : q \in r.records} = {d}
  /\ r.strength = "ambiguous-multi-session" =>
       \E p, q \in r.records : p.audit_session_id # q.audit_session_id
  /\ r.strength = "no-observed-correlation" =>
       r.records = {} /\ (r.seen = "open" => r.rotated)

CorrelationInv(l, t, s, r) ==
  /\ OwnProbeOnly(l, t, s, r)
  /\ r.strength \in Strength <=> r.pc = "done"
  /\ Cardinality(r.records) <= MaxRecords
  /\ r.pc \in {"listed", "done"} => ListedTruly(l, s, r)
  /\ OpenIsSeen(l, r)
  /\ r.pc = "done" => GradedTruly(s, r)

\* The inductive invariant.
AuditInv ==
  /\ AuditTypes
  /\ \A p \in LinesOf(logs) : EntryAt(logs, p).timestamp <= clock
  /\ \A s \in Session : CorrelationInv(logs, clock, s, correlated[s])

---------------------------------------------------------------------------
(* The lines of the directory *)

\* A line is a file and a place in it, and there are finitely many.
LEMMA LineIs ==
  ASSUME NEW l \in Seq(AuditFile)
  PROVE  /\ \A p \in LinesOf(l) : /\ p = <<p[1], p[2]>>
                                  /\ p[1] \in 1 .. Len(l) /\ p[1] \in Nat
                                  /\ p[2] \in 1 .. Len(l[p[1]].records) /\ p[2] \in Nat
                                  /\ EntryAt(l, p) \in Record
         /\ \A i \in 1 .. Len(l) : \A k \in 1 .. Len(l[i].records) : <<i, k>> \in LinesOf(l)
         /\ IsFiniteSet(LinesOf(l))
<1>1. DOMAIN l = 1 .. Len(l) /\ Len(l) \in Nat
  OBVIOUS
<1>2. \A i \in 1 .. Len(l) : /\ l[i].records \in Seq(Record)
                             /\ DOMAIN l[i].records = 1 .. Len(l[i].records)
                             /\ Len(l[i].records) \in Nat
  <2> SUFFICES ASSUME NEW i \in 1 .. Len(l)
               PROVE  /\ l[i].records \in Seq(Record)
                      /\ DOMAIN l[i].records = 1 .. Len(l[i].records)
                      /\ Len(l[i].records) \in Nat
    OBVIOUS
  <2>1. l[i] \in AuditFile
    OBVIOUS
  <2>2. l[i].records \in Seq(Record)
    BY <2>1 DEF AuditFile
  <2>3. QED
    BY <2>2
<1>3. ASSUME NEW p \in LinesOf(l)
      PROVE  /\ p = <<p[1], p[2]>>
             /\ p[1] \in 1 .. Len(l) /\ p[1] \in Nat
             /\ p[2] \in 1 .. Len(l[p[1]].records) /\ p[2] \in Nat
             /\ EntryAt(l, p) \in Record
  <2>1. PICK i \in 1 .. Len(l) : p \in {i} \X DOMAIN l[i].records
    BY <1>1 DEF LinesOf
  <2>2. p = <<p[1], p[2]>> /\ p[1] = i /\ p[2] \in 1 .. Len(l[i].records)
    BY <1>2, <2>1
  <2>3. p[1] \in Nat /\ p[2] \in Nat
    BY <2>2
  <2>4. EntryAt(l, p) \in Record
    BY <1>2, <2>2 DEF EntryAt
  <2>5. QED
    BY <2>2, <2>3, <2>4
<1>4. ASSUME NEW i \in 1 .. Len(l), NEW k \in 1 .. Len(l[i].records)
      PROVE  <<i, k>> \in LinesOf(l)
  BY <1>1, <1>2 DEF LinesOf
<1>5. IsFiniteSet(LinesOf(l))
  <2> DEFINE file == [i \in 1 .. Len(l) |-> {i} \X DOMAIN l[i].records]
             S == {file[i] : i \in 1 .. Len(l)}
  <2>1. file \in Surjection(1 .. Len(l), S)
    BY DEF Surjection
  <2>2. IsFiniteSet(1 .. Len(l))
    BY <1>1, FS_Interval
  <2>3. IsFiniteSet(S)
    BY <2>1, <2>2, FS_Surjection
  <2>4. ASSUME NEW T \in S PROVE IsFiniteSet(T)
    <3>1. PICK i \in 1 .. Len(l) : T = {i} \X DOMAIN l[i].records
      OBVIOUS
    <3>2. IsFiniteSet(DOMAIN l[i].records)
      <4>1. DOMAIN l[i].records = 1 .. Len(l[i].records) /\ Len(l[i].records) \in Int
        BY <1>2
      <4>2. \A n \in Int : IsFiniteSet(1 .. n)
        BY FS_Interval
      <4>3. QED
        BY <4>1, <4>2
    <3>3. QED
      BY <3>1, <3>2, FS_Singleton, FS_Product
  <2>5. IsFiniteSet(UNION S)
    BY <2>3, <2>4, FS_UNION
  <2>6. LinesOf(l) = UNION S
    BY <1>1 DEF LinesOf
  <2>7. QED
    BY <2>5, <2>6
<1>6. QED
  BY <1>3, <1>4, <1>5

---------------------------------------------------------------------------
(* The deque. *)

LaterIn(lines, p) == {q \in lines : After(q, p)}

\* Of two lines one is read after the other, and fewer lines are read after it.
LEMMA FewerLater ==
  ASSUME NEW l \in Seq(AuditFile), NEW lines \in SUBSET LinesOf(l)
  PROVE  /\ IsFiniteSet(lines)
         /\ \A p \in lines : /\ IsFiniteSet(LaterIn(lines, p))
                             /\ Cardinality(LaterIn(lines, p)) \in Nat
         /\ \A p, q \in lines : p # q => After(p, q) \/ After(q, p)
         /\ \A p, q \in lines :
              After(q, p) => Cardinality(LaterIn(lines, q)) < Cardinality(LaterIn(lines, p))
<1>1. IsFiniteSet(lines)
  BY LineIs, FS_Subset
<1>2. \A p \in lines : p = <<p[1], p[2]>> /\ p[1] \in Nat /\ p[2] \in Nat
  BY LineIs
<1>3. \A p \in lines : /\ LaterIn(lines, p) \in SUBSET lines
                       /\ IsFiniteSet(LaterIn(lines, p))
                       /\ Cardinality(LaterIn(lines, p)) \in Nat
  <2>1. \A p \in lines : LaterIn(lines, p) \in SUBSET lines
    BY DEF LaterIn
  <2>2. \A p \in lines : IsFiniteSet(LaterIn(lines, p))
    BY <1>1, <2>1, FS_Subset
  <2>3. QED
    BY <2>1, <2>2, FS_CardinalityType
<1>4. ASSUME NEW p \in lines, NEW q \in lines, p # q
      PROVE  After(p, q) \/ After(q, p)
  <2>1. p[1] # q[1] \/ p[2] # q[2]
    BY <1>2, <1>4
  <2>2. p[1] \in Nat /\ q[1] \in Nat /\ p[2] \in Nat /\ q[2] \in Nat
    BY <1>2
  <2>3. QED
    BY <2>1, <2>2 DEF After
<1>5. ASSUME NEW p \in lines, NEW q \in lines, After(q, p)
      PROVE  Cardinality(LaterIn(lines, q)) < Cardinality(LaterIn(lines, p))
  <2>1. ASSUME NEW r \in LaterIn(lines, q) PROVE r \in LaterIn(lines, p)
    <3>1. r \in lines /\ After(r, q)
      BY DEF LaterIn
    <3>2. /\ p[1] \in Nat /\ q[1] \in Nat /\ r[1] \in Nat
          /\ p[2] \in Nat /\ q[2] \in Nat /\ r[2] \in Nat
      BY <1>2, <3>1
    <3>3. After(r, p)
      BY <1>5, <3>1, <3>2 DEF After
    <3>4. QED
      BY <3>1, <3>3 DEF LaterIn
  <2>2. q \in LaterIn(lines, p) /\ q \notin LaterIn(lines, q)
    <3>1. q[1] \in Nat /\ q[2] \in Nat
      BY <1>2
    <3>2. ~After(q, q)
      BY <3>1 DEF After
    <3>3. QED
      BY <1>5, <3>2 DEF LaterIn
  <2>3. /\ LaterIn(lines, q) \in SUBSET LaterIn(lines, p)
        /\ LaterIn(lines, q) # LaterIn(lines, p)
    BY <2>1, <2>2
  <2>4. /\ Cardinality(LaterIn(lines, q)) <= Cardinality(LaterIn(lines, p))
        /\ Cardinality(LaterIn(lines, q)) # Cardinality(LaterIn(lines, p))
    BY <1>3, <2>3, FS_Subset
  <2>5. QED
    BY <1>3, <2>4
<1>6. QED
  BY <1>1, <1>3, <1>4, <1>5

\* The deque holds no more than its length.
LEMMA KeptBound ==
  ASSUME NEW l \in Seq(AuditFile), NEW lines \in SUBSET LinesOf(l)
  PROVE  /\ IsFiniteSet(Kept(lines))
         /\ Cardinality(Kept(lines)) <= MaxRecords
<1> DEFINE later == [p \in Kept(lines) |-> Cardinality(LaterIn(lines, p))]
<1>1. Kept(lines) = {p \in lines : Cardinality(LaterIn(lines, p)) < MaxRecords}
  BY DEF Kept, LaterIn
<1>2. ASSUME NEW p \in Kept(lines) PROVE later[p] \in 0 .. MaxRecords - 1
  <2>1. p \in lines /\ Cardinality(LaterIn(lines, p)) < MaxRecords
    BY <1>1
  <2>2. Cardinality(LaterIn(lines, p)) \in Nat
    BY <2>1, FewerLater
  <2>3. MaxRecords \in Nat
    BY AuditAssumption
  <2>4. Cardinality(LaterIn(lines, p)) \in 0 .. MaxRecords - 1
    BY <2>1, <2>2, <2>3
  <2>5. QED
    BY <2>4
<1>3. \A p, q \in Kept(lines) : p # q => later[p] # later[q]
  BY <1>1, FewerLater
<1>4. later \in Injection(Kept(lines), 0 .. MaxRecords - 1)
  <2>1. later \in [Kept(lines) -> 0 .. MaxRecords - 1] /\ DOMAIN later = Kept(lines)
    BY <1>2
  <2> HIDE DEF later
  <2>2. QED
    BY <1>3, <2>1 DEF Injection, IsInjective
<1>5. IsFiniteSet(0 .. MaxRecords - 1) /\ Cardinality(0 .. MaxRecords - 1) = MaxRecords
  BY FS_Interval, AuditAssumption
<1>6. QED
  BY <1>4, <1>5, FS_Injection

\* It holds a record when one was selected.
LEMMA KeptSome ==
  ASSUME NEW l \in Seq(AuditFile), NEW lines \in SUBSET LinesOf(l), lines # {}
  PROVE  Kept(lines) # {}
<1> DEFINE count(p) == Cardinality(LaterIn(lines, p))
           counts == {count(p) : p \in lines}
<1>1. \A p \in lines : count(p) \in Nat
  BY FewerLater
<1>2. counts \subseteq Nat /\ counts # {}
  BY <1>1
<1>3. PICK n \in counts : \A k \in counts : <<k, n>> \notin LessThan
  <2> HIDE DEF counts
  <2>1. QED
    BY <1>2, LessThanWellFounded, WFMin
<1>4. PICK p \in lines : n = count(p)
  OBVIOUS
<1>5. LaterIn(lines, p) = {}
  <2>1. SUFFICES ASSUME NEW q \in LaterIn(lines, p) PROVE FALSE
    OBVIOUS
  <2>2. q \in lines /\ After(q, p)
    BY DEF LaterIn
  <2>3. count(q) < count(p) /\ count(q) \in counts
    BY <2>2, FewerLater
  <2>4. <<count(q), n>> \in LessThan
    BY <1>1, <1>4, <2>2, <2>3 DEF LessThan
  <2>5. QED
    BY <1>3, <2>3, <2>4
<1>6. count(p) = 0
  BY <1>5, FS_EmptySet
<1>7. p \in Kept(lines)
  BY <1>6, AuditAssumption DEF Kept, LaterIn
<1>8. QED
  BY <1>7

---------------------------------------------------------------------------
(* What the daemons do to the lines. *)

\* Every finalized line goes somewhere, as it was and in the order they were in.
Moves(m, l, n) ==
  /\ DOMAIN m = FinalsOf(l)
  /\ \A p \in FinalsOf(l) : m[p] \in FinalsOf(n) /\ EntryAt(n, m[p]) = EntryAt(l, p)
  /\ \A p, q \in FinalsOf(l) : m[p] = m[q] => p = q
  /\ \A p, q \in FinalsOf(l) : After(q, p) => After(m[q], m[p])

\* So a set of finalized lines that is carried into another is no larger than it.
LEMMA MovesCount ==
  ASSUME NEW l \in Seq(AuditFile), NEW n \in Seq(AuditFile), NEW m, Moves(m, l, n),
         NEW A \in SUBSET FinalsOf(l), NEW B \in SUBSET FinalsOf(n), \A p \in A : m[p] \in B
  PROVE  /\ Cardinality(A) \in Nat /\ Cardinality(B) \in Nat
         /\ Cardinality(A) <= Cardinality(B)
<1> DEFINE f == [p \in A |-> m[p]]
<1>1. f \in Injection(A, B)
  BY DEF Injection, IsInjective, Moves
<1>2. B \in SUBSET LinesOf(n)
  BY DEF FinalsOf
<1>3. IsFiniteSet(B)
  BY <1>2, LineIs, FS_Subset
<1>4. QED
  BY <1>1, <1>3, FS_Injection, FS_CardinalityType

\* A file that is taken out moves those behind it up by one.
LEMMA RemoveAtIs ==
  ASSUME NEW S, NEW l \in Seq(S), NEW i \in 1 .. Len(l)
  PROVE  /\ RemoveAt(l, i) \in Seq(S) /\ Len(RemoveAt(l, i)) = Len(l) - 1
         /\ \A j \in 1 .. Len(l) - 1 :
              RemoveAt(l, i)[j] = IF j < i THEN l[j] ELSE l[j + 1]
<1> DEFINE a == SubSeq(l, 1, i - 1)
           b == SubSeq(l, i + 1, Len(l))
<1>1. /\ a \in Seq(S) /\ Len(a) = i - 1 /\ \A j \in 1 .. i - 1 : a[j] = l[j]
      /\ b \in Seq(S) /\ Len(b) = Len(l) - i /\ \A j \in 1 .. Len(l) - i : b[j] = l[i + j]
  <2>1. Len(l) \in Nat /\ i \in Nat /\ i <= Len(l) /\ 1 <= i
        /\ \A j \in 1 .. Len(l) : l[j] \in S
    OBVIOUS
  <2>2. a \in Seq(S) /\ Len(a) = i - 1 /\ \A j \in 1 .. i - 1 : a[j] = l[j]
    BY <2>1
  <2>3. Len(b) = Len(l) - i /\ \A j \in 1 .. Len(l) - i : b[j] = l[i + j]
    BY <2>1
  <2>4. b \in Seq(S)
    BY <2>1
  <2>5. QED
    BY <2>2, <2>3, <2>4
<1>2. RemoveAt(l, i) = a \o b
  BY DEF RemoveAt
<1> HIDE DEF a, b
<1>3. Len(l) \in Nat /\ i \in Nat /\ i <= Len(l) /\ 1 <= i
  OBVIOUS
<1>4. /\ a \o b \in Seq(S) /\ Len(a \o b) = Len(l) - 1
      /\ \A j \in 1 .. Len(l) - 1 : (a \o b)[j] = IF j <= i - 1 THEN a[j] ELSE b[j - (i - 1)]
  <2>0. a \in Seq(S) /\ b \in Seq(S)
    BY <1>1
  <2>1. a \o b \in Seq(S) /\ Len(a \o b) = Len(a) + Len(b)
    BY <2>0
  <2>2. \A j \in 1 .. Len(a) + Len(b) :
          (a \o b)[j] = IF j <= Len(a) THEN a[j] ELSE b[j - Len(a)]
    BY <1>1
  <2>3. Len(a) + Len(b) = Len(l) - 1
    BY <1>1, <1>3
  <2>4. QED
    BY <1>1, <2>1, <2>2, <2>3
<1>5. ASSUME NEW j \in 1 .. Len(l) - 1
      PROVE  (a \o b)[j] = IF j < i THEN l[j] ELSE l[j + 1]
  <2>1. CASE j < i
    BY <1>1, <1>3, <1>4, <2>1
  <2>2. CASE ~(j < i)
    <3>1. j - (i - 1) \in 1 .. Len(l) - i /\ i + (j - (i - 1)) = j + 1
      BY <1>3, <2>2
    <3>2. (a \o b)[j] = b[j - (i - 1)]
      BY <1>3, <1>4, <2>2
    <3>3. b[j - (i - 1)] = l[j + 1]
      BY <1>1, <3>1
    <3>4. QED
      BY <2>2, <3>2, <3>3
  <2>3. QED
    BY <2>1, <2>2
<1>6. QED
  BY <1>2, <1>4, <1>5

\* A daemon that logs adds one record, and moves every finalized line in order.
LEMMA LoggedMoves ==
  ASSUME logs \in Seq(AuditFile), NEW d \in Daemon, NEW record \in Record
  PROVE  LET n == Logged(d, record)
         IN  /\ n \in Seq(AuditFile)
             /\ \E m : Moves(m, logs, n)
             /\ \A p \in LinesOf(n) :
                  EntryAt(n, p) = record \/ \E q \in LinesOf(logs) : EntryAt(logs, q) = EntryAt(n, p)
             /\ \E i \in DOMAIN n : ~n[i].final
<1> DEFINE n == Logged(d, record)
           open == {i \in DOMAIN logs : logs[i].daemon = d /\ ~logs[i].final}
           i == CHOOSE j \in open : TRUE
           new == [daemon |-> d, records |-> <<record>>, final |-> FALSE]
           longer == [logs[i] EXCEPT !.records = Append(@, record)]
<1>1. DOMAIN logs = 1 .. Len(logs) /\ Len(logs) \in Nat
  OBVIOUS
<1>2. CASE open = {}
  <2>1. n = Append(logs, new)
    BY <1>2 DEF Logged
  <2>2. new \in AuditFile /\ ~new.final /\ new.records = <<record>>
    BY DEF AuditFile
  <2> HIDE DEF n, new, open
  <2>3. /\ n \in Seq(AuditFile) /\ Len(n) = Len(logs) + 1
        /\ n[Len(logs) + 1] = new /\ \A j \in 1 .. Len(logs) : n[j] = logs[j]
    BY <2>1, <2>2
  <2>4. ASSUME NEW p \in LinesOf(n)
        PROVE  \/ p \in LinesOf(logs) /\ EntryAt(n, p) = EntryAt(logs, p)
               \/ p[1] = Len(logs) + 1 /\ EntryAt(n, p) = record
    <3>1. /\ p = <<p[1], p[2]>> /\ p[1] \in 1 .. Len(n)
          /\ p[2] \in 1 .. Len(n[p[1]].records)
      BY <2>3, LineIs
    <3>2. CASE p[1] = Len(logs) + 1
      <4>0. n[p[1]].records = <<record>>
        BY <2>2, <2>3, <3>2
      <4>1. p[2] = 1
        <5>1. p[2] \in 1 .. Len(<<record>>) /\ Len(<<record>>) = 1
          BY <3>1, <4>0
        <5>2. \A k \in 1 .. 1 : k = 1
          OBVIOUS
        <5>3. QED
          BY <5>1, <5>2
      <4>2. QED
        BY <2>2, <2>3, <3>2, <4>1 DEF EntryAt
    <3>3. CASE p[1] # Len(logs) + 1
      <4>1. p[1] \in 1 .. Len(logs)
        BY <1>1, <2>3, <3>1, <3>3
      <4>2. n[p[1]] = logs[p[1]]
        BY <2>3, <4>1
      <4>3. p \in LinesOf(logs)
        BY <3>1, <4>1, <4>2, LineIs
      <4>4. QED
        BY <4>2, <4>3 DEF EntryAt
    <3>4. QED
      BY <3>2, <3>3
  <2>5. ASSUME NEW p \in LinesOf(logs)
        PROVE  p \in LinesOf(n) /\ EntryAt(n, p) = EntryAt(logs, p) /\ n[p[1]] = logs[p[1]]
    <3>1. /\ p = <<p[1], p[2]>> /\ p[1] \in 1 .. Len(logs)
          /\ p[2] \in 1 .. Len(logs[p[1]].records)
      BY LineIs
    <3>2. n[p[1]] = logs[p[1]] /\ p[1] \in 1 .. Len(n)
      BY <1>1, <2>3, <3>1
    <3>3. p \in LinesOf(n)
      BY <2>3, <3>1, <3>2, LineIs
    <3>4. QED
      BY <3>2, <3>3 DEF EntryAt
  <2>6. Moves([p \in FinalsOf(logs) |-> p], logs, n)
    BY <2>5 DEF Moves, FinalsOf
  <2>7. Len(logs) + 1 \in DOMAIN n /\ ~n[Len(logs) + 1].final
    BY <1>1, <2>2, <2>3
  <2>8. QED
    BY <2>3, <2>4, <2>6, <2>7 DEF n
<1>3. CASE open # {}
  <2>1. n = Append(RemoveAt(logs, i), longer) /\ i \in open
    BY <1>3 DEF Logged
  <2>2. i \in 1 .. Len(logs) /\ ~logs[i].final /\ logs[i] \in AuditFile
    BY <1>1, <2>1
  <2>3. /\ longer \in AuditFile /\ ~longer.final
        /\ longer.records = Append(logs[i].records, record)
        /\ logs[i].records \in Seq(Record)
    <3> HIDE DEF i
    <3>1. logs[i].records \in Seq(Record)
      BY <2>2 DEF AuditFile
    <3>2. Append(logs[i].records, record) \in Seq(Record) \ {<<>>}
      BY <3>1
    <3>3. QED
      BY <2>2, <3>1, <3>2 DEF AuditFile
  <2> HIDE DEF n, longer, open, i
  <2>4. /\ RemoveAt(logs, i) \in Seq(AuditFile) /\ Len(RemoveAt(logs, i)) = Len(logs) - 1
        /\ \A j \in 1 .. Len(logs) - 1 :
             RemoveAt(logs, i)[j] = IF j < i THEN logs[j] ELSE logs[j + 1]
    BY <2>2, RemoveAtIs
  <2>5. /\ n \in Seq(AuditFile) /\ Len(n) = Len(logs)
        /\ n[Len(logs)] = longer
        /\ \A j \in 1 .. Len(logs) - 1 : n[j] = IF j < i THEN logs[j] ELSE logs[j + 1]
    <3>1. Len(logs) - 1 \in Nat
      BY <1>1, <2>2
    <3> DEFINE rest == RemoveAt(logs, i)
    <3>2. rest \in Seq(AuditFile) /\ Len(rest) = Len(logs) - 1 /\ n = Append(rest, longer)
      BY <2>1, <2>4
    <3>3. \A j \in 1 .. Len(logs) - 1 : rest[j] = IF j < i THEN logs[j] ELSE logs[j + 1]
      BY <2>4
    <3> HIDE DEF rest
    <3>4. /\ n \in Seq(AuditFile) /\ Len(n) = Len(rest) + 1 /\ n[Len(rest) + 1] = longer
          /\ \A j \in 1 .. Len(rest) : n[j] = rest[j]
      BY <2>3, <3>2
    <3>5. QED
      BY <1>1, <3>1, <3>2, <3>3, <3>4
  <2>6. ASSUME NEW p \in LinesOf(n)
        PROVE  EntryAt(n, p) = record \/ \E q \in LinesOf(logs) : EntryAt(logs, q) = EntryAt(n, p)
    <3>1. /\ p[1] \in 1 .. Len(n) /\ p[1] \in Nat
          /\ p[2] \in 1 .. Len(n[p[1]].records) /\ p[2] \in Nat
      BY <2>5, LineIs
    <3>2. CASE p[1] = Len(logs)
      <4>1. n[p[1]].records = Append(logs[i].records, record)
        BY <2>3, <2>5, <3>2
      <4>2. Len(logs[i].records) \in Nat /\ p[2] \in 1 .. Len(logs[i].records) + 1
        BY <2>3, <3>1, <4>1
      <4>3. CASE p[2] = Len(logs[i].records) + 1
        BY <2>3, <4>1, <4>3 DEF EntryAt
      <4>4. CASE p[2] # Len(logs[i].records) + 1
        <5>1. p[2] \in 1 .. Len(logs[i].records)
          BY <4>2, <4>4
        <5>2. EntryAt(n, p) = logs[i].records[p[2]]
          BY <2>3, <4>1, <5>1 DEF EntryAt
        <5>3. <<i, p[2]>> \in LinesOf(logs)
          BY <2>2, <5>1, LineIs
        <5>4. QED
          BY <5>2, <5>3 DEF EntryAt
      <4>5. QED
        BY <4>3, <4>4
    <3>3. CASE p[1] # Len(logs)
      <4> DEFINE j == IF p[1] < i THEN p[1] ELSE p[1] + 1
      <4>0. Len(logs) \in Nat /\ i \in 1 .. Len(logs) /\ p[1] \in 1 .. Len(logs) - 1
        BY <1>1, <2>2, <2>5, <3>1, <3>3
      <4>1. j \in 1 .. Len(logs) /\ n[p[1]] = logs[j]
        <5>1. n[p[1]] = IF p[1] < i THEN logs[p[1]] ELSE logs[p[1] + 1]
          BY <2>5, <4>0
        <5>2. p[1] < i => j = p[1] /\ n[p[1]] = logs[p[1]]
          BY <5>1
        <5>3. ~(p[1] < i) => j = p[1] + 1 /\ n[p[1]] = logs[p[1] + 1]
          BY <5>1
        <5>4. j \in 1 .. Len(logs)
          BY <4>0
        <5>5. QED
          BY <5>2, <5>3, <5>4
      <4> HIDE DEF j
      <4>2. <<j, p[2]>> \in LinesOf(logs)
        BY <3>1, <4>1, LineIs
      <4>3. QED
        BY <4>1, <4>2 DEF EntryAt
    <3>4. QED
      BY <3>2, <3>3
  <2> DEFINE Up(k) == IF k > i THEN k - 1 ELSE k
             m == [p \in FinalsOf(logs) |-> <<Up(p[1]), p[2]>>]
  <2>7. ASSUME NEW p \in FinalsOf(logs)
        PROVE  /\ p = <<p[1], p[2]>> /\ p[1] \in Nat /\ p[2] \in Nat /\ p[1] # i
               /\ m[p] \in FinalsOf(n) /\ EntryAt(n, m[p]) = EntryAt(logs, p)
    <3>1. /\ p \in LinesOf(logs) /\ logs[p[1]].final
      BY DEF FinalsOf
    <3>2. /\ p = <<p[1], p[2]>> /\ p[1] \in 1 .. Len(logs) /\ p[1] \in Nat
          /\ p[2] \in 1 .. Len(logs[p[1]].records) /\ p[2] \in Nat
      BY <3>1, LineIs
    <3>3. p[1] # i
      BY <2>2, <3>1
    <3>4. Up(p[1]) \in 1 .. Len(logs) - 1 /\ n[Up(p[1])] = logs[p[1]] /\ Up(p[1]) \in 1 .. Len(n)
      <4>1. Len(logs) \in Nat /\ i \in 1 .. Len(logs) /\ p[1] \in 1 .. Len(logs) /\ Len(n) = Len(logs)
        BY <1>1, <2>2, <2>5, <3>2
      <4>2. Up(p[1]) \in 1 .. Len(logs) - 1 /\ Up(p[1]) \in 1 .. Len(logs)
        BY <3>3, <4>1
      <4>3. n[Up(p[1])] = IF Up(p[1]) < i THEN logs[Up(p[1])] ELSE logs[Up(p[1]) + 1]
        BY <2>5, <4>2
      <4>4. CASE p[1] > i
        <5>1. Up(p[1]) = p[1] - 1 /\ ~(Up(p[1]) < i) /\ Up(p[1]) + 1 = p[1]
          BY <4>1, <4>4
        <5>2. QED
          BY <4>1, <4>2, <4>3, <5>1
      <4>5. CASE ~(p[1] > i)
        <5>1. Up(p[1]) = p[1] /\ Up(p[1]) < i
          BY <3>3, <4>1, <4>5
        <5>2. QED
          BY <4>1, <4>2, <4>3, <5>1
      <4>6. QED
        BY <4>4, <4>5
    <3>5. m[p] = <<Up(p[1]), p[2]>>
      OBVIOUS
    <3> HIDE DEF m, Up
    <3>6. m[p] \in LinesOf(n)
      BY <2>5, <3>2, <3>4, <3>5, LineIs
    <3>7. QED
      BY <3>1, <3>2, <3>3, <3>4, <3>5, <3>6 DEF FinalsOf, EntryAt
  <2>8. ASSUME NEW p \in FinalsOf(logs), NEW q \in FinalsOf(logs)
        PROVE  /\ m[p] = m[q] => p = q
               /\ After(q, p) => After(m[q], m[p])
    <3>1. m[p] = <<Up(p[1]), p[2]>> /\ m[q] = <<Up(q[1]), q[2]>>
      OBVIOUS
    <3>2. /\ p = <<p[1], p[2]>> /\ p[1] \in Nat /\ p[2] \in Nat /\ p[1] # i
          /\ q = <<q[1], q[2]>> /\ q[1] \in Nat /\ q[2] \in Nat /\ q[1] # i
      BY <2>7
    <3>3. i \in Nat
      BY <2>2
    <3>4. /\ Up(p[1]) = Up(q[1]) => p[1] = q[1]
          /\ q[1] > p[1] => Up(q[1]) > Up(p[1])
      BY <3>2, <3>3
    <3> HIDE DEF m, Up
    <3>5. /\ m[p][1] = Up(p[1]) /\ m[p][2] = p[2]
          /\ m[q][1] = Up(q[1]) /\ m[q][2] = q[2]
      BY <3>1
    <3>6. m[p] = m[q] => p = q
      <4>1. SUFFICES ASSUME m[p] = m[q] PROVE p = q
        OBVIOUS
      <4>2. p[1] = q[1] /\ p[2] = q[2]
        BY <3>4, <3>5, <4>1
      <4>3. QED
        BY <3>2, <4>2
    <3>7. After(q, p) => After(m[q], m[p])
      BY <3>4, <3>5 DEF After
    <3>8. QED
      BY <3>6, <3>7
  <2>9. Moves(m, logs, n)
    <3>1. DOMAIN m = FinalsOf(logs)
      OBVIOUS
    <3> HIDE DEF m
    <3>2. QED
      BY <2>7, <2>8, <3>1 DEF Moves
  <2>10. Len(logs) \in DOMAIN n /\ ~n[Len(logs)].final
    BY <1>1, <2>2, <2>3, <2>5
  <2>11. QED
    BY <2>5, <2>6, <2>9, <2>10 DEF n
<1>4. QED
  BY <1>2, <1>3

\* A rotation moves no line, and finalizes those of a file.
LEMMA RotateMoves ==
  ASSUME logs \in Seq(AuditFile), NEW i \in DOMAIN logs
  PROVE  LET n == [logs EXCEPT ![i].final = TRUE]
         IN  /\ n \in Seq(AuditFile)
             /\ \E m : Moves(m, logs, n)
             /\ \A p \in LinesOf(n) : \E q \in LinesOf(logs) : EntryAt(logs, q) = EntryAt(n, p)
<1> DEFINE n == [logs EXCEPT ![i].final = TRUE]
<1>1. logs[i] \in AuditFile /\ DOMAIN logs = 1 .. Len(logs)
  OBVIOUS
<1>2. [logs[i] EXCEPT !.final = TRUE] \in AuditFile
  BY <1>1 DEF AuditFile
<1>3. n \in Seq(AuditFile) /\ DOMAIN n = DOMAIN logs
  BY <1>2
<1>4. \A j \in DOMAIN logs : n[j].records = logs[j].records /\ (logs[j].final => n[j].final)
  BY <1>1 DEF AuditFile
<1> HIDE DEF n
<1>5. LinesOf(n) = LinesOf(logs)
  BY <1>3, <1>4 DEF LinesOf
<1>6. \A p \in LinesOf(logs) : p[1] \in DOMAIN logs
  BY LineIs
<1>7. /\ \A p \in LinesOf(logs) : EntryAt(n, p) = EntryAt(logs, p)
      /\ FinalsOf(logs) \subseteq FinalsOf(n)
  BY <1>4, <1>5, <1>6 DEF EntryAt, FinalsOf
<1>8. \A p \in FinalsOf(logs) : p \in LinesOf(logs)
  BY DEF FinalsOf
<1>9. Moves([p \in FinalsOf(logs) |-> p], logs, n)
  BY <1>7, <1>8 DEF Moves
<1>10. QED
  BY <1>3, <1>5, <1>7, <1>9 DEF n

---------------------------------------------------------------------------
(* The invariant. *)

\* The lines of the directory, in its terms and in those used here.
LEMMA LinesAre ==
  /\ Line = LinesOf(logs) /\ FinalLine = FinalsOf(logs)
  /\ \A p : RecordAt(p) = EntryAt(logs, p)
  /\ \A s : Evidence(s) = EvidenceOf(logs, correlated[s])
  /\ \A s : Behind(s) = BehindOf(logs, s, correlated[s])
  BY DEF Line, LinesOf, FinalLine, FinalsOf, RecordAt, EntryAt, Evidence, EvidenceOf, Behind, BehindOf

\* What was listed truly stays so when the daemons log and rotate.
LEMMA ListedStays ==
  ASSUME NEW l \in Seq(AuditFile), NEW n \in Seq(AuditFile), NEW m, Moves(m, l, n),
         NEW s, NEW r, ListedTruly(l, s, r)
  PROVE  ListedTruly(n, s, r)
<1>1. ASSUME NEW p \in EvidenceOf(l, r)
      PROVE  m[p] \in EvidenceOf(n, r) /\ EntryAt(n, m[p]) = EntryAt(l, p)
  BY DEF EvidenceOf, Moves
<1>2. ASSUME NEW p \in BehindOf(l, s, r) PROVE m[p] \in BehindOf(n, s, r)
  <2>1. PICK q \in FinalsOf(l) : EntryAt(l, q).resource_id = s /\ After(p, q)
    BY DEF BehindOf
  <2>2. p \in EvidenceOf(l, r) /\ p \in FinalsOf(l)
    BY DEF BehindOf, EvidenceOf
  <2>3. m[q] \in FinalsOf(n) /\ EntryAt(n, m[q]).resource_id = s /\ After(m[p], m[q])
    BY <2>1, <2>2 DEF Moves
  <2>4. QED
    BY <1>1, <2>2, <2>3 DEF BehindOf
<1>3. \A record \in r.records : \E p \in EvidenceOf(n, r) : EntryAt(n, p) = record
  BY <1>1 DEF ListedTruly
<1>4. /\ BehindOf(l, s, r) \in SUBSET FinalsOf(l)
      /\ BehindOf(n, s, r) \in SUBSET FinalsOf(n)
  BY DEF BehindOf, EvidenceOf
<1>5. /\ Cardinality(BehindOf(l, s, r)) \in Nat /\ Cardinality(BehindOf(n, s, r)) \in Nat
      /\ Cardinality(BehindOf(l, s, r)) <= Cardinality(BehindOf(n, s, r))
  BY <1>2, <1>4, MovesCount
<1>6. Cardinality(BehindOf(l, s, r)) >= MaxRecords => Cardinality(BehindOf(n, s, r)) >= MaxRecords
  BY <1>5, AuditAssumption
<1>7. QED
  BY <1>3, <1>6 DEF ListedTruly

\* A daemon's record, with a time that has passed, leaves what is said of a session true
\* if it does not hold its marker, or holds it with the time of its probe.
LEMMA SessionRests ==
  ASSUME NEW l \in Seq(AuditFile), NEW n \in Seq(AuditFile), \E m : Moves(m, l, n),
         NEW t, NEW s, NEW r, CorrelationInv(l, t, s, r),
         NEW record, record.resource_id = s => record.timestamp \in r.probed,
         \A p \in LinesOf(n) : EntryAt(n, p) = record \/ \E q \in LinesOf(l) : EntryAt(l, q) = EntryAt(n, p),
         \E i \in DOMAIN n : ~n[i].final
  PROVE  CorrelationInv(n, t, s, r)
<1>1. PICK m : Moves(m, l, n)
  OBVIOUS
<1>2. r.pc \in {"listed", "done"} => ListedTruly(n, s, r)
  BY <1>1, ListedStays DEF CorrelationInv
<1>3. OwnProbeOnly(n, t, s, r)
  BY DEF CorrelationInv, OwnProbeOnly
<1>4. OpenIsSeen(n, r)
  BY DEF OpenIsSeen
<1>5. QED
  BY <1>2, <1>3, <1>4 DEF CorrelationInv

\* The same of a rotation, which the sessions that have listed are marked by.
LEMMA SessionSeesRotation ==
  ASSUME NEW l \in Seq(AuditFile), NEW n \in Seq(AuditFile), \E m : Moves(m, l, n),
         NEW t, NEW s, NEW r \in Correlation, CorrelationInv(l, t, s, r),
         \A p \in LinesOf(n) : \E q \in LinesOf(l) : EntryAt(l, q) = EntryAt(n, p)
  PROVE  LET new == [r EXCEPT !.rotated = @ \/ r.pc = "listed"]
         IN  new \in Correlation /\ CorrelationInv(n, t, s, new)
<1> DEFINE new == [r EXCEPT !.rotated = @ \/ r.pc = "listed"]
<1>1. /\ new \in Correlation
      /\ new.rotated = (r.rotated \/ r.pc = "listed")
      /\ new.pc = r.pc /\ new.probed = r.probed /\ new.records = r.records /\ new.seen = r.seen
      /\ new.agent = r.agent /\ new.since = r.since /\ new.strength = r.strength
  BY DEF Correlation
<1> HIDE DEF new
<1>2. PICK m : Moves(m, l, n)
  OBVIOUS
<1>3. r.pc \in {"listed", "done"} => ListedTruly(n, s, r)
  BY <1>2, ListedStays DEF CorrelationInv
<1>4. ListedTruly(n, s, r) => ListedTruly(n, s, new)
  BY <1>1 DEF ListedTruly, EvidenceOf, BehindOf
<1>5. OwnProbeOnly(n, t, s, new)
  BY <1>1 DEF CorrelationInv, OwnProbeOnly
<1>6. OpenIsSeen(n, new)
  BY <1>1 DEF OpenIsSeen
<1>7. GradedTruly(s, r) => GradedTruly(s, new)
  BY <1>1 DEF GradedTruly
<1>8. QED
  BY <1>1, <1>3, <1>4, <1>5, <1>6, <1>7 DEF CorrelationInv, new

\* A time rounded down to the second is a time.
LEMMA UtcNowIs == clock \in Nat => UtcNow \in Nat
<1> SUFFICES ASSUME clock \in Nat PROVE UtcNow \in Nat
  OBVIOUS
<1>1. Second \in Nat \ {0}
  BY AuditAssumption
<1>2. clock \div Second \in Nat
  BY <1>1
<1>3. QED
  BY <1>1, <1>2 DEF UtcNow

\* A listing is true of the directory it listed.
LEMMA ListingIsTrue ==
  ASSUME AuditInv, NEW s \in Session
  PROVE  LET found == {RecordAt(p) : p \in Kept(SelectedLine(s))}
             new == [correlated[s] EXCEPT !.pc = "listed", !.seen = Seen(s), !.records = found]
         IN  /\ new \in Correlation /\ ListedTruly(logs, s, new) /\ OpenIsSeen(logs, new)
             /\ Cardinality(found) <= MaxRecords
<1> DEFINE r == correlated[s]
           lines == SelectedLine(s)
           found == {RecordAt(p) : p \in Kept(lines)}
           new == [r EXCEPT !.pc = "listed", !.seen = Seen(s), !.records = found]
<1>1. logs \in Seq(AuditFile) /\ r \in Correlation
  BY DEF AuditInv, AuditTypes
<1>2. /\ lines = {p \in FinalsOf(logs) : Selected(s, EntryAt(logs, p))}
      /\ lines \in SUBSET LinesOf(logs)
  BY LinesAre DEF SelectedLine, FinalsOf
<1>3. Kept(lines) \subseteq lines /\ found = {EntryAt(logs, p) : p \in Kept(lines)}
  BY LinesAre DEF Kept
<1>4. found \subseteq Record
  BY <1>1, <1>2, <1>3, LineIs
<1>5. Cardinality(found) <= MaxRecords
  <2> DEFINE f == [p \in Kept(lines) |-> RecordAt(p)]
  <2>1. f \in Surjection(Kept(lines), found)
    BY DEF Surjection
  <2> HIDE DEF f, found, lines
  <2>2. IsFiniteSet(Kept(lines)) /\ Cardinality(Kept(lines)) <= MaxRecords
    BY <1>1, <1>2, KeptBound
  <2>3. IsFiniteSet(found) /\ Cardinality(found) <= Cardinality(Kept(lines))
    BY <2>1, <2>2, FS_Surjection
  <2>4. /\ Cardinality(found) \in Nat /\ Cardinality(Kept(lines)) \in Nat /\ MaxRecords \in Nat
    BY <2>2, <2>3, FS_CardinalityType, AuditAssumption
  <2>5. QED
    BY <2>2, <2>3, <2>4
<1>6. Seen(s) \in {"final", "open", "none"}
  BY DEF Seen
<1> HIDE DEF found, lines
<1>7. /\ new \in Correlation
      /\ new.agent = r.agent /\ new.since = r.since /\ new.rotated = r.rotated
      /\ new.seen = Seen(s) /\ new.records = found /\ new.pc = "listed"
  BY <1>1, <1>4, <1>6 DEF Correlation, AuditPC
<1> HIDE DEF new
<1>8. ASSUME NEW p \in lines
      PROVE  p \in EvidenceOf(logs, new)
  <2>1. p \in FinalsOf(logs) /\ Selected(s, EntryAt(logs, p)) /\ EntryAt(logs, p) \in Record
    BY <1>1, <1>2, LineIs
  <2>2. EntryAt(logs, p).timestamp \in Nat /\ r.since \in Nat
    BY <1>1, <2>1, AuditAssumption DEF Record, Correlation
  <2>3. QED
    BY <1>7, <2>1, <2>2 DEF EvidenceOf, Selected
<1>9. \A record \in new.records : \E p \in EvidenceOf(logs, new) : EntryAt(logs, p) = record
  BY <1>3, <1>7, <1>8
<1>10. ASSUME Seen(s) = "final"
       PROVE  /\ found # {}
              /\ \/ \E record \in found : record.resource_id = s
                 \/ Cardinality(BehindOf(logs, s, new)) >= MaxRecords
  <2>1. Own(s) \cap FinalLine # {}
    BY <1>10 DEF Seen
  <2>2. PICK p \in lines : EntryAt(logs, p).resource_id = s
    BY <1>2, <2>1, LinesAre DEF Own
  <2>3. Kept(lines) # {}
    BY <1>1, <1>2, KeptSome
  <2>4. CASE p \in Kept(lines)
    BY <1>3, <2>2, <2>3, <2>4
  <2>5. CASE p \notin Kept(lines)
    <3>1. LaterIn(lines, p) \in SUBSET BehindOf(logs, s, new)
      <4>1. SUFFICES ASSUME NEW q \in LaterIn(lines, p) PROVE q \in BehindOf(logs, s, new)
        OBVIOUS
      <4>2. q \in lines /\ After(q, p) /\ p \in FinalsOf(logs)
        BY <1>2 DEF LaterIn
      <4>3. QED
        BY <1>8, <2>2, <4>2 DEF BehindOf
    <3>2. BehindOf(logs, s, new) \in SUBSET LinesOf(logs)
      BY DEF BehindOf, EvidenceOf, FinalsOf
    <3>3. IsFiniteSet(BehindOf(logs, s, new))
      BY <1>1, <3>2, LineIs, FS_Subset
    <3>4. /\ Cardinality(LaterIn(lines, p)) <= Cardinality(BehindOf(logs, s, new))
          /\ Cardinality(BehindOf(logs, s, new)) \in Nat
      BY <3>1, <3>3, FS_Subset, FS_CardinalityType
    <3>5. Cardinality(LaterIn(lines, p)) \in Nat /\ MaxRecords \in Nat
      BY <1>1, <1>2, FewerLater, AuditAssumption
    <3>6. ~(Cardinality(LaterIn(lines, p)) < MaxRecords)
      BY <2>5 DEF Kept, LaterIn
    <3>7. QED
      BY <1>3, <2>3, <3>4, <3>5, <3>6
  <2>6. QED
    BY <2>4, <2>5
<1>11. ListedTruly(logs, s, new)
  BY <1>7, <1>9, <1>10 DEF ListedTruly
<1>12. ASSUME Seen(s) = "open" PROVE \E i \in DOMAIN logs : ~logs[i].final
  <2>1. Own(s) # {} /\ Own(s) \cap FinalLine = {}
    BY <1>12 DEF Seen
  <2>2. PICK p \in LinesOf(logs) : p \notin FinalsOf(logs)
    BY <2>1, LinesAre DEF Own
  <2>3. p[1] \in DOMAIN logs /\ ~logs[p[1]].final
    BY <1>1, <2>2, LineIs DEF FinalsOf
  <2>4. QED
    BY <2>3
<1>13. OpenIsSeen(logs, new)
  BY <1>7, <1>12 DEF OpenIsSeen
<1>14. QED
  BY <1>5, <1>7, <1>11, <1>13 DEF new, found, lines

\* A strength is what the records that were read say.
LEMMA ConclusionIsTrue ==
  ASSUME AuditInv, NEW s \in Session, correlated[s].pc = "listed"
  PROVE  LET new == [correlated[s] EXCEPT !.pc = "done",
                       !.strength = StrengthOf(s, {i \in DOMAIN logs : ~logs[i].final})]
         IN  /\ new \in Correlation /\ new.strength \in Strength
             /\ ListedTruly(logs, s, new) /\ GradedTruly(s, new)
<1> DEFINE r == correlated[s]
           open == {i \in DOMAIN logs : ~logs[i].final}
           strength == StrengthOf(s, open)
           new == [r EXCEPT !.pc = "done", !.strength = strength]
           ids == {q.audit_session_id : q \in r.records}
           exact == \E q \in r.records : q.resource_id = s
           single == \E d \in Daemon : ids = {d}
<1>1. r \in Correlation /\ ListedTruly(logs, s, r) /\ OpenIsSeen(logs, r)
  BY DEF AuditInv, AuditTypes, CorrelationInv
<1>2. strength = IF exact THEN "exact-marker"
                 ELSE IF r.records = {} /\ open # {} THEN "pending-finalization"
                 ELSE IF ids = {} THEN "no-observed-correlation"
                 ELSE IF single THEN "single-daemon-session"
                 ELSE "ambiguous-multi-session"
  BY DEF StrengthOf
<1>3. r.records \subseteq Record /\ \A q \in r.records : q.audit_session_id \in Daemon
  BY <1>1 DEF Correlation, Record
<1> HIDE DEF strength
<1>4. strength \in Strength
  BY <1>2 DEF Strength
<1>5. strength = "exact-marker" <=> exact
  BY <1>2
<1>6. strength = "single-daemon-session" => single
  BY <1>2
<1>7. strength = "ambiguous-multi-session" =>
        \E p, q \in r.records : p.audit_session_id # q.audit_session_id
  <2>1. SUFFICES ASSUME strength = "ambiguous-multi-session"
                 PROVE  \E p, q \in r.records : p.audit_session_id # q.audit_session_id
    OBVIOUS
  <2>2. ids # {} /\ ~single
    BY <1>2, <2>1
  <2>3. PICK p \in r.records : TRUE
    BY <2>2
  <2>4. p.audit_session_id \in Daemon /\ ids # {p.audit_session_id}
    BY <1>3, <2>2
  <2>5. QED
    BY <2>3, <2>4
<1>8. strength = "no-observed-correlation" => r.records = {} /\ open = {}
  <2>1. SUFFICES ASSUME strength = "no-observed-correlation" PROVE r.records = {} /\ open = {}
    OBVIOUS
  <2>2. ids = {} /\ ~(r.records = {} /\ open # {})
    BY <1>2, <2>1
  <2>3. r.records = {}
    BY <2>2
  <2>4. QED
    BY <2>2, <2>3
<1>9. open = {} /\ r.seen = "open" => r.rotated
  BY <1>1 DEF OpenIsSeen
<1> HIDE DEF open
<1>10. /\ new \in Correlation
       /\ new.agent = r.agent /\ new.since = r.since /\ new.rotated = r.rotated
       /\ new.seen = r.seen /\ new.records = r.records /\ new.strength = strength
  BY <1>1, <1>4 DEF Correlation, AuditPC
<1> HIDE DEF new
<1>11. ListedTruly(logs, s, new)
  BY <1>1, <1>10 DEF ListedTruly, EvidenceOf, BehindOf
<1>12. GradedTruly(s, new)
  BY <1>5, <1>6, <1>7, <1>8, <1>9, <1>10 DEF GradedTruly
<1>13. QED
  BY <1>4, <1>10, <1>11, <1>12 DEF new, strength, open

\* What one session does keeps the invariant if what it comes to satisfies its part.
LEMMA SessionGoes ==
  ASSUME AuditInv, UNCHANGED <<clock, logs>>, NEW s \in Session, NEW new \in Correlation,
         correlated' = [correlated EXCEPT ![s] = new], CorrelationInv(logs, clock, s, new)
  PROVE  AuditInv'
<1>1. clock' = clock /\ logs' = logs /\ correlated \in [Session -> Correlation]
  BY DEF AuditInv, AuditTypes
<1>2. correlated' \in [Session -> Correlation]
  BY <1>1
<1>3. \A x \in Session : CorrelationInv(logs, clock, x, correlated'[x])
  BY <1>1 DEF AuditInv
<1>4. AuditTypes'
  BY <1>1, <1>2 DEF AuditInv, AuditTypes
<1>5. \A p \in LinesOf(logs') : EntryAt(logs', p).timestamp <= clock'
  BY <1>1 DEF AuditInv
<1>6. \A x \in Session : CorrelationInv(logs', clock', x, correlated'[x])
  BY <1>1, <1>3
<1>7. QED
  BY <1>4, <1>5, <1>6 DEF AuditInv

\* A step of a session keeps the invariant.
LEMMA SessionStepHolds ==
  ASSUME AuditInv, NEW s \in Session, SessionStep(s)
  PROVE  AuditInv'
<1> DEFINE r == correlated[s]
<1>1. /\ r \in Correlation /\ correlated \in [Session -> Correlation]
      /\ CorrelationInv(logs, clock, s, r) /\ clock \in Nat /\ clock \in 0 .. MaxTime
  BY AuditAssumption DEF AuditInv, AuditTypes
<1>2. CASE StartSession(s)
  <2> DEFINE new == [r EXCEPT !.pc = "started", !.since = UtcNow]
  <2>1. /\ correlated' = [correlated EXCEPT ![s] = new] /\ UNCHANGED <<clock, logs>>
        /\ r.pc = "ready"
    BY <1>2 DEF StartSession
  <2>2. /\ new \in Correlation /\ new.pc = "started" /\ new.probed = r.probed
        /\ new.records = r.records /\ new.strength = r.strength
    BY <1>1, UtcNowIs DEF Correlation, AuditPC
  <2> HIDE DEF new
  <2>3. CorrelationInv(logs, clock, s, new)
    BY <1>1, <2>1, <2>2 DEF CorrelationInv, OwnProbeOnly, OpenIsSeen
  <2>4. QED
    BY <2>1, <2>2, <2>3, SessionGoes
<1>3. CASE RunProbe(s)
  <2>1. PICK attempted \in {{}, {clock}} :
          correlated' = [correlated EXCEPT ![s].pc = "probed", ![s].probed = attempted]
    BY <1>3 DEF RunProbe
  <2> DEFINE new == [r EXCEPT !.pc = "probed", !.probed = attempted]
  <2>2. /\ correlated' = [correlated EXCEPT ![s] = new] /\ UNCHANGED <<clock, logs>>
        /\ r.pc = "started"
    BY <1>3, <2>1 DEF RunProbe
  <2>3. /\ new \in Correlation /\ new.pc = "probed" /\ new.probed = attempted
        /\ new.records = r.records /\ new.strength = r.strength
    BY <1>1 DEF Correlation, AuditPC
  <2> HIDE DEF new
  <2>4. \A p \in LinesOf(logs) : EntryAt(logs, p).resource_id # s
    BY <1>1, <2>2 DEF CorrelationInv, OwnProbeOnly
  <2>5. \A x \in attempted : x <= clock
    BY <1>1
  <2>6. CorrelationInv(logs, clock, s, new)
    BY <1>1, <2>2, <2>3, <2>4, <2>5 DEF CorrelationInv, OwnProbeOnly, OpenIsSeen
  <2>7. QED
    BY <2>2, <2>3, <2>6, SessionGoes
<1>4. CASE DryRun(s)
  <2> DEFINE new == [r EXCEPT !.pc = "dry-run-no-correlation"]
  <2>1. /\ correlated' = [correlated EXCEPT ![s] = new] /\ UNCHANGED <<clock, logs>>
        /\ r.pc = "started"
    BY <1>4 DEF DryRun, SessionAt
  <2>2. /\ new \in Correlation /\ new.pc = "dry-run-no-correlation" /\ new.probed = r.probed
        /\ new.records = r.records /\ new.strength = r.strength
    BY <1>1 DEF Correlation, AuditPC
  <2> HIDE DEF new
  <2>3. CorrelationInv(logs, clock, s, new)
    BY <1>1, <2>1, <2>2 DEF CorrelationInv, OwnProbeOnly, OpenIsSeen
  <2>4. QED
    BY <2>1, <2>2, <2>3, SessionGoes
<1>5. CASE Analyze(s)
  <2> DEFINE new == [r EXCEPT !.pc = "analyzing", !.until = UtcNow, !.strength = "none",
                              !.rotated = FALSE]
  <2>1. /\ correlated' = [correlated EXCEPT ![s] = new] /\ UNCHANGED <<clock, logs>>
        /\ r.pc \in {"probed", "done"}
    BY <1>5 DEF Analyze
  <2>2. /\ new \in Correlation /\ new.pc = "analyzing" /\ new.probed = r.probed
        /\ new.records = r.records /\ new.strength = "none"
    BY <1>1, UtcNowIs DEF Correlation, AuditPC
  <2> HIDE DEF new
  <2>3. CorrelationInv(logs, clock, s, new)
    BY <1>1, <2>1, <2>2 DEF CorrelationInv, OwnProbeOnly, OpenIsSeen, Strength
  <2>4. QED
    BY <2>1, <2>2, <2>3, SessionGoes
<1>6. CASE ListFiles(s)
  <2> DEFINE found == {RecordAt(p) : p \in Kept(SelectedLine(s))}
             new == [r EXCEPT !.pc = "listed", !.seen = Seen(s), !.records = found]
  <2>1. /\ correlated' = [correlated EXCEPT ![s] = new] /\ UNCHANGED <<clock, logs>>
        /\ r.pc = "analyzing"
    BY <1>6 DEF ListFiles
  <2>2. /\ new \in Correlation /\ ListedTruly(logs, s, new) /\ OpenIsSeen(logs, new)
        /\ Cardinality(found) <= MaxRecords
    BY ListingIsTrue
  <2> HIDE DEF found
  <2>3. /\ new.pc = "listed" /\ new.probed = r.probed
        /\ new.records = found /\ new.strength = r.strength
    BY <1>1 DEF Correlation
  <2> HIDE DEF new
  <2>4. CorrelationInv(logs, clock, s, new)
    BY <1>1, <2>1, <2>2, <2>3 DEF CorrelationInv, OwnProbeOnly
  <2>5. QED
    BY <2>1, <2>2, <2>4, SessionGoes
<1>7. CASE Conclude(s)
  <2> DEFINE strength == StrengthOf(s, {i \in DOMAIN logs : ~logs[i].final})
             new == [r EXCEPT !.pc = "done", !.strength = strength]
  <2>1. /\ correlated' = [correlated EXCEPT ![s] = new] /\ UNCHANGED <<clock, logs>>
        /\ r.pc = "listed"
    BY <1>7 DEF Conclude
  <2>2. /\ new \in Correlation /\ new.strength \in Strength
        /\ ListedTruly(logs, s, new) /\ GradedTruly(s, new)
    BY <2>1, ConclusionIsTrue
  <2> HIDE DEF strength
  <2>3. new.pc = "done" /\ new.probed = r.probed /\ new.records = r.records
    BY <1>1 DEF Correlation
  <2> HIDE DEF new
  <2>4. CorrelationInv(logs, clock, s, new)
    BY <1>1, <2>1, <2>2, <2>3 DEF CorrelationInv, OwnProbeOnly, OpenIsSeen
  <2>5. QED
    BY <2>1, <2>2, <2>4, SessionGoes
<1>8. QED
  BY <1>2, <1>3, <1>4, <1>5, <1>6, <1>7 DEF SessionStep

\* A daemon's record of now or of the past, which no session but that of its probe takes
\* for its own, keeps the invariant.
LEMMA LoggingHolds ==
  ASSUME AuditInv, UNCHANGED <<clock, correlated>>, NEW d \in Daemon, NEW record \in Record,
         record.timestamp <= clock, logs' = Logged(d, record),
         \A s \in Session : record.resource_id = s => record.timestamp \in correlated[s].probed
  PROVE  AuditInv'
<1>1. AuditTypes /\ logs \in Seq(AuditFile)
  BY DEF AuditInv, AuditTypes
<1>2. /\ logs' \in Seq(AuditFile)
      /\ \E m : Moves(m, logs, logs')
      /\ \A p \in LinesOf(logs') :
           EntryAt(logs', p) = record \/ \E q \in LinesOf(logs) : EntryAt(logs, q) = EntryAt(logs', p)
      /\ \E i \in DOMAIN logs' : ~logs'[i].final
  BY <1>1, LoggedMoves
<1>3. \A p \in LinesOf(logs') : EntryAt(logs', p).timestamp <= clock
  BY <1>2 DEF AuditInv
<1>4. ASSUME NEW s \in Session PROVE CorrelationInv(logs', clock, s, correlated[s])
  <2>1. CorrelationInv(logs, clock, s, correlated[s])
    BY DEF AuditInv
  <2>2. QED
    BY <1>1, <1>2, <2>1, SessionRests
<1>5. AuditTypes'
  BY <1>1, <1>2 DEF AuditTypes
<1>6. QED
  BY <1>3, <1>4, <1>5 DEF AuditInv

\* Every step keeps the invariant.
LEMMA AuditStepHolds == AuditInv /\ [AuditNext]_auditVars => AuditInv'
<1> SUFFICES ASSUME AuditInv, [AuditNext]_auditVars PROVE AuditInv'
  OBVIOUS
<1>1. /\ AuditTypes /\ logs \in Seq(AuditFile) /\ clock \in 0 .. MaxTime
      /\ correlated \in [Session -> Correlation] /\ MaxTime \in Nat
  BY AuditAssumption DEF AuditInv, AuditTypes
<1>2. CASE Tick
  <2>1. clock' = clock + 1 /\ clock < MaxTime /\ UNCHANGED <<logs, correlated>>
    BY <1>2 DEF Tick
  <2>2. clock' \in 0 .. MaxTime
    BY <1>1, <2>1
  <2>3. \A x \in 0 .. MaxTime : x <= clock => x <= clock'
    BY <1>1, <2>1
  <2>4. ASSUME NEW p \in LinesOf(logs) PROVE EntryAt(logs, p).timestamp <= clock'
    <3>1. EntryAt(logs, p).timestamp \in 0 .. MaxTime
      BY <1>1, LineIs DEF Record
    <3>2. QED
      BY <2>3, <3>1 DEF AuditInv
  <2>5. ASSUME NEW s \in Session PROVE CorrelationInv(logs, clock', s, correlated[s])
    <3>1. CorrelationInv(logs, clock, s, correlated[s]) /\ correlated[s] \in Correlation
      BY <1>1 DEF AuditInv
    <3>2. correlated[s].probed \subseteq 0 .. MaxTime
      BY <3>1 DEF Correlation
    <3>3. OwnProbeOnly(logs, clock', s, correlated[s])
      BY <2>3, <3>1, <3>2 DEF CorrelationInv, OwnProbeOnly
    <3>4. QED
      BY <3>1, <3>3 DEF CorrelationInv
  <2>6. AuditTypes'
    BY <1>1, <2>1, <2>2 DEF AuditTypes
  <2>7. QED
    BY <2>1, <2>4, <2>5, <2>6 DEF AuditInv
<1>3. ASSUME NEW d \in Daemon, NEW a \in Agent, LogOther(d, a) PROVE AuditInv'
  <2> DEFINE record == [audit_session_id |-> d, agent |-> a, timestamp |-> clock,
                        resource_id |-> Other]
  <2>1. logs' = Logged(d, record) /\ UNCHANGED <<clock, correlated>>
    BY <1>3 DEF LogOther
  <2>2. /\ record \in Record /\ record.timestamp <= clock
        /\ record.resource_id = Other
    BY <1>1 DEF Record
  <2> HIDE DEF record
  <2>3. \A s \in Session : record.resource_id # s
    BY <2>2, AuditAssumption
  <2>4. QED
    BY <2>1, <2>2, <2>3, LoggingHolds
<1>4. ASSUME NEW d \in Daemon, NEW s \in Session, LogProbe(s, d) PROVE AuditInv'
  <2>1. PICK t \in correlated[s].probed :
          logs' = Logged(d, [audit_session_id |-> d, agent |-> correlated[s].agent,
                             timestamp |-> t, resource_id |-> s])
    BY <1>4 DEF LogProbe
  <2> DEFINE record == [audit_session_id |-> d, agent |-> correlated[s].agent,
                        timestamp |-> t, resource_id |-> s]
  <2>2. UNCHANGED <<clock, correlated>> /\ logs' = Logged(d, record)
    BY <1>4, <2>1 DEF LogProbe
  <2>3. correlated[s] \in Correlation /\ t <= clock
    BY <1>1 DEF AuditInv, CorrelationInv, OwnProbeOnly
  <2>4. t \in 0 .. MaxTime /\ correlated[s].agent \in Agent
    BY <2>3, AuditAssumption DEF Correlation
  <2>5. record \in Record /\ record.timestamp = t /\ record.resource_id = s
    BY <2>4 DEF Record
  <2> HIDE DEF record
  <2>6. \A x \in Session : record.resource_id = x => record.timestamp \in correlated[x].probed
    BY <2>5
  <2>7. QED
    BY <2>2, <2>3, <2>5, <2>6, LoggingHolds
<1>5. ASSUME NEW i \in DOMAIN logs, Rotate(i) PROVE AuditInv'
  <2>1. /\ logs' = [logs EXCEPT ![i].final = TRUE] /\ clock' = clock
        /\ correlated' = [s \in Session |->
             [correlated[s] EXCEPT !.rotated = @ \/ correlated[s].pc = "listed"]]
    BY <1>5 DEF Rotate
  <2>2. /\ logs' \in Seq(AuditFile)
        /\ \E m : Moves(m, logs, logs')
        /\ \A p \in LinesOf(logs') : \E q \in LinesOf(logs) : EntryAt(logs, q) = EntryAt(logs', p)
    BY <1>1, <2>1, RotateMoves
  <2>3. ASSUME NEW s \in Session
        PROVE  /\ correlated'[s] \in Correlation
               /\ CorrelationInv(logs', clock, s, correlated'[s])
    <3>1. CorrelationInv(logs, clock, s, correlated[s]) /\ correlated[s] \in Correlation
      BY <1>1 DEF AuditInv
    <3>2. correlated'[s] = [correlated[s] EXCEPT !.rotated = @ \/ correlated[s].pc = "listed"]
      BY <2>1
    <3> DEFINE new == [correlated[s] EXCEPT !.rotated = @ \/ correlated[s].pc = "listed"]
    <3>3. new \in Correlation /\ CorrelationInv(logs', clock, s, new)
      BY <1>1, <2>2, <3>1, SessionSeesRotation
    <3> HIDE DEF new
    <3>4. correlated'[s] = new
      BY <3>2 DEF new
    <3>5. QED
      BY <3>3, <3>4
  <2>4. correlated' \in [Session -> Correlation]
    BY <2>1, <2>3
  <2>5. \A p \in LinesOf(logs') : EntryAt(logs', p).timestamp <= clock
    BY <2>2 DEF AuditInv
  <2>6. AuditTypes'
    BY <1>1, <2>1, <2>2, <2>4 DEF AuditTypes
  <2>7. QED
    BY <2>1, <2>3, <2>5, <2>6 DEF AuditInv
<1>6. ASSUME NEW s \in Session, SessionStep(s) PROVE AuditInv'
  BY <1>6, SessionStepHolds
<1>7. CASE UNCHANGED auditVars
  BY <1>7 DEF auditVars, AuditInv, AuditTypes
<1>8. QED
  BY <1>2, <1>3, <1>4, <1>5, <1>6, <1>7 DEF AuditNext, DaemonStep

\* The sessions start with no record.
LEMMA AuditInitHolds == AuditInit => AuditInv
<1> SUFFICES ASSUME AuditInit PROVE AuditInv
  OBVIOUS
<1>1. PICK agent \in [Session -> SessionAgent] : AuditStart(agent)
  BY DEF AuditInit
<1>2. /\ clock = 0 /\ logs = <<>>
      /\ correlated = [s \in Session |->
           [pc |-> "ready", agent |-> agent[s], since |-> 0, probed |-> {}, until |-> 0,
            records |-> {}, seen |-> "none", rotated |-> FALSE, strength |-> "none"]]
  BY <1>1 DEF AuditStart
<1>3. logs \in Seq(AuditFile) /\ DOMAIN logs = {}
  BY <1>2
<1>4. LinesOf(logs) = {}
  BY <1>3 DEF LinesOf
<1>5. ASSUME NEW s \in Session
      PROVE  correlated[s] \in Correlation /\ CorrelationInv(logs, clock, s, correlated[s])
  <2> DEFINE r == correlated[s]
  <2>1. /\ r \in Correlation /\ r.pc = "ready" /\ r.probed = {} /\ r.records = {}
        /\ r.strength = "none"
    BY <1>2 DEF Correlation, AuditPC
  <2> HIDE DEF r
  <2>2. Cardinality(r.records) <= MaxRecords
    BY <2>1, FS_EmptySet, AuditAssumption
  <2>3. CorrelationInv(logs, clock, s, r)
    BY <1>4, <2>1, <2>2 DEF CorrelationInv, OwnProbeOnly, OpenIsSeen, Strength
  <2>4. QED
    BY <2>1, <2>3 DEF r
<1>6. AuditTypes
  <2>1. clock \in 0 .. MaxTime
    BY <1>2, AuditAssumption
  <2>2. correlated \in [Session -> Correlation]
    BY <1>2, <1>5
  <2>3. QED
    BY <1>3, <2>1, <2>2 DEF AuditTypes
<1>7. QED
  BY <1>4, <1>5, <1>6 DEF AuditInv

\* Whatever the daemons do and whenever it looks, a session's correlation is as AuditInv says.
LEMMA AuditInvariant == AuditSpec => []AuditInv
  BY AuditInitHolds, AuditStepHolds, PTL DEF AuditSpec

\* The invariant says that the values are right.
LEMMA AuditTypesAreOK == AuditInv => AuditTypeOK
<1> SUFFICES ASSUME AuditInv PROVE AuditTypeOK
  OBVIOUS
<1>1. AuditTypes
  BY DEF AuditInv
<1>2. \A p \in Line : RecordAt(p).timestamp <= clock
  BY LinesAre DEF AuditInv
<1>3. ASSUME NEW s \in Session
      PROVE  /\ correlated[s].pc \in AuditPC
             /\ correlated[s].strength \in Strength <=> correlated[s].pc = "done"
             /\ correlated[s].records \subseteq Record
             /\ Cardinality(correlated[s].records) <= MaxRecords
  <2>1. correlated[s] \in Correlation /\ CorrelationInv(logs, clock, s, correlated[s])
    BY DEF AuditInv, AuditTypes
  <2>2. QED
    BY <2>1 DEF CorrelationInv, Correlation
<1>4. QED
  BY <1>1, <1>2, <1>3 DEF AuditTypeOK, AuditTypes, AuditFile, AuditPC

\* AuditTypeOK for all sessions, daemons and lengths of the deque.
THEOREM AuditTypeCorrect == AuditSpec => []AuditTypeOK
  BY AuditInvariant, AuditTypesAreOK, PTL

\* And that every correlation is earned.
LEMMA StrengthsAreEarned == AuditInv => CorrelationIsEarned
<1> SUFFICES ASSUME AuditInv, NEW s \in Session, correlated[s].pc = "done"
             PROVE  LET strength == correlated[s].strength
                        daemons == {r.audit_session_id : r \in correlated[s].records}
                    IN  /\ strength = "exact-marker" =>
                             \E p \in Evidence(s) : /\ RecordAt(p).resource_id = s
                                                    /\ RecordAt(p).timestamp \in correlated[s].probed
                        /\ strength = "single-daemon-session" => Cardinality(daemons) = 1
                        /\ strength = "ambiguous-multi-session" =>
                             \E p, q \in Evidence(s) :
                               RecordAt(p).audit_session_id # RecordAt(q).audit_session_id
                        /\ correlated[s].seen = "final" =>
                             strength = "exact-marker" \/ Cardinality(Behind(s)) >= MaxRecords
                        /\ strength = "no-observed-correlation" =>
                             correlated[s].seen = "none" \/ correlated[s].rotated
  BY DEF CorrelationIsEarned
<1> DEFINE r == correlated[s]
           daemons == {q.audit_session_id : q \in r.records}
<1>1. /\ r \in Correlation /\ OwnProbeOnly(logs, clock, s, r)
      /\ ListedTruly(logs, s, r) /\ GradedTruly(s, r)
  BY DEF AuditInv, AuditTypes, CorrelationInv
<1>2. /\ Evidence(s) = EvidenceOf(logs, r) /\ Behind(s) = BehindOf(logs, s, r)
      /\ \A p : RecordAt(p) = EntryAt(logs, p)
  BY LinesAre
<1>3. \A q \in r.records : \E p \in Evidence(s) : RecordAt(p) = q
  BY <1>1, <1>2 DEF ListedTruly
<1>4. r.strength = "exact-marker" =>
        \E p \in Evidence(s) : RecordAt(p).resource_id = s /\ RecordAt(p).timestamp \in r.probed
  <2>1. \A p \in Evidence(s) : RecordAt(p).resource_id = s => RecordAt(p).timestamp \in r.probed
    BY <1>1, <1>2 DEF OwnProbeOnly, EvidenceOf, FinalsOf
  <2>2. r.strength = "exact-marker" => \E q \in r.records : q.resource_id = s
    BY <1>1 DEF GradedTruly
  <2>3. QED
    BY <1>3, <2>1, <2>2
<1>5. r.strength = "single-daemon-session" => Cardinality(daemons) = 1
  <2>1. r.strength = "single-daemon-session" => \E d \in Daemon : daemons = {d}
    BY <1>1 DEF GradedTruly
  <2> HIDE DEF daemons
  <2>2. QED
    BY <2>1, FS_Singleton
<1>6. r.strength = "ambiguous-multi-session" =>
        \E p, q \in Evidence(s) : RecordAt(p).audit_session_id # RecordAt(q).audit_session_id
  <2>1. r.strength = "ambiguous-multi-session" =>
          \E p, q \in r.records : p.audit_session_id # q.audit_session_id
    BY <1>1 DEF GradedTruly
  <2>2. QED
    BY <1>3, <2>1
<1>7. r.seen = "final" => r.strength = "exact-marker" \/ Cardinality(Behind(s)) >= MaxRecords
  BY <1>1, <1>2 DEF ListedTruly, GradedTruly
<1>8. r.strength = "no-observed-correlation" => r.seen = "none" \/ r.rotated
  BY <1>1 DEF GradedTruly, ListedTruly, Correlation
<1>9. QED
  BY <1>4, <1>5, <1>6, <1>7, <1>8

\* CorrelationIsEarned for any number of sessions and daemons, of records, and of
\* rotations between the listing and the count: an exact match is of the session's own
\* probe, and no match is missed for any other reason than those the grades admit.
THEOREM CorrelationEarned == AuditSpec => []CorrelationIsEarned
  BY AuditInvariant, StrengthsAreEarned, PTL

---------------------------------------------------------------------------
(* The workbench does what each of its parts does *)

\* What a resting part was started with is something it can be started with.
LEMMA SomeIsIn ==
  ASSUME NEW S, S # {}
  PROVE  Some(S) \in S
  BY DEF Some

\* A part that rests is in one of its initial states.
LEMMA RestsInItsInit ==
  /\ AcceptanceRests => AcceptInit
  /\ TransitionRests => TransitionInit
  /\ StudyRests => StudyInit
  /\ AuditRests => AuditInit
  /\ LiveRests => LiveInit
<1>1. /\ Some(Profile) \in Profile /\ Some(Handoff) \in Handoff /\ Some(Earlier) \in Earlier
      /\ Some(Job) \in Job /\ Some(Order) \in Order /\ Some(Task) \in Task
      /\ Some(SessionAgent) \in SessionAgent
  BY SomeIsIn, WorkbenchAssumption
<1>2. \A P, S, x : x \in S => All(P, x) \in [P -> S]
  BY DEF All
<1> HIDE DEF Some, All
<1>3. AcceptanceRests => AcceptInit
  <2>1. /\ All(Acceptor, Some(Handoff)) \in [Acceptor -> Handoff]
        /\ All(Acceptor, "file") \in [Acceptor -> {"file", "builtin"}]
    BY <1>1, <1>2
  <2>2. QED
    BY <1>1, <2>1 DEF AcceptanceRests, AcceptInit
<1>4. TransitionRests => TransitionInit
  <2>1. /\ All(Place, Some(Earlier)) \in [Place -> Earlier]
        /\ All(Builder, Some(Job)) \in [Builder -> Job]
        /\ All(Mover, Some(Order)) \in [Mover -> Order]
    BY <1>1, <1>2
  <2>2. QED
    BY <2>1 DEF TransitionRests, TransitionInit
<1>5. StudyRests => StudyInit
  <2>1. All(Student, Some(Task)) \in [Student -> Task]
    BY <1>1, <1>2
  <2>2. QED
    BY <2>1 DEF StudyRests, StudyInit
<1>6. AuditRests => AuditInit
  <2>1. All(Session, Some(SessionAgent)) \in [Session -> SessionAgent]
    BY <1>1, <1>2
  <2>2. QED
    BY <2>1 DEF AuditRests, AuditInit
<1>7. LiveRests => LiveInit
  <2>1. All(File, Absent) \in [File -> Text \cup {Absent}]
    BY <1>2
  <2>2. QED
    BY <2>1 DEF LiveRests, LiveInit
<1>8. QED
  BY <1>3, <1>4, <1>5, <1>6, <1>7

\* The workbench implements each of its parts: a step of another part is a stutter.
THEOREM WorkbenchImplementsItsParts ==
  WorkbenchSpec => AcceptSpec /\ TransitionSpec /\ StudySpec /\ AuditSpec /\ LiveSpec
<1>1. WorkbenchInit => AcceptInit /\ TransitionInit /\ StudyInit /\ AuditInit /\ LiveInit
  BY RestsInItsInit DEF WorkbenchInit
<1>2. [WorkbenchNext]_workbenchVars =>
        /\ [AcceptNext]_acceptVars /\ [TransitionNext]_transitionVars
        /\ [StudyNext]_studyVars /\ [AuditNext]_auditVars /\ [LiveNext]_liveVars
  <2>1. UNCHANGED workbenchVars =>
          UNCHANGED <<acceptVars, transitionVars, studyVars, auditVars, liveVars>>
    BY DEF workbenchVars
  <2>2. WorkbenchNext =>
          \/ AcceptNext /\ UNCHANGED <<transitionVars, studyVars, auditVars, liveVars>>
          \/ TransitionNext /\ UNCHANGED <<acceptVars, studyVars, auditVars, liveVars>>
          \/ StudyNext /\ UNCHANGED <<acceptVars, transitionVars, auditVars, liveVars>>
          \/ AuditNext /\ UNCHANGED <<acceptVars, transitionVars, studyVars, liveVars>>
          \/ LiveNext /\ UNCHANGED <<acceptVars, transitionVars, studyVars, auditVars>>
    BY DEF WorkbenchNext
  <2>3. QED
    BY <2>1, <2>2
<1>3. QED
  BY <1>1, <1>2, PTL DEF WorkbenchSpec, AcceptSpec, TransitionSpec, StudySpec, AuditSpec, LiveSpec

\* The outputs that are settled are what their verifiers accept, in the workbench too.
THEOREM OutputsVerify == WorkbenchSpec => []SettledOutputsVerify
<1>1. SettledEnvelopeVerifies /\ CreatedTransitionVerifies => SettledOutputsVerify
  BY DEF SettledOutputsVerify
<1>2. QED
  BY WorkbenchImplementsItsParts, SettledEnvelope, CreatedTransition, <1>1, PTL

\* And so are the other promises of the parts.
THEOREM PartsKeepTheirPromises ==
  WorkbenchSpec => /\ []AcceptedMeetsItsPolicy /\ []TransitionTellsTheTruth
                   /\ []AcceptedStudyIsTrue /\ []CorrelationIsEarned /\ []ValidCapsuleIsTheRun
<1>1. QED
  BY WorkbenchImplementsItsParts, AcceptedMeetsPolicy, TransitionTruth, AcceptedStudy,
     CorrelationEarned, ValidCapsule, PTL

\* The variables of all the parts stay in their types.
THEOREM WorkbenchTypeCorrect == WorkbenchSpec => []WorkbenchTypeOK
<1>1. AcceptTypeOK /\ TransitionTypeOK /\ StudyTypeOK /\ AuditTypeOK /\ LiveTypeOK
        => WorkbenchTypeOK
  BY DEF WorkbenchTypeOK
<1>2. QED
  BY WorkbenchImplementsItsParts, AcceptTypeCorrect, TransitionTypeCorrect, StudyTypeCorrect,
     AuditTypeCorrect, LiveTypeCorrect, <1>1, PTL

=============================================================================
