------------------------- MODULE CustomerAcceptance -------------------------
(***************************************************************************)
(* customer_acceptance.py: create_acceptance_pack and verify_acceptance_   *)
(* pack, run by processes that write one output (the default path is one   *)
(* for all) while the customer's policy file is edited.                    *)
(*                                                                         *)
(* A hand-over is named after its run and does not change.  The statement, *)
(* the evaluation and their signatures are made in a private directory, so *)
(* they are exact; the policy, the envelope and its signature are shared.  *)
(* A process that is killed is one that takes no further step.             *)
(***************************************************************************)
EXTENDS CustomerPolicy

CONSTANTS Acceptor,   \* processes that create one envelope each
          Handoff,    \* the hand-overs they are given
          Profile,    \* what a policy file can hold
          Builtin,    \* the profile that ships with the package
          MaxEdits    \* bound: how often the policy file is edited

ASSUME AcceptanceAssumption ==
  /\ MaxEdits \in Nat
  /\ \A p \in Profile \cup {Builtin} : \A s \in DOMAIN p.max_assessment_counts :
       p.max_assessment_counts[s] \in Int

VARIABLES policy,            \* the customer's policy file
          edits,             \* how often it was edited
          envelope,          \* the file at the output path: at most one content
          envelopeSignature, \* what the signature beside it is of: at most one content
          acceptor           \* each process: its arguments and what it holds

acceptVars == <<policy, edits, envelope, envelopeSignature, acceptor>>

\* A file that was opened to be written and not written since; one that two wrote.
Opened(a) == [whole |-> FALSE, by |-> {a}]
Mixed == [whole |-> FALSE, by |-> {}]

AcceptStart(p, handoff, source) ==
  /\ policy = p /\ edits = 0
  /\ envelope = {} /\ envelopeSignature = {}
  /\ acceptor = [a \in Acceptor |->
       [pc |-> "policy", handoff |-> handoff[a], source |-> source[a], bytes |-> {},
        evaluation |-> {}, opened |-> FALSE, signs |-> {}]]

AcceptInit ==
  \E p \in Profile, h \in [Acceptor -> Handoff], s \in [Acceptor -> {"file", "builtin"}] :
    AcceptStart(p, h, s)

AcceptorAt(a, from, to) ==
  acceptor[a].pc = from /\ acceptor' = [acceptor EXCEPT ![a].pc = to]

\* policy_source_bytes.
PolicySource(a) == IF acceptor[a].source = "file" THEN policy ELSE Builtin

---------------------------------------------------------------------------
(* create_acceptance_pack *)

\* The bytes that are packed; the profile is read again to be evaluated.
AcceptReadPolicy(a) ==
  /\ acceptor[a].pc = "policy"
  /\ acceptor' = [acceptor EXCEPT ![a].pc = "handoff", ![a].bytes = {PolicySource(a)}]
  /\ UNCHANGED <<policy, edits, envelope, envelopeSignature>>

AcceptHandoff(a) ==
  /\ acceptor[a].handoff.verifies /\ acceptor[a].handoff.signed
  /\ AcceptorAt(a, "handoff", "evaluate")
  /\ UNCHANGED <<policy, edits, envelope, envelopeSignature>>

AcceptHandoffRaises(a) ==
  /\ ~(acceptor[a].handoff.verifies /\ acceptor[a].handoff.signed)
  /\ AcceptorAt(a, "handoff", "raised")
  /\ UNCHANGED <<policy, edits, envelope, envelopeSignature>>

Evaluation(a) ==
  EvaluatePolicy(PolicySource(a), acceptor[a].handoff.decision, acceptor[a].handoff.artifact, 2)

\* _materialize_policy_evaluation.
AcceptEvaluate(a) ==
  /\ acceptor[a].pc = "evaluate"
  /\ Loads(PolicySource(a)) /\ Evaluation(a).status = "PASS"
  /\ acceptor' = [acceptor EXCEPT ![a].pc = "open", ![a].evaluation = {Evaluation(a)}]
  /\ UNCHANGED <<policy, edits, envelope, envelopeSignature>>

AcceptEvaluateRaises(a) ==
  /\ ~(Loads(PolicySource(a)) /\ Evaluation(a).status = "PASS")
  /\ AcceptorAt(a, "evaluate", "raised")
  /\ UNCHANGED <<policy, edits, envelope, envelopeSignature>>

\* What the statement and the manifest say of what is packed.
Bindings(handoff, evaluation) ==
  [source_run_id |-> handoff.decision.assessment_run_id, handoff_sha256 |-> handoff,
   decision_sha256 |-> handoff.decision, trusted_artifact_sha256 |-> handoff.artifact,
   profile_sha256 |-> evaluation.profile_sha256, policy_status |-> "PASS",
   policy_evaluation_sha256 |-> evaluation]

\* ZipFile(output, "w") empties the file at once.
AcceptOpen(a) ==
  /\ acceptor[a].pc = "open"
  /\ envelope' = {Opened(a)}
  /\ acceptor' = [acceptor EXCEPT ![a].pc = "write", ![a].opened = TRUE]
  /\ UNCHANGED <<policy, edits, envelopeSignature>>

Envelope(a) ==
  {[whole |-> TRUE, handoff |-> acceptor[a].handoff, profile |-> p, evaluation |-> e,
    statement |-> Bindings(acceptor[a].handoff, e), manifest |-> Bindings(acceptor[a].handoff, e)] :
      p \in acceptor[a].bytes, e \in acceptor[a].evaluation}

\* When another opened or wrote it meanwhile, the bytes are this one's or a mixture.
AcceptWrite(a) ==
  /\ AcceptorAt(a, "write", "sign")
  /\ \/ envelope' = Envelope(a)
     \/ envelope # {Opened(a)} /\ envelope' = {Mixed}
  /\ UNCHANGED <<policy, edits, envelopeSignature>>

\* sign_file reads the envelope, whoever wrote it.
AcceptSign(a) ==
  /\ acceptor[a].pc = "sign"
  /\ acceptor' = [acceptor EXCEPT ![a].pc = "signature", ![a].signs = envelope]
  /\ UNCHANGED <<policy, edits, envelope, envelopeSignature>>

AcceptWriteSignature(a) ==
  /\ envelopeSignature' = acceptor[a].signs
  /\ AcceptorAt(a, "signature", "verify")
  /\ UNCHANGED <<policy, edits, envelope>>

---------------------------------------------------------------------------
(* verify_acceptance_pack *)

VerifyEnvelope(e) ==
  /\ e.whole
  /\ e.handoff.verifies /\ e.handoff.signed
  /\ VerifyPolicyEvaluation(e.evaluation, e.profile, e.handoff.decision, e.handoff.artifact)
  /\ EvaluatePolicy(e.profile, e.handoff.decision, e.handoff.artifact,
                    e.evaluation.schema_version).status = "PASS"
  /\ e.statement = [Bindings(e.handoff, e.evaluation) EXCEPT !.profile_sha256 = e.profile]
  /\ e.manifest  = [Bindings(e.handoff, e.evaluation) EXCEPT !.profile_sha256 = e.profile]

\* Mutant: a create that trusts what it just wrote.
AcceptVerifyNothing(a) ==
  /\ AcceptorAt(a, "verify", "signed")
  /\ UNCHANGED <<policy, edits, envelope, envelopeSignature>>

\* The members are read from the file, and its digest is taken of it later.
AcceptVerify(a) ==
  /\ \A e \in envelope : VerifyEnvelope(e)
  /\ AcceptorAt(a, "verify", "signed")
  /\ UNCHANGED <<policy, edits, envelope, envelopeSignature>>

AcceptVerifySignature(a) ==
  /\ envelopeSignature = envelope
  /\ AcceptorAt(a, "signed", "done")
  /\ UNCHANGED <<policy, edits, envelope, envelopeSignature>>

\* The failure leaves the envelope, and its signature, where they are.
AcceptVerifyRaises(a) ==
  /\ \/ (\E e \in envelope : ~VerifyEnvelope(e)) /\ AcceptorAt(a, "verify", "raised")
     \/ envelopeSignature # envelope /\ AcceptorAt(a, "signed", "raised")
  /\ UNCHANGED <<policy, edits, envelope, envelopeSignature>>

---------------------------------------------------------------------------
EditPolicy ==
  /\ edits < MaxEdits /\ edits' = edits + 1
  /\ policy' \in Profile \ {policy}
  /\ UNCHANGED <<envelope, envelopeSignature, acceptor>>

AcceptStep(a) ==
  \/ AcceptReadPolicy(a) \/ AcceptHandoff(a) \/ AcceptHandoffRaises(a)
  \/ AcceptEvaluate(a) \/ AcceptEvaluateRaises(a) \/ AcceptOpen(a) \/ AcceptWrite(a)
  \/ AcceptSign(a) \/ AcceptWriteSignature(a)
  \/ AcceptVerify(a) \/ AcceptVerifySignature(a) \/ AcceptVerifyRaises(a)

AcceptNext == EditPolicy \/ \E a \in Acceptor : AcceptStep(a)

AcceptSpec == AcceptInit /\ [][AcceptNext]_acceptVars

---------------------------------------------------------------------------
(* Properties *)

AcceptorPC == {"policy", "handoff", "evaluate", "open", "write", "sign", "signature",
               "verify", "signed", "done", "raised"}

\* The values the variables take.
AcceptTypeOK ==
  /\ policy \in Profile /\ edits \in 0 .. MaxEdits
  /\ \A a \in Acceptor :
       /\ acceptor[a].pc \in AcceptorPC
       /\ acceptor[a].handoff \in Handoff /\ acceptor[a].source \in {"file", "builtin"}
       /\ acceptor[a].bytes \subseteq Profile \cup {Builtin}
       /\ acceptor[a].opened \in BOOLEAN
       /\ \A e \in acceptor[a].evaluation : e.profile_sha256 \in Profile \cup {Builtin}
  /\ \A e \in envelope \cup envelopeSignature : e.whole => e.handoff \in Handoff

\* When every process that touched the output has returned, what lies there verifies
\* and the signature beside it is of it: whoever wrote, signed and edited in between,
\* an envelope that does not verify was reported by some process.
SettledEnvelopeVerifies ==
  (\A a \in Acceptor : acceptor[a].opened => acceptor[a].pc = "done") =>
    /\ \A e \in envelope : VerifyEnvelope(e)
    /\ envelopeSignature = envelope

\* "binds ... one exact customer acceptance policy and its recomputable PASS
\* evaluation": an envelope that verifies holds a hand-over that verified and a
\* profile that its decision and artifact meet, requirement by requirement; and so
\* does what a create that returned says it accepted.
AcceptedMeetsItsPolicy ==
  /\ \A e \in envelope : VerifyEnvelope(e) =>
       e.handoff.verifies /\ Meets(e.profile, e.handoff.decision, e.handoff.artifact)
  /\ \A a \in Acceptor : acceptor[a].pc = "done" => \A v \in acceptor[a].evaluation :
       /\ acceptor[a].handoff.verifies
       /\ Meets(v.profile_sha256, acceptor[a].handoff.decision, acceptor[a].handoff.artifact)

=============================================================================
