---------------------------- MODULE EvidenceStudy ----------------------------
(***************************************************************************)
(* The create and verify commands of governance_delta.py and               *)
(* experiment_protocol.py, as "make governance-delta" and                  *)
(* "make experiment-protocol" and their -verify targets run them: every    *)
(* create writes, in place, the one default file of its kind, and a verify *)
(* is given that file and the two bundles again.  Finished bundles do not  *)
(* change.  A process that is killed is one that takes no further step.    *)
(***************************************************************************)
EXTENDS GovernanceDelta

CONSTANTS Student,   \* processes that create one file and then verify it
          Task       \* what they can be given: a kind and two bundles

VARIABLES study,     \* the file of each kind: at most one content
          student    \* each process: its task and the file it accepted

studyVars == <<study, student>>

Functions == INSTANCE Functions

Kind == {"delta", "experiment"}

Status == {"FAIL", "PARTIAL", "PASS", "MANUAL", "ERROR", "N/A"}

\* Results are of a finite catalogue, and a context holds what was measured.
ASSUME StudyAssumption ==
  \A t \in Task : t.kind \in Kind /\ \A bundle \in {t.before, t.after} :
    /\ IsFiniteSet(DOMAIN bundle.results)
    /\ \A c \in DOMAIN bundle.results : bundle.results[c] \in Status
    /\ \A d \in DOMAIN bundle.context : bundle.context[d] # NotMeasured

\* A file that was opened to be written and not written since; one that two wrote.
OpenedBy(s) == [whole |-> FALSE, by |-> {s}]
MixedStudy == [whole |-> FALSE, by |-> {}]

StudyStart(task) ==
  /\ study = [k \in Kind |-> {}]
  /\ student = [s \in Student |-> [pc |-> "build", task |-> task[s], accepted |-> {}]]

StudyInit == \E task \in [Student -> Task] : StudyStart(task)

StudentAt(s, from, to) ==
  student[s].pc = from /\ student' = [student EXCEPT ![s].pc = to]

\* build_delta and build_experiment_statement raise for any other pair.
Buildable(t) ==
  IF t.kind = "delta" THEN Comparable(t.before, t.after) ELSE Testable(t.before, t.after)

Build(t) ==
  IF t.kind = "delta" THEN BuildDelta(t.before, t.after) ELSE BuildStatement(t.before, t.after)

StudyBuild(s) ==
  /\ Buildable(student[s].task) /\ StudentAt(s, "build", "open")
  /\ UNCHANGED study

StudyRaises(s) ==
  /\ ~Buildable(student[s].task) /\ StudentAt(s, "build", "raised")
  /\ UNCHANGED study

\* write_text empties the file, then writes it.
StudyOpen(s) ==
  /\ StudentAt(s, "open", "write")
  /\ study' = [study EXCEPT ![student[s].task.kind] = {OpenedBy(s)}]

StudyWrite(s) ==
  LET t == student[s].task
      made == {[whole |-> TRUE, content |-> Build(t)]}
  IN  /\ StudentAt(s, "write", "verify")
      /\ \/ study' = [study EXCEPT ![t.kind] = made]
         \/ study[t.kind] # {OpenedBy(s)} /\ study' = [study EXCEPT ![t.kind] = {MixedStudy}]

\* verify_delta, verify_statement: what the file says is recomputed from the bundles.
Verifies(t, file) ==
  /\ file.whole
  /\ IF t.kind = "delta" THEN VerifyDelta(file.content, t.before, t.after)
     ELSE VerifyStatement(file.content, t.before, t.after)

StudyAccept(s) ==
  LET t == student[s].task
  IN  /\ student[s].pc = "verify"
      /\ \A file \in study[t.kind] : Verifies(t, file)
      /\ student' = [student EXCEPT ![s].pc = "accepted", ![s].accepted = study[t.kind]]
      /\ UNCHANGED study

StudyReject(s) ==
  /\ \E file \in study[student[s].task.kind] : ~Verifies(student[s].task, file)
  /\ StudentAt(s, "verify", "rejected")
  /\ UNCHANGED study

StudyStep(s) ==
  \/ StudyBuild(s) \/ StudyRaises(s) \/ StudyOpen(s) \/ StudyWrite(s)
  \/ StudyAccept(s) \/ StudyReject(s)

StudyNext == \E s \in Student : StudyStep(s)

StudySpec == StudyInit /\ [][StudyNext]_studyVars

---------------------------------------------------------------------------
(* Properties *)

\* The values the variables take.
StudyTypeOK ==
  /\ \A k \in Kind : \A file \in study[k] : file.whole \in BOOLEAN
  /\ \A s \in Student :
       /\ student[s].pc \in {"build", "open", "write", "verify", "accepted", "rejected", "raised"}
       /\ student[s].task \in Task
       /\ student[s].accepted # {} <=> student[s].pc = "accepted"

Rank(status) == CASE status = "FAIL" -> 1 [] status = "PARTIAL" -> 2 [] status = "PASS" -> 3

\* What a change is called when it is read backwards.
Mirror(change) ==
  CASE change = "control-improvement" -> "control-regression"
    [] change = "control-regression"  -> "control-improvement"
    [] change = "evidence-gain"       -> "evidence-loss"
    [] change = "evidence-loss"       -> "evidence-gain"
    [] change = "evaluator-recovery"  -> "evaluator-error"
    [] change = "evaluator-error"     -> "evaluator-recovery"
    [] change \in {"unchanged", "scope-change"} -> change

\* A delta says improvement, or regression, exactly where both sides were judged and the
\* judgement rose, or fell; and read backwards every change is its mirror image, so no
\* change is left without a name.
ChangeIsTrue(change, b, a) ==
  LET judged == {b, a} \subseteq {"FAIL", "PARTIAL", "PASS"}
  IN  /\ change = "control-improvement" <=> judged /\ Rank(b) < Rank(a)
      /\ change = "control-regression"  <=> judged /\ Rank(b) > Rank(a)
      /\ change = "unchanged" <=> b = a
      /\ ClassifyChange(a, b) = Mirror(change)

\* The counts count every control once.
CountsAreTrue(counts, controls) ==
  /\ Functions!FoldFunction(+, 0, counts) = Cardinality(controls)
  /\ \A kind \in DOMAIN counts : counts[kind] > 0

\* Both, for each control of the two bundles.
DeltaIsTrue(delta, before, after) ==
  /\ \A c \in DOMAIN delta.changes :
       ChangeIsTrue(delta.changes[c], before.results[c], after.results[c])
  /\ CountsAreTrue(delta.change_counts, DOMAIN before.results)

\* "ELIGIBLE means the required measured invariants match and the declared governance
\* treatment differs", and INSUFFICIENT_EVIDENCE "is intentionally fail-closed".
StatementIsTrue(statement, before, after) ==
  /\ statement.eligibility = "ELIGIBLE" <=>
       /\ \A d \in Dimension : /\ d \in DOMAIN before.context /\ d \in DOMAIN after.context
                               /\ before.context[d] = after.context[d]
       /\ before.treatment # after.treatment
  /\ statement.eligibility = "INSUFFICIENT_EVIDENCE" <=>
       \E d \in Dimension : d \notin DOMAIN before.context \/ d \notin DOMAIN after.context

\* A file that a verify accepted is true of the pair of bundles it was verified with,
\* both of which verify, whoever else wrote the file of that name meanwhile.
AcceptedStudyIsTrue ==
  \A s \in Student : \A file \in student[s].accepted :
    LET t == student[s].task
    IN  /\ t.before.verifies /\ t.after.verifies
        /\ IF t.kind = "delta" THEN DeltaIsTrue(file.content, t.before, t.after)
           ELSE /\ StatementIsTrue(file.content, t.before, t.after)
                /\ t.before.run_id # t.after.run_id

=============================================================================
