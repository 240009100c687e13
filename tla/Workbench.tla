------------------------------ MODULE Workbench ------------------------------
(***************************************************************************)
(* What is done with finished evidence and around a live session, side by  *)
(* side: customer acceptance, transition packs beside builds, deltas and   *)
(* experiment statements, audit correlation, and the live session itself.  *)
(* These parts share no file that one of them writes, so a behaviour is    *)
(* the processes of one part (`stage`) and the others rest: interleaving   *)
(* two parts would reach no other states of either.                        *)
(***************************************************************************)
EXTENDS CustomerAcceptance, TransitionPack, EvidenceStudy, AuditCorrelation, LiveSession

\* There is something that each part could have been started with.
ASSUME WorkbenchAssumption ==
  /\ Profile # {} /\ Handoff # {} /\ Earlier # {} /\ Job # {} /\ Order # {} /\ Task # {}
  /\ SessionAgent # {}

VARIABLE stage    \* which part is at work

workbenchVars == <<acceptVars, transitionVars, studyVars, auditVars, liveVars, stage>>

\* A part that rests stays in one of its initial states.
Some(S) == CHOOSE x \in S : TRUE
All(Process, x) == [p \in Process |-> x]

AcceptanceRests == AcceptStart(Some(Profile), All(Acceptor, Some(Handoff)), All(Acceptor, "file"))
TransitionRests == TransitionStart(All(Place, Some(Earlier)), All(Builder, Some(Job)), All(Mover, Some(Order)))
StudyRests      == StudyStart(All(Student, Some(Task)))
AuditRests      == AuditStart(All(Session, Some(SessionAgent)))
LiveRests       == LiveStart(All(File, Absent))

WorkbenchInit ==
  \/ /\ stage = "acceptance" /\ AcceptInit
     /\ TransitionRests /\ StudyRests /\ AuditRests /\ LiveRests
  \/ /\ stage = "transition" /\ TransitionInit
     /\ AcceptanceRests /\ StudyRests /\ AuditRests /\ LiveRests
  \/ /\ stage = "study" /\ StudyInit
     /\ AcceptanceRests /\ TransitionRests /\ AuditRests /\ LiveRests
  \/ /\ stage = "audit" /\ AuditInit
     /\ AcceptanceRests /\ TransitionRests /\ StudyRests /\ LiveRests
  \/ /\ stage = "live" /\ LiveInit
     /\ AcceptanceRests /\ TransitionRests /\ StudyRests /\ AuditRests

WorkbenchNext ==
  /\ UNCHANGED stage
  /\ \/ /\ stage = "acceptance" /\ AcceptNext
        /\ UNCHANGED <<transitionVars, studyVars, auditVars, liveVars>>
     \/ /\ stage = "transition" /\ TransitionNext
        /\ UNCHANGED <<acceptVars, studyVars, auditVars, liveVars>>
     \/ /\ stage = "study" /\ StudyNext
        /\ UNCHANGED <<acceptVars, transitionVars, auditVars, liveVars>>
     \/ /\ stage = "audit" /\ AuditNext
        /\ UNCHANGED <<acceptVars, transitionVars, studyVars, liveVars>>
     \/ /\ stage = "live" /\ LiveNext
        /\ UNCHANGED <<acceptVars, transitionVars, studyVars, auditVars>>

WorkbenchSpec == WorkbenchInit /\ [][WorkbenchNext]_workbenchVars

---------------------------------------------------------------------------
(* Properties *)

\* The values the variables take.
WorkbenchTypeOK == AcceptTypeOK /\ TransitionTypeOK /\ StudyTypeOK /\ AuditTypeOK /\ LiveTypeOK

\* What a command reported as made is what its verifier accepts: the envelope at the
\* shared path and its signature, when every process that touched them has returned, and
\* every transition pack whose create returned.
SettledOutputsVerify == SettledEnvelopeVerifies /\ CreatedTransitionVerifies

=============================================================================
