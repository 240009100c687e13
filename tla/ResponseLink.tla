---------------------------- MODULE ResponseLink ----------------------------
(***************************************************************************)
(* create_response_link and verify_response_link: a statement that binds a *)
(* finished assessment and a response drill by their digests, made while   *)
(* drills go on.  The response evidence is read for its claims, read again *)
(* for the digest that is bound, and may be written in between.            *)
(*                                                                         *)
(* The assessment is one that verify_bundle accepts: AssessmentRun shows   *)
(* that its files no longer change, so its manifest's digest stands for it.*)
(***************************************************************************)
EXTENDS ResponseDrill

CONSTANTS Linker,       \* processes that make one link each, of an assessment of their own
          NoLink        \* there is no such link

VARIABLES linker, links

allvars == <<vars, linker, links>>

LinkInit ==
  /\ Init
  /\ \E path \in [Linker -> OutputPath], require \in [Linker -> BOOLEAN] :
       linker = [l \in Linker |-> [pc |-> "read", path |-> path[l], require |-> require[l],
                                   response |-> NoEvidence, digest |-> NoEvidence]]
  /\ links = [l \in Linker |-> NoLink]

\* verify_response_evidence: a torn file does not parse.
VerifyResponseEvidence(content, require) ==
  /\ content.state = "whole"
  /\ content.verified_stopped
  /\ require => content.credential_revocation_tested

\* The claims come from this read.
ReadResponse(l) ==
  /\ linker[l].pc = "read"
  /\ LET content == evidence[linker[l].path]
     IN  linker' = [linker EXCEPT ![l] =
           IF VerifyResponseEvidence(content, linker[l].require)
             THEN [@ EXCEPT !.pc = "digest", !.response = content]
             ELSE [@ EXCEPT !.pc = "refused"]]
  /\ UNCHANGED <<vars, links>>

\* The digest comes from this one.  Ideal, it is what was hashed.
HashResponse(l) ==
  /\ linker[l].pc = "digest"
  /\ linker' = [linker EXCEPT ![l].pc = "write", ![l].digest = evidence[linker[l].path]]
  /\ UNCHANGED <<vars, links>>

\* Mutant: the statement is written before its last subject is hashed.
WriteLinkEarly(l) ==
  LET r == linker[l] IN
    /\ r.pc \in {"digest", "write"}
    /\ linker' = [linker EXCEPT ![l].pc = IF @ = "digest" THEN "write" ELSE "done"]
    /\ links' = [links EXCEPT ![l] =
         [run |-> l, digest |-> r.digest, responseDrillId |-> r.response.drill_id,
          sandboxStopVerified |-> r.response.verified_stopped,
          revocationVerified |-> r.response.credential_revocation_tested]]
    /\ UNCHANGED vars

WriteLink(l) ==
  LET r == linker[l] IN
    /\ r.pc = "write"
    /\ linker' = [linker EXCEPT ![l].pc = "done"]
    /\ links' = [links EXCEPT ![l] =
         [run |-> l, digest |-> r.digest, responseDrillId |-> r.response.drill_id,
          sandboxStopVerified |-> r.response.verified_stopped,
          revocationVerified |-> r.response.credential_revocation_tested]]
    /\ UNCHANGED vars

LinkStep(l) == ReadResponse(l) \/ HashResponse(l) \/ WriteLink(l)

LinkNext ==
  \/ Next /\ UNCHANGED <<linker, links>>
  \/ \E l \in Linker : LinkStep(l)

LinkSpec == LinkInit /\ [][LinkNext]_allvars

FairLinkSpec ==
  /\ LinkSpec
  /\ \A d \in Drill : WF_vars(Step(d))
  /\ \A l \in Linker : WF_allvars(LinkStep(l))

\* Mutant: verification stops at the digests.
VerifyResponseLinkDigests(link, run, path) ==
  /\ link # NoLink
  /\ link.run = run
  /\ evidence[path].state = "whole" /\ link.digest = evidence[path]

\* verify_response_link, of a statement against an assessment and a response file
\* that nobody writes meanwhile.
VerifyResponseLink(link, run, path) ==
  /\ link # NoLink
  /\ link.run = run
  /\ link.digest = evidence[path]
  /\ VerifyResponseEvidence(evidence[path], link.revocationVerified)
  /\ link.sandboxStopVerified = evidence[path].verified_stopped
  /\ link.revocationVerified  = evidence[path].credential_revocation_tested

---------------------------------------------------------------------------
(* Properties *)

\* What the statements and the processes that make them hold.
LinkTypeOK ==
  /\ TypeOK
  /\ linker \in [Linker -> [pc : {"read", "refused", "digest", "write", "done"},
                            path : OutputPath, require : BOOLEAN,
                            response : EvidenceFile, digest : EvidenceFile]]
  /\ \A l \in Linker : links[l] = NoLink \/ linker[l].pc = "done"

\* A link that verifies makes claims that are true of the sandbox now, unless it
\* was started again: the binding of the drill it binds is gone and the sandbox
\* is stopped, even when the response was replaced while the link was made.
VerifiedLinkIsTrue ==
  \A l \in Linker, p \in OutputPath :
    VerifyResponseLink(links[l], l, p) =>
      /\ links[l].revocationVerified => ~Live(evidence[p].by)
      /\ links[l].sandboxStopVerified /\ evidence[p].by \notin since => ~running

\* "The response-link statement binds two immutable subjects by SHA-256": what it
\* says of the response is said of the response it binds.
LinkDescribesWhatItBinds ==
  \A l \in Linker : links[l] # NoLink =>
    /\ links[l].digest.state = "whole"
    /\ links[l].responseDrillId = links[l].digest.drill_id

=============================================================================
