--------------------------- MODULE MCAssessmentRun ---------------------------
(* The instance of AssessmentRun for TLC. *)
EXTENDS AssessmentRun

CONSTANTS p1, p2

Live    == [agent_run |-> TRUE,  docker_audit |-> TRUE,  probes |-> 1, readers |-> 1]
Audited == [agent_run |-> FALSE, docker_audit |-> TRUE,  probes |-> 0, readers |-> 0]
Offline == [agent_run |-> FALSE, docker_audit |-> FALSE, probes |-> 0, readers |-> 0]

MCProc == {p1, p2}
MCConfig == {Live, Audited, Offline}
MCBody == [type : EventType, config : Config]

MCInit ==
  /\ Init
  /\ <<run[p1].config, run[p1].run_id, run[p2].config, run[p2].run_id>> \in
       {<<Live, 0, Offline, 1>>, <<Live, 1, Offline, 0>>,
        <<Audited, 1, Offline, 1>>, <<Offline, 1, Offline, 1>>}

MCSpec == MCInit /\ [][Next]_vars /\ \A p \in Proc : WF_vars(Started(p) /\ Step(p))

=============================================================================
