---------------------------- MODULE ResponseDrill ----------------------------
(***************************************************************************)
(* run_stop_drill of response.py, by several processes on one sandbox: a   *)
(* disposable credential binding is made, seen, removed and seen to be     *)
(* gone, then the sandbox is stopped and seen to be stopped.               *)
(*                                                                         *)
(* The commands go to the Docker daemon.  One that returns success is      *)
(* carried out, at once or late; one that fails or that run() gives up on  *)
(* after its timeout is carried out at once, late or never.                *)
(***************************************************************************)
EXTENDS Naturals, FiniteSets

CONSTANTS Drill,         \* processes that run one drill each
          OutputPath,    \* where the evidence is written
          MaxSecond,     \* bound: the seconds the clock goes through
          MaxLate,       \* bound: commands on their way at one time
          MaxRestarts,   \* bound: times the sandbox is started again
          UniqueSecond   \* TRUE: no two drills start in one second

ASSUME DrillAssumption ==
  /\ MaxSecond \in Nat /\ MaxLate \in Nat /\ MaxRestarts \in Nat
  /\ UniqueSecond \in BOOLEAN

Second == 0 .. MaxSecond     \* drill_id and the placeholder: the UTC time, to the second

VARIABLES now,       \* the clock
          running,   \* the sandbox runs
          bindings,  \* its custom secrets: <<placeholder, drill that made it>>
          late,      \* commands that are still to be carried out
          restarts,  \* times the sandbox was started again
          since,     \* history: drills since whose observation it was started again
          drill,     \* what each process holds
          evidence   \* the response evidence files

vars == <<now, running, bindings, late, restarts, since, drill, evidence>>

\* Commands the daemon carries out.
SetCustom(placeholder, d) == [command |-> "set-custom", placeholder |-> placeholder, by |-> d]
Remove(placeholder)       == [command |-> "rm", placeholder |-> placeholder]
Stop                      == [command |-> "stop"]

NoEvidence   == [state |-> "absent"]
TornEvidence == [state |-> "torn"]
Result(d, id, stopped, revoked) ==
  [state |-> "whole", by |-> d, drill_id |-> id,
   verified_stopped |-> stopped, credential_revocation_tested |-> revoked]

\* A drill's options: what the three make targets ask for.
Options == {[dry_run |-> FALSE, revoke |-> FALSE], [dry_run |-> FALSE, revoke |-> TRUE],
            [dry_run |-> TRUE, revoke |-> TRUE]}

Idle(options, path) ==
  [pc |-> "idle", options |-> options, path |-> path, drill_id |-> 0,
   revoked |-> FALSE, stopped |-> FALSE]

Init ==
  /\ now = 0 /\ running = TRUE /\ bindings = {} /\ late = {} /\ restarts = 0 /\ since = {}
  /\ \E o \in [Drill -> Options], path \in [Drill -> OutputPath] :
       drill = [d \in Drill |-> Idle(o[d], path[d])]
  /\ evidence = [p \in OutputPath |-> NoEvidence]

---------------------------------------------------------------------------
(* The daemon *)

CarryOut(c) ==
  /\ running'  = (running /\ c.command # "stop")
  /\ bindings' = CASE c.command = "set-custom" -> bindings \cup {<<c.placeholder, c.by>>}
                   [] c.command = "rm"   -> {b \in bindings : b[1] # c.placeholder}
                   [] c.command = "stop" -> bindings

\* run(): what becomes of a command, and whether its return code is zero.
Run(c, ok) ==
  \/ CarryOut(c) /\ UNCHANGED late
  \/ /\ Cardinality(late) < MaxLate
     /\ late' = late \cup {c} /\ UNCHANGED <<running, bindings>>
  \/ ~ok /\ UNCHANGED <<running, bindings, late>>

Land ==
  /\ \E c \in late : CarryOut(c) /\ late' = late \ {c}
  /\ UNCHANGED <<now, restarts, since, drill, evidence>>

\* Somebody starts the sandbox again.
Restart ==
  /\ restarts < MaxRestarts /\ ~running
  /\ running' = TRUE /\ restarts' = restarts + 1
  /\ since' = since \cup {d \in Drill : drill[d].pc \in {"write", "done"}}
  /\ UNCHANGED <<now, bindings, late, drill, evidence>>

Tick ==
  /\ now < MaxSecond /\ now' = now + 1
  /\ UNCHANGED <<running, bindings, late, restarts, since, drill, evidence>>

---------------------------------------------------------------------------
(* run_stop_drill *)

\* Drill d goes from one place to another with its memory changed to r.
Goes(d, from, r) ==
  /\ drill[d].pc = from /\ drill' = [drill EXCEPT ![d] = r]
  /\ UNCHANGED <<now, restarts, since>>

Unchanged == UNCHANGED <<running, bindings, late, evidence>>

\* Mutant: the placeholder is named after a coarser time.
BeginCoarse(d) ==
  /\ UniqueSecond => \A e \in Drill : drill[e].pc # "idle" => drill[e].drill_id # now
  /\ LET o == drill[d].options
         pc == IF o.dry_run THEN "write" ELSE IF o.revoke THEN "set" ELSE "stop"
     IN  Goes(d, "idle", [drill[d] EXCEPT !.pc = pc, !.drill_id = now - (now % 2)])
  /\ Unchanged

\* A dry run runs no command at all; pre_status is only recorded.
Begin(d) ==
  /\ UniqueSecond => \A e \in Drill : drill[e].pc # "idle" => drill[e].drill_id # now
  /\ LET o == drill[d].options
         pc == IF o.dry_run THEN "write" ELSE IF o.revoke THEN "set" ELSE "stop"
     IN  Goes(d, "idle", [drill[d] EXCEPT !.pc = pc, !.drill_id = now])
  /\ Unchanged

SetBinding(d) ==
  /\ \E ok \in BOOLEAN :
       /\ Goes(d, "set", [drill[d] EXCEPT !.pc = IF ok THEN "list" ELSE "remove",
                                          !.revoked = ok])
       /\ Run(SetCustom(drill[d].drill_id, d), ok)
  /\ UNCHANGED evidence

\* _secret_listing and _contains_marker: a listing that fails shows nothing.
Shows(d, ok) == ok /\ \E b \in bindings : b[1] = drill[d].drill_id

\* Mutant: the binding is taken to be there because it was set.
ListBindingTrusting(d) ==
  /\ Goes(d, "list", [drill[d] EXCEPT !.pc = "remove"])
  /\ Unchanged

ListBinding(d) ==
  /\ \E ok \in BOOLEAN :
       Goes(d, "list", [drill[d] EXCEPT !.pc = "remove", !.revoked = @ /\ Shows(d, ok)])
  /\ Unchanged

\* In the finally block: whatever happened before, the placeholder is removed.
RemoveBinding(d) ==
  /\ \E ok \in BOOLEAN :
       /\ Goes(d, "remove", [drill[d] EXCEPT !.pc = "relist", !.revoked = @ /\ ok])
       /\ Run(Remove(drill[d].drill_id), ok)
  /\ UNCHANGED evidence

ListAgain(d) ==
  /\ \E ok \in BOOLEAN :
       Goes(d, "relist", [drill[d] EXCEPT !.pc = "stop",
                                          !.revoked = @ /\ ok /\ ~Shows(d, ok)])
  /\ Unchanged

StopSandbox(d) ==
  /\ \E ok \in BOOLEAN :
       /\ Goes(d, "stop", [drill[d] EXCEPT !.pc = "observe", !.stopped = ok])
       /\ Run(Stop, ok)
  /\ UNCHANGED evidence

\* Mutant: a stop command that succeeds has stopped the sandbox.
ObserveNothing(d) ==
  /\ Goes(d, "observe", [drill[d] EXCEPT !.pc = "write"])
  /\ Unchanged

\* Mutant: the drill waits until it sees the sandbox stopped.
ObserveUntilStopped(d) ==
  /\ ~running
  /\ Goes(d, "observe", [drill[d] EXCEPT !.pc = "write"])
  /\ Unchanged

\* sbx ls after the stop: its output may be missing or not parse.
Observe(d) ==
  /\ \E parsed \in BOOLEAN :
       Goes(d, "observe", [drill[d] EXCEPT !.pc = "write",
                                           !.stopped = @ /\ parsed /\ ~running])
  /\ Unchanged

WriteEvidence(d) ==
  LET r == drill[d] IN
    /\ Goes(d, "write", [r EXCEPT !.pc = "done"])
    /\ evidence' = [evidence EXCEPT ![r.path] = Result(d, r.drill_id, r.stopped, r.revoked)]
    /\ UNCHANGED <<running, bindings, late>>

\* The process is killed; while it writes, part of the evidence may be there.
Crash(d) ==
  /\ drill[d].pc \notin {"idle", "done", "crashed"}
  /\ Goes(d, drill[d].pc, [drill[d] EXCEPT !.pc = "crashed"])
  /\ \/ UNCHANGED evidence
     \/ /\ drill[d].pc = "write"
        /\ evidence' = [evidence EXCEPT ![drill[d].path] = TornEvidence]
  /\ UNCHANGED <<running, bindings, late>>

Step(d) ==
  \/ Begin(d) \/ SetBinding(d) \/ ListBinding(d) \/ RemoveBinding(d) \/ ListAgain(d)
  \/ StopSandbox(d) \/ Observe(d) \/ WriteEvidence(d)

Next == Tick \/ Land \/ Restart \/ \E d \in Drill : Step(d) \/ Crash(d)

Spec == Init /\ [][Next]_vars

FairSpec == Spec /\ \A d \in Drill : WF_vars(Step(d))

---------------------------------------------------------------------------
(* Properties *)

PC == {"idle", "set", "list", "remove", "relist", "stop", "observe", "write", "done", "crashed"}

Command == [command : {"set-custom"}, placeholder : Second, by : Drill]
           \cup [command : {"rm"}, placeholder : Second] \cup {Stop}

EvidenceFile ==
  {NoEvidence, TornEvidence}
  \cup [state : {"whole"}, by : Drill, drill_id : Second, verified_stopped : BOOLEAN,
        credential_revocation_tested : BOOLEAN]

\* The values the variables take.
TypeOK ==
  /\ now \in Second /\ running \in BOOLEAN /\ restarts \in 0 .. MaxRestarts
  /\ bindings \subseteq Second \X Drill /\ late \subseteq Command /\ since \subseteq Drill
  /\ drill \in [Drill -> [pc : PC, options : Options, path : OutputPath, drill_id : Second,
                          revoked : BOOLEAN, stopped : BOOLEAN]]
  /\ evidence \in [OutputPath -> EvidenceFile]

\* The binding a drill made, on the sandbox or on its way there.
Live(d) ==
  \/ \E b \in bindings : b[2] = d
  \/ \E c \in late : c.command = "set-custom" /\ c.by = d

\* Evidence that says the disposable credential was revoked is true for good: the
\* binding that drill made is gone and no command under way brings it back,
\* although commands time out and land late and other drills use the sandbox.
RevokedIsGone ==
  \A p \in OutputPath :
    evidence[p].state = "whole" /\ evidence[p].credential_revocation_tested =>
      ~Live(evidence[p].by)

\* Evidence that says the sandbox was stopped is true until somebody starts it
\* again: a stop command that returned success is no proof.
StoppedUntilRestart ==
  \A p \in OutputPath :
    evidence[p].state = "whole" /\ evidence[p].verified_stopped /\ evidence[p].by \notin since =>
      ~running

\* What the evidence file says stays true, of the credential and of the sandbox: for
\* both, a return code says nothing, and a command may land after it was given up on.
EvidenceStaysTrue == RevokedIsGone /\ StoppedUntilRestart

\* A drill "removes only that placeholder": no step takes away a binding whose
\* own drill has not asked for its removal.
RemovesOnlyItsOwn ==
  [][\A b \in bindings \ bindings' :
       drill'[b[2]].pc \notin {"idle", "set", "list", "remove"}]_vars

\* A drill ends, whatever its commands do: it waits for nothing.
DrillEnds == \A d \in Drill : drill[d].pc = "set" ~> drill[d].pc \in {"done", "crashed"}

=============================================================================
