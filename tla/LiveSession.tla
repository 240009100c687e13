----------------------------- MODULE LiveSession -----------------------------
(***************************************************************************)
(* live_run.py: run_agent_task copies the workspace template, inventories  *)
(* the copy, gives it to an agent in a sandbox (external), inventories it  *)
(* again and writes the capsule agent-runs/<session_id>; load_agent_run is *)
(* what the assessment makes of it.  The directories are the session's     *)
(* own: only the template is edited by others, and the workspace by the    *)
(* agent, which goes on when the command that waits for it is given up.    *)
(* A session that is killed is one that takes no further step.             *)
(***************************************************************************)
EXTENDS FiniteSets

CONSTANTS File,      \* paths below a workspace
          Text,      \* what a file can hold
          Absent     \* no file there

VARIABLES template,  \* the template: File -> Text, or Absent
          workspace, \* its copy: File -> Text, or Absent
          sandbox,   \* whether the agent is at work
          capsule,   \* the JSON files of the session: name -> content
          manifest,  \* its manifest: absent, torn or the table of digests
          session    \* run_agent_task: where it is and what it holds

liveVars == <<template, workspace, sandbox, capsule, manifest, session>>

Nothing == [f \in {} |-> Absent]
Present(tree) == {f \in File : tree[f] # Absent}

\* What a file is replaced by: the whole file is written.
With(mapping, name, content) ==
  [n \in DOMAIN mapping \cup {name} |-> IF n = name THEN content ELSE mapping[n]]

LiveStart(tree) ==
  /\ template = tree
  /\ workspace = [f \in File |-> Absent] /\ sandbox = "none"
  /\ capsule = Nothing /\ manifest = {}
  /\ session = [pc |-> "copy", todo |-> Present(template), tree |-> Nothing, before |-> Nothing,
                returncode |-> {}]

LiveInit == \E tree \in [File -> Text \cup {Absent}] : LiveStart(tree)

SessionTo(to) == session' = [session EXCEPT !.pc = to]

---------------------------------------------------------------------------
(* copytree and _snapshot_workspace: the paths are listed, then one file   *)
(* after the other is looked for and read                                  *)

CopyFile ==
  /\ session.pc = "copy"
  /\ \E f \in session.todo :
       /\ template[f] # Absent
       /\ workspace' = [workspace EXCEPT ![f] = template[f]]
       /\ session' = [session EXCEPT !.todo = @ \ {f}]
  /\ UNCHANGED <<template, sandbox, capsule, manifest>>

CopyEnds ==
  /\ session.pc = "copy" /\ session.todo = {}
  /\ session' = [session EXCEPT !.pc = "inventory", !.todo = Present(workspace)]
  /\ UNCHANGED <<template, workspace, sandbox, capsule, manifest>>

HashFile ==
  /\ session.pc \in {"inventory", "inventory again"}
  /\ \E f \in session.todo :
       /\ workspace[f] # Absent
       /\ session' = [session EXCEPT !.todo = @ \ {f}, !.tree = With(@, f, workspace[f])]
  /\ UNCHANGED <<template, workspace, sandbox, capsule, manifest>>

\* is_file() is asked first: a file that went before it is left out.
SkipFile ==
  /\ session.pc \in {"inventory", "inventory again"}
  /\ \E f \in session.todo :
       /\ workspace[f] = Absent /\ session' = [session EXCEPT !.todo = @ \ {f}]
  /\ UNCHANGED <<template, workspace, sandbox, capsule, manifest>>

\* A file that goes while it is copied, or between is_file(), sha256_file() and stat().
TreeRaises ==
  /\ \E f \in session.todo :
       CASE session.pc = "copy" -> template[f] = Absent [] OTHER -> workspace[f] = Absent
  /\ SessionTo("raised")
  /\ UNCHANGED <<template, workspace, sandbox, capsule, manifest>>

---------------------------------------------------------------------------
(* The rest of run_agent_task *)

Writes(name, content) == capsule' = With(capsule, name, content)

\* workspace-before.json. What sbx prints (preflight.json, docker-observations.json) is left out.
WriteBefore ==
  /\ session.pc = "inventory" /\ session.todo = {}
  /\ Writes("workspace-before", session.tree)
  /\ session' = [session EXCEPT !.pc = "run", !.before = session.tree, !.tree = Nothing]
  /\ UNCHANGED <<template, workspace, sandbox, manifest>>

\* sbx run; a dry run, or no sbx, executes nothing.
RunAgent ==
  /\ session.pc = "run"
  /\ SessionTo("wait") /\ sandbox' = "running"
  /\ UNCHANGED <<template, workspace, capsule, manifest>>

RunsNothing ==
  /\ session.pc = "run"
  /\ \E code \in {0, 127} : session' = [session EXCEPT !.pc = "observe", !.returncode = {code}]
  /\ UNCHANGED <<template, workspace, sandbox, capsule, manifest>>

AgentEdits ==
  /\ sandbox = "running"
  /\ \E f \in File, t \in Text \cup {Absent} : workspace' = [workspace EXCEPT ![f] = t]
  /\ UNCHANGED <<template, sandbox, capsule, manifest, session>>

\* The agent ends and the command with it, or by itself when nobody waits any more.
AgentEnds ==
  /\ sandbox = "running" /\ sandbox' = "ended"
  /\ \/ /\ session.pc = "wait"
        /\ \E code \in {0, 1} :
             session' = [session EXCEPT !.pc = "observe", !.returncode = {code}]
     \/ session.pc # "wait" /\ UNCHANGED session
  /\ UNCHANGED <<template, workspace, capsule, manifest>>

\* Mutant: a command that timed out is taken for one that failed.
RunTimeoutAsFailure ==
  /\ session.pc = "wait"
  /\ session' = [session EXCEPT !.pc = "observe", !.returncode = {1}]
  /\ UNCHANGED <<template, workspace, sandbox, capsule, manifest>>

\* run(): subprocess.run kills its child, the sbx command; the sandbox is not its child.
RunTimeout ==
  /\ session.pc = "wait"
  /\ session' = [session EXCEPT !.pc = "observe", !.returncode = {124}]
  /\ UNCHANGED <<template, workspace, sandbox, capsule, manifest>>

\* agent-execution.json.
WriteExecution ==
  /\ session.pc = "observe"
  /\ Writes("agent-execution", session.returncode)
  /\ session' = [session EXCEPT !.pc = "inventory again", !.todo = Present(workspace)]
  /\ UNCHANGED <<template, workspace, sandbox, manifest>>

\* _changed_paths.
ChangedPaths(before, after) ==
  [added    |-> DOMAIN after \ DOMAIN before,
   removed  |-> DOMAIN before \ DOMAIN after,
   modified |-> {f \in DOMAIN before \cap DOMAIN after : before[f] # after[f]}]

\* workspace-after.json and workspace-changes.json.
WriteAfter ==
  /\ session.pc = "inventory again" /\ session.todo = {}
  /\ capsule' = With(With(capsule, "workspace-after", session.tree),
                     "workspace-changes", ChangedPaths(session.before, session.tree))
  /\ SessionTo("session")
  /\ UNCHANGED <<template, workspace, sandbox, manifest>>

WriteSession ==
  /\ session.pc = "session"
  /\ Writes("session", [execution |-> session.returncode,
                        workspace_before |-> session.before, workspace_after |-> session.tree,
                        changes |-> ChangedPaths(session.before, session.tree)])
  /\ SessionTo("config")
  /\ UNCHANGED <<template, workspace, sandbox, manifest>>

\* _make_assessment_config writes into the capsule, before the manifest is made.
MakeAssessmentConfig ==
  /\ session.pc = "config"
  /\ Writes("assessment-config", "session") /\ SessionTo("finalize")
  /\ UNCHANGED <<template, workspace, sandbox, manifest>>

\* finalize_manifest, in place.
OpenManifest ==
  /\ session.pc = "finalize" /\ SessionTo("manifest")
  /\ manifest' = {[whole |-> FALSE]}
  /\ UNCHANGED <<template, workspace, sandbox, capsule>>

FinalizeManifest ==
  /\ session.pc = "manifest" /\ SessionTo("done")
  /\ manifest' = {[whole |-> TRUE, files |-> capsule]}
  /\ UNCHANGED <<template, workspace, sandbox, capsule>>

\* Somebody works on the template; once it is copied that no longer matters.
EditTemplate ==
  /\ session.pc = "copy"
  /\ \E f \in File, t \in Text \cup {Absent} : template' = [template EXCEPT ![f] = t]
  /\ UNCHANGED <<workspace, sandbox, capsule, manifest, session>>

---------------------------------------------------------------------------
\* load_agent_run: the session is there, and manifest_valid by verify_manifest.
ManifestValid ==
  /\ "session" \in DOMAIN capsule
  /\ manifest # {}
  /\ \A m \in manifest : m.whole /\ \A n \in DOMAIN m.files :
       n \in DOMAIN capsule /\ capsule[n] = m.files[n]

LiveStep ==
  \/ CopyFile \/ CopyEnds \/ HashFile \/ SkipFile \/ TreeRaises \/ WriteBefore
  \/ RunAgent \/ RunsNothing \/ RunTimeout \/ WriteExecution \/ WriteAfter
  \/ WriteSession \/ MakeAssessmentConfig \/ OpenManifest \/ FinalizeManifest

LiveNext == LiveStep \/ AgentEdits \/ AgentEnds \/ EditTemplate

LiveSpec == LiveInit /\ [][LiveNext]_liveVars

---------------------------------------------------------------------------
(* Properties *)

CapsuleFile == {"workspace-before", "agent-execution", "workspace-after", "workspace-changes",
                "session", "assessment-config"}

\* The values the variables take.
LiveTypeOK ==
  /\ template \in [File -> Text \cup {Absent}] /\ workspace \in [File -> Text \cup {Absent}]
  /\ sandbox \in {"none", "running", "ended"}
  /\ DOMAIN capsule \subseteq CapsuleFile
  /\ session.pc \in {"copy", "inventory", "run", "wait", "observe", "inventory again", "session",
                     "config", "finalize", "manifest", "done", "raised"}
  /\ session.todo \subseteq File /\ DOMAIN session.tree \subseteq File
  /\ session.returncode \subseteq {0, 1, 124, 127}

\* What is in a tree now, by name.
Inventory(tree) == [f \in Present(tree) |-> tree[f]]

\* A capsule that load_agent_run calls valid is complete and agrees with itself: its
\* inventories, its changes and its session are of one run. If the agent was not given
\* up, the inventory after the task is the workspace as it lies there, file by file, and
\* each change it lists was really made; only a capsule that says 124 can be of a
\* workspace that still changed while it was read.
ValidCapsuleIsTheRun ==
  ManifestValid =>
    LET s == capsule["session"]
        before == capsule["workspace-before"]
        after == capsule["workspace-after"]
    IN  /\ DOMAIN capsule = CapsuleFile
        /\ s.workspace_before = before /\ s.workspace_after = after
        /\ s.changes = capsule["workspace-changes"] /\ s.execution = capsule["agent-execution"]
        /\ s.execution # {124} =>
             /\ after = Inventory(workspace)
             /\ \A f \in File :
                  (f \in s.changes.added \cup s.changes.removed \cup s.changes.modified)
                    <=> (IF f \in DOMAIN before THEN before[f] ELSE Absent) # workspace[f]
        /\ sandbox = "none" => s.changes = ChangedPaths(before, before)

=============================================================================
