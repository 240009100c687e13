-------------------------- MODULE AuditCorrelation --------------------------
(***************************************************************************)
(* audit_correlation.py and load_audit_records of audit.py: the probe a    *)
(* session sends, and what is concluded from the audit records that the    *)
(* sandbox daemons (external) write meanwhile.                             *)
(*                                                                         *)
(* A daemon session logs into one .tmp file at a time and finalizes it by  *)
(* renaming it to .jsonl.  `logs` holds all these files in the order of    *)
(* their last write, which is the order load_audit_records reads them in;  *)
(* a rename does not change it, and a finalized file does not change.      *)
(***************************************************************************)
EXTENDS Integers, SequencesExt

CONSTANTS Session,      \* the sessions that are correlated: each has its own marker
          Daemon,       \* the audit_session_ids
          Agent,        \* the agents that sandboxes run
          SessionAgent, \* the agents that the sessions run
          Other,        \* a resource_id that holds no marker
          Second,       \* ticks of the clock in a second, the precision of since and until
          MaxTime,      \* how far the clock goes
          MaxEvents,    \* how many records other sandboxes cause
          MaxRecords    \* load_audit_records keeps the last max_records selected ones

ASSUME AuditAssumption ==
  /\ Second \in Nat \ {0} /\ MaxRecords \in Nat \ {0} /\ MaxTime \in Nat
  /\ SessionAgent \subseteq Agent /\ Other \notin Session

VARIABLES clock,
          logs,         \* the audit directory
          correlated    \* each session: its probe and its analysis

auditVars == <<clock, logs, correlated>>

\* utc_now: without microseconds.
UtcNow == (clock \div Second) * Second

Strength == {"exact-marker", "pending-finalization", "single-daemon-session",
             "ambiguous-multi-session", "no-observed-correlation"}

AuditStart(agent) ==
  /\ clock = 0 /\ logs = <<>>
  /\ correlated = [s \in Session |->
       [pc |-> "ready", agent |-> agent[s], since |-> 0, probed |-> {}, until |-> 0,
        records |-> {}, seen |-> "none", rotated |-> FALSE, strength |-> "none"]]

AuditInit == \E agent \in [Session -> SessionAgent] : AuditStart(agent)

---------------------------------------------------------------------------
(* The daemons *)

\* Where a record is: in which file and at which place of it. A final one is in a .jsonl.
Line      == UNION {{i} \X DOMAIN logs[i].records : i \in DOMAIN logs}
FinalLine == {p \in Line : logs[p[1]].final}

RecordAt(p) == logs[p[1]].records[p[2]]

\* q is read after p.
After(q, p) == q[1] > p[1] \/ (q[1] = p[1] /\ q[2] > p[2])

\* The file a daemon has open becomes the one that was written last.
Logged(d, record) ==
  LET open == {i \in DOMAIN logs : logs[i].daemon = d /\ ~logs[i].final}
  IN  IF open = {} THEN Append(logs, [daemon |-> d, records |-> <<record>>, final |-> FALSE])
      ELSE LET i == CHOOSE j \in open : TRUE
           IN  Append(RemoveAt(logs, i), [logs[i] EXCEPT !.records = Append(@, record)])

\* Another sandbox does something that is governed.
LogOther(d, agent) ==
  /\ Cardinality({p \in Line : RecordAt(p).resource_id = Other}) < MaxEvents
  /\ logs' = Logged(d, [audit_session_id |-> d, agent |-> agent, timestamp |-> clock,
                        resource_id |-> Other])
  /\ UNCHANGED <<clock, correlated>>

\* The record of a probe, with the time of the probe; it may never be logged.
LogProbe(s, d) ==
  /\ \A p \in Line : RecordAt(p).resource_id # s
  /\ \E t \in correlated[s].probed :
       logs' = Logged(d, [audit_session_id |-> d, agent |-> correlated[s].agent, timestamp |-> t,
                          resource_id |-> s])
  /\ UNCHANGED <<clock, correlated>>

\* A session that is between its listing and its count will see neither (`rotated`).
Rotate(i) ==
  /\ ~logs[i].final
  /\ logs' = [logs EXCEPT ![i].final = TRUE]
  /\ correlated' = [s \in Session |->
       [correlated[s] EXCEPT !.rotated = @ \/ correlated[s].pc = "listed"]]
  /\ UNCHANGED clock

Tick ==
  /\ clock < MaxTime /\ clock' = clock + 1
  /\ UNCHANGED <<logs, correlated>>

---------------------------------------------------------------------------
(* The session *)

SessionAt(s, from, to) == correlated[s].pc = from /\ correlated' = [correlated EXCEPT ![s].pc = to]

\* run_agent_task: started_at.
StartSession(s) ==
  /\ correlated[s].pc = "ready"
  /\ correlated' = [correlated EXCEPT ![s].pc = "started", ![s].since = UtcNow]
  /\ UNCHANGED <<clock, logs>>

\* run_correlation_probe: attempted with sbx, or not.
RunProbe(s) ==
  /\ correlated[s].pc = "started"
  /\ \E attempted \in {{}, {clock}} :
       correlated' = [correlated EXCEPT ![s].pc = "probed", ![s].probed = attempted]
  /\ UNCHANGED <<clock, logs>>

\* A dry run concludes without the records.
DryRun(s) ==
  /\ SessionAt(s, "started", "dry-run-no-correlation")
  /\ UNCHANGED <<clock, logs>>

\* analyze_audit_correlation, by the demo or, later and any number of times, by correlate_session.
Analyze(s) ==
  /\ correlated[s].pc \in {"probed", "done"}
  /\ correlated' = [correlated EXCEPT ![s].pc = "analyzing", ![s].until = UtcNow,
                                      ![s].strength = "none", ![s].rotated = FALSE]
  /\ UNCHANGED <<clock, logs>>

\* The filters of load_audit_records: the agent and the window.
Selected(s, r) ==
  /\ r.agent = correlated[s].agent
  /\ correlated[s].since <= r.timestamp /\ r.timestamp <= correlated[s].until

SelectedLine(s) == {p \in FinalLine : Selected(s, RecordAt(p))}

\* Mutant: one record too many.
KeptOneMore(lines) == {p \in lines : Cardinality({q \in lines : After(q, p)}) <= MaxRecords}

\* The deque: what MaxRecords later ones have not pushed out.
Kept(lines) == {p \in lines : Cardinality({q \in lines : After(q, p)}) < MaxRecords}

\* Where the record of its own probe is (for the property), if it is in the window.
Own(s) == {p \in Line : RecordAt(p).resource_id = s /\ Selected(s, RecordAt(p))}
Seen(s) ==
  IF Own(s) \cap FinalLine # {} THEN "final" ELSE IF Own(s) # {} THEN "open" ELSE "none"

\* _iter_jsonl_files, and what is read in the files it lists.
ListFiles(s) ==
  /\ correlated[s].pc = "analyzing"
  /\ correlated' = [correlated EXCEPT ![s].pc = "listed", ![s].seen = Seen(s),
       ![s].records = {RecordAt(p) : p \in Kept(SelectedLine(s))}]
  /\ UNCHANGED <<clock, logs>>

\* Mutant: files in progress are not looked at.
StrengthOfFinalized(s, inProgress) ==
  LET found == correlated[s].records
      candidates == {r.audit_session_id : r \in found}
  IN  IF \E r \in found : r.resource_id = s THEN "exact-marker"
      ELSE IF candidates = {} THEN "no-observed-correlation"
      ELSE IF \E d \in Daemon : candidates = {d} THEN "single-daemon-session"
      ELSE "ambiguous-multi-session"

\* The strength: the first that applies.
StrengthOf(s, inProgress) ==
  LET found == correlated[s].records
      candidates == {r.audit_session_id : r \in found}
  IN  IF \E r \in found : r.resource_id = s THEN "exact-marker"
      ELSE IF found = {} /\ inProgress # {}  THEN "pending-finalization"
      ELSE IF candidates = {}                THEN "no-observed-correlation"
      ELSE IF \E d \in Daemon : candidates = {d} THEN "single-daemon-session"
      ELSE "ambiguous-multi-session"

\* _count_in_progress_files, after the listing, and the conclusion.
Conclude(s) ==
  /\ correlated[s].pc = "listed"
  /\ correlated' = [correlated EXCEPT ![s].pc = "done",
       ![s].strength = StrengthOf(s, {i \in DOMAIN logs : ~logs[i].final})]
  /\ UNCHANGED <<clock, logs>>

---------------------------------------------------------------------------
SessionStep(s) ==
  \/ StartSession(s) \/ RunProbe(s) \/ DryRun(s) \/ Analyze(s) \/ ListFiles(s) \/ Conclude(s)

DaemonStep ==
  \/ \E d \in Daemon, a \in Agent : LogOther(d, a)
  \/ \E d \in Daemon, s \in Session : LogProbe(s, d)
  \/ \E i \in DOMAIN logs : Rotate(i)

AuditNext == Tick \/ DaemonStep \/ \E s \in Session : SessionStep(s)

AuditSpec == AuditInit /\ [][AuditNext]_auditVars

---------------------------------------------------------------------------
(* Properties *)

Record == [audit_session_id : Daemon, agent : Agent, timestamp : 0 .. MaxTime,
           resource_id : Session \cup {Other}]

\* The values the variables take.
AuditTypeOK ==
  /\ clock \in 0 .. MaxTime
  /\ logs \in Seq([daemon : Daemon, records : Seq(Record) \ {<<>>}, final : BOOLEAN])
  /\ \A p \in Line : RecordAt(p).timestamp <= clock
  /\ \A s \in Session :
       /\ correlated[s].pc \in {"ready", "started", "probed", "analyzing", "listed", "done",
                                "dry-run-no-correlation"}
       /\ correlated[s].strength \in Strength <=> correlated[s].pc = "done"
       /\ correlated[s].records \subseteq Record
       /\ Cardinality(correlated[s].records) <= MaxRecords

\* The finalized records of a session's agent since it started.
Evidence(s) ==
  {p \in FinalLine : /\ RecordAt(p).agent = correlated[s].agent
                     /\ RecordAt(p).timestamp >= correlated[s].since}

\* Those that are read after that of its probe.
Behind(s) == {p \in Evidence(s) : \E q \in FinalLine : RecordAt(q).resource_id = s /\ After(p, q)}

\* "Only exact-marker is a positive exact-correlation claim", and "no negative conclusion
\* is drawn" for want of a rotation. An exact match is of the probe that this session
\* sent; of two daemons the supporting grade names the only one it saw. A probe that had
\* been finalized when the files were listed is matched, unless at least MaxRecords later
\* records pushed it out; and one that was still in a .tmp file leaves "no observed
\* correlation" only if a rotation came between the listing and the count.
CorrelationIsEarned ==
  \A s \in Session : correlated[s].pc = "done" =>
    LET strength == correlated[s].strength
        daemons == {r.audit_session_id : r \in correlated[s].records}
    IN  /\ strength = "exact-marker" =>
             \E p \in Evidence(s) : /\ RecordAt(p).resource_id = s
                                    /\ RecordAt(p).timestamp \in correlated[s].probed
        /\ strength = "single-daemon-session" => Cardinality(daemons) = 1
        /\ strength = "ambiguous-multi-session" =>
             \E p, q \in Evidence(s) :
               RecordAt(p).audit_session_id # RecordAt(q).audit_session_id
        /\ correlated[s].seen = "final" =>
             strength = "exact-marker" \/ Cardinality(Behind(s)) >= MaxRecords
        /\ strength = "no-observed-correlation" =>
             correlated[s].seen = "none" \/ correlated[s].rotated

=============================================================================
