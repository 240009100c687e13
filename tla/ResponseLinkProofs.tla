------------------------- MODULE ResponseLinkProofs --------------------------
(***************************************************************************)
(* What response evidence and the links made of it promise, for every      *)
(* number of drills, output paths, seconds, commands under way and         *)
(* restarts.  Two drills in one second share a placeholder; what is said   *)
(* of the credential is proved for drills that start in seconds of their   *)
(* own, what is said of the sandbox for all.                               *)
(***************************************************************************)
EXTENDS ResponseLink, TLAPS

\* The memory of a drill.
Held == [pc : PC, options : Options, path : OutputPath, drill_id : Second,
         revoked : BOOLEAN, stopped : BOOLEAN]

---------------------------------------------------------------------------
(* Types *)

\* A step of one drill changes the memory of that drill, and no other's.
LEMMA GoesFacts ==
  ASSUME TypeOK, NEW d \in Drill, NEW from, NEW r \in Held, Goes(d, from, r)
  PROVE  /\ drill' \in [Drill -> Held]
         /\ drill[d].pc = from /\ drill'[d] = r
         /\ \A e \in Drill : e # d => drill'[e] = drill[e]
         /\ now' = now /\ restarts' = restarts /\ since' = since
BY DEF TypeOK, Held, Goes

\* The commands the drills give are commands.
LEMMA CommandTypes ==
  ASSUME NEW p \in Second, NEW d \in Drill
  PROVE  SetCustom(p, d) \in Command /\ Remove(p) \in Command /\ Stop \in Command
BY DEF SetCustom, Remove, Stop, Command

\* Whatever becomes of a command, the sandbox and the commands under way keep
\* their types.
LEMMA RunTypes ==
  ASSUME TypeOK, NEW c \in Command, NEW ok \in BOOLEAN,
         Run(c, ok) \/ (c \in late /\ CarryOut(c) /\ late' = late \ {c})
  PROVE  running' \in BOOLEAN /\ bindings' \subseteq Second \X Drill /\ late' \subseteq Command
<1>1. CASE CarryOut(c)
  <2>1. running' \in BOOLEAN
    BY <1>1 DEF CarryOut, TypeOK
  <2>2. bindings' \subseteq Second \X Drill
    <3>1. CASE c.command = "set-custom"
      <4>1. c.placeholder \in Second /\ c.by \in Drill
        BY <3>1 DEF Command, Stop
      <4>2. QED
        BY <1>1, <3>1, <4>1 DEF CarryOut, TypeOK
    <3>2. CASE c.command = "rm"
      BY <1>1, <3>2 DEF CarryOut, TypeOK
    <3>3. CASE c.command = "stop"
      BY <1>1, <3>3 DEF CarryOut, TypeOK
    <3>4. QED
      BY <3>1, <3>2, <3>3 DEF Command, Stop
  <2>3. late' \subseteq Command
    BY <1>1 DEF Run, TypeOK
  <2>4. QED
    BY <2>1, <2>2, <2>3
<1>2. CASE ~CarryOut(c)
  BY <1>2 DEF Run, TypeOK
<1>3. QED
  BY <1>1, <1>2

\* Every variable keeps its type.
LEMMA TypesKept ==
  ASSUME TypeOK, [Next]_vars
  PROVE  TypeOK'
<1> SUFFICES ASSUME Next PROVE TypeOK'
  BY DEF vars, TypeOK
<1>1. CASE Tick
  BY <1>1, DrillAssumption DEF Tick, TypeOK, Second
<1>2. CASE Land
  <2>1. PICK c \in late : CarryOut(c) /\ late' = late \ {c}
    BY <1>2 DEF Land
  <2>2. running' \in BOOLEAN /\ bindings' \subseteq Second \X Drill /\ late' \subseteq Command
    BY <2>1, RunTypes DEF TypeOK
  <2>3. QED
    BY <1>2, <2>2 DEF Land, TypeOK
<1>3. CASE Restart
  BY <1>3, DrillAssumption DEF Restart, TypeOK
<1>4. ASSUME NEW d \in Drill, Step(d) \/ Crash(d) PROVE TypeOK'
  <2>1. drill[d] \in Held /\ drill[d].drill_id \in Second
    BY DEF TypeOK, Held
  <2>2. CASE Begin(d)
    <3> DEFINE pc == IF drill[d].options.dry_run THEN "write"
                     ELSE IF drill[d].options.revoke THEN "set" ELSE "stop"
               r == [drill[d] EXCEPT !.pc = pc, !.drill_id = now]
    <3>1. r \in Held
      BY <2>1 DEF Held, TypeOK, PC
    <3>2. Goes(d, "idle", r)
      BY <2>2 DEF Begin
    <3>3. QED
      BY <2>2, <3>1, <3>2, GoesFacts DEF Begin, Unchanged, TypeOK, Held
  <2>3. CASE SetBinding(d)
    <3>1. PICK ok \in BOOLEAN :
            /\ Goes(d, "set", [drill[d] EXCEPT !.pc = IF ok THEN "list" ELSE "remove",
                                               !.revoked = ok])
            /\ Run(SetCustom(drill[d].drill_id, d), ok)
      BY <2>3 DEF SetBinding
    <3>2. [drill[d] EXCEPT !.pc = IF ok THEN "list" ELSE "remove", !.revoked = ok] \in Held
      BY <2>1 DEF Held, PC
    <3>3. running' \in BOOLEAN /\ bindings' \subseteq Second \X Drill /\ late' \subseteq Command
      BY <2>1, <3>1, CommandTypes, RunTypes
    <3>4. QED
      BY <2>3, <3>1, <3>2, <3>3, GoesFacts DEF SetBinding, TypeOK, Held
  <2>4. CASE ListBinding(d)
    <3>1. PICK ok \in BOOLEAN :
            Goes(d, "list", [drill[d] EXCEPT !.pc = "remove", !.revoked = @ /\ Shows(d, ok)])
      BY <2>4 DEF ListBinding
    <3>2. [drill[d] EXCEPT !.pc = "remove", !.revoked = @ /\ Shows(d, ok)] \in Held
      BY <2>1 DEF Held, PC
    <3>3. QED
      BY <2>4, <3>1, <3>2, GoesFacts DEF ListBinding, Unchanged, TypeOK, Held
  <2>5. CASE RemoveBinding(d)
    <3>1. PICK ok \in BOOLEAN :
            /\ Goes(d, "remove", [drill[d] EXCEPT !.pc = "relist", !.revoked = @ /\ ok])
            /\ Run(Remove(drill[d].drill_id), ok)
      BY <2>5 DEF RemoveBinding
    <3>2. [drill[d] EXCEPT !.pc = "relist", !.revoked = @ /\ ok] \in Held
      BY <2>1 DEF Held, PC
    <3>3. running' \in BOOLEAN /\ bindings' \subseteq Second \X Drill /\ late' \subseteq Command
      BY <2>1, <3>1, CommandTypes, RunTypes
    <3>4. QED
      BY <2>5, <3>1, <3>2, <3>3, GoesFacts DEF RemoveBinding, TypeOK, Held
  <2>6. CASE ListAgain(d)
    <3>1. PICK ok \in BOOLEAN :
            Goes(d, "relist", [drill[d] EXCEPT !.pc = "stop",
                                               !.revoked = @ /\ ok /\ ~Shows(d, ok)])
      BY <2>6 DEF ListAgain
    <3>2. [drill[d] EXCEPT !.pc = "stop", !.revoked = @ /\ ok /\ ~Shows(d, ok)] \in Held
      BY <2>1 DEF Held, PC
    <3>3. QED
      BY <2>6, <3>1, <3>2, GoesFacts DEF ListAgain, Unchanged, TypeOK, Held
  <2>7. CASE StopSandbox(d)
    <3>1. PICK ok \in BOOLEAN :
            /\ Goes(d, "stop", [drill[d] EXCEPT !.pc = "observe", !.stopped = ok])
            /\ Run(Stop, ok)
      BY <2>7 DEF StopSandbox
    <3>2. [drill[d] EXCEPT !.pc = "observe", !.stopped = ok] \in Held
      BY <2>1 DEF Held, PC
    <3>3. running' \in BOOLEAN /\ bindings' \subseteq Second \X Drill /\ late' \subseteq Command
      BY <2>1, <3>1, CommandTypes, RunTypes
    <3>4. QED
      BY <2>7, <3>1, <3>2, <3>3, GoesFacts DEF StopSandbox, TypeOK, Held
  <2>8. CASE Observe(d)
    <3>1. PICK parsed \in BOOLEAN :
            Goes(d, "observe", [drill[d] EXCEPT !.pc = "write",
                                                !.stopped = @ /\ parsed /\ ~running])
      BY <2>8 DEF Observe
    <3>2. [drill[d] EXCEPT !.pc = "write", !.stopped = @ /\ parsed /\ ~running] \in Held
      BY <2>1 DEF Held, PC
    <3>3. QED
      BY <2>8, <3>1, <3>2, GoesFacts DEF Observe, Unchanged, TypeOK, Held
  <2>9. CASE WriteEvidence(d)
    <3>1. [drill[d] EXCEPT !.pc = "done"] \in Held
      BY <2>1 DEF Held, PC
    <3>2. Result(d, drill[d].drill_id, drill[d].stopped, drill[d].revoked) \in EvidenceFile
      BY <2>1 DEF Held, Result, EvidenceFile
    <3>3. QED
      BY <2>9, <3>1, <3>2, GoesFacts DEF WriteEvidence, TypeOK, Held
  <2>10. CASE Crash(d)
    <3>1. [drill[d] EXCEPT !.pc = "crashed"] \in Held
      BY <2>1 DEF Held, PC
    <3>2. TornEvidence \in EvidenceFile
      BY DEF EvidenceFile
    <3>3. QED
      BY <2>10, <3>1, <3>2, GoesFacts DEF Crash, TypeOK, Held
  <2>11. QED
    BY <1>4, <2>2, <2>3, <2>4, <2>5, <2>6, <2>7, <2>8, <2>9, <2>10 DEF Step
<1>5. QED
  BY <1>1, <1>2, <1>3, <1>4 DEF Next

\* The first state has the types.
LEMMA TypesBegin ==
  ASSUME Init
  PROVE  TypeOK
<1>1. PICK o \in [Drill -> Options], path \in [Drill -> OutputPath] :
        drill = [d \in Drill |-> Idle(o[d], path[d])]
  BY DEF Init
<1>2. \A d \in Drill : Idle(o[d], path[d]) \in Held
  BY DrillAssumption DEF Idle, Held, PC, Second
<1>3. drill \in [Drill -> Held]
  BY <1>1, <1>2
<1>4. QED
  BY <1>3, DrillAssumption DEF Init, TypeOK, Held, Second, EvidenceFile

---------------------------------------------------------------------------
(* The invariant *)

\* The drill asked for its binding, and for the removal of it.
Asked(d)   == drill[d].pc \notin {"idle", "set"}
Removed(d) == drill[d].pc \notin {"idle", "set", "list", "remove"}

\* Drills that have begun have placeholders of their own.
OwnPlaceholders ==
  \A d, e \in Drill :
    drill[d].pc # "idle" /\ drill[e].pc # "idle" /\ drill[d].drill_id = drill[e].drill_id => d = e

\* A binding was made by a drill, under its own placeholder, and is not made twice.
BindingsMade ==
  \A b \in bindings : Asked(b[2]) /\ drill[b[2]].drill_id = b[1] /\ SetCustom(b[1], b[2]) \notin late

\* A command under way was given by a drill, about its own placeholder.
LateMade ==
  \A c \in late :
    /\ c.command = "set-custom" => Asked(c.by) /\ drill[c.by].drill_id = c.placeholder
    /\ c.command = "rm" => \E d \in Drill : Removed(d) /\ drill[d].drill_id = c.placeholder

\* What a drill that still counts on the revocation knows of its binding.
Revoking ==
  \A d \in Drill : drill[d].revoked =>
    /\ Asked(d)
    /\ drill[d].pc \in {"remove", "relist"} => SetCustom(drill[d].drill_id, d) \notin late
    /\ drill[d].pc \in {"stop", "observe", "write", "done"} => ~Live(d)

\* What a drill that saw the sandbox stopped knows.
Stopping ==
  \A d \in Drill : drill[d].stopped =>
    /\ drill[d].pc \in {"observe", "write", "done", "crashed"}
    /\ drill[d].pc \in {"write", "done"} /\ d \notin since => ~running

\* Whole evidence says what the drill that wrote it held.
EvidenceMade ==
  \A p \in OutputPath : evidence[p].state = "whole" =>
    LET e == evidence[p] IN
      /\ drill[e.by].pc = "done" /\ e.drill_id = drill[e.by].drill_id
      /\ e.verified_stopped = drill[e.by].stopped
      /\ e.credential_revocation_tested = drill[e.by].revoked

BindingInv == OwnPlaceholders /\ BindingsMade /\ LateMade /\ Revoking

\* An element of a product is the pair of its parts.
LEMMA PairParts ==
  ASSUME TypeOK, NEW b \in bindings
  PROVE  b = <<b[1], b[2]>> /\ b[1] \in Second /\ b[2] \in Drill
BY DEF TypeOK

\* A command under way that sets a binding is the one its parts name.
LEMMA SetCustomParts ==
  ASSUME TypeOK, NEW c \in late, c.command = "set-custom"
  PROVE  c = SetCustom(c.placeholder, c.by) /\ c.placeholder \in Second /\ c.by \in Drill
BY DEF TypeOK, Command, Stop, SetCustom

\* The binding of a drill that has begun is its own, wherever it lies.
LEMMA LiveIsOwn ==
  ASSUME TypeOK, BindingInv, NEW d \in Drill, Live(d)
  PROVE  <<drill[d].drill_id, d>> \in bindings \/ SetCustom(drill[d].drill_id, d) \in late
<1>1. CASE \E b \in bindings : b[2] = d
  BY <1>1, PairParts DEF BindingInv, BindingsMade
<1>2. CASE \E c \in late : c.command = "set-custom" /\ c.by = d
  BY <1>2, SetCustomParts DEF BindingInv, LateMade
<1>3. QED
  BY <1>1, <1>2 DEF Live

\* What a step of one drill has to keep for the invariant to stay.
LEMMA DrillKeepsBindings ==
  ASSUME TypeOK, TypeOK', BindingInv, NEW d \in Drill,
         \A e \in Drill : e # d => drill'[e] = drill[e],
         Asked(d) => Asked(d)', Removed(d) => Removed(d)',
         drill[d].pc # "idle" => drill'[d].pc # "idle" /\ drill'[d].drill_id = drill[d].drill_id,
         OwnPlaceholders',
         \A b \in bindings' : b \in bindings
           \/ (b = <<drill[d].drill_id, d>> /\ drill[d].pc = "set" /\ Asked(d)'),
         \A c \in late' : c \in late \/ c.command = "stop"
           \/ (c = SetCustom(drill[d].drill_id, d) /\ drill[d].pc = "set" /\ Asked(d)')
           \/ (c = Remove(drill[d].drill_id) /\ drill[d].pc = "remove" /\ Removed(d)'),
         \A b \in bindings' \ bindings : SetCustom(b[1], b[2]) \notin late',
         \A b \in bindings : SetCustom(b[1], b[2]) \in late' => SetCustom(b[1], b[2]) \in late,
         drill'[d].revoked =>
            /\ Asked(d)'
            /\ drill'[d].pc \in {"remove", "relist"} => SetCustom(drill'[d].drill_id, d) \notin late'
            /\ drill'[d].pc \in {"stop", "observe", "write", "done"} => ~Live(d)'
  PROVE  BindingInv'
<1>1. \A e \in Drill : (Asked(e) => Asked(e)') /\ (Removed(e) => Removed(e)')
  BY DEF Asked, Removed
<1>2. \A e \in Drill : drill[e].pc # "idle" => drill'[e].drill_id = drill[e].drill_id
  OBVIOUS
<1>3. \A e \in Drill : Asked(e) \/ Removed(e) => drill[e].pc # "idle"
  BY DEF Asked, Removed
<1>4. BindingsMade'
  <2> SUFFICES ASSUME NEW b \in bindings'
               PROVE  /\ Asked(b[2])' /\ drill'[b[2]].drill_id = b[1]
                      /\ SetCustom(b[1], b[2]) \notin late'
    BY DEF BindingsMade, SetCustom
  <2>1. CASE b \in bindings
    <3>1. b[2] \in Drill /\ Asked(b[2]) /\ drill[b[2]].drill_id = b[1]
          /\ SetCustom(b[1], b[2]) \notin late
      BY <2>1, PairParts DEF BindingInv, BindingsMade
    <3>2. QED
      BY <2>1, <3>1, <1>1, <1>2, <1>3
  <2>2. CASE b \notin bindings
    BY <2>2
  <2>3. QED
    BY <2>1, <2>2
<1>5. LateMade'
  <2> SUFFICES ASSUME NEW c \in late'
               PROVE  /\ c.command = "set-custom" =>
                           Asked(c.by)' /\ drill'[c.by].drill_id = c.placeholder
                      /\ c.command = "rm" =>
                           \E e \in Drill : Removed(e)' /\ drill'[e].drill_id = c.placeholder
    BY DEF LateMade
  <2>1. CASE c \in late
    <3>1. ASSUME c.command = "set-custom"
          PROVE  Asked(c.by)' /\ drill'[c.by].drill_id = c.placeholder
      <4>1. c.by \in Drill /\ Asked(c.by) /\ drill[c.by].drill_id = c.placeholder
        BY <2>1, <3>1, SetCustomParts DEF BindingInv, LateMade
      <4>2. QED
        BY <4>1, <1>1, <1>2, <1>3
    <3>2. ASSUME c.command = "rm"
          PROVE  \E e \in Drill : Removed(e)' /\ drill'[e].drill_id = c.placeholder
      <4>1. PICK e \in Drill : Removed(e) /\ drill[e].drill_id = c.placeholder
        BY <2>1, <3>2 DEF BindingInv, LateMade
      <4>2. QED
        BY <4>1, <1>1, <1>2, <1>3
    <3>3. QED
      BY <3>1, <3>2
  <2>2. CASE c = SetCustom(drill[d].drill_id, d) /\ drill[d].pc = "set" /\ Asked(d)'
    BY <2>2, <1>2 DEF SetCustom
  <2>3. CASE c = Remove(drill[d].drill_id) /\ drill[d].pc = "remove" /\ Removed(d)'
    BY <2>3, <1>2 DEF Remove
  <2>4. CASE c.command = "stop"
    BY <2>4
  <2>5. QED
    BY <2>1, <2>2, <2>3, <2>4
<1>6. Revoking'
  <2> SUFFICES ASSUME NEW e \in Drill, drill'[e].revoked
               PROVE  /\ Asked(e)'
                      /\ drill'[e].pc \in {"remove", "relist"} =>
                           SetCustom(drill'[e].drill_id, e) \notin late'
                      /\ drill'[e].pc \in {"stop", "observe", "write", "done"} => ~Live(e)'
    BY DEF Revoking, SetCustom
  <2>1. CASE e = d
    BY <2>1
  <2>2. CASE e # d
    <3>1. /\ Asked(e)
          /\ drill[e].pc \in {"remove", "relist"} => SetCustom(drill[e].drill_id, e) \notin late
          /\ drill[e].pc \in {"stop", "observe", "write", "done"} => ~Live(e)
      BY <2>2 DEF BindingInv, Revoking
    <3>2. SetCustom(drill[e].drill_id, e) \in late' => SetCustom(drill[e].drill_id, e) \in late
      BY <2>2 DEF SetCustom, Remove
    <3>3. Live(e)' => Live(e)
      BY <2>2 DEF Live, SetCustom, Remove
    <3>4. QED
      BY <2>2, <3>1, <3>2, <3>3, <1>1
  <2>3. QED
    BY <2>1, <2>2
<1>7. QED
  BY <1>4, <1>5, <1>6 DEF BindingInv

\* A drill that has begun keeps its placeholder to itself.
LEMMA PlaceholdersKept ==
  ASSUME TypeOK, OwnPlaceholders, NEW d \in Drill, drill[d].pc # "idle",
         \A e \in Drill : e # d => drill'[e] = drill[e],
         drill'[d].drill_id = drill[d].drill_id
  PROVE  OwnPlaceholders'
BY DEF OwnPlaceholders

\* What becomes of a command a drill gives.
LEMMA RunFacts ==
  ASSUME NEW c \in Command, NEW ok \in BOOLEAN, Run(c, ok)
  PROVE  /\ \A b \in bindings' \ bindings :
              c.command = "set-custom" /\ b = <<c.placeholder, c.by>> /\ late' = late
         /\ late' \subseteq late \cup {c}
<1>1. CASE CarryOut(c) /\ UNCHANGED late
  <2>1. CASE c.command = "set-custom"
    BY <1>1, <2>1 DEF CarryOut
  <2>2. CASE c.command = "rm"
    BY <1>1, <2>2 DEF CarryOut
  <2>3. CASE c.command = "stop"
    BY <1>1, <2>3 DEF CarryOut
  <2>4. QED
    BY <2>1, <2>2, <2>3 DEF Command, Stop
<1>2. QED
  BY <1>1 DEF Run

\* The drill begins in a second of its own.
LEMMA BeginKeeps ==
  ASSUME UniqueSecond, TypeOK, TypeOK', BindingInv, NEW d \in Drill, Begin(d)
  PROVE  BindingInv'
<1> DEFINE pc == IF drill[d].options.dry_run THEN "write"
                 ELSE IF drill[d].options.revoke THEN "set" ELSE "stop"
           r == [drill[d] EXCEPT !.pc = pc, !.drill_id = now]
<1>1. r \in Held /\ r.pc # "idle" /\ r.drill_id = now /\ r.revoked = drill[d].revoked
  BY DEF TypeOK, Held, PC
<1>2. Goes(d, "idle", r)
  BY DEF Begin
<1> HIDE DEF r
<1>3. /\ drill[d].pc = "idle" /\ drill'[d] = r
      /\ \A e \in Drill : e # d => drill'[e] = drill[e]
  BY <1>1, <1>2, GoesFacts
<1>4. \A e \in Drill : drill[e].pc # "idle" => drill[e].drill_id # now
  BY DEF Begin
<1>5. OwnPlaceholders'
  BY <1>1, <1>3, <1>4 DEF OwnPlaceholders, BindingInv
<1>6. ~drill'[d].revoked
  BY <1>1, <1>3 DEF BindingInv, Revoking, Asked
<1>7. bindings' = bindings /\ late' = late
  BY DEF Begin, Unchanged
<1>8. ~Asked(d) /\ ~Removed(d)
  BY <1>3 DEF Asked, Removed
<1>9. \A b \in bindings : SetCustom(b[1], b[2]) \notin late
  BY DEF BindingInv, BindingsMade
<1> HIDE DEF BindingInv
<1>10. QED
  BY <1>3, <1>5, <1>6, <1>7, <1>8, DrillKeepsBindings

\* A drill that changes only its own memory, and asks for nothing.
LEMMA QuietKeeps ==
  ASSUME TypeOK, TypeOK', BindingInv, NEW d \in Drill, NEW r \in Held,
         Goes(d, drill[d].pc, r), UNCHANGED <<bindings, late>>,
         drill[d].pc # "idle", r.pc \notin {"idle", "set"},
         r.drill_id = drill[d].drill_id,
         Removed(d) => r.pc \notin {"list", "remove"},
         r.revoked =>
            /\ r.pc \in {"remove", "relist"} => SetCustom(r.drill_id, d) \notin late
            /\ r.pc \in {"stop", "observe", "write", "done"} => ~Live(d)
  PROVE  BindingInv'
<1>1. drill'[d] = r /\ \A e \in Drill : e # d => drill'[e] = drill[e]
  BY GoesFacts
<1>2. OwnPlaceholders'
  BY <1>1, PlaceholdersKept DEF BindingInv
<1>3. Asked(d)' /\ (Removed(d) => Removed(d)')
  BY <1>1 DEF Asked, Removed
<1>4. Live(d)' <=> Live(d)
  BY DEF Live
<1>5. drill'[d].revoked =>
        /\ Asked(d)'
        /\ drill'[d].pc \in {"remove", "relist"} => SetCustom(drill'[d].drill_id, d) \notin late'
        /\ drill'[d].pc \in {"stop", "observe", "write", "done"} => ~Live(d)'
  BY <1>1, <1>3, <1>4
<1>6. QED
  BY <1>1, <1>2, <1>3, <1>5, DrillKeepsBindings

\* A drill that sets its binding: it was neither made nor under way before.
LEMMA SetBindingKeeps ==
  ASSUME TypeOK, TypeOK', BindingInv, NEW d \in Drill, SetBinding(d)
  PROVE  BindingInv'
<1> DEFINE id == drill[d].drill_id
<1>0. id \in Second
  BY DEF TypeOK
<1>1. PICK ok \in BOOLEAN :
        /\ Goes(d, "set", [drill[d] EXCEPT !.pc = IF ok THEN "list" ELSE "remove",
                                           !.revoked = ok])
        /\ Run(SetCustom(id, d), ok)
  BY DEF SetBinding
<1> DEFINE r == [drill[d] EXCEPT !.pc = IF ok THEN "list" ELSE "remove", !.revoked = ok]
<1>2. /\ r \in Held /\ r.drill_id = id /\ r.pc \in {"list", "remove"}
      /\ r.revoked => r.pc = "list"
  BY DEF TypeOK, Held, PC
<1> HIDE DEF r
<1>3. /\ drill[d].pc = "set" /\ drill'[d] = r
      /\ \A e \in Drill : e # d => drill'[e] = drill[e]
  BY <1>1, <1>2, GoesFacts DEF r
<1>4. OwnPlaceholders'
  BY <1>2, <1>3, PlaceholdersKept DEF BindingInv
<1>5. ~Asked(d) /\ ~Removed(d) /\ Asked(d)'
  BY <1>2, <1>3 DEF Asked, Removed
<1>6. /\ \A b \in bindings' \ bindings : b = <<id, d>> /\ late' = late
      /\ late' \subseteq late \cup {SetCustom(id, d)}
  BY <1>0, <1>1, CommandTypes, RunFacts DEF SetCustom
<1>7. SetCustom(id, d) \notin late
  BY <1>5 DEF BindingInv, LateMade, SetCustom
<1>8. \A b \in bindings : SetCustom(b[1], b[2]) # SetCustom(id, d)
  BY <1>5, PairParts DEF BindingInv, BindingsMade, SetCustom
<1>9. \A b \in bindings' \ bindings : SetCustom(b[1], b[2]) \notin late'
  BY <1>6, <1>7
<1>10. \A b \in bindings : SetCustom(b[1], b[2]) \in late' => SetCustom(b[1], b[2]) \in late
  BY <1>6, <1>8
<1>11. \A b \in bindings' : b \in bindings \/ (b = <<id, d>> /\ drill[d].pc = "set" /\ Asked(d)')
  BY <1>3, <1>5, <1>6
<1>12. \A c \in late' : c \in late \/ (c = SetCustom(id, d) /\ drill[d].pc = "set" /\ Asked(d)')
  BY <1>3, <1>5, <1>6
<1>13. drill'[d].revoked => drill'[d].pc = "list"
  BY <1>2, <1>3
<1>14. drill'[d].pc # "idle" /\ drill'[d].drill_id = id
  BY <1>2, <1>3
<1> HIDE DEF BindingInv, SetCustom
<1>15. QED
  BY <1>3, <1>4, <1>5, <1>9, <1>10, <1>11, <1>12, <1>13, <1>14, DrillKeepsBindings

\* A drill that removes its binding sets none.
LEMMA RemoveBindingKeeps ==
  ASSUME TypeOK, TypeOK', BindingInv, NEW d \in Drill, RemoveBinding(d)
  PROVE  BindingInv'
<1> DEFINE id == drill[d].drill_id
<1>0. id \in Second
  BY DEF TypeOK
<1>1. PICK ok \in BOOLEAN :
        /\ Goes(d, "remove", [drill[d] EXCEPT !.pc = "relist", !.revoked = @ /\ ok])
        /\ Run(Remove(id), ok)
  BY DEF RemoveBinding
<1> DEFINE r == [drill[d] EXCEPT !.pc = "relist", !.revoked = @ /\ ok]
<1>2. /\ r \in Held /\ r.drill_id = id /\ r.pc = "relist"
      /\ r.revoked => drill[d].revoked
  BY DEF TypeOK, Held, PC
<1> HIDE DEF r
<1>3. /\ drill[d].pc = "remove" /\ drill'[d] = r
      /\ \A e \in Drill : e # d => drill'[e] = drill[e]
  BY <1>1, <1>2, GoesFacts DEF r
<1>4. OwnPlaceholders'
  BY <1>2, <1>3, PlaceholdersKept DEF BindingInv
<1>5. Asked(d) /\ ~Removed(d) /\ Asked(d)' /\ Removed(d)'
  BY <1>2, <1>3 DEF Asked, Removed
<1>6. bindings' \ bindings = {} /\ late' \subseteq late \cup {Remove(id)}
  BY <1>0, <1>1, CommandTypes, RunFacts DEF Remove
<1>7. \A p, e : SetCustom(p, e) \in late' => SetCustom(p, e) \in late
  BY <1>6 DEF SetCustom, Remove
<1>8. drill'[d].revoked =>
        /\ drill'[d].pc = "relist" /\ SetCustom(drill'[d].drill_id, d) \notin late'
  BY <1>2, <1>3, <1>7 DEF BindingInv, Revoking
<1>9. \A c \in late' : c \in late \/ (c = Remove(id) /\ drill[d].pc = "remove" /\ Removed(d)')
  BY <1>3, <1>5, <1>6
<1>10. drill[d].pc # "idle" /\ drill'[d].pc # "idle" /\ drill'[d].drill_id = id
  BY <1>2, <1>3
<1> HIDE DEF BindingInv, SetCustom, Remove
<1>11. QED
  BY <1>3, <1>4, <1>5, <1>6, <1>7, <1>8, <1>9, <1>10, DrillKeepsBindings

\* A drill that stops the sandbox touches no binding.
LEMMA StopSandboxKeeps ==
  ASSUME TypeOK, TypeOK', BindingInv, NEW d \in Drill, StopSandbox(d)
  PROVE  BindingInv'
<1>1. PICK ok \in BOOLEAN :
        /\ Goes(d, "stop", [drill[d] EXCEPT !.pc = "observe", !.stopped = ok])
        /\ Run(Stop, ok)
  BY DEF StopSandbox
<1> DEFINE r == [drill[d] EXCEPT !.pc = "observe", !.stopped = ok]
<1>2. /\ r \in Held /\ r.drill_id = drill[d].drill_id /\ r.pc = "observe"
      /\ r.revoked = drill[d].revoked
  BY DEF TypeOK, Held, PC
<1> HIDE DEF r
<1>3. /\ drill[d].pc = "stop" /\ drill'[d] = r
      /\ \A e \in Drill : e # d => drill'[e] = drill[e]
  BY <1>1, <1>2, GoesFacts DEF r
<1>4. OwnPlaceholders'
  BY <1>2, <1>3, PlaceholdersKept DEF BindingInv
<1>5. Asked(d) /\ Asked(d)' /\ Removed(d)'
  BY <1>2, <1>3 DEF Asked, Removed
<1>6. bindings' \ bindings = {} /\ late' \subseteq late \cup {Stop}
  BY <1>1, RunFacts DEF Stop, Command
<1>7. \A p, e : SetCustom(p, e) \in late' => SetCustom(p, e) \in late
  BY <1>6 DEF SetCustom, Stop
<1>8. Live(d)' => Live(d)
  BY <1>6 DEF Live, Stop
<1>9. drill'[d].revoked => drill'[d].pc = "observe" /\ ~Live(d)'
  BY <1>2, <1>3, <1>8 DEF BindingInv, Revoking
<1>10. \A c \in late' : c \in late \/ c.command = "stop"
  BY <1>6 DEF Stop
<1>11. drill[d].pc # "idle" /\ drill'[d].pc # "idle" /\ drill'[d].drill_id = drill[d].drill_id
  BY <1>2, <1>3
<1> HIDE DEF BindingInv, SetCustom
<1>12. QED
  BY <1>3, <1>4, <1>5, <1>6, <1>7, <1>9, <1>10, <1>11, DrillKeepsBindings

\* A command that lands late makes the binding it was given for, or takes some away.
LEMMA LandKeeps ==
  ASSUME TypeOK, TypeOK', BindingInv, Land
  PROVE  BindingInv'
<1>1. PICK c \in late : CarryOut(c) /\ late' = late \ {c}
  BY DEF Land
<1>2. drill' = drill
  BY DEF Land
<1>3. \A b \in bindings' : b \in bindings
        \/ (c.command = "set-custom" /\ b = <<c.placeholder, c.by>>)
  BY <1>1 DEF CarryOut, TypeOK, Command, Stop
<1>4. OwnPlaceholders' /\ LateMade'
  BY <1>1, <1>2 DEF BindingInv, OwnPlaceholders, LateMade, Asked, Removed
<1>5. BindingsMade'
  <2> SUFFICES ASSUME NEW b \in bindings'
               PROVE  /\ Asked(b[2]) /\ drill[b[2]].drill_id = b[1]
                      /\ SetCustom(b[1], b[2]) \notin late'
    BY <1>2 DEF BindingsMade, Asked, SetCustom
  <2>1. CASE b \in bindings
    BY <1>1, <2>1 DEF BindingInv, BindingsMade
  <2>2. CASE c.command = "set-custom" /\ b = <<c.placeholder, c.by>>
    BY <1>1, <2>2, SetCustomParts DEF BindingInv, LateMade
  <2>3. QED
    BY <1>3, <2>1, <2>2
<1>6. \A d \in Drill : Live(d)' => Live(d)
  BY <1>1, <1>3 DEF Live
<1>7. Revoking'
  BY <1>1, <1>2, <1>6 DEF BindingInv, Revoking, Asked, SetCustom
<1>8. QED
  BY <1>4, <1>5, <1>7 DEF BindingInv

\* Drills in seconds of their own keep the bindings apart.
LEMMA BindingsKept ==
  ASSUME UniqueSecond, TypeOK, BindingInv, [Next]_vars
  PROVE  BindingInv'
<1>0. TypeOK'
  BY TypesKept
<1>1. CASE UNCHANGED <<bindings, late, drill>>
  BY <1>1 DEF BindingInv, OwnPlaceholders, BindingsMade, LateMade, Revoking, Asked, Removed,
              Live, SetCustom
<1>2. CASE Land
  BY <1>0, <1>2, LandKeeps
<1>3. ASSUME NEW d \in Drill, Step(d) \/ Crash(d)
      PROVE  BindingInv'
  <2>1. drill[d] \in Held /\ drill[d].drill_id \in Second
    BY DEF TypeOK, Held
  <2>2. \A b \in bindings : b[1] = drill[d].drill_id /\ drill[d].pc # "idle" =>
          b = <<drill[d].drill_id, d>>
    BY PairParts DEF BindingInv, BindingsMade, OwnPlaceholders, Asked
  <2>3. CASE Begin(d)
    BY <1>0, <2>3, BeginKeeps
  <2>4. CASE SetBinding(d)
    BY <1>0, <2>4, SetBindingKeeps
  <2>5. CASE ListBinding(d)
    <3>1. PICK ok \in BOOLEAN :
            Goes(d, "list", [drill[d] EXCEPT !.pc = "remove", !.revoked = @ /\ Shows(d, ok)])
      BY <2>5 DEF ListBinding
    <3> DEFINE r == [drill[d] EXCEPT !.pc = "remove", !.revoked = @ /\ Shows(d, ok)]
    <3>2. /\ r \in Held /\ r.pc = "remove" /\ r.drill_id = drill[d].drill_id
          /\ r.revoked => Shows(d, ok)
      BY <2>1 DEF Held, PC
    <3> HIDE DEF r
    <3>3. drill[d].pc = "list"
      BY <3>1 DEF Goes
    <3>4. r.revoked => SetCustom(drill[d].drill_id, d) \notin late
      BY <2>2, <3>2, <3>3 DEF Shows, BindingInv, BindingsMade
    <3>5. UNCHANGED <<bindings, late>>
      BY <2>5 DEF ListBinding, Unchanged
    <3>6. Goes(d, "list", r)
      BY <3>1 DEF r
    <3>7. QED
      BY <1>0, <3>2, <3>3, <3>4, <3>5, <3>6, QuietKeeps DEF Removed
  <2>6. CASE RemoveBinding(d)
    BY <1>0, <2>6, RemoveBindingKeeps
  <2>7. CASE ListAgain(d)
    <3>1. PICK ok \in BOOLEAN :
            Goes(d, "relist", [drill[d] EXCEPT !.pc = "stop",
                                               !.revoked = @ /\ ok /\ ~Shows(d, ok)])
      BY <2>7 DEF ListAgain
    <3> DEFINE r == [drill[d] EXCEPT !.pc = "stop", !.revoked = @ /\ ok /\ ~Shows(d, ok)]
    <3>2. /\ r \in Held /\ r.pc = "stop" /\ r.drill_id = drill[d].drill_id
          /\ r.revoked => drill[d].revoked /\ ok /\ ~Shows(d, ok)
      BY <2>1 DEF Held, PC
    <3> HIDE DEF r
    <3>3. drill[d].pc = "relist"
      BY <3>1 DEF Goes
    <3>4. r.revoked => SetCustom(drill[d].drill_id, d) \notin late
      BY <3>2, <3>3 DEF BindingInv, Revoking
    <3>5. r.revoked => <<drill[d].drill_id, d>> \notin bindings
      BY <3>2 DEF Shows
    <3>6. r.revoked => ~Live(d)
      BY <3>4, <3>5, LiveIsOwn
    <3>7. UNCHANGED <<bindings, late>>
      BY <2>7 DEF ListAgain, Unchanged
    <3>8. Goes(d, "relist", r)
      BY <3>1 DEF r
    <3>9. QED
      BY <1>0, <3>2, <3>3, <3>6, <3>7, <3>8, QuietKeeps DEF Removed
  <2>8. CASE StopSandbox(d)
    BY <1>0, <2>8, StopSandboxKeeps
  <2>9. CASE Observe(d)
    <3>1. PICK parsed \in BOOLEAN :
            Goes(d, "observe", [drill[d] EXCEPT !.pc = "write",
                                                !.stopped = @ /\ parsed /\ ~running])
      BY <2>9 DEF Observe
    <3> DEFINE r == [drill[d] EXCEPT !.pc = "write", !.stopped = @ /\ parsed /\ ~running]
    <3>2. /\ r \in Held /\ r.pc = "write" /\ r.drill_id = drill[d].drill_id
          /\ r.revoked = drill[d].revoked
      BY <2>1 DEF Held, PC
    <3> HIDE DEF r
    <3>3. drill[d].pc = "observe"
      BY <3>1 DEF Goes
    <3>4. r.revoked => ~Live(d)
      BY <3>2, <3>3 DEF BindingInv, Revoking
    <3>5. UNCHANGED <<bindings, late>>
      BY <2>9 DEF Observe, Unchanged
    <3>6. Goes(d, "observe", r)
      BY <3>1 DEF r
    <3>7. QED
      BY <1>0, <3>2, <3>3, <3>4, <3>5, <3>6, QuietKeeps DEF Removed
  <2>10. CASE WriteEvidence(d)
    <3> DEFINE r == [drill[d] EXCEPT !.pc = "done"]
    <3>1. Goes(d, "write", r) /\ UNCHANGED <<bindings, late>>
      BY <2>10 DEF WriteEvidence
    <3>2. /\ r \in Held /\ r.pc = "done" /\ r.drill_id = drill[d].drill_id
          /\ r.revoked = drill[d].revoked
      BY <2>1 DEF Held, PC
    <3> HIDE DEF r
    <3>3. drill[d].pc = "write"
      BY <3>1 DEF Goes
    <3>4. r.revoked => ~Live(d)
      BY <3>2, <3>3 DEF BindingInv, Revoking
    <3>5. QED
      BY <1>0, <3>1, <3>2, <3>3, <3>4, QuietKeeps DEF Removed
  <2>11. CASE Crash(d)
    <3> DEFINE r == [drill[d] EXCEPT !.pc = "crashed"]
    <3>1. Goes(d, drill[d].pc, r) /\ UNCHANGED <<bindings, late>> /\ drill[d].pc # "idle"
      BY <2>11 DEF Crash
    <3>2. /\ r \in Held /\ r.pc = "crashed" /\ r.drill_id = drill[d].drill_id
          /\ r.revoked = drill[d].revoked
      BY <2>1 DEF Held, PC
    <3> HIDE DEF r
    <3>3. QED
      BY <1>0, <3>1, <3>2, QuietKeeps DEF Removed
  <2>12. QED
    BY <1>3, <2>3, <2>4, <2>5, <2>6, <2>7, <2>8, <2>9, <2>10, <2>11 DEF Step
<1>4. CASE Tick \/ Restart
  BY <1>1, <1>4 DEF Tick, Restart
<1>5. QED
  BY <1>1, <1>2, <1>3, <1>4 DEF Next, vars

\* Where a step of a drill takes its memory, with respect to the stop.
LEMMA StopMemory ==
  ASSUME TypeOK, NEW d \in Drill, Step(d) \/ Crash(d)
  PROVE  \E r \in Held :
           /\ Goes(d, drill[d].pc, r)
           /\ drill[d].pc \notin {"done", "crashed"}
           /\ r.stopped =>
                /\ r.pc \in {"observe", "write", "done", "crashed"}
                   \/ (drill[d].stopped /\ drill[d].pc \notin {"observe", "write", "done", "crashed"})
                /\ r.pc \in {"write", "done"} =>
                     ~running \/ (drill[d].stopped /\ drill[d].pc # "observe")
<1>0. drill[d] \in Held /\ now \in Second
  BY DEF TypeOK, Held
<1>1. CASE Begin(d)
  <2> DEFINE pc == IF drill[d].options.dry_run THEN "write"
                   ELSE IF drill[d].options.revoke THEN "set" ELSE "stop"
             r == [drill[d] EXCEPT !.pc = pc, !.drill_id = now]
  <2>1. Goes(d, drill[d].pc, r) /\ drill[d].pc = "idle"
    BY <1>1 DEF Begin, Goes
  <2>2. r \in Held /\ r.stopped = drill[d].stopped
    BY <1>0 DEF Held, PC
  <2> HIDE DEF r
  <2>3. QED
    BY <2>1, <2>2
<1>2. CASE SetBinding(d)
  <2>1. PICK ok \in BOOLEAN :
          Goes(d, "set", [drill[d] EXCEPT !.pc = IF ok THEN "list" ELSE "remove", !.revoked = ok])
    BY <1>2 DEF SetBinding
  <2> DEFINE r == [drill[d] EXCEPT !.pc = IF ok THEN "list" ELSE "remove", !.revoked = ok]
  <2>2. r \in Held /\ r.stopped = drill[d].stopped /\ r.pc \in {"list", "remove"}
    BY <1>0 DEF Held, PC
  <2>3. Goes(d, drill[d].pc, r) /\ drill[d].pc = "set"
    BY <2>1 DEF Goes
  <2> HIDE DEF r
  <2>4. QED
    BY <2>2, <2>3
<1>3. CASE ListBinding(d)
  <2>1. PICK ok \in BOOLEAN :
          Goes(d, "list", [drill[d] EXCEPT !.pc = "remove", !.revoked = @ /\ Shows(d, ok)])
    BY <1>3 DEF ListBinding
  <2> DEFINE r == [drill[d] EXCEPT !.pc = "remove", !.revoked = @ /\ Shows(d, ok)]
  <2>2. r \in Held /\ r.stopped = drill[d].stopped /\ r.pc = "remove"
    BY <1>0 DEF Held, PC
  <2>3. Goes(d, drill[d].pc, r) /\ drill[d].pc = "list"
    BY <2>1 DEF Goes
  <2> HIDE DEF r
  <2>4. QED
    BY <2>2, <2>3
<1>4. CASE RemoveBinding(d)
  <2>1. PICK ok \in BOOLEAN :
          Goes(d, "remove", [drill[d] EXCEPT !.pc = "relist", !.revoked = @ /\ ok])
    BY <1>4 DEF RemoveBinding
  <2> DEFINE r == [drill[d] EXCEPT !.pc = "relist", !.revoked = @ /\ ok]
  <2>2. r \in Held /\ r.stopped = drill[d].stopped /\ r.pc = "relist"
    BY <1>0 DEF Held, PC
  <2>3. Goes(d, drill[d].pc, r) /\ drill[d].pc = "remove"
    BY <2>1 DEF Goes
  <2> HIDE DEF r
  <2>4. QED
    BY <2>2, <2>3
<1>5. CASE ListAgain(d)
  <2>1. PICK ok \in BOOLEAN :
          Goes(d, "relist", [drill[d] EXCEPT !.pc = "stop",
                                             !.revoked = @ /\ ok /\ ~Shows(d, ok)])
    BY <1>5 DEF ListAgain
  <2> DEFINE r == [drill[d] EXCEPT !.pc = "stop", !.revoked = @ /\ ok /\ ~Shows(d, ok)]
  <2>2. r \in Held /\ r.stopped = drill[d].stopped /\ r.pc = "stop"
    BY <1>0 DEF Held, PC
  <2>3. Goes(d, drill[d].pc, r) /\ drill[d].pc = "relist"
    BY <2>1 DEF Goes
  <2> HIDE DEF r
  <2>4. QED
    BY <2>2, <2>3
<1>6. CASE StopSandbox(d)
  <2>1. PICK ok \in BOOLEAN :
          Goes(d, "stop", [drill[d] EXCEPT !.pc = "observe", !.stopped = ok])
    BY <1>6 DEF StopSandbox
  <2> DEFINE r == [drill[d] EXCEPT !.pc = "observe", !.stopped = ok]
  <2>2. r \in Held /\ r.pc = "observe"
    BY <1>0 DEF Held, PC
  <2>3. Goes(d, drill[d].pc, r) /\ drill[d].pc = "stop"
    BY <2>1 DEF Goes
  <2> HIDE DEF r
  <2>4. QED
    BY <2>2, <2>3
<1>7. CASE Observe(d)
  <2>1. PICK parsed \in BOOLEAN :
          Goes(d, "observe", [drill[d] EXCEPT !.pc = "write",
                                              !.stopped = @ /\ parsed /\ ~running])
    BY <1>7 DEF Observe
  <2> DEFINE r == [drill[d] EXCEPT !.pc = "write", !.stopped = @ /\ parsed /\ ~running]
  <2>2. r \in Held /\ r.pc = "write" /\ (r.stopped => ~running)
    BY <1>0 DEF Held, PC
  <2>3. Goes(d, drill[d].pc, r) /\ drill[d].pc = "observe"
    BY <2>1 DEF Goes
  <2> HIDE DEF r
  <2>4. QED
    BY <2>2, <2>3
<1>8. CASE WriteEvidence(d)
  <2> DEFINE r == [drill[d] EXCEPT !.pc = "done"]
  <2>1. r \in Held /\ r.pc = "done" /\ r.stopped = drill[d].stopped
    BY <1>0 DEF Held, PC
  <2>2. Goes(d, drill[d].pc, r) /\ drill[d].pc = "write"
    BY <1>8 DEF WriteEvidence, Goes
  <2> HIDE DEF r
  <2>3. QED
    BY <2>1, <2>2
<1>9. CASE Crash(d)
  <2> DEFINE r == [drill[d] EXCEPT !.pc = "crashed"]
  <2>1. r \in Held /\ r.pc = "crashed"
    BY <1>0 DEF Held, PC
  <2>2. Goes(d, drill[d].pc, r) /\ drill[d].pc \notin {"done", "crashed"}
    BY <1>9 DEF Crash, Goes
  <2> HIDE DEF r
  <2>3. QED
    BY <2>1, <2>2
<1>10. QED
  BY <1>1, <1>2, <1>3, <1>4, <1>5, <1>6, <1>7, <1>8, <1>9 DEF Step

\* No step of a drill starts the sandbox.
LEMMA DrillsStop ==
  ASSUME NEW d \in Drill, Step(d) \/ Crash(d)
  PROVE  running' => running
BY DEF Step, Begin, SetBinding, ListBinding, RemoveBinding, ListAgain, StopSandbox,
       Observe, WriteEvidence, Crash, Unchanged, Run, CarryOut

\* The sandbox that a drill saw stopped stays stopped until it is started again.
LEMMA StoppingKept ==
  ASSUME TypeOK, Stopping, [Next]_vars
  PROVE  Stopping'
<1>1. CASE UNCHANGED <<running, drill, since>>
  BY <1>1 DEF Stopping
<1>2. CASE Land
  BY <1>2 DEF Land, CarryOut, Stopping
<1>3. CASE Restart
  BY <1>3 DEF Restart, Stopping
<1>4. ASSUME NEW d \in Drill, Step(d) \/ Crash(d)
      PROVE  Stopping'
  <2>1. PICK r \in Held :
          /\ Goes(d, drill[d].pc, r)
          /\ drill[d].pc \notin {"done", "crashed"}
          /\ r.stopped =>
               /\ r.pc \in {"observe", "write", "done", "crashed"}
                  \/ (drill[d].stopped /\ drill[d].pc \notin {"observe", "write", "done", "crashed"})
               /\ r.pc \in {"write", "done"} =>
                    ~running \/ (drill[d].stopped /\ drill[d].pc # "observe")
    BY <1>4, StopMemory
  <2>2. /\ drill'[d] = r /\ since' = since
        /\ \A e \in Drill : e # d => drill'[e] = drill[e]
    BY <2>1, GoesFacts
  <2>3. running' => running
    BY <1>4, DrillsStop
  <2>4. QED
    BY <2>1, <2>2, <2>3 DEF Stopping
<1>5. CASE Tick
  BY <1>1, <1>5 DEF Tick
<1>6. QED
  BY <1>1, <1>2, <1>3, <1>4, <1>5 DEF Next, vars

\* Evidence is written by the drill it names, at that drill's end, and says what the
\* drill holds from then on.
LEMMA EvidenceKept ==
  ASSUME TypeOK, EvidenceMade, [Next]_vars
  PROVE  EvidenceMade'
<1>1. CASE UNCHANGED <<drill, evidence>>
  BY <1>1 DEF EvidenceMade
<1>2. ASSUME NEW d \in Drill, Step(d) \/ Crash(d)
      PROVE  EvidenceMade'
  <2>1. PICK r \in Held : Goes(d, drill[d].pc, r) /\ drill[d].pc \notin {"done", "crashed"}
    BY <1>2, StopMemory
  <2>2. drill'[d] = r /\ \A e \in Drill : e # d => drill'[e] = drill[e]
    BY <2>1, GoesFacts
  <2>3. \A p \in OutputPath : evidence[p].state = "whole" =>
          evidence[p].by # d /\ evidence[p].by \in Drill
    BY <2>1 DEF EvidenceMade, TypeOK, EvidenceFile, NoEvidence, TornEvidence
  <2>4. CASE UNCHANGED evidence
    BY <2>2, <2>3, <2>4 DEF EvidenceMade
  <2>5. CASE WriteEvidence(d)
    <3>1. /\ drill'[d].pc = "done" /\ drill'[d].drill_id = drill[d].drill_id
          /\ drill'[d].stopped = drill[d].stopped /\ drill'[d].revoked = drill[d].revoked
      BY <2>5 DEF WriteEvidence, Goes, TypeOK
    <3>2. \A p \in OutputPath : evidence'[p] = evidence[p]
            \/ evidence'[p] = Result(d, drill[d].drill_id, drill[d].stopped, drill[d].revoked)
      BY <2>5 DEF WriteEvidence, TypeOK
    <3>3. QED
      BY <2>2, <2>3, <3>1, <3>2 DEF EvidenceMade, Result
  <2>6. CASE Crash(d)
    <3>1. \A p \in OutputPath : evidence'[p] = evidence[p] \/ evidence'[p] = TornEvidence
      BY <2>6 DEF Crash, TypeOK
    <3>2. QED
      BY <2>2, <2>3, <3>1 DEF EvidenceMade, TornEvidence
  <2>7. QED
    BY <1>2, <2>4, <2>5, <2>6 DEF Step, Begin, SetBinding, ListBinding, RemoveBinding,
                                  ListAgain, StopSandbox, Observe, Unchanged
<1>3. CASE Tick \/ Land \/ Restart
  BY <1>1, <1>3 DEF Tick, Land, Restart
<1>4. QED
  BY <1>1, <1>2, <1>3 DEF Next, vars

---------------------------------------------------------------------------
(* The theorems *)

\* What a drill's evidence can say is what its drill held.
LEMMA RevokedFollows ==
  ASSUME TypeOK, BindingInv, EvidenceMade
  PROVE  RevokedIsGone
BY DEF TypeOK, EvidenceFile, NoEvidence, TornEvidence, BindingInv, Revoking, EvidenceMade,
       RevokedIsGone

\* The same of the sandbox.
LEMMA StoppedFollows ==
  ASSUME TypeOK, Stopping, EvidenceMade
  PROVE  StoppedUntilRestart
BY DEF TypeOK, EvidenceFile, NoEvidence, TornEvidence, Stopping, EvidenceMade,
       StoppedUntilRestart

\* All of it holds at the beginning.
LEMMA InvBegins ==
  ASSUME Init
  PROVE  TypeOK /\ BindingInv /\ Stopping /\ EvidenceMade
<1>1. TypeOK
  BY TypesBegin
<1>2. \A d \in Drill : drill[d].pc = "idle" /\ ~drill[d].revoked /\ ~drill[d].stopped
  BY DEF Init, Idle
<1>3. BindingInv
  BY <1>2 DEF Init, BindingInv, OwnPlaceholders, BindingsMade, LateMade, Revoking
<1>4. Stopping /\ EvidenceMade
  BY <1>2 DEF Init, Stopping, EvidenceMade, NoEvidence
<1>5. QED
  BY <1>1, <1>3, <1>4

\* The sandbox, the commands under way, the drills and the evidence have their types.
THEOREM DrillTypeCorrect == Spec => []TypeOK
<1>1. Init => TypeOK
  BY TypesBegin
<1>2. TypeOK /\ [Next]_vars => TypeOK'
  BY TypesKept
<1>3. QED
  BY <1>1, <1>2, PTL DEF Spec

\* What holds at the end of the drills, whenever they begin.
LEMMA StopInvariant == Spec => [](TypeOK /\ Stopping /\ EvidenceMade)
<1>1. Init => TypeOK /\ Stopping /\ EvidenceMade
  BY InvBegins
<1>2. TypeOK /\ Stopping /\ EvidenceMade /\ [Next]_vars => (TypeOK /\ Stopping /\ EvidenceMade)'
  BY TypesKept, StoppingKept, EvidenceKept
<1>3. QED
  BY <1>1, <1>2, PTL DEF Spec

\* Evidence that says the sandbox was stopped is true until somebody starts it again,
\* with any number of drills at once, in one second or not: the return code of the
\* stop proves nothing, what the listing shows afterwards does.
THEOREM StoppedEvidenceStaysTrue == Spec => []StoppedUntilRestart
<1>1. TypeOK /\ Stopping /\ EvidenceMade => StoppedUntilRestart
  BY StoppedFollows
<1>2. QED
  BY <1>1, StopInvariant, PTL

\* What holds of the bindings when no two drills begin in one second.
LEMMA BindingInvariant ==
  ASSUME UniqueSecond
  PROVE  Spec => [](TypeOK /\ BindingInv)
<1>1. Init => TypeOK /\ BindingInv
  BY InvBegins
<1>2. TypeOK /\ BindingInv /\ [Next]_vars => (TypeOK /\ BindingInv)'
  BY TypesKept, BindingsKept
<1>3. QED
  BY <1>1, <1>2, PTL DEF Spec

\* What the evidence says of the credential and of the sandbox stays true, although
\* commands time out and land late: for drills that begin in seconds of their own.
THEOREM EvidenceIsTrueForGood ==
  ASSUME UniqueSecond
  PROVE  Spec => []EvidenceStaysTrue
<1>1. TypeOK /\ BindingInv /\ Stopping /\ EvidenceMade => EvidenceStaysTrue
  BY RevokedFollows, StoppedFollows DEF EvidenceStaysTrue
<1>2. QED
  BY <1>1, BindingInvariant, StopInvariant, PTL

\* A binding disappears only when its own drill asked for its removal.
LEMMA RemovalIsAskedFor ==
  ASSUME TypeOK, BindingInv, [Next]_vars
  PROVE  \A b \in bindings \ bindings' :
           drill'[b[2]].pc \notin {"idle", "set", "list", "remove"}
<1> SUFFICES ASSUME NEW b \in bindings, b \notin bindings'
             PROVE  drill'[b[2]].pc \notin {"idle", "set", "list", "remove"}
  OBVIOUS
<1>1. b[2] \in Drill /\ Asked(b[2]) /\ drill[b[2]].drill_id = b[1]
  BY PairParts DEF BindingInv, BindingsMade
<1>2. CASE Land
  <2>1. PICK c \in late : CarryOut(c)
    BY <1>2 DEF Land
  <2>2. c.command = "rm" /\ c.placeholder = b[1]
    BY <2>1 DEF CarryOut, TypeOK, Command, Stop
  <2>3. PICK d \in Drill : Removed(d) /\ drill[d].drill_id = b[1]
    BY <2>2 DEF BindingInv, LateMade
  <2>4. d = b[2]
    BY <1>1, <2>3 DEF BindingInv, OwnPlaceholders, Asked, Removed
  <2>5. QED
    BY <1>2, <2>3, <2>4 DEF Land, Removed
<1>3. ASSUME NEW d \in Drill, Step(d) \/ Crash(d)
      PROVE  drill'[b[2]].pc \notin {"idle", "set", "list", "remove"}
  <2>1. CASE RemoveBinding(d)
    <3>1. PICK ok \in BOOLEAN :
            /\ Goes(d, "remove", [drill[d] EXCEPT !.pc = "relist", !.revoked = @ /\ ok])
            /\ Run(Remove(drill[d].drill_id), ok)
      BY <2>1 DEF RemoveBinding
    <3>2. CarryOut(Remove(drill[d].drill_id))
      BY <3>1 DEF Run
    <3>3. b[1] = drill[d].drill_id
      BY <3>2 DEF CarryOut, Remove
    <3>4. drill[d].pc = "remove" /\ drill'[d].pc = "relist"
      BY <3>1 DEF Goes, TypeOK
    <3>5. d = b[2]
      BY <1>1, <3>3, <3>4 DEF BindingInv, OwnPlaceholders, Asked
    <3>6. QED
      BY <3>4, <3>5
  <2>2. CASE ~RemoveBinding(d)
    BY <1>3, <2>2 DEF Step, Begin, SetBinding, ListBinding, ListAgain, StopSandbox, Observe,
                      WriteEvidence, Crash, Unchanged, Run, CarryOut, SetCustom, Stop
  <2>3. QED
    BY <2>1, <2>2
<1>4. CASE Tick \/ Restart \/ UNCHANGED vars
  BY <1>4 DEF Tick, Restart, vars
<1>5. QED
  BY <1>2, <1>3, <1>4 DEF Next

\* A drill removes only its own placeholder: no step takes a binding away before
\* the drill that made it has asked for its removal, a command that lands late
\* included, for drills that begin in seconds of their own.
THEOREM DrillsRemoveTheirOwn ==
  ASSUME UniqueSecond
  PROVE  Spec => RemovesOnlyItsOwn
<1>1. TypeOK /\ BindingInv /\ [Next]_vars =>
        [\A b \in bindings \ bindings' :
           drill'[b[2]].pc \notin {"idle", "set", "list", "remove"}]_vars
  BY RemovalIsAskedFor
<1>2. QED
  BY <1>1, BindingInvariant, PTL DEF Spec, RemovesOnlyItsOwn

---------------------------------------------------------------------------
(* The links *)

\* Making links leaves the drills as they are: whatever holds of the drills holds
\* of drills among which links are made.
THEOREM LinkingIsHarmless == LinkSpec => Spec
<1>1. LinkInit => Init
  BY DEF LinkInit
<1>2. [LinkNext]_allvars => [Next]_vars
  BY DEF LinkNext, LinkStep, ReadResponse, HashResponse, WriteLink, allvars, vars
<1>3. QED
  BY <1>1, <1>2, PTL DEF LinkSpec, Spec

\* The memory of a linker, and that a link is there only once its linker is done.
Linking == [pc : {"read", "refused", "digest", "write", "done"}, path : OutputPath,
            require : BOOLEAN, response : EvidenceFile, digest : EvidenceFile]

LinksMade ==
  /\ linker \in [Linker -> Linking] /\ DOMAIN links = Linker
  /\ \A l \in Linker : links[l] = NoLink \/ linker[l].pc = "done"

\* A step of one linker.
LEMMA LinkStepTypes ==
  ASSUME TypeOK, LinksMade, NEW l \in Linker, LinkStep(l)
  PROVE  LinksMade'
<1>1. linker[l] \in Linking
  BY DEF LinksMade
<1>2. evidence[linker[l].path] \in EvidenceFile
  BY <1>1 DEF Linking, TypeOK
<1>3. CASE ReadResponse(l)
  <2> DEFINE content == evidence[linker[l].path]
             r == IF VerifyResponseEvidence(content, linker[l].require)
                    THEN [linker[l] EXCEPT !.pc = "digest", !.response = content]
                    ELSE [linker[l] EXCEPT !.pc = "refused"]
  <2>1. r \in Linking
    BY <1>1, <1>2 DEF Linking
  <2>2. /\ linker' = [linker EXCEPT ![l] = r] /\ UNCHANGED links
        /\ linker[l].pc = "read"
    BY <1>3 DEF ReadResponse
  <2> HIDE DEF r
  <2>3. QED
    BY <2>1, <2>2 DEF LinksMade
<1>4. CASE HashResponse(l)
  <2> DEFINE r == [linker[l] EXCEPT !.pc = "write", !.digest = evidence[linker[l].path]]
  <2>1. r \in Linking
    BY <1>1, <1>2 DEF Linking
  <2>2. /\ linker' = [linker EXCEPT ![l] = r] /\ UNCHANGED links
        /\ linker[l].pc = "digest"
    BY <1>1, <1>4 DEF HashResponse, LinksMade, Linking
  <2> HIDE DEF r
  <2>3. QED
    BY <2>1, <2>2 DEF LinksMade
<1>5. CASE WriteLink(l)
  <2> DEFINE r == [linker[l] EXCEPT !.pc = "done"]
  <2>1. r \in Linking /\ r.pc = "done"
    BY <1>1 DEF Linking
  <2>2. linker' = [linker EXCEPT ![l] = r]
    BY <1>5 DEF WriteLink
  <2> HIDE DEF r
  <2>3. /\ linker' \in [Linker -> Linking] /\ linker'[l].pc = "done"
        /\ \A m \in Linker : m # l => linker'[m] = linker[m]
    BY <2>1, <2>2 DEF LinksMade
  <2>4. DOMAIN links' = Linker /\ \A m \in Linker : m # l => links'[m] = links[m]
    BY <1>5 DEF WriteLink, LinksMade
  <2>5. QED
    BY <2>3, <2>4 DEF LinksMade
<1>6. QED
  BY <1>3, <1>4, <1>5 DEF LinkStep

\* The linkers and the links have their types, among the drills.
THEOREM LinkTypeCorrect == LinkSpec => []LinkTypeOK
<1>1. LinkInit /\ TypeOK => LinksMade
  <2> SUFFICES ASSUME LinkInit, TypeOK PROVE LinksMade
    OBVIOUS
  <2>1. PICK path \in [Linker -> OutputPath], require \in [Linker -> BOOLEAN] :
          linker = [l \in Linker |-> [pc |-> "read", path |-> path[l], require |-> require[l],
                                      response |-> NoEvidence, digest |-> NoEvidence]]
    BY DEF LinkInit
  <2>2. QED
    BY <2>1 DEF LinkInit, LinksMade, Linking, EvidenceFile
<1>2. TypeOK /\ LinksMade /\ [LinkNext]_allvars => LinksMade'
  <2> SUFFICES ASSUME TypeOK, LinksMade, [LinkNext]_allvars PROVE LinksMade'
    OBVIOUS
  <2>1. CASE UNCHANGED <<linker, links>>
    BY <2>1 DEF LinksMade
  <2>2. CASE \E l \in Linker : LinkStep(l)
    BY <2>2, LinkStepTypes
  <2>3. QED
    BY <2>1, <2>2 DEF LinkNext, allvars
<1>3. TypeOK /\ LinksMade => LinkTypeOK
  BY DEF LinkTypeOK, LinksMade, Linking
<1>4. LinkSpec => []TypeOK
  BY LinkingIsHarmless, DrillTypeCorrect
<1>5. QED
  BY <1>1, <1>2, <1>3, <1>4, PTL DEF LinkSpec

\* A link that verifies against the response in place makes claims that are true of
\* the sandbox, however often the response was replaced while the link was made, for
\* drills that begin in seconds of their own.
THEOREM VerifiedLinksAreTrue ==
  ASSUME UniqueSecond
  PROVE  LinkSpec => []VerifiedLinkIsTrue
<1>1. EvidenceStaysTrue => VerifiedLinkIsTrue
  BY DEF EvidenceStaysTrue, RevokedIsGone, StoppedUntilRestart, VerifiedLinkIsTrue,
         VerifyResponseLink, VerifyResponseEvidence
<1>2. LinkSpec => []EvidenceStaysTrue
  BY LinkingIsHarmless, EvidenceIsTrueForGood
<1>3. QED
  BY <1>1, <1>2, PTL

=============================================================================
