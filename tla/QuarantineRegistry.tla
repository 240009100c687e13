-------------------------- MODULE QuarantineRegistry --------------------------
(***************************************************************************)
(* The quarantine registry of quarantine.py: one NDJSON file that every    *)
(* demo and every `quarantine add` appends to.  It is the sequence of what *)
(* was written to it: a line, or the part of one that an interrupted write *)
(* left, to which the next line is glued.                                  *)
(***************************************************************************)
EXTENDS Naturals, Sequences

\* create_quarantine_entry: the id is the second and the component.
Line(second, component, run, response) ==
  [whole |-> TRUE, quarantine_id |-> <<second, component>>, source_run_id |-> run,
   response_evidence_sha256 |-> response]

Fragment == [whole |-> FALSE]

\* load_registry parses every line or raises.
Loads(registry) == \A i \in 1 .. Len(registry) : registry[i].whole

\* Mutant: ids may come twice.
VerifyRegistryParses(registry) == Loads(registry)

\* verify_registry: a duplicate id is an error wherever it is.
VerifyRegistry(registry) ==
  /\ Loads(registry)
  /\ \A i, j \in 1 .. Len(registry) :
       registry[i].quarantine_id = registry[j].quarantine_id => i = j

\* Piece i is a line of its own and those before it parse.
Readable(registry, i) == Loads(SubSeq(registry, 1, i))

=============================================================================
