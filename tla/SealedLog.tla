------------------------------ MODULE SealedLog ------------------------------
(***************************************************************************)
(* What an evidence directory promises: "Append-only, hash-chained NDJSON  *)
(* ledger for one assessment run" (TraceLedger), which the manifest seals. *)
(* A log only grows, and a sealed one no longer changes.                   *)
(***************************************************************************)
EXTENDS Naturals, Sequences

CONSTANT Id
VARIABLES log, sealed, shared

vars == <<log, sealed, shared>>

Init == log = [r \in Id |-> <<>>] /\ sealed = {} /\ shared = {}

Extends(old, new) ==
  /\ Len(old) <= Len(new)
  /\ \A i \in 1 .. Len(old) : new[i] = old[i]

Extend(r) ==
  /\ r \notin sealed \cup shared
  /\ Extends(log[r], log'[r])
  /\ \A q \in Id \ {r} : log'[q] = log[q]
  /\ UNCHANGED <<sealed, shared>>

Seal(r) ==
  /\ r \notin sealed \cup shared
  /\ sealed' = sealed \cup {r}
  /\ UNCHANGED <<log, shared>>

\* A second run takes the id: nothing is promised of it any more.
Share(r) ==
  /\ r \notin shared
  /\ shared' = shared \cup {r} /\ sealed' = sealed \ {r}
  /\ log' = [log EXCEPT ![r] = <<>>]

Next == \E r \in Id : Extend(r) \/ Seal(r) \/ Share(r)

Spec == Init /\ [][Next]_vars

=============================================================================
