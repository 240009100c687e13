---------------------------- MODULE TraceLedger ----------------------------
(***************************************************************************)
(* The hash-chained event ledger of trace.py: the record one append        *)
(* writes, and what verify_trace accepts.                                  *)
(*                                                                         *)
(* SHA-256 is an ideal hash: a digest is represented by its preimage, so   *)
(* two digests are equal exactly when the hashed values are.  An unsigned  *)
(* record holds its predecessor's digest, hence the preimage of a chained  *)
(* digest, flattened, is the sequence of the <<sequence, body>> pairs from *)
(* the first record to this one, and GENESIS_HASH is the empty sequence.   *)
(***************************************************************************)
EXTENDS Naturals, Sequences

CONSTANT Body    \* what a record says: type, actor, action, target, result...

Digest == Seq(Nat \X Body)

GENESIS_HASH == <<>>

Event == [sequence : Nat, body : Body, prev_event_hash : Digest, event_hash : Digest]

\* _event_hash of an unsigned record.
EventHash(sequence, body, prev) == Append(prev, <<sequence, body>>)

\* The record TraceLedger.append writes from its counter and previous_hash.
Record(sequence, body, prev) ==
  [sequence        |-> sequence,
   body            |-> body,
   prev_event_hash |-> prev,
   event_hash      |-> EventHash(sequence, body, prev)]

\* The hash a reader finds in the last record (events is not empty).
HeadHash(events) == events[Len(events)].event_hash

\* What verify_trace compares record i's prev_event_hash with: the hash that
\* record i-1 CARRIES, right or wrong.
ExpectedPrev(events, i) == IF i = 1 THEN GENESIS_HASH ELSE events[i-1].event_hash

SequenceOK(events) == \A i \in 1 .. Len(events) : events[i].sequence = i

\* Mutant: only the first record's link is compared.
LinkOKFirst(events) == events # <<>> => events[1].prev_event_hash = GENESIS_HASH

LinkOK(events) ==
  \A i \in 1 .. Len(events) : events[i].prev_event_hash = ExpectedPrev(events, i)

\* Mutant: only the last record's hash is computed again.
HashOKLast(events) ==
  \A i \in {Len(events)} \ {0} :
    events[i].event_hash =
      EventHash(events[i].sequence, events[i].body, events[i].prev_event_hash)

HashOK(events) ==
  \A i \in 1 .. Len(events) :
    events[i].event_hash =
      EventHash(events[i].sequence, events[i].body, events[i].prev_event_hash)

\* The records give verify_trace no error to report.
ChainOK(events) == SequenceOK(events) /\ LinkOK(events) /\ HashOK(events)

=============================================================================
