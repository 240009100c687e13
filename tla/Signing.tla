------------------------------ MODULE Signing ------------------------------
(***************************************************************************)
(* The key pairs and signatures of signing.py: generate_keypair, sign_file *)
(* and verify_signature run by processes that share paths.                 *)
(*                                                                         *)
(* A pair is named after the keygen that made it, and a signature is ideal:*)
(* it is the pair of the signing key and the data signed.  A key file is   *)
(* reserved (created empty, O_EXCL) before anything is written to it.      *)
(***************************************************************************)
EXTENDS Naturals

CONSTANTS Keygen,        \* processes that generate one pair each
          Signer,        \* processes that sign once
          Verifier,      \* processes that verify once
          KeyPath,       \* where keys are written
          SubjectPath,   \* the files that are signed
          OutputPath,    \* where signatures are written
          Data,          \* what a subject can hold
          NoPath         \* no external public key is given

ASSUME PathsDiffer ==
  /\ KeyPath \cap SubjectPath = {} /\ KeyPath \cap OutputPath = {}
  /\ SubjectPath \cap OutputPath = {}
  /\ NoPath \notin KeyPath

Path == KeyPath \cup SubjectPath \cup OutputPath

\* What a file can hold.
Absent        == [kind |-> "absent"]
Partial(k)    == [kind |-> "partial", key |-> k]      \* reserved, or written in part
PrivateKey(k) == [kind |-> "private", key |-> k]
PublicKey(k)  == [kind |-> "public",  key |-> k]
Subject(d)    == [kind |-> "subject", data |-> d]
TornEnvelope  == [kind |-> "torn"]
Envelope(id, key, digest, signature) ==
  [kind |-> "signature", key_id |-> id, public_key |-> key,
   subject_sha256 |-> digest, signature |-> signature]

KeyFiles(k) == {Partial(k), PrivateKey(k), PublicKey(k)}

KeyFile     == UNION {KeyFiles(k) : k \in Keygen}
SubjectFile == {Subject(d) : d \in Data}
SignedFile  == {Envelope(i, k, d, <<s, e>>) : i, k, s \in Keygen, d, e \in Data}
Content     == {Absent, TornEnvelope} \cup KeyFile \cup SubjectFile \cup SignedFile

VARIABLES file,     \* what is on disk
          keygen,   \* each keygen: its two paths and where it is
          signer,   \* each signer: its arguments, the key and the subject it read
          verifier, \* each verifier: its arguments, what it read, its verdict
          signed    \* history: every <<key, data>> signed so far

vars == <<file, keygen, signer, verifier, signed>>

KeygenArgs == {a \in [private : KeyPath, public : KeyPath] : a.private # a.public}
SignerArgs ==
  {a \in [private : KeyPath, subject : SubjectPath, output : Path] :
     a.output \in OutputPath \cup {a.private, a.subject}}
VerifierArgs == [subject : SubjectPath, signature : OutputPath, public : KeyPath \cup {NoPath}]

Init ==
  /\ \E d \in Data : file = [p \in Path |-> IF p \in SubjectPath THEN Subject(d) ELSE Absent]
  /\ \E a \in [Keygen -> KeygenArgs] :
       keygen = [k \in Keygen |-> [pc |-> "check", private |-> a[k].private,
                                   public |-> a[k].public, created |-> {}]]
  /\ \E a \in [Signer -> SignerArgs] :
       signer = [s \in Signer |-> [pc |-> "guard", args |-> a[s], key |-> {}, data |-> {}]]
  /\ \E a \in [Verifier -> VerifierArgs] :
       verifier = [v \in Verifier |-> [pc |-> "read", args |-> a[v], envelope |-> Absent,
                                       external |-> Absent, data |-> {}]]
  /\ signed = {}

---------------------------------------------------------------------------
(* generate_keypair *)

Others == UNCHANGED <<signer, verifier, signed>>

KeygenAt(k, from, to) ==
  keygen[k].pc = from /\ keygen' = [keygen EXCEPT ![k].pc = to]

\* Both destinations must be free; whoever passes may still lose the race.
CheckDestinations(k) ==
  /\ IF file[keygen[k].private] = Absent /\ file[keygen[k].public] = Absent
       THEN KeygenAt(k, "check", "private")
       ELSE KeygenAt(k, "check", "refused")
  /\ UNCHANGED file /\ Others

\* Mutant: the path is noted as created only once its mode is set.
ReserveNotedLate(k, path, from, to) ==
  \/ /\ keygen[k].pc = from /\ file[path] = Absent
     /\ file' = [file EXCEPT ![path] = Partial(k)]
     /\ \/ keygen' = [keygen EXCEPT ![k].pc = to, ![k].created = @ \cup {path}]
        \/ keygen' = [keygen EXCEPT ![k].pc = "withdraw"]
     /\ Others
  \/ /\ KeygenAt(k, from, "withdraw")
     /\ UNCHANGED file /\ Others

\* os.open with O_EXCL, then the mode is set; either may fail.
Reserve(k, path, from, to) ==
  \/ /\ keygen[k].pc = from /\ file[path] = Absent
     /\ \E pc \in {to, "withdraw"} :
          keygen' = [keygen EXCEPT ![k].pc = pc, ![k].created = @ \cup {path}]
     /\ file' = [file EXCEPT ![path] = Partial(k)]
     /\ Others
  \/ /\ KeygenAt(k, from, "withdraw")
     /\ UNCHANGED file /\ Others

ReservePrivate(k) == Reserve(k, keygen[k].private, "private", "public")
ReservePublic(k)  == Reserve(k, keygen[k].public, "public", "write_private")

\* write, flush, fsync: each may fail, and the last one after the whole key is
\* in the file.
WriteKey(k, path, from, to, key) ==
  \/ /\ KeygenAt(k, from, to)
     /\ file' = [file EXCEPT ![path] = key]
     /\ Others
  \/ /\ KeygenAt(k, from, "withdraw")
     /\ file' \in {file, [file EXCEPT ![path] = key]}
     /\ Others

WritePrivate(k) == WriteKey(k, keygen[k].private, "write_private", "write_public", PrivateKey(k))
WritePublic(k)  == WriteKey(k, keygen[k].public, "write_public", "done", PublicKey(k))

\* Mutant: both destinations are unlinked, whoever created them.
WithdrawBoth(k) ==
  /\ KeygenAt(k, "withdraw", "failed")
  /\ file' = [file EXCEPT ![keygen[k].private] = Absent, ![keygen[k].public] = Absent]
  /\ Others

\* What this call created is unlinked, one path at a time, then the error goes up.
Withdraw(k) ==
  /\ keygen[k].pc = "withdraw"
  /\ \/ \E path \in keygen[k].created :
          /\ path = keygen[k].public => keygen[k].private \notin keygen[k].created
          /\ file' = [file EXCEPT ![path] = Absent]
          /\ keygen' = [keygen EXCEPT ![k].created = @ \ {path}]
     \/ /\ keygen[k].created = {}
        /\ keygen' = [keygen EXCEPT ![k].pc = "failed"]
        /\ UNCHANGED file
  /\ Others

\* A keygen that is killed withdraws nothing.
KeygenCrash(k) ==
  /\ keygen[k].pc \notin {"refused", "failed", "done", "crashed"}
  /\ keygen' = [keygen EXCEPT ![k].pc = "crashed"]
  /\ UNCHANGED file /\ Others

KeygenStep(k) ==
  \/ CheckDestinations(k) \/ ReservePrivate(k) \/ ReservePublic(k)
  \/ WritePrivate(k) \/ WritePublic(k) \/ Withdraw(k)

---------------------------------------------------------------------------
(* sign_file *)

\* Mutant: the output may be the private key or the subject.
GuardOutputAny(s) ==
  /\ signer[s].pc = "guard"
  /\ signer' = [signer EXCEPT ![s].pc = "load"]
  /\ UNCHANGED <<file, keygen, verifier, signed>>

\* The output must be neither the subject nor the private key.
GuardOutput(s) ==
  /\ signer[s].pc = "guard"
  /\ signer' = [signer EXCEPT ![s].pc =
       IF signer[s].args.output \in {signer[s].args.subject, signer[s].args.private}
         THEN "failed" ELSE "load"]
  /\ UNCHANGED <<file, keygen, verifier, signed>>

LoadPrivateKey(s) ==
  /\ signer[s].pc = "load"
  /\ LET content == file[signer[s].args.private]
     IN  signer' = [signer EXCEPT ![s] =
           IF content.kind = "private" THEN [@ EXCEPT !.pc = "read", !.key = {content.key}]
                                       ELSE [@ EXCEPT !.pc = "failed"]]
  /\ UNCHANGED <<file, keygen, verifier, signed>>

\* One snapshot of the subject is signed and hashed.
ReadAndSign(s) ==
  /\ signer[s].pc = "read"
  /\ LET d == file[signer[s].args.subject].data
     IN  /\ signer' = [signer EXCEPT ![s].pc = "write", ![s].data = {d}]
         /\ signed' = signed \cup {<<k, d>> : k \in signer[s].key}
  /\ UNCHANGED <<file, keygen, verifier>>

\* The envelope is written; a signer killed meanwhile leaves part of it.
WriteEnvelope(s) ==
  /\ signer[s].pc = "write"
  /\ \E k \in signer[s].key, d \in signer[s].data :
       \/ /\ file' = [file EXCEPT ![signer[s].args.output] = Envelope(k, k, d, <<k, d>>)]
          /\ signer' = [signer EXCEPT ![s].pc = "done"]
       \/ /\ file' = [file EXCEPT ![signer[s].args.output] = TornEnvelope]
          /\ signer' = [signer EXCEPT ![s].pc = "failed"]
  /\ UNCHANGED <<keygen, verifier, signed>>

SignerStep(s) ==
  GuardOutput(s) \/ LoadPrivateKey(s) \/ ReadAndSign(s) \/ WriteEnvelope(s)

---------------------------------------------------------------------------
(* verify_signature *)

\* _load_public_key: the file must be a whole public key.
LoadsPublicKey(content) == content.kind = "public"

\* validate_keypair: both files load, and the public key is the private one's.
ValidateKeypair(private, public) ==
  private.kind = "private" /\ LoadsPublicKey(public) /\ private.key = public.key

\* Mutant: the embedded key verifies, whatever key was supplied.
VerifySignatureEmbedded(envelope, external, data) ==
  /\ envelope.kind = "signature"
  /\ envelope.key_id = envelope.public_key
  /\ envelope.subject_sha256 = data
  /\ envelope.signature = <<envelope.public_key, data>>

\* An external key, when one is given, must be the embedded one, and it is the
\* key the signature is checked with.
VerifySignature(envelope, external, data) ==
  /\ envelope.kind = "signature"
  /\ envelope.key_id = envelope.public_key
  /\ external # Absent => external.key = envelope.public_key
  /\ envelope.subject_sha256 = data
  /\ envelope.signature = <<IF external = Absent THEN envelope.public_key
                                                 ELSE external.key, data>>

ReadEnvelope(v) ==
  /\ verifier[v].pc = "read"
  /\ verifier' = [verifier EXCEPT ![v].pc = "key",
                                  ![v].envelope = file[verifier[v].args.signature]]
  /\ UNCHANGED <<file, keygen, signer, signed>>

\* A public key that does not load is an error, and the verdict is no.
ReadPublicKey(v) ==
  /\ verifier[v].pc = "key"
  /\ LET path == verifier[v].args.public
     IN  verifier' = [verifier EXCEPT ![v] =
           IF path = NoPath THEN [@ EXCEPT !.pc = "subject"]
           ELSE IF LoadsPublicKey(file[path])
             THEN [@ EXCEPT !.pc = "subject", !.external = file[path]]
             ELSE [@ EXCEPT !.pc = "rejected"]]
  /\ UNCHANGED <<file, keygen, signer, signed>>

\* The subject is read once: its digest and its signature are of one snapshot.
ReadSubject(v) ==
  /\ verifier[v].pc = "subject"
  /\ LET d == file[verifier[v].args.subject].data
         ok == VerifySignature(verifier[v].envelope, verifier[v].external, d)
     IN  verifier' = [verifier EXCEPT ![v].pc = IF ok THEN "verified" ELSE "rejected",
                                      ![v].data = {d}]
  /\ UNCHANGED <<file, keygen, signer, signed>>

VerifierStep(v) == ReadEnvelope(v) \/ ReadPublicKey(v) \/ ReadSubject(v)

---------------------------------------------------------------------------
(* The files' other writers *)

\* A subject is written again: a report of a later run.
RewriteSubject(p) ==
  /\ \E d \in Data : d # file[p].data /\ file' = [file EXCEPT ![p] = Subject(d)]
  /\ UNCHANGED <<keygen, signer, verifier, signed>>

\* The readable fields of an envelope are edited; nobody can make a signature.
EditEnvelope(p) ==
  /\ file[p].kind = "signature"
  /\ \E i, k \in Keygen, d \in Data :
       file' = [file EXCEPT ![p] = Envelope(i, k, d, file[p].signature)]
  /\ UNCHANGED <<keygen, signer, verifier, signed>>

Next ==
  \/ \E k \in Keygen : KeygenStep(k) \/ KeygenCrash(k)
  \/ \E s \in Signer : SignerStep(s)
  \/ \E v \in Verifier : VerifierStep(v)
  \/ \E p \in SubjectPath : RewriteSubject(p)
  \/ \E p \in OutputPath : EditEnvelope(p)

Spec == Init /\ [][Next]_vars

---------------------------------------------------------------------------
(* Properties *)

KeygenPC == {"check", "refused", "private", "public", "write_private", "write_public",
             "withdraw", "failed", "done", "crashed"}

KeygenRecord ==
  {r \in [pc : KeygenPC, private : KeyPath, public : KeyPath, created : SUBSET KeyPath] :
     r.private # r.public /\ r.created \subseteq {r.private, r.public}}

\* The values the variables take.
TypeOK ==
  /\ file \in [Path -> Content]
  /\ \A p \in SubjectPath : file[p].kind = "subject"
  /\ keygen \in [Keygen -> KeygenRecord]
  /\ signer \in [Signer -> [pc : {"guard", "load", "read", "write", "failed", "done"},
                            args : SignerArgs, key : SUBSET Keygen, data : SUBSET Data]]
  /\ verifier \in [Verifier -> [pc : {"read", "key", "subject", "rejected", "verified"},
                                args : VerifierArgs, envelope : Content, external : Content,
                                data : SUBSET Data]]
  /\ signed \subseteq Keygen \X Data

\* Once generate_keypair has returned, its two files hold its pair for good: no
\* keygen that races for one of the paths, fails or withdraws, and no signer,
\* replaces or removes either.
ReturnedPairStays ==
  \A k \in Keygen : keygen[k].pc = "done" =>
    /\ ValidateKeypair(file[keygen[k].private], file[keygen[k].public])
    /\ file[keygen[k].private].key = k

\* A keygen that raised leaves no file of its own behind.
FailedKeygenLeavesNothing ==
  \A k \in Keygen : keygen[k].pc \in {"refused", "failed"} =>
    \A p \in Path : file[p] \notin KeyFiles(k)

\* What verifies was signed: by the key of the public key file when one was
\* supplied, however the envelope was edited and whatever changed between the
\* three reads.
VerifiedWasSigned ==
  \A v \in Verifier : verifier[v].pc = "verified" =>
    \A d \in verifier[v].data :
      LET key == IF verifier[v].args.public = NoPath THEN verifier[v].envelope.public_key
                                                     ELSE verifier[v].external.key
      IN  <<key, d>> \in signed

=============================================================================
