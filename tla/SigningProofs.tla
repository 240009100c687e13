---------------------------- MODULE SigningProofs ----------------------------
(***************************************************************************)
(* What Signing promises for any number of keygens, signers, verifiers and *)
(* paths.  The invariant is about ownership: a keygen's `created` is       *)
(* exactly the set of paths that hold a file of its own, so whoever fails  *)
(* to reserve a path cannot touch it, and Withdraw takes nothing else's.   *)
(***************************************************************************)
EXTENDS Signing, TLAPS

\* A keygen's files are the ones it noted as created.
Owns(k) == \A p \in Path : file[p] \in KeyFiles(k) <=> p \in keygen[k].created

\* How far a keygen has come says which files it has and what is in them.
Progress(k) ==
  LET g == keygen[k] IN
    /\ g.pc \in {"check", "refused", "private", "failed"} => g.created = {}
    /\ g.pc = "public" => g.created = {g.private}
    /\ g.pc \in {"write_private", "write_public", "done"} => g.created = {g.private, g.public}
    /\ g.pc \in {"write_public", "done"} => file[g.private] = PrivateKey(k)
    /\ g.pc = "done" => file[g.public] = PublicKey(k)

\* A signer past its guard writes to none of its inputs.
Guarded(s) ==
  /\ signer[s].pc \in {"load", "read", "write", "done"} => signer[s].args.output \in OutputPath
  /\ signer[s].pc = "write" => \A k \in signer[s].key, d \in signer[s].data : <<k, d>> \in signed

\* A signature in an envelope was made.
Genuine(content) == content.kind = "signature" => content.signature \in signed

Checked(v) ==
  LET r == verifier[v] IN
    /\ Genuine(r.envelope)
    /\ r.pc \in {"read", "key"} => r.external = Absent
    /\ r.pc \in {"subject", "verified"} => (r.args.public = NoPath <=> r.external = Absent)
    /\ r.pc = "verified" =>
         \A d \in r.data : VerifySignature(r.envelope, r.external, d)

Inv ==
  /\ TypeOK
  /\ \A k \in Keygen : Owns(k) /\ Progress(k)
  /\ \A s \in Signer : Guarded(s)
  /\ \A p \in Path : Genuine(file[p])
  /\ \A v \in Verifier : Checked(v)

\* What a file holds says whose it is.
LEMMA KeyFilesFacts ==
  ASSUME NEW k \in Keygen
  PROVE  /\ Partial(k) \in Content /\ PrivateKey(k) \in Content /\ PublicKey(k) \in Content
         /\ Absent \in Content /\ TornEnvelope \in Content
         /\ Absent \notin KeyFiles(k) /\ TornEnvelope \notin KeyFiles(k)
         /\ \A d : Subject(d) \notin KeyFiles(k)
         /\ \A i, j, d, s : Envelope(i, j, d, s) \notin KeyFiles(k)
         /\ \A c \in KeyFiles(k) : c.kind \notin {"signature", "subject"} /\ c.key = k
         /\ \A j \in Keygen : j # k => KeyFiles(j) \cap KeyFiles(k) = {}
         /\ Partial(k) \in KeyFiles(k) /\ PrivateKey(k) \in KeyFiles(k) /\ PublicKey(k) \in KeyFiles(k)
<1>1. /\ Partial(k) \in KeyFiles(k) /\ PrivateKey(k) \in KeyFiles(k) /\ PublicKey(k) \in KeyFiles(k)
  BY DEF KeyFiles
<1>2. \A c \in KeyFiles(k) : c \in Content
  BY DEF Content, KeyFile
<1>3. Absent \in Content /\ TornEnvelope \in Content
  BY DEF Content
<1>4. \A c \in KeyFiles(k) : c.kind \in {"partial", "private", "public"} /\ c.key = k
  BY DEF KeyFiles, Partial, PrivateKey, PublicKey
<1>5. /\ Absent.kind = "absent" /\ TornEnvelope.kind = "torn"
      /\ \A d : Subject(d).kind = "subject"
      /\ \A i, j, d, s : Envelope(i, j, d, s).kind = "signature"
  BY DEF Absent, TornEnvelope, Subject, Envelope
<1>6. \A j \in Keygen : \A c \in KeyFiles(j) : c.key = j
  BY DEF KeyFiles, Partial, PrivateKey, PublicKey
<1> QED
  BY <1>1, <1>2, <1>3, <1>4, <1>5, <1>6

\* The initial states satisfy the invariant.
LEMMA InitOK == Init => Inv
<1> SUFFICES ASSUME Init PROVE Inv
  OBVIOUS
<1>f. PICK d \in Data : file = [p \in Path |-> IF p \in SubjectPath THEN Subject(d) ELSE Absent]
  BY DEF Init
<1>k. PICK a \in [Keygen -> KeygenArgs] :
        keygen = [k \in Keygen |-> [pc |-> "check", private |-> a[k].private,
                                    public |-> a[k].public, created |-> {}]]
  BY DEF Init
<1>s. PICK b \in [Signer -> SignerArgs] :
        signer = [s \in Signer |-> [pc |-> "guard", args |-> b[s], key |-> {}, data |-> {}]]
  BY DEF Init
<1>v. PICK c \in [Verifier -> VerifierArgs] :
        verifier = [v \in Verifier |-> [pc |-> "read", args |-> c[v], envelope |-> Absent,
                                        external |-> Absent, data |-> {}]]
  BY DEF Init
<1>1. Subject(d) \in Content /\ Absent \in Content /\ Subject(d).kind = "subject" /\ Absent.kind = "absent"
  BY DEF Content, SubjectFile, Subject, Absent
<1>2. TypeOK
  <2>1. file \in [Path -> Content] /\ \A p \in SubjectPath : file[p].kind = "subject"
    BY <1>f, <1>1 DEF Path
  <2>2. keygen \in [Keygen -> KeygenRecord]
    BY <1>k DEF KeygenArgs, KeygenRecord, KeygenPC
  <2>3. signer \in [Signer -> [pc : {"guard", "load", "read", "write", "failed", "done"},
                               args : SignerArgs, key : SUBSET Keygen, data : SUBSET Data]]
    BY <1>s
  <2>4. verifier \in [Verifier -> [pc : {"read", "key", "subject", "rejected", "verified"},
                                   args : VerifierArgs, envelope : Content, external : Content,
                                   data : SUBSET Data]]
    BY <1>v, <1>1
  <2> QED
    BY <2>1, <2>2, <2>3, <2>4 DEF TypeOK, Init
<1>3. ASSUME NEW k \in Keygen PROVE Owns(k) /\ Progress(k)
  BY <1>f, <1>k, KeyFilesFacts DEF Owns, Progress
<1>4. ASSUME NEW s \in Signer PROVE Guarded(s)
  BY <1>s DEF Guarded
<1>5. ASSUME NEW p \in Path PROVE Genuine(file[p])
  BY <1>f, <1>1 DEF Genuine
<1>6. ASSUME NEW v \in Verifier PROVE Checked(v)
  BY <1>v, <1>1 DEF Checked, Genuine
<1> QED
  BY <1>2, <1>3, <1>4, <1>5, <1>6 DEF Inv

\* A step of keygen k that touches only files of its own, and free paths, keeps
\* the invariant when it keeps k's own part of it.
LEMMA KeygenFrame ==
  ASSUME Inv, NEW k \in Keygen, Others,
         NEW g \in KeygenRecord, keygen' = [keygen EXCEPT ![k] = g],
         file' \in [Path -> Content],
         \A p \in Path : file'[p] # file[p] =>
           file[p] \in KeyFiles(k) \cup {Absent} /\ file'[p] \in KeyFiles(k) \cup {Absent},
         Owns(k)', Progress(k)'
  PROVE  Inv'
<1>1. TypeOK'
  <2>1. \A p \in SubjectPath : file'[p].kind = "subject"
    <3> SUFFICES ASSUME NEW p \in SubjectPath, file'[p] # file[p] PROVE FALSE
      BY DEF Inv, TypeOK
    <3>1. file[p] \in KeyFiles(k) \cup {Absent}
      BY DEF Path
    <3>2. file[p].kind = "subject"
      BY DEF Inv, TypeOK
    <3> QED
      BY <3>1, <3>2, KeyFilesFacts DEF Absent
  <2>2. keygen' \in [Keygen -> KeygenRecord]
    BY DEF Inv, TypeOK
  <2> QED
    BY <2>1, <2>2 DEF Inv, TypeOK, Others
<1>2. ASSUME NEW j \in Keygen PROVE Owns(j)' /\ Progress(j)'
  <2>1. CASE j = k
    BY <2>1
  <2>2. CASE j # k
    <3>1. keygen'[j] = keygen[j]
      BY <2>2 DEF Inv, TypeOK
    <3>2. \A p \in Path : file'[p] # file[p] => file[p] \notin KeyFiles(j) /\ file'[p] \notin KeyFiles(j)
      BY <2>2, KeyFilesFacts
    <3>3. Owns(j) /\ Progress(j)
      BY DEF Inv
    <3>4. Owns(j)'
      BY <3>1, <3>2, <3>3 DEF Owns
    <3>5. keygen[j].private \in Path /\ keygen[j].public \in Path
      BY DEF Inv, TypeOK, KeygenRecord, Path
    <3>6. Progress(j)'
      BY <3>1, <3>2, <3>3, <3>5, KeyFilesFacts DEF Progress
    <3> QED
      BY <3>4, <3>6
  <2> QED
    BY <2>1, <2>2
<1>3. ASSUME NEW s \in Signer PROVE Guarded(s)'
  BY DEF Inv, Guarded, Others
<1>4. ASSUME NEW p \in Path PROVE Genuine(file[p])'
  BY KeyFilesFacts DEF Inv, Genuine, Others, Absent
<1>5. ASSUME NEW v \in Verifier PROVE Checked(v)'
  BY DEF Inv, Checked, Genuine, Others
<1> QED
  BY <1>1, <1>2, <1>3, <1>4, <1>5 DEF Inv

\* What the invariant says of one keygen.
LEMMA KeygenFacts ==
  ASSUME Inv, NEW k \in Keygen
  PROVE  /\ keygen[k] \in KeygenRecord /\ keygen \in [Keygen -> KeygenRecord]
         /\ keygen[k].private \in Path /\ keygen[k].public \in Path
         /\ keygen[k].private # keygen[k].public
         /\ keygen[k].created \subseteq {keygen[k].private, keygen[k].public}
         /\ file \in [Path -> Content]
         /\ Owns(k) /\ Progress(k)
BY DEF Inv, TypeOK, KeygenRecord, Path

\* A step that only moves k's program counter keeps the invariant when what k
\* must have at the new place is there already.
LEMMA MovePC ==
  ASSUME Inv, NEW k \in Keygen, NEW from, NEW to \in KeygenPC, KeygenAt(k, from, to),
         UNCHANGED file, Others, Progress(k)'
  PROVE  Inv'
<1> DEFINE g == [keygen[k] EXCEPT !.pc = to]
<1>1. g \in KeygenRecord /\ keygen' = [keygen EXCEPT ![k] = g]
  BY KeygenFacts DEF KeygenAt, KeygenRecord
<1>2. Owns(k)'
  BY KeygenFacts DEF Owns, KeygenAt
<1> QED
  BY <1>1, <1>2, KeygenFacts, KeygenFrame

\* Looking at the destinations changes no file.
LEMMA CheckDestinationsKeeps ==
  ASSUME Inv, NEW k \in Keygen, CheckDestinations(k) PROVE Inv'
<1>1. PICK to \in {"private", "refused"} : KeygenAt(k, "check", to)
  BY DEF CheckDestinations
<1>2. Progress(k)'
  BY <1>1, KeygenFacts DEF KeygenAt, Progress, CheckDestinations
<1> QED
  BY <1>1, <1>2, MovePC DEF CheckDestinations, KeygenPC

\* A path that is reserved was free, and is the keygen's from then on.
LEMMA ReserveKeeps ==
  ASSUME Inv, NEW k \in Keygen, NEW path \in {keygen[k].private, keygen[k].public},
         NEW from, NEW to \in KeygenPC, Reserve(k, path, from, to),
         keygen[k].pc \notin {"failed", "write_public", "done"},
         from = "private" => path = keygen[k].private /\ to = "public",
         from = "public" => path = keygen[k].public /\ to = "write_private",
         from \in {"private", "public"}
  PROVE  Inv'
<1>0. keygen[k].pc = from
  BY DEF Reserve, KeygenAt
<1>1. CASE /\ file[path] = Absent
           /\ \E pc \in {to, "withdraw"} :
                keygen' = [keygen EXCEPT ![k].pc = pc, ![k].created = @ \cup {path}]
           /\ file' = [file EXCEPT ![path] = Partial(k)]
           /\ Others
  <2>1. PICK pc \in {to, "withdraw"} :
          keygen' = [keygen EXCEPT ![k].pc = pc, ![k].created = @ \cup {path}]
    BY <1>1
  <2> DEFINE g == [keygen[k] EXCEPT !.pc = pc, !.created = @ \cup {path}]
  <2>2. pc \in KeygenPC
    BY DEF KeygenPC
  <2>3. g \in KeygenRecord /\ keygen' = [keygen EXCEPT ![k] = g]
    <3>1. keygen[k] \in KeygenRecord /\ keygen[k].created \cup {path} \in SUBSET KeyPath
      BY KeygenFacts DEF KeygenRecord
    <3>2. g \in KeygenRecord
      BY <3>1, <2>2, KeygenFacts DEF KeygenRecord
    <3> QED
      BY <3>2, <2>1
  <2>4. keygen'[k] = g
    BY <2>3, KeygenFacts
  <2>5. file' \in [Path -> Content]
    BY <1>1, KeygenFacts, KeyFilesFacts
  <2>6. Owns(k)'
    BY <1>1, <2>4, KeygenFacts, KeyFilesFacts DEF Owns
  <2>7. Progress(k)'
    BY <1>0, <1>1, <2>4, KeygenFacts DEF Progress
  <2>8. \A p \in Path : file'[p] # file[p] =>
          file[p] \in KeyFiles(k) \cup {Absent} /\ file'[p] \in KeyFiles(k) \cup {Absent}
    BY <1>1, KeygenFacts, KeyFilesFacts
  <2> QED
    BY <1>1, <2>3, <2>5, <2>6, <2>7, <2>8, KeygenFrame
<1>2. CASE KeygenAt(k, from, "withdraw") /\ UNCHANGED file /\ Others
  <2>1. Progress(k)'
    BY <1>2, KeygenFacts DEF KeygenAt, Progress
  <2> QED
    BY <1>2, <2>1, MovePC DEF KeygenPC
<1> QED
  BY <1>1, <1>2 DEF Reserve

\* Writing a key changes what is in a file the keygen owns.
LEMMA WriteKeyKeeps ==
  ASSUME Inv, NEW k \in Keygen, NEW path \in {keygen[k].private, keygen[k].public},
         NEW from, NEW to \in KeygenPC, NEW key, WriteKey(k, path, from, to, key),
         \/ /\ from = "write_private" /\ path = keygen[k].private
            /\ to = "write_public" /\ key = PrivateKey(k)
         \/ /\ from = "write_public" /\ path = keygen[k].public
            /\ to = "done" /\ key = PublicKey(k)
  PROVE  Inv'
<1>0. keygen[k].pc = from /\ keygen[k].created = {keygen[k].private, keygen[k].public}
  BY KeygenFacts DEF WriteKey, KeygenAt, Progress
<1>1. PICK pc \in {to, "withdraw"} :
        /\ KeygenAt(k, from, pc)
        /\ file' \in {file, [file EXCEPT ![path] = key]}
        /\ pc = to => file' = [file EXCEPT ![path] = key]
        /\ Others
  BY DEF WriteKey
<1> DEFINE g == [keygen[k] EXCEPT !.pc = pc]
<1>2. g \in KeygenRecord /\ keygen' = [keygen EXCEPT ![k] = g]
  BY <1>1, KeygenFacts DEF KeygenRecord, KeygenPC, KeygenAt
<1>3. keygen'[k] = g
  BY <1>2, KeygenFacts
<1>4. key \in KeyFiles(k) /\ key \in Content /\ file[path] \in KeyFiles(k)
  BY <1>0, KeygenFacts, KeyFilesFacts DEF Owns
<1>5. file' \in [Path -> Content]
  BY <1>1, <1>4, KeygenFacts
<1>6. Owns(k)'
  BY <1>1, <1>3, <1>4, KeygenFacts DEF Owns
<1>7. Progress(k)'
  <2>1. CASE pc = "withdraw"
    BY <2>1, <1>3 DEF Progress
  <2>2. CASE pc = to /\ from = "write_private"
    BY <2>2, <1>0, <1>1, <1>3, KeygenFacts DEF Progress
  <2>3. CASE pc = to /\ from = "write_public"
    BY <2>3, <1>0, <1>1, <1>3, KeygenFacts DEF Progress
  <2> QED
    BY <1>1, <2>1, <2>2, <2>3
<1>8. \A p \in Path : file'[p] # file[p] =>
        file[p] \in KeyFiles(k) \cup {Absent} /\ file'[p] \in KeyFiles(k) \cup {Absent}
  BY <1>1, <1>4, KeygenFacts
<1> QED
  BY <1>1, <1>2, <1>5, <1>6, <1>7, <1>8, KeygenFrame

\* Withdrawing unlinks only what the keygen created.
LEMMA WithdrawKeeps ==
  ASSUME Inv, NEW k \in Keygen, Withdraw(k) PROVE Inv'
<1>0. keygen[k].pc = "withdraw" /\ Others
  BY DEF Withdraw
<1>1. ASSUME NEW path \in keygen[k].created,
             file' = [file EXCEPT ![path] = Absent],
             keygen' = [keygen EXCEPT ![k].created = @ \ {path}]
      PROVE  Inv'
  <2> DEFINE g == [keygen[k] EXCEPT !.created = @ \ {path}]
  <2>1. g \in KeygenRecord /\ keygen' = [keygen EXCEPT ![k] = g]
    BY <1>1, KeygenFacts DEF KeygenRecord
  <2>2. keygen'[k] = g
    BY <2>1, KeygenFacts
  <2>3. path \in Path /\ file[path] \in KeyFiles(k)
    BY KeygenFacts DEF Owns
  <2>4. file' \in [Path -> Content]
    BY <1>1, KeygenFacts, KeyFilesFacts
  <2>5. Owns(k)'
    BY <1>1, <2>2, <2>3, KeygenFacts, KeyFilesFacts DEF Owns
  <2>6. Progress(k)'
    BY <1>0, <2>2 DEF Progress
  <2>7. \A p \in Path : file'[p] # file[p] =>
          file[p] \in KeyFiles(k) \cup {Absent} /\ file'[p] \in KeyFiles(k) \cup {Absent}
    BY <1>1, <2>3, KeygenFacts
  <2> QED
    BY <1>0, <2>1, <2>4, <2>5, <2>6, <2>7, KeygenFrame
<1>2. ASSUME keygen[k].created = {}, keygen' = [keygen EXCEPT ![k].pc = "failed"], UNCHANGED file
      PROVE  Inv'
  <2>1. KeygenAt(k, "withdraw", "failed")
    BY <1>0, <1>2 DEF KeygenAt
  <2>2. Progress(k)'
    BY <1>2, KeygenFacts DEF Progress
  <2> QED
    BY <1>0, <1>2, <2>1, <2>2, MovePC DEF KeygenPC
<1> QED
  BY <1>1, <1>2 DEF Withdraw

\* A keygen that is killed leaves its files where they are.
LEMMA KeygenCrashKeeps ==
  ASSUME Inv, NEW k \in Keygen, KeygenCrash(k) PROVE Inv'
<1>1. KeygenAt(k, keygen[k].pc, "crashed") /\ UNCHANGED file /\ Others
  BY DEF KeygenCrash, KeygenAt
<1>2. Progress(k)'
  BY <1>1, KeygenFacts DEF KeygenAt, Progress
<1> QED
  BY <1>1, <1>2, MovePC DEF KeygenPC


\* A step of a signer, a verifier or an editor leaves the key files alone.
LEMMA RestFrame ==
  ASSUME Inv, UNCHANGED keygen, TypeOK',
         \A p \in Path : file'[p] # file[p] =>
           \A k \in Keygen : file[p] \notin KeyFiles(k) /\ file'[p] \notin KeyFiles(k)
  PROVE  \A k \in Keygen : Owns(k)' /\ Progress(k)'
<1> SUFFICES ASSUME NEW k \in Keygen PROVE Owns(k)' /\ Progress(k)'
  OBVIOUS
<1>1. Owns(k)'
  BY KeygenFacts DEF Owns
<1>2. Progress(k)'
  BY KeygenFacts, KeyFilesFacts DEF Progress
<1> QED
  BY <1>1, <1>2

\* The record of one signer.
SignerRecord == [pc : {"guard", "load", "read", "write", "failed", "done"},
                 args : SignerArgs, key : SUBSET Keygen, data : SUBSET Data]

\* A signer that only reads keeps the invariant.
LEMMA SignerReads ==
  ASSUME Inv, NEW s \in Signer, NEW r \in SignerRecord,
         signer' = [signer EXCEPT ![s] = r], UNCHANGED <<file, keygen, verifier>>,
         signed \subseteq signed', signed' \subseteq Keygen \X Data, Guarded(s)'
  PROVE  Inv'
<1>1. TypeOK'
  BY DEF Inv, TypeOK, SignerRecord
<1>2. \A k \in Keygen : Owns(k)' /\ Progress(k)'
  BY <1>1, RestFrame
<1>3. ASSUME NEW t \in Signer PROVE Guarded(t)'
  BY DEF Inv, TypeOK, Guarded
<1>4. ASSUME NEW p \in Path PROVE Genuine(file[p])'
  BY DEF Inv, Genuine
<1>5. ASSUME NEW v \in Verifier PROVE Checked(v)'
  BY DEF Inv, Checked, Genuine
<1> QED
  BY <1>1, <1>2, <1>3, <1>4, <1>5 DEF Inv

\* What the invariant says of one signer.
LEMMA SignerFacts ==
  ASSUME Inv, NEW s \in Signer
  PROVE  /\ signer \in [Signer -> SignerRecord] /\ signer[s] \in SignerRecord
         /\ signer[s].args \in SignerArgs /\ Guarded(s)
         /\ file \in [Path -> Content] /\ signed \subseteq Keygen \X Data
BY DEF Inv, TypeOK, SignerRecord

\* The guard lets through only outputs that are neither input.
LEMMA GuardOutputKeeps ==
  ASSUME Inv, NEW s \in Signer, GuardOutput(s) PROVE Inv'
<1> DEFINE pc == IF signer[s].args.output \in {signer[s].args.subject, signer[s].args.private}
                   THEN "failed" ELSE "load"
           r == [signer[s] EXCEPT !.pc = pc]
<1>1. r \in SignerRecord /\ signer' = [signer EXCEPT ![s] = r]
  BY SignerFacts DEF GuardOutput, SignerRecord
<1>2. pc = "load" => signer[s].args.output \in OutputPath
  BY SignerFacts DEF SignerArgs
<1>3. signer'[s] = r
  BY <1>1, SignerFacts
<1>4. Guarded(s)'
  BY <1>2, <1>3, SignerFacts DEF Guarded, SignerRecord
<1> QED
  BY <1>1, <1>4, SignerFacts, SignerReads DEF GuardOutput

\* What a file's kind says of the rest of it.
LEMMA ContentFacts ==
  ASSUME NEW c \in Content
  PROVE  /\ c.kind \in {"private", "public"} => c.key \in Keygen
         /\ c.kind = "subject" => c.data \in Data
         /\ c.kind = "signature" =>
              \E i, k, s \in Keygen, d, e \in Data : c = Envelope(i, k, d, <<s, e>>)
<1>1. CASE c \in {Absent, TornEnvelope}
  BY <1>1 DEF Absent, TornEnvelope
<1>2. CASE \E k \in Keygen : c \in KeyFiles(k)
  BY <1>2 DEF KeyFiles, Partial, PrivateKey, PublicKey
<1>3. CASE c \in SubjectFile
  BY <1>3 DEF Subject, SubjectFile
<1>4. CASE c \in SignedFile
  <2> PICK i \in Keygen, k \in Keygen, s \in Keygen, d \in Data, e \in Data :
        c = Envelope(i, k, d, <<s, e>>)
    BY <1>4 DEF SignedFile
  <2>1. c.kind = "signature"
    BY DEF Envelope
  <2> QED
    BY <2>1
<1>5. c \in KeyFile => \E k \in Keygen : c \in KeyFiles(k)
  BY DEF KeyFile
<1> QED
  BY <1>1, <1>2, <1>3, <1>4, <1>5 DEF Content

\* A signer loads the key of whoever owns the file.
LEMMA LoadPrivateKeyKeeps ==
  ASSUME Inv, NEW s \in Signer, LoadPrivateKey(s) PROVE Inv'
<1> DEFINE c == file[signer[s].args.private]
<1>1. signer[s].args.private \in Path
  BY SignerFacts DEF SignerArgs, Path
<1>2. c.kind = "private" => c.key \in Keygen
  BY <1>1, SignerFacts, ContentFacts
<1>3. PICK r \in SignerRecord :
        /\ signer' = [signer EXCEPT ![s] = r]
        /\ r.args = signer[s].args /\ r.pc \in {"read", "failed"}
  <2>1. CASE c.kind = "private"
    <3> DEFINE r == [signer[s] EXCEPT !.pc = "read", !.key = {c.key}]
    <3>1. r \in SignerRecord /\ r.args = signer[s].args
      BY <2>1, <1>2, SignerFacts DEF SignerRecord
    <3>2. signer' = [signer EXCEPT ![s] = r]
      BY <2>1 DEF LoadPrivateKey
    <3> QED
      BY <3>1, <3>2, SignerFacts DEF SignerRecord
  <2>2. CASE c.kind # "private"
    <3> DEFINE r == [signer[s] EXCEPT !.pc = "failed"]
    <3>1. r \in SignerRecord /\ r.args = signer[s].args
      BY SignerFacts DEF SignerRecord
    <3>2. signer' = [signer EXCEPT ![s] = r]
      BY <2>2 DEF LoadPrivateKey
    <3> QED
      BY <3>1, <3>2, SignerFacts DEF SignerRecord
  <2> QED
    BY <2>1, <2>2
<1>4. signer'[s] = r
  BY <1>3, SignerFacts
<1>5. Guarded(s)'
  BY <1>3, <1>4, SignerFacts DEF Guarded, LoadPrivateKey
<1> QED
  BY <1>3, <1>5, SignerFacts, SignerReads DEF LoadPrivateKey

\* A subject's data is data.
LEMMA SubjectData ==
  ASSUME Inv, NEW p \in SubjectPath
  PROVE  file[p].data \in Data
<1>1. file[p] \in Content /\ file[p].kind = "subject"
  BY DEF Inv, TypeOK, Path
<1> QED
  BY <1>1, ContentFacts

\* What a signer is about to write is signed.
LEMMA ReadAndSignKeeps ==
  ASSUME Inv, NEW s \in Signer, ReadAndSign(s) PROVE Inv'
<1> DEFINE d == file[signer[s].args.subject].data
           r == [signer[s] EXCEPT !.pc = "write", !.data = {d}]
<1>1. d \in Data
  BY SignerFacts, SubjectData DEF SignerArgs
<1>2. signer' = [signer EXCEPT ![s] = r]
  BY DEF ReadAndSign
<1>3. r \in SignerRecord /\ r.key = signer[s].key /\ r.data = {d} /\ r.args = signer[s].args
      /\ r.pc = "write"
  BY <1>1, SignerFacts DEF SignerRecord
<1>4. signed' = signed \cup {<<k, d>> : k \in signer[s].key}
  BY DEF ReadAndSign
<1>5. signed' \subseteq Keygen \X Data
  <2>1. signer[s].key \subseteq Keygen /\ signed \subseteq Keygen \X Data
    BY SignerFacts DEF SignerRecord
  <2> HIDE DEF d
  <2> QED
    BY <2>1, <1>1, <1>4
<1>6. Guarded(s)'
  <2> HIDE DEF r, d
  <2>1. signer'[s] = r
    BY <1>2, SignerFacts
  <2> QED
    BY <2>1, <1>3, <1>4, SignerFacts DEF Guarded, ReadAndSign
<1> QED
  BY <1>2, <1>3, <1>4, <1>5, <1>6, SignerReads DEF ReadAndSign

\* The file of an envelope holds no key, and what it is written with is signed.
LEMMA OutputIsNoKeyFile ==
  ASSUME Inv, NEW p \in OutputPath
  PROVE  \A k \in Keygen : file[p] \notin KeyFiles(k)
<1> SUFFICES ASSUME NEW k \in Keygen, file[p] \in KeyFiles(k) PROVE FALSE
  OBVIOUS
<1>1. p \in keygen[k].created
  BY KeygenFacts DEF Owns, Path
<1>2. p \in KeyPath
  BY <1>1, KeygenFacts DEF KeygenRecord
<1> QED
  BY <1>2, PathsDiffer

\* Every file an output path comes to hold is an envelope or a torn one.
LEMMA OutputFrame ==
  ASSUME Inv, NEW p \in OutputPath, NEW c \in Content,
         file' = [file EXCEPT ![p] = c], UNCHANGED <<keygen, verifier, signed>>,
         c.kind \in {"signature", "torn"}, Genuine(c),
         signer' \in [Signer -> SignerRecord], \A s \in Signer : Guarded(s)'
  PROVE  Inv'
<1>1. TypeOK'
  <2>1. file' \in [Path -> Content]
    BY DEF Inv, TypeOK
  <2>2. \A q \in SubjectPath : file'[q].kind = "subject"
    BY PathsDiffer DEF Inv, TypeOK, Path
  <2> QED
    BY <2>1, <2>2 DEF Inv, TypeOK, SignerRecord
<1>2. \A k \in Keygen : Owns(k)' /\ Progress(k)'
  <2>1. \A k \in Keygen : file[p] \notin KeyFiles(k) /\ c \notin KeyFiles(k)
    BY OutputIsNoKeyFile DEF KeyFiles, Partial, PrivateKey, PublicKey
  <2> QED
    BY <2>1, <1>1, RestFrame DEF Inv, TypeOK, Path
<1>3. ASSUME NEW q \in Path PROVE Genuine(file[q])'
  BY DEF Inv, TypeOK, Genuine
<1>4. ASSUME NEW v \in Verifier PROVE Checked(v)'
  BY DEF Inv, Checked, Genuine
<1> QED
  BY <1>1, <1>2, <1>3, <1>4 DEF Inv

\* An envelope is written where the guard allows it, with a signature just made.
LEMMA WriteEnvelopeKeeps ==
  ASSUME Inv, NEW s \in Signer, WriteEnvelope(s) PROVE Inv'
<1>1. PICK k \in signer[s].key, d \in signer[s].data :
        \/ /\ file' = [file EXCEPT ![signer[s].args.output] = Envelope(k, k, d, <<k, d>>)]
           /\ signer' = [signer EXCEPT ![s].pc = "done"]
        \/ /\ file' = [file EXCEPT ![signer[s].args.output] = TornEnvelope]
           /\ signer' = [signer EXCEPT ![s].pc = "failed"]
  BY DEF WriteEnvelope
<1>2. PICK pc \in {"done", "failed"} : signer' = [signer EXCEPT ![s].pc = pc]
  BY <1>1
<1>3. signer[s].args.output \in OutputPath /\ <<k, d>> \in signed /\ k \in Keygen /\ d \in Data
  BY SignerFacts DEF WriteEnvelope, Guarded, SignerRecord
<1>4. signer' \in [Signer -> SignerRecord]
  BY <1>2, SignerFacts DEF SignerRecord
<1>5. ASSUME NEW t \in Signer PROVE Guarded(t)'
  <2>1. CASE t = s
    BY <2>1, <1>2, <1>3, SignerFacts DEF Guarded, SignerRecord
  <2>2. CASE t # s
    BY <2>2, <1>2, SignerFacts DEF Guarded, WriteEnvelope
  <2> QED
    BY <2>1, <2>2
<1>6. ASSUME NEW c \in {Envelope(k, k, d, <<k, d>>), TornEnvelope}
      PROVE  c \in Content /\ c.kind \in {"signature", "torn"} /\ Genuine(c)
  BY <1>3 DEF Content, SignedFile, Envelope, TornEnvelope, Genuine
<1> QED
  BY <1>1, <1>3, <1>4, <1>5, <1>6, OutputFrame DEF WriteEnvelope


\* The record of one verifier.
VerifierRecord == [pc : {"read", "key", "subject", "rejected", "verified"},
                   args : VerifierArgs, envelope : Content, external : Content,
                   data : SUBSET Data]

\* What the invariant says of one verifier.
LEMMA VerifierFacts ==
  ASSUME Inv, NEW v \in Verifier
  PROVE  /\ verifier \in [Verifier -> VerifierRecord] /\ verifier[v] \in VerifierRecord
         /\ verifier[v].args \in VerifierArgs /\ Checked(v)
         /\ file \in [Path -> Content]
BY DEF Inv, TypeOK, VerifierRecord

\* A verifier changes nothing but what it remembers.
LEMMA VerifierFrame ==
  ASSUME Inv, NEW v \in Verifier, NEW r \in VerifierRecord,
         verifier' = [verifier EXCEPT ![v] = r],
         UNCHANGED <<file, keygen, signer, signed>>, Checked(v)'
  PROVE  Inv'
<1>1. TypeOK'
  BY DEF Inv, TypeOK, VerifierRecord
<1>2. \A k \in Keygen : Owns(k)' /\ Progress(k)'
  BY <1>1, RestFrame
<1>3. ASSUME NEW s \in Signer PROVE Guarded(s)'
  BY DEF Inv, Guarded
<1>4. ASSUME NEW p \in Path PROVE Genuine(file[p])'
  BY DEF Inv, Genuine
<1>5. ASSUME NEW w \in Verifier PROVE Checked(w)'
  BY DEF Inv, TypeOK, Checked, Genuine
<1> QED
  BY <1>1, <1>2, <1>3, <1>4, <1>5 DEF Inv

\* What is read as an envelope is genuine if it is one.
LEMMA ReadEnvelopeKeeps ==
  ASSUME Inv, NEW v \in Verifier, ReadEnvelope(v) PROVE Inv'
<1> DEFINE c == file[verifier[v].args.signature]
           r == [verifier[v] EXCEPT !.pc = "key", !.envelope = c]
<1>1. verifier[v].args.signature \in Path
  BY VerifierFacts DEF VerifierArgs, Path
<1>2. c \in Content /\ Genuine(c)
  BY <1>1, VerifierFacts DEF Inv
<1>3. verifier' = [verifier EXCEPT ![v] = r]
  BY DEF ReadEnvelope
<1>4. r \in VerifierRecord /\ r.pc = "key" /\ r.envelope = c /\ r.external = Absent
  <2> HIDE DEF c
  <2> QED
    BY <1>2, VerifierFacts DEF VerifierRecord, Checked, ReadEnvelope
<1>5. verifier'[v] = r
  BY <1>3, VerifierFacts
<1>6. Checked(v)'
  <2> HIDE DEF r, c
  <2> QED
    BY <1>2, <1>4, <1>5 DEF Checked, Genuine, ReadEnvelope
<1> QED
  BY <1>3, <1>4, <1>6, VerifierFrame DEF ReadEnvelope

\* After this step an external key is held exactly when one was asked for.
LEMMA ReadPublicKeyKeeps ==
  ASSUME Inv, NEW v \in Verifier, ReadPublicKey(v) PROVE Inv'
<1> DEFINE path == verifier[v].args.public
<1>0. verifier[v].external = Absent
  BY VerifierFacts DEF ReadPublicKey, Checked
<1>1. PICK r \in VerifierRecord :
        /\ verifier' = [verifier EXCEPT ![v] = r]
        /\ r.envelope = verifier[v].envelope /\ r.args = verifier[v].args
        /\ r.pc \in {"subject", "rejected"}
        /\ r.pc = "subject" => (path = NoPath <=> r.external = Absent)
  <2>1. CASE path = NoPath
    <3> DEFINE r == [verifier[v] EXCEPT !.pc = "subject"]
    <3>1. r \in VerifierRecord /\ verifier' = [verifier EXCEPT ![v] = r]
      BY <2>1, VerifierFacts DEF ReadPublicKey, VerifierRecord
    <3> QED
      BY <2>1, <3>1, <1>0, VerifierFacts DEF VerifierRecord
  <2>2. CASE path # NoPath /\ LoadsPublicKey(file[path])
    <3> DEFINE r == [verifier[v] EXCEPT !.pc = "subject", !.external = file[path]]
    <3>1. path \in Path
      BY <2>2, VerifierFacts DEF VerifierArgs, Path
    <3>2. file[path] \in Content /\ file[path] # Absent
      BY <2>2, <3>1, VerifierFacts DEF LoadsPublicKey, Absent
    <3>3. verifier' = [verifier EXCEPT ![v] = r]
      BY <2>2 DEF ReadPublicKey
    <3>4. /\ r \in VerifierRecord /\ r.envelope = verifier[v].envelope
          /\ r.args = verifier[v].args /\ r.pc = "subject" /\ r.external = file[path]
      BY <3>2, VerifierFacts DEF VerifierRecord
    <3> QED
      BY <2>2, <3>2, <3>3, <3>4
  <2>3. CASE path # NoPath /\ ~LoadsPublicKey(file[path])
    <3> DEFINE r == [verifier[v] EXCEPT !.pc = "rejected"]
    <3>1. r \in VerifierRecord /\ verifier' = [verifier EXCEPT ![v] = r]
      BY <2>3, VerifierFacts DEF ReadPublicKey, VerifierRecord
    <3> QED
      BY <3>1, VerifierFacts DEF VerifierRecord
  <2> QED
    BY <2>1, <2>2, <2>3
<1>2. verifier'[v] = r
  BY <1>1, VerifierFacts
<1>3. Checked(v)'
  BY <1>1, <1>2, VerifierFacts DEF Checked, Genuine, ReadPublicKey
<1> QED
  BY <1>1, <1>3, VerifierFrame DEF ReadPublicKey

\* The verdict is VerifySignature's, on the envelope, the key and the data read.
LEMMA ReadSubjectKeeps ==
  ASSUME Inv, NEW v \in Verifier, ReadSubject(v) PROVE Inv'
<1> DEFINE d == file[verifier[v].args.subject].data
           ok == VerifySignature(verifier[v].envelope, verifier[v].external, d)
           r == [verifier[v] EXCEPT !.pc = IF ok THEN "verified" ELSE "rejected", !.data = {d}]
<1>1. d \in Data
  BY VerifierFacts, SubjectData DEF VerifierArgs
<1>2. verifier' = [verifier EXCEPT ![v] = r]
  BY DEF ReadSubject
<1>3. /\ r \in VerifierRecord /\ r.envelope = verifier[v].envelope
      /\ r.external = verifier[v].external /\ r.args = verifier[v].args
      /\ r.data = {d} /\ (r.pc = "verified" => ok) /\ r.pc \in {"verified", "rejected"}
  <2> HIDE DEF d, ok
  <2> QED
    BY <1>1, VerifierFacts DEF VerifierRecord
<1>4. Checked(v)'
  <2> HIDE DEF r
  <2>1. verifier'[v] = r
    BY <1>2, VerifierFacts
  <2> QED
    BY <2>1, <1>3, VerifierFacts DEF Checked, Genuine, ReadSubject
<1> QED
  BY <1>2, <1>3, <1>4, VerifierFrame DEF ReadSubject

\* Subjects hold no keys and no signatures.
LEMMA RewriteSubjectKeeps ==
  ASSUME Inv, NEW p \in SubjectPath, RewriteSubject(p) PROVE Inv'
<1> PICK d \in Data : file' = [file EXCEPT ![p] = Subject(d)]
  BY DEF RewriteSubject
<1>1. Subject(d) \in Content /\ Subject(d).kind = "subject"
  BY DEF Content, SubjectFile, Subject
<1>2. TypeOK'
  BY <1>1 DEF Inv, TypeOK, RewriteSubject, Path
<1>3. \A k \in Keygen : Owns(k)' /\ Progress(k)'
  <2>1. file[p].kind = "subject"
    BY DEF Inv, TypeOK
  <2>2. \A k \in Keygen : file[p] \notin KeyFiles(k) /\ Subject(d) \notin KeyFiles(k)
    BY <2>1, KeyFilesFacts
  <2> QED
    BY <2>2, <1>2, RestFrame DEF Inv, TypeOK, Path, RewriteSubject
<1>4. ASSUME NEW q \in Path PROVE Genuine(file[q])'
  BY <1>1 DEF Inv, TypeOK, Genuine, RewriteSubject
<1>5. ASSUME NEW s \in Signer PROVE Guarded(s)'
  BY DEF Inv, Guarded, RewriteSubject
<1>6. ASSUME NEW v \in Verifier PROVE Checked(v)'
  BY DEF Inv, Checked, Genuine, RewriteSubject
<1> QED
  BY <1>2, <1>3, <1>4, <1>5, <1>6 DEF Inv

\* An edited envelope keeps the signature it had.
LEMMA EditEnvelopeKeeps ==
  ASSUME Inv, NEW p \in OutputPath, EditEnvelope(p) PROVE Inv'
<1> PICK i \in Keygen, k \in Keygen, d \in Data :
      file' = [file EXCEPT ![p] = Envelope(i, k, d, file[p].signature)]
  BY DEF EditEnvelope
<1>1. file[p] \in Content /\ Genuine(file[p]) /\ file[p].kind = "signature"
  BY DEF Inv, TypeOK, Path, EditEnvelope
<1>2. PICK s \in Keygen, e \in Data : file[p].signature = <<s, e>>
  BY <1>1, ContentFacts DEF Envelope
<1> DEFINE c == Envelope(i, k, d, <<s, e>>)
<1>3. c \in Content /\ c.kind = "signature" /\ c.signature = <<s, e>>
  <2>1. c \in SignedFile
    BY <1>2 DEF SignedFile
  <2>2. c.kind = "signature" /\ c.signature = <<s, e>>
    BY DEF Envelope
  <2> QED
    BY <2>1, <2>2 DEF Content
<1>4. Genuine(c)
  BY <1>1, <1>2, <1>3 DEF Genuine
<1>5. /\ file' = [file EXCEPT ![p] = c]
      /\ UNCHANGED <<keygen, verifier, signed>> /\ UNCHANGED signer
  BY <1>2 DEF EditEnvelope
<1>6. signer' \in [Signer -> SignerRecord] /\ \A t \in Signer : Guarded(t)'
  BY <1>5, SignerFacts DEF Inv, TypeOK, SignerRecord, Guarded
<1> QED
  BY <1>3, <1>4, <1>5, <1>6, OutputFrame


\* Every step of every process keeps the invariant.
LEMMA NextOK == Inv /\ [Next]_vars => Inv'
<1> SUFFICES ASSUME Inv, [Next]_vars PROVE Inv'
  OBVIOUS
<1>1. ASSUME NEW k \in Keygen, KeygenStep(k) PROVE Inv'
  <2>1. CASE CheckDestinations(k)
    BY <2>1, CheckDestinationsKeeps
  <2>2. CASE ReservePrivate(k)
    BY <2>2, ReserveKeeps DEF ReservePrivate, Reserve, KeygenAt, KeygenPC
  <2>3. CASE ReservePublic(k)
    BY <2>3, ReserveKeeps DEF ReservePublic, Reserve, KeygenAt, KeygenPC
  <2>4. CASE WritePrivate(k)
    BY <2>4, WriteKeyKeeps DEF WritePrivate, KeygenPC
  <2>5. CASE WritePublic(k)
    BY <2>5, WriteKeyKeeps DEF WritePublic, KeygenPC
  <2>6. CASE Withdraw(k)
    BY <2>6, WithdrawKeeps
  <2> QED
    BY <1>1, <2>1, <2>2, <2>3, <2>4, <2>5, <2>6 DEF KeygenStep
<1>2. ASSUME NEW k \in Keygen, KeygenCrash(k) PROVE Inv'
  BY <1>2, KeygenCrashKeeps
<1>3. ASSUME NEW s \in Signer, SignerStep(s) PROVE Inv'
  BY <1>3, GuardOutputKeeps, LoadPrivateKeyKeeps, ReadAndSignKeeps, WriteEnvelopeKeeps
     DEF SignerStep
<1>4. ASSUME NEW v \in Verifier, VerifierStep(v) PROVE Inv'
  BY <1>4, ReadEnvelopeKeeps, ReadPublicKeyKeeps, ReadSubjectKeeps DEF VerifierStep
<1>5. ASSUME NEW p \in SubjectPath, RewriteSubject(p) PROVE Inv'
  BY <1>5, RewriteSubjectKeeps
<1>6. ASSUME NEW p \in OutputPath, EditEnvelope(p) PROVE Inv'
  BY <1>6, EditEnvelopeKeeps
<1>7. CASE UNCHANGED vars
  BY <1>7 DEF vars, Inv, TypeOK, Owns, Progress, Guarded, Genuine, Checked
<1> QED
  BY <1>1, <1>2, <1>3, <1>4, <1>5, <1>6, <1>7 DEF Next

\* The invariant holds in every reachable state.
LEMMA Invariance == Spec => []Inv
BY InitOK, NextOK, PTL DEF Spec

\* The values the variables of Signing take.
THEOREM TypeCorrect == Spec => []TypeOK
<1>1. Inv => TypeOK
  BY DEF Inv
<1> QED
  BY <1>1, Invariance, PTL

\* generate_keypair: a pair that was returned stays on disk, whoever else races
\* for its paths, fails, withdraws or signs with it.
THEOREM PairStays == Spec => []ReturnedPairStays
<1>1. Inv => ReturnedPairStays
  <2> SUFFICES ASSUME Inv, NEW k \in Keygen, keygen[k].pc = "done"
               PROVE  /\ ValidateKeypair(file[keygen[k].private], file[keygen[k].public])
                      /\ file[keygen[k].private].key = k
    BY DEF ReturnedPairStays
  <2>1. file[keygen[k].private] = PrivateKey(k) /\ file[keygen[k].public] = PublicKey(k)
    BY KeygenFacts DEF Progress
  <2> QED
    BY <2>1 DEF ValidateKeypair, LoadsPublicKey, PrivateKey, PublicKey
<1> QED
  BY <1>1, Invariance, PTL

\* generate_keypair: a call that raised leaves no file of its own.
THEOREM LeavesNothing == Spec => []FailedKeygenLeavesNothing
<1>1. Inv => FailedKeygenLeavesNothing
  BY KeygenFacts DEF FailedKeygenLeavesNothing, Owns, Progress
<1> QED
  BY <1>1, Invariance, PTL

\* verify_signature: what verifies was signed with the key it was checked with.
THEOREM VerifiedIsAuthentic == Spec => []VerifiedWasSigned
<1>1. Inv => VerifiedWasSigned
  <2> SUFFICES ASSUME Inv, NEW v \in Verifier, verifier[v].pc = "verified",
                      NEW d \in verifier[v].data
               PROVE  LET key == IF verifier[v].args.public = NoPath
                                   THEN verifier[v].envelope.public_key
                                   ELSE verifier[v].external.key
                      IN  <<key, d>> \in signed
    BY DEF VerifiedWasSigned
  <2>1. Checked(v)
    BY DEF Inv
  <2>2. VerifySignature(verifier[v].envelope, verifier[v].external, d)
    BY <2>1 DEF Checked
  <2> QED
    BY <2>1, <2>2 DEF Checked, Genuine, VerifySignature
<1> QED
  BY <1>1, Invariance, PTL


=============================================================================
