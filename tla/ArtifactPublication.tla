------------------------- MODULE ArtifactPublication -------------------------
(***************************************************************************)
(* The immutable artifact directories: artifacts.py publishes documents and *)
(* typed datasets, features/football/datasets.py feature datasets and       *)
(* models/artifacts.py models.  All write their files to a temporary        *)
(* directory next to the final one, verify it and rename it into place; the *)
(* loaders verify everything again.  A directory is a function from file    *)
(* names to bytes.  The bytes of a dataset are the content they were        *)
(* written from; those of a manifest carry its identity and the digests of  *)
(* the datasets.  A digest is a value of its own for each sequence of bytes *)
(* (SHA-256, external).                                                     *)
(***************************************************************************)
EXTENDS Integers, Sequences, FiniteSets

CONSTANTS
    Publishers,     \* calls of a publishing function
    Requests,       \* what a call may be asked: [kind, content, path, stamped]
    Damaged,        \* bytes that no publisher writes
    Nothing,        \* no such file or directory
    MaxDamages      \* bound on the edits made to published files

ASSUME PublishingAssumption ==
    /\ Damaged # Nothing
    /\ \A r \in Requests : r.kind \in {"document", "typed", "feature", "model"}
    /\ \A r, s \in Requests : r.path = s.path => r.kind = s.kind
    /\ MaxDamages \in Nat

VARIABLES
    temporary,      \* publisher -> its temporary directory or Nothing
    published,      \* path -> the directory there or Nothing
    publisher,      \* publisher -> [pc, request, checksum]
    damages         \* path -> edits made there

publishingVars == <<temporary, published, publisher, damages>>

Paths == {r.path : r \in Requests}
Empty == [f \in {} |-> Nothing]

Digest(bytes) == [sha256 |-> bytes]

-----------------------------------------------------------------------------
(* Contents. *)

DatasetFiles(kind) ==
    CASE kind = "typed" -> <<"predictions.jsonl", "opportunities.jsonl">>
      [] kind = "feature" -> <<"features.parquet", "targets.parquet", "folds.parquet">>
      [] OTHER -> <<>>

MainFile(kind) == IF kind = "model" THEN "model.json" ELSE "manifest.json"
Sidecar == "manifest_checksum.sha256"
PublishedAt == "published_at.json"

\* The files of a request in the order they are written.
Files(r) ==
    DatasetFiles(r.kind) \o <<MainFile(r.kind), Sidecar>> \o (IF r.kind = "feature" /\ r.stamped THEN <<PublishedAt>> ELSE <<>>)

\* The content-addressed identity: of the payload, of the dataset digests, of the inputs or of the parameters.
content_addressed_id(kind, evidence) == <<kind, evidence>>

\* The manifest of what was computed; a document and a model hold their payload themselves.
DirectoryManifest(kind, content) ==
    LET digests == [f \in {DatasetFiles(kind)[i] : i \in DOMAIN DatasetFiles(kind)} |-> Digest(content)]
    IN [kind |-> kind, payload |-> content, digests |-> digests,
        id |-> content_addressed_id(kind, IF kind = "typed" THEN digests ELSE content)]

ASSUME DigestAssumption ==
    \A r \in Requests : Digest(DirectoryManifest(r.kind, r.content)) # Nothing

Bytes(r, file) ==
    CASE file = MainFile(r.kind) -> DirectoryManifest(r.kind, r.content)
      [] file = Sidecar -> Digest(DirectoryManifest(r.kind, r.content))
      [] OTHER -> r.content

-----------------------------------------------------------------------------
(* Verification.  A verification returns the content, or Nothing for an error. *)

\* What the rows of typed datasets or the parameters of a model must satisfy among themselves.  The payload of a
\* document is opaque here; that the folds of a feature artifact can be rebuilt is the subject of PrematchFeatures.
Coherent(kind, content) == kind \in {"typed", "model"} => content.coherent

BannedFiles == {"model.pkl", "model.joblib", "model.pickle", "pipeline.joblib"}

\* Documents and typed artifacts allow no other file, models none that could hold code; features ignore them.
ExactFiles(kind, directory) ==
    LET expected == {Files([kind |-> kind, stamped |-> FALSE])[i] : i \in DOMAIN Files([kind |-> kind, stamped |-> FALSE])}
    IN /\ expected \subseteq DOMAIN directory
       /\ kind \in {"document", "typed"} => DOMAIN directory = expected
       /\ kind = "model" => DOMAIN directory \cap BannedFiles = {}

\* The manifest matches its sidecar and the checksum the caller expects, and it can be read as one of its kind.
ManifestVerified(kind, directory, expected) ==
    LET manifest == directory[MainFile(kind)]
    IN /\ directory[Sidecar] = Digest(manifest)
       /\ expected # Nothing => expected = Digest(manifest)
       /\ manifest # Damaged
       /\ manifest.kind = kind

DatasetsMatch(directory, manifest) == \A f \in DOMAIN manifest.digests : Digest(directory[f]) = manifest.digests[f]

\* The identity of a feature artifact is that of its inputs and is not computed again.
IdentityMatches(kind, manifest) ==
    kind # "feature" =>
        manifest.id = content_addressed_id(kind, IF kind = "typed" THEN manifest.digests ELSE manifest.payload)

VerifyDirectory(kind, directory, expected) ==
    LET manifest == directory[MainFile(kind)]
        content == IF kind \in {"typed", "feature"} THEN directory[DatasetFiles(kind)[1]] ELSE manifest.payload
    IN IF directory = Nothing THEN Nothing
       ELSE IF ~ExactFiles(kind, directory) THEN Nothing
       ELSE IF ~ManifestVerified(kind, directory, expected) THEN Nothing
       ELSE IF ~DatasetsMatch(directory, manifest) \/ ~IdentityMatches(kind, manifest) THEN Nothing
       ELSE IF ~Coherent(kind, content) THEN Nothing
       ELSE content

-----------------------------------------------------------------------------
(* Publication. *)

At(p, pc) == publisher[p].pc = pc
Request(p) == publisher[p].request
Proceed(p, pc) == publisher' = [publisher EXCEPT ![p].pc = pc]

\* A path is refused when something is there: any directory for a document or typed artifact, one with files
\* for the others.
Occupied(r) ==
    IF r.kind \in {"document", "typed"} THEN published[r.path] # Nothing ELSE published[r.path] \notin {Nothing, Empty}

\* The arguments are checked, the path is looked up and a temporary directory is made.
StartPublishing(p) ==
    /\ At(p, "idle")
    /\ IF Occupied(Request(p))
       THEN Proceed(p, "failed") /\ UNCHANGED temporary
       ELSE Proceed(p, "writing") /\ temporary' = [temporary EXCEPT ![p] = Empty]
    /\ UNCHANGED <<published, damages>>

NextFile(p) == Files(Request(p))[Cardinality(DOMAIN temporary[p]) + 1]

WriteFile(p) ==
    /\ At(p, "writing")
    /\ LET file == NextFile(p)
           written == [f \in DOMAIN temporary[p] \cup {file} |-> IF f = file THEN Bytes(Request(p), file) ELSE temporary[p][f]]
       IN /\ temporary' = [temporary EXCEPT ![p] = written]
          /\ publisher' = [publisher EXCEPT ![p] =
                [pc |-> IF Cardinality(DOMAIN written) = Len(Files(Request(p))) THEN "verifying" ELSE "writing",
                 request |-> Request(p),
                 checksum |-> IF file = MainFile(Request(p).kind) THEN Digest(written[file]) ELSE publisher[p].checksum]]
    /\ UNCHANGED <<published, damages>>

\* A write, the verification or the rename raises: the temporary directory is removed.
Abandon(p) == Proceed(p, "failed") /\ temporary' = [temporary EXCEPT ![p] = Nothing] /\ UNCHANGED <<published, damages>>

WriteFails(p) == At(p, "writing") /\ Abandon(p)

VerifyTemporary(p) ==
    /\ At(p, "verifying")
    /\ IF VerifyDirectory(Request(p).kind, temporary[p], publisher[p].checksum) = Nothing
       THEN Abandon(p)
       ELSE Proceed(p, "renaming") /\ UNCHANGED <<temporary, published, damages>>

\* Mutant: the rename replaces what is at the path.
RenameReplaces(p) ==
    /\ At(p, "renaming")
    /\ published' = [published EXCEPT ![Request(p).path] = temporary[p]]
    /\ temporary' = [temporary EXCEPT ![p] = Nothing]
    /\ Proceed(p, IF Request(p).kind \in {"document", "typed"} THEN "loading" ELSE "returned")
    /\ UNCHANGED damages

\* A rename onto a directory that has files raises.
RenameArtifact(p) ==
    /\ At(p, "renaming")
    /\ IF published[Request(p).path] \notin {Nothing, Empty} THEN Abandon(p)
       ELSE /\ published' = [published EXCEPT ![Request(p).path] = temporary[p]]
            /\ temporary' = [temporary EXCEPT ![p] = Nothing]
            /\ Proceed(p, IF Request(p).kind \in {"document", "typed"} THEN "loading" ELSE "returned")
            /\ UNCHANGED damages

\* Documents and typed artifacts are loaded from their final place before the call returns.
LoadPublished(p) ==
    /\ At(p, "loading")
    /\ LET loaded == VerifyDirectory(Request(p).kind, published[Request(p).path], publisher[p].checksum)
       IN Proceed(p, IF loaded = Nothing THEN "failed" ELSE "returned")
    /\ UNCHANGED <<temporary, published, damages>>

\* The process ends at any point; nobody removes its temporary directory.
PublisherCrash(p) ==
    /\ publisher[p].pc \notin {"idle", "returned", "failed", "crashed"}
    /\ Proceed(p, "crashed")
    /\ UNCHANGED <<temporary, published, damages>>

\* A published file is edited, lost or added by something outside the program.
DamagedDirectory(directory, file, bytes) ==
    IF bytes = Nothing THEN [f \in DOMAIN directory \ {file} |-> directory[f]]
    ELSE [f \in DOMAIN directory \cup {file} |-> IF f = file THEN bytes ELSE directory[f]]

DamagePublished(path) ==
    /\ published[path] # Nothing /\ damages[path] < MaxDamages
    /\ \E file \in DOMAIN published[path] \cup {"model.pkl"} :
          \E bytes \in {Damaged, Nothing} \cup {Bytes(r, file) : r \in {x \in Requests : x.path = path}} :
             published' = [published EXCEPT ![path] = DamagedDirectory(published[path], file, bytes)]
    /\ damages' = [damages EXCEPT ![path] = @ + 1]
    /\ UNCHANGED <<temporary, publisher>>

PublishingInit ==
    /\ temporary = [p \in Publishers |-> Nothing]
    /\ published = [path \in Paths |-> Nothing]
    /\ damages = [path \in Paths |-> 0]
    /\ publisher \in [Publishers -> {[pc |-> "idle", request |-> r, checksum |-> Nothing] : r \in Requests}]

PublishingNext ==
    \/ \E p \in Publishers :
          \/ StartPublishing(p) \/ WriteFile(p) \/ WriteFails(p) \/ VerifyTemporary(p)
          \/ RenameArtifact(p) \/ LoadPublished(p) \/ PublisherCrash(p)
    \/ \E path \in Paths : DamagePublished(path)

PublishingSpec == PublishingInit /\ [][PublishingNext]_publishingVars

-----------------------------------------------------------------------------
(* Properties. *)

KindAt(path) == (CHOOSE r \in Requests : r.path = path).kind

\* A directory at its final name is whole from the first moment it can be seen, whichever of the publishers
\* crashed, failed or raced: unless somebody edited it, it loads.
VisibleIsWhole ==
    \A path \in Paths : (published[path] # Nothing /\ damages[path] = 0) => VerifyDirectory(KindAt(path), published[path], Nothing) # Nothing

\* Loading with the checksum a publisher returned gives exactly what it published or an error, whatever happened
\* to the files since.
LoadedAsPublished ==
    \A p \in Publishers : At(p, "returned") =>
        VerifyDirectory(Request(p).kind, published[Request(p).path], publisher[p].checksum) \in {Nothing, Request(p).content}

\* Of the publishers of one path at most one gets its artifact there, and only crashed ones leave a temporary
\* directory behind.
OnePublisherPerPath ==
    /\ \A p, q \in Publishers : (At(p, "returned") /\ At(q, "returned") /\ Request(p).path = Request(q).path
                                  /\ damages[Request(p).path] = 0) => p = q
    /\ \A p \in Publishers : publisher[p].pc \in {"returned", "failed"} => temporary[p] = Nothing

\* An artifact is seen whole, loaded as published and published once (artifacts.py, datasets.py, models/artifacts.py).
ArtifactsIntact == VisibleIsWhole /\ LoadedAsPublished /\ OnePublisherPerPath
=============================================================================
