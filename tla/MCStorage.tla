------------------------------ MODULE MCStorage ------------------------------
(* The storage components for TLC: each behaviour is one of the component    *)
(* that was chosen at the start, the others stay as they began.              *)
EXTENDS SnapshotPublication, Migrations, BackupRestore, RawStore, ArtifactPublication, TLC

CONSTANTS wa, wb, wc, wd, old, worker, ui, forked, broken, a1, a2, t1, k1, d1, d2, p1, p2

VARIABLE part

MCWriters == {wa, wb, wc, wd}
MCTwoVersions == [id \in Ids |-> IF id = wc THEN 2 ELSE 1]

\* Two releases of one line, one whose second migration is another, and one
\* with a migration that would end its own transaction.
MCStarters == {worker, ui, forked, broken}
MCPackage ==
    LET m(v, i, t) == [version |-> v, id |-> i, named |-> TRUE, checksummed |-> TRUE, sql |-> t]
        ddl == <<"w", ";", "w">>
    IN  [p \in MCStarters |->
            CASE p = worker -> <<m(1, "a", ddl), m(2, "b", ddl)>>
              [] p = ui -> <<m(1, "a", ddl), m(2, "b", ddl), m(3, "c", ddl)>>
              [] p = forked -> <<m(1, "a", ddl), m(2, "x", ddl)>>
              [] OTHER -> <<m(1, "a", <<"w", ";", "/", "*", "*", "/", "C", ";">>)>>]

MCRolePaths == <<"raw", "snapshots">>
MCArtifacts == {a1, a2, t1, k1}
MCRoleOf == [a \in MCArtifacts |-> IF a \in {a1, t1, k1} THEN "raw" ELSE "snapshots"]
MCFileOf == [a \in MCArtifacts |->
    [directory |-> "data", suffix |-> IF a = t1 THEN "tmp" ELSE "csv",
     kind |-> IF a = k1 THEN "symlink" ELSE "file"]]

MCBodies == {<<"a", "b">>, <<"html", "a">>, <<"a", "b", "c">>}
MCDownloads == {d1, d2}

\* Two calls that publish at one path: another content, an incoherent one, or the same one with a time stamp.
MCRequests ==
    LET r(kind, path, name, stamped) ==
          [kind |-> kind, path |-> path, content |-> [name |-> name, coherent |-> name # "x"], stamped |-> stamped]
    IN  {r("document", "documents/d", name, FALSE) : name \in {"a", "b"}}
        \cup {r("typed", "analysis/t", name, FALSE) : name \in {"a", "b", "x"}}
        \cup {r("feature", "football/f", "a", stamped) : stamped \in BOOLEAN}
        \cup {r("model", "models/m", name, FALSE) : name \in {"a", "x"}}
MCPublishers == {p1, p2}

Parts == {"snapshots", "migrations", "backup", "raw", "artifacts"}

StorageInit ==
    /\ part \in Parts
    /\ Init /\ MigrationsInit /\ BackupInit /\ RawInit /\ PublishingInit
    /\ \A p, q \in Publishers : Request(p).path = Request(q).path
    /\ part # "artifacts" => \A p \in Publishers : Request(p) = CHOOSE r \in Requests : TRUE
    /\ part # "snapshots" => \A id \in Legacy : row[id] = "none" /\ dir[id] = "none"
    /\ part # "backup" => home.dirs = [r \in RoleSet |-> Absent]
    /\ part # "raw" => files = [c \in Contents |-> Missing]

StorageNext ==
    /\ UNCHANGED part
    /\ \/ part = "snapshots" /\ Next /\ UNCHANGED <<migrationVars, backupVars, rawVars, publishingVars>>
       \/ part = "migrations" /\ MigrationsNext /\ UNCHANGED <<vars, backupVars, rawVars, publishingVars>>
       \/ part = "backup" /\ BackupNext /\ UNCHANGED <<vars, migrationVars, rawVars, publishingVars>>
       \/ part = "raw" /\ RawNext /\ UNCHANGED <<vars, migrationVars, backupVars, publishingVars>>
       \/ part = "artifacts" /\ PublishingNext /\ UNCHANGED <<vars, migrationVars, backupVars, rawVars>>

\* The fairness of RawFairness, in the behaviours that are downloads.
DownloadsFairness ==
    \A d \in Downloads :
        /\ WF_rawVars(part = "raw" /\ (StartRequest(d) \/ NetworkFails(d) \/ StatusFails(d) \/ Respond(d)))
        /\ WF_rawVars(part = "raw" /\ EndBody(d))
        /\ WF_rawVars(part = "raw" /\ FindExisting(d)) /\ WF_rawVars(part = "raw" /\ RenameIntoPlace(d))

StorageSpec ==
    /\ StorageInit /\ [][StorageNext]_<<part, vars, migrationVars, backupVars, rawVars, publishingVars>>
    /\ DownloadsFairness

-----------------------------------------------------------------------------
\* Every download of the store comes to an end within its retries (see DownloadsEnd).
StoreDownloadsEnd == part = "raw" => DownloadsEnd
=============================================================================
