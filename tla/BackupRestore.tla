--------------------------- MODULE BackupRestore ---------------------------
(***************************************************************************)
(* Backup of a running installation and restore into an empty one          *)
(* (release/backup.py).  An installation is a database, the set of rows    *)
(* that name artifacts, and one directory of artifacts per role; a         *)
(* publisher renames an artifact's files into place before its row         *)
(* commits.                                                                *)
(***************************************************************************)
EXTENDS Integers, Sequences, FiniteSets, SequencesExt

CONSTANTS RolePaths,    \* _ROLE_PATHS, in order
          Artifacts,    \* artifacts the publisher may publish
          RoleOf,       \* the role whose directory holds each of them
          FileOf,       \* its file: the directory, suffix and kind that decide its copy
          Absent,       \* no database, no directory
          MaxRestores   \* bound: restores that are started

VARIABLES live,         \* the running installation
          backingUp,    \* the backup in progress: its stage and temporary copy
          backup,       \* the published backup, or NoBackup
          home,         \* the installation that is restored into
          restore,      \* the restore in progress
          restores      \* restores started so far

backupVars == <<live, backingUp, backup, home, restore, restores>>

RoleSet == {RolePaths[i] : i \in 1..Len(RolePaths)}

\* _ROLE_PATHS names directories other than the database file, and every
\* artifact is published in one of them.
ASSUME BackupAssumption ==
    /\ RolePaths \in Seq(RoleSet)
    /\ "database" \notin RoleSet
    /\ RoleOf \in [Artifacts -> RoleSet]
    /\ \A files \in SUBSET Artifacts : files # Absent

NoFiles == [r \in RoleSet |-> {}]
NoBackup == [exists |-> FALSE, rows |-> {}, dirs |-> NoFiles, manifest |-> Absent, damaged |-> {}]
NotBackingUp == [stage |-> "none", rows |-> {}, dirs |-> NoFiles, next |-> 1]
NotRestoring == [stage |-> "none", next |-> 1, staged |-> {}, published |-> {},
                 before |-> [r \in RoleSet |-> Absent], outcome |-> "none"]

BackupInit ==
    /\ live = [rows |-> {}, dirs |-> NoFiles]
    /\ backingUp = NotBackingUp /\ backup = NoBackup
    /\ home \in [database : {Absent},
                 dirs : [RoleSet -> {Absent, {}}], staged : {{}}]
    /\ restore = NotRestoring /\ restores = 0

-----------------------------------------------------------------------------
\* What _copy_tree_verified does with a file: leave it out, refuse or copy it.
CopyVerdict(file) ==
    IF file.directory \in {"cache", "playwright", "temp"} \/ file.suffix \in {"log", "pyc", "temp", "tmp", "env"}
    THEN "excluded"
    ELSE IF file.kind \in {"credentials", "symlink"} THEN "refused" ELSE "copied"

Copied(files) == {a \in files : CopyVerdict(FileOf[a]) = "copied"}
Refused(files) == {a \in files : CopyVerdict(FileOf[a]) = "refused"}

\* _inventory_payload_files: a checksum for every path, here the content.
Inventory(rows, dirs, damaged) ==
    [p \in {"database"} \union UNION {dirs[r] : r \in RoleSet} |->
        IF p \in damaged THEN Absent ELSE IF p = "database" THEN rows ELSE RoleOf[p]]

Manifest(rows, dirs) ==
    LET files == Inventory(rows, dirs, {})
    IN  [roles |-> RoleSet, files |-> files, database |-> files["database"], count |-> Cardinality(DOMAIN files)]

\* _validate_manifest: the known roles, no path outside them, the database in
\* the inventory under its own checksum, and the count of the inventory.
ValidManifest(m) ==
    /\ m.roles = RoleSet
    /\ \A p \in DOMAIN m.files \ {"database"} : RoleOf[p] \in RoleSet
    /\ "database" \in DOMAIN m.files /\ m.files["database"] = m.database
    /\ m.count = Cardinality(DOMAIN m.files)

\* _verify_backup_directory: the files are those declared, with their content,
\* none of them executable.
VerifiedBackup(b) ==
    /\ b.exists /\ ValidManifest(b.manifest)
    /\ Inventory(b.rows, b.dirs, b.damaged) = b.manifest.files
    /\ \A p \in DOMAIN b.manifest.files \ {"database"} : FileOf[p].suffix # "exe"

-----------------------------------------------------------------------------
\* The publisher of artifacts: files first, the row when they are in place.
PublishFiles(a) ==
    /\ a \notin live.dirs[RoleOf[a]]
    /\ live' = [live EXCEPT !.dirs[RoleOf[a]] = @ \union {a}]
    /\ UNCHANGED <<backingUp, backup, home, restore, restores>>

CommitRow(a) ==
    /\ a \in Copied(live.dirs[RoleOf[a]]) \ live.rows
    /\ live' = [live EXCEPT !.rows = @ \union {a}]
    /\ UNCHANGED <<backingUp, backup, home, restore, restores>>

-----------------------------------------------------------------------------
\* Mutant: the directories are copied before the database.
DatabaseCopiedLast == RolePaths \o <<"database">>

\* create_backup: the database through SQLite's backup, then each role.
CopyPlan == <<"database">> \o RolePaths

BeginBackup ==
    /\ backingUp.stage = "none" /\ ~backup.exists
    /\ backingUp' = [NotBackingUp EXCEPT !.stage = "copying"]
    /\ UNCHANGED <<live, backup, home, restore, restores>>

CopyNext ==
    /\ backingUp.stage = "copying" /\ backingUp.next <= Len(CopyPlan)
    /\ LET part == CopyPlan[backingUp.next]
       IN  \/ /\ part = "database"
              /\ backingUp' = [backingUp EXCEPT !.next = @ + 1, !.rows = live.rows]
           \/ /\ part # "database" /\ Refused(live.dirs[part]) = {}
              /\ backingUp' = [backingUp EXCEPT !.next = @ + 1, !.dirs[part] = Copied(live.dirs[part])]
    /\ UNCHANGED <<live, backup, home, restore, restores>>

\* The inventory, the manifest, its verification and the rename.
PublishBackup ==
    /\ backingUp.stage = "copying" /\ backingUp.next > Len(CopyPlan)
    /\ LET made == [exists |-> TRUE, rows |-> backingUp.rows, dirs |-> backingUp.dirs,
                    manifest |-> Manifest(backingUp.rows, backingUp.dirs), damaged |-> {}]
       IN  VerifiedBackup(made) /\ backup' = made
    /\ backingUp' = NotBackingUp
    /\ UNCHANGED <<live, home, restore, restores>>

\* An exception removes the temporary directory; a killed process leaves it,
\* under a name no later backup uses.
AbandonBackup ==
    /\ backingUp.stage = "copying"
    /\ backingUp' = NotBackingUp
    /\ UNCHANGED <<live, backup, home, restore, restores>>

\* A file of the backup is damaged while it is kept.
DamageBackup ==
    /\ backup.exists /\ restore.stage = "none"
    /\ \E p \in DOMAIN backup.manifest.files \ backup.damaged :
           backup' = [backup EXCEPT !.damaged = {p}]
    /\ UNCHANGED <<live, backingUp, home, restore, restores>>

-----------------------------------------------------------------------------
\* _validate_restore_targets and _verify_backup_directory
Restorable == /\ VerifiedBackup(backup)
              /\ home.database = Absent
              /\ \A r \in RoleSet : home.dirs[r] \in {Absent, {}}

BeginRestore ==
    /\ restore.stage = "none" /\ restores < MaxRestores /\ Restorable
    /\ restore' = [NotRestoring EXCEPT !.stage = "staging", !.before = home.dirs]
    /\ restores' = restores + 1
    /\ UNCHANGED <<live, backingUp, backup, home>>

\* A role is copied into a staging directory beside its target.
StageRole ==
    /\ restore.stage = "staging" /\ restore.next <= Len(RolePaths)
    /\ LET r == RolePaths[restore.next]
       IN  /\ home' = [home EXCEPT !.staged = @ \union {r}]
           /\ restore' = [restore EXCEPT !.next = @ + 1, !.staged = @ \union {r}]
    /\ UNCHANGED <<live, backingUp, backup, restores>>

\* Mutant: only what is still staged is removed.
RecoverStagedOnly(extra) ==
    /\ home' = [home EXCEPT !.staged = (@ \ restore.staged) \union extra]
    /\ restore' = [NotRestoring EXCEPT !.outcome = "failed", !.before = restore.before]

\* The handler of restore_backup: what is recorded as staged or published is
\* removed, an empty directory that was there is made again.  The directory
\* being staged when the copy fails is not recorded yet.
Recover(extra) ==
    /\ home' = [database |-> IF "database" \in restore.published THEN Absent ELSE home.database,
                dirs |-> [r \in RoleSet |-> IF r \in restore.published \/ home.dirs[r] = Absent
                                            THEN restore.before[r] ELSE home.dirs[r]],
                staged |-> (home.staged \ restore.staged) \union extra]
    /\ restore' = [NotRestoring EXCEPT !.outcome = "failed", !.before = restore.before]

FailStaging ==
    /\ restore.stage = "staging" /\ restore.next <= Len(RolePaths)
    /\ Recover({RolePaths[restore.next]})
    /\ UNCHANGED <<live, backingUp, backup, restores>>

\* The database is staged and verified.
StageDatabase ==
    /\ restore.stage = "staging" /\ restore.next > Len(RolePaths)
    /\ home' = [home EXCEPT !.staged = @ \union {"database"}]
    /\ restore' = [restore EXCEPT !.stage = "publishing", !.next = 1, !.staged = @ \union {"database"}]
    /\ UNCHANGED <<live, backingUp, backup, restores>>

PublishPlan == RolePaths \o <<"database">>

\* An empty target is removed, the staged copy renamed to it; the last part
\* verifies the database in place.
PublishPart ==
    /\ restore.stage = "publishing" /\ restore.next <= Len(PublishPlan)
    /\ LET part == PublishPlan[restore.next]
       IN  /\ home' = IF part = "database"
                      THEN [home EXCEPT !.database = backup.rows, !.staged = @ \ {part}]
                      ELSE [home EXCEPT !.dirs[part] = backup.dirs[part], !.staged = @ \ {part}]
           /\ restore' = [restore EXCEPT !.next = @ + 1, !.published = @ \union {part}]
    /\ UNCHANGED <<live, backingUp, backup, restores>>

CompleteRestore ==
    /\ restore.stage = "publishing" /\ restore.next > Len(PublishPlan)
    /\ restore' = [NotRestoring EXCEPT !.outcome = "restored"]
    /\ UNCHANGED <<live, backingUp, backup, home, restores>>

\* Any other step may raise: between the removal of an empty target and the
\* rename, too.
FailRestore ==
    /\ \/ restore.stage = "staging" /\ restore.next > Len(RolePaths)
       \/ restore.stage = "publishing"
    /\ Recover({})
    /\ UNCHANGED <<live, backingUp, backup, restores>>

\* The process is killed: nothing is cleaned up.
CrashRestore ==
    /\ restore.stage \in {"staging", "publishing"}
    /\ restore' = [NotRestoring EXCEPT !.outcome = "crashed"]
    /\ UNCHANGED <<live, backingUp, backup, home, restores>>

\* The application starts on what is there and creates what is missing
\* (ensure_database_ready, the runtime directories).
StartApplication ==
    /\ restore.stage = "none" /\ home.database = Absent
    /\ restore.outcome \in {"failed", "crashed"}
    /\ home' = [home EXCEPT !.database = {},
                            !.dirs = [r \in RoleSet |-> IF @[r] = Absent THEN {} ELSE @[r]]]
    /\ UNCHANGED <<live, backingUp, backup, restore, restores>>

BackupNext ==
    \/ \E a \in Artifacts : PublishFiles(a) \/ CommitRow(a)
    \/ BeginBackup \/ CopyNext \/ PublishBackup \/ AbandonBackup \/ DamageBackup
    \/ BeginRestore \/ StageRole \/ FailStaging \/ StageDatabase \/ PublishPart
    \/ CompleteRestore \/ FailRestore \/ CrashRestore \/ StartApplication

BackupSpec == BackupInit /\ [][BackupNext]_backupVars

-----------------------------------------------------------------------------
Named(rows, dirs) == \A a \in rows : a \in dirs[RoleOf[a]]

\* Whatever is published while a backup runs, every row of a finished backup
\* names files the backup holds: the database is copied before the directories
\* and never after them (create_backup).  The same holds at every moment of a
\* restore, a crash between two renames included: a database that is in place
\* finds its artifacts (restore_backup, backup.py:231).
RowsFindFiles ==
    /\ backup.exists => Named(backup.rows, backup.dirs)
    /\ home.database # Absent =>
           Named(home.database, [r \in RoleSet |-> IF home.dirs[r] = Absent THEN {} ELSE home.dirs[r]])

\* A restore that reports a failure leaves the installation as it found it: no
\* database, and every directory absent or empty as before.
FailedRestoreLeavesNothing ==
    [][restore'.outcome = "failed" /\ restore.outcome # "failed" =>
           home'.database = Absent /\ home'.dirs = restore.before]_backupVars

\* "restore failed without retained partial state" (backup.py:252): nothing
\* staged stays behind either.
NoRetainedState == restore.outcome = "failed" => home.staged = {}
=============================================================================
