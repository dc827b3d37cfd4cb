------------------------ MODULE SnapshotPublication ------------------------
(***************************************************************************)
(* Publication of prepared snapshot directories (snapshots/service.py over *)
(* data/repositories/snapshots.py, snapshots/writer.py and reader.py).     *)
(*                                                                         *)
(* A writer has prepared a temporary directory under a fresh UUID, so the  *)
(* writer's name is also its snapshot id.  publish_or_reuse coordinates    *)
(* two stores that share no transaction: the snapshots table and the       *)
(* directory tree.  Lookups and verifications run outside transactions;    *)
(* the decisions are re-checked in a BEGIN IMMEDIATE one.  Only            *)
(* _publish_new changes the directory tree inside its transaction, so only *)
(* that transaction is split into steps here: its rename is visible to     *)
(* everybody before its row is.                                            *)
(***************************************************************************)
EXTENDS Naturals, FiniteSets

CONSTANTS
    Writers,        \* concurrent publishers, named by their snapshot UUID
    Legacy,         \* snapshot ids left behind by earlier publications
    SourceVersion,  \* (type, source, source version, schema) of each id
    NULL,
    MaxCrashes      \* bound: process crashes

Ids == Writers \cup Legacy

ASSUME NullAssumption == NULL \notin Ids
ASSUME DisjointAssumption == Writers \cap Legacy = {}
ASSUME CrashesAssumption == MaxCrashes \in Nat

VARIABLES
    row,        \* committed status of each id in table snapshots
    dir,        \* the directory of each id
    audit,      \* "snapshot-created" audit events of each id
    lock,       \* the writer inside _publish_new's transaction
    pc,         \* where each writer is in publish_or_reuse
    seen,       \* the id it read and is about to confirm or adopt
    result,     \* what publish_or_reuse returned (an id) or raised
    crashes

vars == <<row, dir, audit, lock, pc, seen, result, crashes>>

RowStatus == {"none", "building", "ready", "failed"}
Active == {"building", "ready"}

(* "damaged": present at its final path, but verification rejects it. *)
DirStatus == {"none", "temp", "final", "damaged"}

Errors == {"busy", "verification", "multiple_orphans", "database_integrity",
           "database_error", "rename_failed", "commit_failed"}

(* An id is a UUID and never the text of an outcome. *)
ASSUME OutcomeAssumption == Ids \cap (Errors \cup {"none", "crashed"}) = {}

Rivals(w) == {id \in Ids : SourceVersion[id] = SourceVersion[w]}

(* get_active_snapshot_by_source_version *)
ActiveRows(w) == {id \in Rivals(w) : row[id] \in Active}

Init ==
    /\ row \in [Ids -> {"none", "building"}]
    /\ \A w \in Writers : row[w] = "none"
    /\ \A a, b \in Legacy :
        (row[a] = "building" /\ row[b] = "building" /\ a # b)
            => SourceVersion[a] # SourceVersion[b]
    /\ dir \in [Ids -> {"none", "temp", "final", "damaged"}]
    /\ \A id \in Ids : id \in Writers <=> dir[id] = "temp"
    /\ audit = [id \in Ids |-> 0]
    /\ lock = NULL
    /\ pc = [w \in Writers |-> "lookup"]
    /\ seen = [w \in Writers |-> NULL]
    /\ result = [w \in Writers |-> "none"]
    /\ crashes = 0

-----------------------------------------------------------------------------
(* Helpers *)

Goto(w, where, id) ==
    /\ pc' = [pc EXCEPT ![w] = where]
    /\ seen' = [seen EXCEPT ![w] = id]
    /\ UNCHANGED <<result, crashes>>

Finish(w, outcome) ==
    /\ pc' = [pc EXCEPT ![w] = "ended"]
    /\ seen' = [seen EXCEPT ![w] = NULL]
    /\ result' = [result EXCEPT ![w] = outcome]
    /\ UNCHANGED crashes

(* discard_prepared_snapshot: only ever the writer's own temporary tree. *)
Discard(w) == dir' = [dir EXCEPT ![w] = IF dir[w] = "temp" THEN "none" ELSE dir[w]]

(* Every exception leaves through the finally block, which discards. *)
Raise(w, error) ==
    /\ Finish(w, error)
    /\ Discard(w)
    /\ UNCHANGED <<row, audit, lock>>

(* A short BEGIN IMMEDIATE transaction waits for the open one. *)
WriteLock == lock = NULL

MarkReady(id) ==
    /\ row' = [row EXCEPT ![id] = "ready"]
    /\ audit' = [audit EXCEPT ![id] = @ + 1]

(* verify_snapshot_directory *)
Verified(id) == dir[id] = "final"

-----------------------------------------------------------------------------
(* publish_or_reuse *)

(* _lookup_active, and the branch on what it found. *)
LookupActive(w) ==
    /\ pc[w] = "lookup"
    /\ \/ /\ ActiveRows(w) = {}
          /\ Goto(w, "discover", NULL)
       \/ \E id \in ActiveRows(w) :
            Goto(w, IF row[id] = "ready" THEN "verify_ready" ELSE "verify_building", id)
    /\ UNCHANGED <<row, dir, audit, lock>>

(* _reuse_ready_outside_tx: verification. *)
VerifyReady(w) ==
    /\ pc[w] = "verify_ready"
    /\ IF Verified(seen[w])
       THEN Goto(w, "confirm_ready", seen[w]) /\ UNCHANGED <<row, dir, audit, lock>>
       ELSE Raise(w, "verification")

(* _commit_ready_reuse: the row must still be the READY one that was read. *)
CommitReadyReuse(w) ==
    /\ pc[w] = "confirm_ready" /\ WriteLock
    /\ IF row[seen[w]] = "ready"
       THEN Finish(w, seen[w]) /\ Discard(w) /\ UNCHANGED <<row, audit, lock>>
       ELSE Raise(w, "busy")

(* _recover_building_outside_tx: the directory of the existing row. *)
VerifyBuilding(w) ==
    /\ pc[w] = "verify_building"
    /\ IF dir[seen[w]] \notin {"final", "damaged"} THEN Raise(w, "busy")
       ELSE IF ~Verified(seen[w]) THEN Raise(w, "verification")
       ELSE Goto(w, "confirm_building", seen[w]) /\ UNCHANGED <<row, dir, audit, lock>>

ConfirmBuilding(w) ==
    /\ pc[w] = "confirm_building" /\ WriteLock
    /\ IF row[seen[w]] = "building"
       THEN MarkReady(seen[w]) /\ Finish(w, seen[w]) /\ Discard(w) /\ UNCHANGED lock
       ELSE Raise(w, "busy")

(* Directories of this identity under the partition parent.  Malformed ones *)
(* are ignored; whether a candidate has a row is not looked at.             *)
MatchingOrphans(w) == {id \in Rivals(w) \ {w} : Verified(id)}

(* _discover_matching_orphan *)
DiscoverMatchingOrphan(w) ==
    /\ pc[w] = "discover"
    /\ IF Cardinality(MatchingOrphans(w)) > 1 THEN Raise(w, "multiple_orphans")
       ELSE /\ \/ MatchingOrphans(w) = {} /\ Goto(w, "publish", NULL)
               \/ \E id \in MatchingOrphans(w) : Goto(w, "adopt", id)
            /\ UNCHANGED <<row, dir, audit, lock>>

(* _adopt_orphan_outside_tx: insert the orphan's row as READY.  An id that  *)
(* has a row violates the primary key and the handler for                   *)
(* DatabaseIntegrityError discards and looks again.                         *)
AdoptOrphan(w) ==
    /\ pc[w] = "adopt" /\ WriteLock
    /\ \/ /\ ActiveRows(w) # {}
          /\ Goto(w, "race", NULL)
          /\ UNCHANGED <<row, dir, audit, lock>>
       \/ /\ ActiveRows(w) = {} /\ row[seen[w]] # "none"
          /\ Goto(w, "recheck", NULL)
          /\ Discard(w)
          /\ UNCHANGED <<row, audit, lock>>
       \/ /\ ActiveRows(w) = {} /\ row[seen[w]] = "none"
          /\ MarkReady(seen[w]) /\ Finish(w, seen[w]) /\ Discard(w)
          /\ UNCHANGED lock

(* _reuse_ready_after_race: another writer completed concurrently. *)
ReuseReadyAfterRace(w) ==
    /\ pc[w] = "race"
    /\ \/ \E id \in ActiveRows(w) :
            /\ row[id] = "ready"
            /\ Goto(w, "verify_ready", id)
            /\ UNCHANGED <<row, dir, audit, lock>>
       \/ /\ \A id \in ActiveRows(w) : row[id] # "ready"
          /\ Raise(w, "busy")

(* The except clause for DatabaseIntegrityError. *)
LookAgain(w) ==
    /\ pc[w] = "recheck"
    /\ \/ ActiveRows(w) = {} /\ Raise(w, "database_integrity")
       \/ \E id \in ActiveRows(w) :
            IF row[id] = "building" THEN Raise(w, "busy")
            ELSE IF ~Verified(id) THEN Raise(w, "verification")
            ELSE Finish(w, id) /\ UNCHANGED <<row, dir, audit, lock>>

-----------------------------------------------------------------------------
(* _publish_new *)

(* Faulty variant of PublishBegin: an active row is not looked for again. *)
PublishBeginUnchecked(w) ==
    /\ pc[w] = "publish" /\ WriteLock
    /\ lock' = w
    /\ Goto(w, "rename", NULL)
    /\ UNCHANGED <<row, dir, audit>>

(* BEGIN IMMEDIATE, the checks and the BUILDING insert.  The final path     *)
(* carries the writer's own fresh UUID, so it does not exist.               *)
PublishBegin(w) ==
    /\ pc[w] = "publish" /\ WriteLock
    /\ \/ /\ ActiveRows(w) # {}
          /\ Goto(w, "race", NULL)
          /\ UNCHANGED <<row, dir, audit, lock>>
       \/ /\ ActiveRows(w) = {}
          /\ lock' = w
          /\ Goto(w, "rename", NULL)
          /\ UNCHANGED <<row, dir, audit>>

(* The same-filesystem rename, or OSError and rollback. *)
Rename(w) ==
    /\ pc[w] = "rename"
    /\ \/ /\ dir' = [dir EXCEPT ![w] = "final"]
          /\ Goto(w, "commit", NULL)
          /\ UNCHANGED <<row, audit, lock>>
       \/ /\ lock' = NULL
          /\ Finish(w, "rename_failed") /\ Discard(w)
          /\ UNCHANGED <<row, audit>>

(* mark READY, audit and COMMIT; a failing COMMIT rolls the row back only. *)
Commit(w) ==
    /\ pc[w] = "commit"
    /\ lock' = NULL
    /\ UNCHANGED dir
    /\ \/ MarkReady(w) /\ Finish(w, w)
       \/ Finish(w, "commit_failed") /\ UNCHANGED <<row, audit>>

-----------------------------------------------------------------------------
(* Environment *)

(* The process dies: its transaction is rolled back, its files stay. *)
Crash(w) ==
    /\ pc[w] # "ended" /\ crashes < MaxCrashes
    /\ crashes' = crashes + 1
    /\ pc' = [pc EXCEPT ![w] = "ended"]
    /\ seen' = [seen EXCEPT ![w] = NULL]
    /\ result' = [result EXCEPT ![w] = "crashed"]
    /\ lock' = IF lock = w THEN NULL ELSE lock
    /\ UNCHANGED <<row, dir, audit>>

(* A connection or statement fails outside the open transaction. *)
DatabaseError(w) ==
    /\ pc[w] \in {"lookup", "confirm_ready", "confirm_building", "adopt", "race",
                 "recheck", "publish"}
    /\ Raise(w, "database_error")

(* SnapshotRepository.mark_snapshot_failed: only a BUILDING row. *)
MarkSnapshotFailed(id) ==
    /\ row[id] = "building" /\ WriteLock
    /\ row' = [row EXCEPT ![id] = "failed"]
    /\ UNCHANGED <<dir, audit, lock, pc, seen, result, crashes>>

PublishOrReuse(w) ==
    \/ LookupActive(w) \/ VerifyReady(w) \/ CommitReadyReuse(w)
    \/ VerifyBuilding(w) \/ ConfirmBuilding(w) \/ DiscoverMatchingOrphan(w)
    \/ AdoptOrphan(w) \/ ReuseReadyAfterRace(w) \/ LookAgain(w)
    \/ PublishBegin(w) \/ Rename(w) \/ Commit(w)

Next ==
    \/ \E w \in Writers : PublishOrReuse(w) \/ DatabaseError(w) \/ Crash(w)
    \/ \E id \in Ids : MarkSnapshotFailed(id)

Spec == Init /\ [][Next]_vars

-----------------------------------------------------------------------------
(* Properties *)

TypeOK ==
    /\ row \in [Ids -> RowStatus]
    /\ dir \in [Ids -> DirStatus]
    /\ audit \in [Ids -> Nat]
    /\ lock \in Writers \cup {NULL}
    /\ pc \in [Writers -> {"lookup", "verify_ready", "confirm_ready",
                           "verify_building", "confirm_building", "discover",
                           "adopt", "race", "recheck", "publish", "rename",
                           "commit", "ended"}]
    /\ seen \in [Writers -> Ids \cup {NULL}]
    /\ result \in [Writers -> Ids \cup Errors \cup {"none", "crashed"}]
    /\ crashes \in 0..MaxCrashes

(* At most one active snapshot per source version, although lookup, orphan  *)
(* discovery and publication are separate steps of concurrent writers: the  *)
(* partial unique index of 0003_snapshot_source_deduplication.sql is never  *)
(* what stops a second one.                                                 *)
OneActive ==
    \A a, b \in Ids :
        (row[a] \in Active /\ row[b] \in Active /\ SourceVersion[a] = SourceVersion[b])
            => a = b

(* A READY row always points at a complete directory: the row is committed  *)
(* after the rename, recovery and adoption only after verification, and no  *)
(* discard ever touches a published directory.                              *)
ReadyIsComplete == \A id \in Ids : row[id] = "ready" => dir[id] = "final"

(* Whoever publishes a source version gets the same READY snapshot, whether *)
(* it published, adopted, recovered or reused it.                           *)
Agreement ==
    \A a, b \in Writers :
        /\ result[a] \in Ids => row[result[a]] = "ready"
        /\ (result[a] \in Ids /\ result[b] \in Ids
              /\ SourceVersion[a] = SourceVersion[b]) => result[a] = result[b]

(* What publications leave, whichever raced, failed or crashed: one active  *)
(* snapshot per source version, whole on disk and the one its row names.    *)
PublishedSnapshots == TypeOK /\ OneActive /\ ReadyIsComplete /\ Agreement
=============================================================================
