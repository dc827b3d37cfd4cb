---------------------------- MODULE StorageProofs ----------------------------
(***************************************************************************)
(* What publications of snapshots and artifacts, backups and restores      *)
(* leave, what the raw store holds and what migrations make of a schema:   *)
(* for every set of writers and source versions, of artifacts, directories,*)
(* downloads, bodies and requests, and for all releases that meet on one   *)
(* database.                                                               *)
(***************************************************************************)
EXTENDS SnapshotPublication, BackupRestore, RawStore, Migrations, ArtifactPublication,
    SequenceTheorems, TLAPS
-----------------------------------------------------------------------------
(* Snapshots: the inductive invariant *)

(* A writer is inside its transaction exactly between BEGIN IMMEDIATE and  *)
(* its end; until then nobody makes a row of its source version active,    *)
(* and it commits only what it has renamed.                                *)
LockInv ==
    \A w \in Writers :
        /\ lock = w <=> pc[w] \in {"rename", "commit"}
        /\ lock = w => ActiveRows(w) = {}
        /\ pc[w] = "commit" => dir[w] = "final"

(* What a writer read before it waits for a transaction: an id of its own  *)
(* source version, verified before it may be made READY.                   *)
SeenInv ==
    \A w \in Writers :
        /\ pc[w] \in {"verify_ready", "confirm_ready", "verify_building",
                      "confirm_building", "adopt"} => seen[w] \in Rivals(w)
        /\ pc[w] \in {"confirm_building", "adopt"} => dir[seen[w]] = "final"

(* What a writer returned is READY and of its own source version. *)
ResultInv ==
    \A w \in Writers :
        result[w] \in Ids =>
            /\ row[result[w]] = "ready"
            /\ SourceVersion[result[w]] = SourceVersion[w]

IInv ==
    /\ TypeOK
    /\ OneActive
    /\ ReadyIsComplete
    /\ LockInv
    /\ SeenInv
    /\ ResultInv

(* Two publications of one source version return one snapshot, because     *)
(* what they return is READY and only one row of it is active.             *)
LEMMA InvariantImpliesPublished ==
    IInv => PublishedSnapshots
<1> SUFFICES ASSUME IInv PROVE Agreement
    BY DEF IInv, PublishedSnapshots
<1> QED
    BY DEF IInv, ResultInv, OneActive, Agreement, Active

LEMMA InitInvariant ==
    Init => IInv
<1> SUFFICES ASSUME Init PROVE IInv
    OBVIOUS
<1>1. TypeOK
    BY CrashesAssumption DEF Init, TypeOK, RowStatus, DirStatus
<1>2. OneActive /\ ReadyIsComplete
    BY DEF Init, OneActive, ReadyIsComplete, Active, Ids
<1>3. LockInv /\ SeenInv /\ ResultInv
    BY NullAssumption, OutcomeAssumption DEF Init, LockInv, SeenInv, ResultInv, Ids
<1> QED
    BY <1>1, <1>2, <1>3 DEF IInv

-----------------------------------------------------------------------------
(* Steps that leave the rows alone *)

(* A step of one writer that neither changes a row nor the lock, and takes *)
(* away or damages no published directory.                                 *)
WriterStep(w) ==
    /\ UNCHANGED <<row, audit, lock>>
    /\ dir' \in [Ids -> DirStatus]
    /\ \A id \in Ids : dir[id] = "final" => dir'[id] = "final"
    /\ pc' = [pc EXCEPT ![w] = pc'[w]]
    /\ seen' = [seen EXCEPT ![w] = seen'[w]]
    /\ result' = [result EXCEPT ![w] = result'[w]]

LEMMA WriterStepKeeps ==
    ASSUME IInv, NEW w \in Writers, WriterStep(w), TypeOK',
           pc[w] \notin {"rename", "commit"}, pc'[w] \notin {"rename", "commit"},
           pc'[w] \in {"verify_ready", "confirm_ready", "verify_building",
                       "confirm_building", "adopt"} => seen'[w] \in Rivals(w),
           pc'[w] \in {"confirm_building", "adopt"} => dir[seen'[w]] = "final",
           result'[w] \in Ids => /\ row[result'[w]] = "ready"
                                 /\ SourceVersion[result'[w]] = SourceVersion[w]
    PROVE  IInv'
<1>1. \A v \in Writers \ {w} : pc'[v] = pc[v] /\ seen'[v] = seen[v] /\ result'[v] = result[v]
    BY DEF IInv, TypeOK, WriterStep
<1>2. OneActive' /\ ReadyIsComplete'
    BY DEF IInv, TypeOK, OneActive, ReadyIsComplete, WriterStep
<1>3. LockInv'
    BY <1>1 DEF IInv, LockInv, WriterStep, ActiveRows, Rivals, Ids
<1>4. SeenInv'
    BY <1>1 DEF IInv, SeenInv, WriterStep, Rivals, Ids
<1>5. ResultInv'
    BY <1>1 DEF IInv, ResultInv, WriterStep
<1> QED
    BY <1>2, <1>3, <1>4, <1>5 DEF IInv

LEMMA RaiseIsWriterStep ==
    ASSUME IInv, NEW w \in Writers, NEW error \in Errors, Raise(w, error)
    PROVE  /\ WriterStep(w) /\ TypeOK'
           /\ pc'[w] = "ended" /\ result'[w] \notin Ids
BY OutcomeAssumption DEF IInv, TypeOK, WriterStep, Raise, Finish, Discard, DirStatus, Ids

LEMMA RaiseInvariant ==
    ASSUME IInv, NEW w \in Writers, NEW error \in Errors, Raise(w, error),
           pc[w] \notin {"rename", "commit"}
    PROVE  IInv'
<1>1. /\ WriterStep(w) /\ TypeOK'
      /\ pc'[w] = "ended" /\ result'[w] \notin Ids
    BY RaiseIsWriterStep
<1> QED
    BY <1>1, WriterStepKeeps

(* A step that only decides where to go next, and with what it has seen. *)
LEMMA GotoInvariant ==
    ASSUME IInv, NEW w \in Writers, NEW id \in Ids \cup {NULL},
           NEW where \in {"verify_ready", "confirm_ready", "verify_building",
                          "confirm_building", "discover", "adopt", "race",
                          "recheck", "publish"},
           Goto(w, where, id), UNCHANGED <<row, audit, lock>>,
           dir' = dir \/ Discard(w), pc[w] \notin {"rename", "commit"},
           where \in {"verify_ready", "confirm_ready", "verify_building",
                      "confirm_building", "adopt"} => id \in Rivals(w),
           where \in {"confirm_building", "adopt"} => dir[id] = "final"
    PROVE  IInv'
<1>1. WriterStep(w) /\ TypeOK'
    BY DEF IInv, TypeOK, WriterStep, Goto, Discard, DirStatus, Ids
<1>2. pc'[w] = where /\ seen'[w] = id /\ result'[w] = result[w]
    BY DEF IInv, TypeOK, Goto
<1>3. result[w] \in Ids => /\ row[result[w]] = "ready"
                           /\ SourceVersion[result[w]] = SourceVersion[w]
    BY DEF IInv, ResultInv
<1> QED
    BY <1>1, <1>2, <1>3, WriterStepKeeps

(* A step that returns a READY snapshot it found. *)
LEMMA ReturnInvariant ==
    ASSUME IInv, NEW w \in Writers, NEW id \in Rivals(w), row[id] = "ready",
           Finish(w, id), UNCHANGED <<row, audit, lock>>,
           dir' = dir \/ Discard(w), pc[w] \notin {"rename", "commit"}
    PROVE  IInv'
<1>1. WriterStep(w) /\ TypeOK'
    BY DEF IInv, TypeOK, WriterStep, Finish, Discard, DirStatus, Ids, Rivals
<1>2. pc'[w] = "ended" /\ result'[w] = id
    BY DEF IInv, TypeOK, Finish
<1> QED
    BY <1>1, <1>2, WriterStepKeeps DEF Rivals

-----------------------------------------------------------------------------
(* Steps that make a row READY *)

(* A writer makes READY the complete directory of an id of its own source  *)
(* version that no other active row competes with, and returns it.         *)
LEMMA ReadyInvariant ==
    ASSUME IInv, NEW w \in Writers, NEW id \in Rivals(w), MarkReady(id), Finish(w, id),
           dir[id] = "final", dir' = dir \/ Discard(w),
           ActiveRows(w) \subseteq {id},
           \/ lock = NULL /\ lock' = lock
           \/ lock = w /\ lock' = NULL
    PROVE  IInv'
<1>1. id \in Ids /\ SourceVersion[id] = SourceVersion[w] /\ Writers \subseteq Ids
    BY DEF Rivals, Ids
<1>2. TypeOK'
    BY <1>1 DEF IInv, TypeOK, MarkReady, Finish, Discard, DirStatus, RowStatus
<1>3. /\ row'[id] = "ready" /\ \A other \in Ids \ {id} : row'[other] = row[other]
      /\ \A other \in Ids : dir[other] = "final" => dir'[other] = "final"
      /\ lock' = NULL
    BY <1>1 DEF IInv, TypeOK, MarkReady, Discard
<1>4. /\ pc'[w] = "ended" /\ result'[w] = id
      /\ \A v \in Writers \ {w} : pc'[v] = pc[v] /\ seen'[v] = seen[v] /\ result'[v] = result[v]
    BY DEF IInv, TypeOK, Finish
<1>5. OneActive'
    BY <1>1, <1>3 DEF IInv, OneActive, ActiveRows, Rivals, Active
<1>6. ReadyIsComplete'
    BY <1>1, <1>3 DEF IInv, ReadyIsComplete
<1>7. LockInv'
    BY <1>1, <1>3, <1>4, NullAssumption DEF IInv, LockInv
<1>8. SeenInv'
    BY <1>3, <1>4 DEF IInv, SeenInv, Rivals
<1>9. ResultInv'
    BY <1>1, <1>3, <1>4 DEF IInv, ResultInv
<1> QED
    BY <1>2, <1>5, <1>6, <1>7, <1>8, <1>9 DEF IInv

-----------------------------------------------------------------------------
(* The actions *)

LEMMA LookupActiveInvariant ==
    ASSUME IInv, NEW w \in Writers, LookupActive(w)
    PROVE  IInv'
<1>1. CASE ActiveRows(w) = {} /\ Goto(w, "discover", NULL)
    BY <1>1, GotoInvariant DEF LookupActive
<1>2. ASSUME NEW id \in ActiveRows(w),
             Goto(w, IF row[id] = "ready" THEN "verify_ready" ELSE "verify_building", id)
      PROVE  IInv'
    <2>1. id \in Rivals(w) /\ id \in Ids
        BY DEF ActiveRows, Rivals
    <2>2. CASE row[id] = "ready"
        BY <1>2, <2>1, <2>2, GotoInvariant DEF LookupActive
    <2>3. CASE row[id] # "ready"
        BY <1>2, <2>1, <2>3, GotoInvariant DEF LookupActive
    <2> QED
        BY <2>2, <2>3
<1> QED
    BY <1>1, <1>2 DEF LookupActive

LEMMA VerifyReadyInvariant ==
    ASSUME IInv, NEW w \in Writers, VerifyReady(w)
    PROVE  IInv'
<1>1. seen[w] \in Rivals(w) /\ seen[w] \in Ids /\ pc[w] = "verify_ready"
    BY DEF IInv, SeenInv, VerifyReady, Rivals
<1>2. CASE Verified(seen[w])
    BY <1>1, <1>2, GotoInvariant DEF VerifyReady
<1>3. CASE ~Verified(seen[w])
    BY <1>1, <1>3, RaiseInvariant DEF VerifyReady, Errors
<1> QED
    BY <1>2, <1>3

LEMMA CommitReadyReuseInvariant ==
    ASSUME IInv, NEW w \in Writers, CommitReadyReuse(w)
    PROVE  IInv'
<1>1. seen[w] \in Rivals(w) /\ pc[w] = "confirm_ready"
    BY DEF IInv, SeenInv, CommitReadyReuse
<1>2. CASE row[seen[w]] = "ready"
    BY <1>1, <1>2, ReturnInvariant DEF CommitReadyReuse
<1>3. CASE row[seen[w]] # "ready"
    BY <1>1, <1>3, RaiseInvariant DEF CommitReadyReuse, Errors
<1> QED
    BY <1>2, <1>3

LEMMA VerifyBuildingInvariant ==
    ASSUME IInv, NEW w \in Writers, VerifyBuilding(w)
    PROVE  IInv'
<1>1. seen[w] \in Rivals(w) /\ seen[w] \in Ids /\ pc[w] = "verify_building"
    BY DEF IInv, SeenInv, VerifyBuilding, Rivals
<1>2. CASE dir[seen[w]] \notin {"final", "damaged"} \/ ~Verified(seen[w])
    BY <1>1, <1>2, RaiseInvariant DEF VerifyBuilding, Errors
<1>3. CASE Verified(seen[w])
    BY <1>1, <1>3, GotoInvariant DEF VerifyBuilding, Verified
<1> QED
    BY <1>2, <1>3

(* The recovered row is the only active one: it was one already. *)
LEMMA ConfirmBuildingInvariant ==
    ASSUME IInv, NEW w \in Writers, ConfirmBuilding(w)
    PROVE  IInv'
<1>1. seen[w] \in Rivals(w) /\ dir[seen[w]] = "final" /\ pc[w] = "confirm_building"
    BY DEF IInv, SeenInv, ConfirmBuilding
<1>2. CASE row[seen[w]] = "building"
    <2>1. ActiveRows(w) \subseteq {seen[w]}
        BY <1>1, <1>2 DEF IInv, OneActive, ActiveRows, Rivals, Active
    <2> QED
        BY <1>1, <1>2, <2>1, ReadyInvariant DEF ConfirmBuilding, WriteLock
<1>3. CASE row[seen[w]] # "building"
    BY <1>1, <1>3, RaiseInvariant DEF ConfirmBuilding, Errors
<1> QED
    BY <1>2, <1>3

LEMMA DiscoverMatchingOrphanInvariant ==
    ASSUME IInv, NEW w \in Writers, DiscoverMatchingOrphan(w)
    PROVE  IInv'
<1>1. CASE Raise(w, "multiple_orphans")
    BY <1>1, RaiseInvariant DEF DiscoverMatchingOrphan, Errors
<1>2. CASE Goto(w, "publish", NULL) /\ UNCHANGED <<row, dir, audit, lock>>
    BY <1>2, GotoInvariant DEF DiscoverMatchingOrphan
<1>3. ASSUME NEW id \in MatchingOrphans(w), Goto(w, "adopt", id),
             UNCHANGED <<row, dir, audit, lock>>
      PROVE  IInv'
    <2>1. id \in Rivals(w) /\ id \in Ids /\ dir[id] = "final"
        BY DEF MatchingOrphans, Rivals, Verified
    <2> QED
        BY <1>3, <2>1, GotoInvariant DEF DiscoverMatchingOrphan
<1> QED
    BY <1>1, <1>2, <1>3 DEF DiscoverMatchingOrphan

LEMMA AdoptOrphanInvariant ==
    ASSUME IInv, NEW w \in Writers, AdoptOrphan(w)
    PROVE  IInv'
<1>1. seen[w] \in Rivals(w) /\ dir[seen[w]] = "final" /\ pc[w] = "adopt"
    BY DEF IInv, SeenInv, AdoptOrphan
<1>2. CASE Goto(w, "race", NULL) /\ UNCHANGED <<row, dir, audit, lock>>
    BY <1>1, <1>2, GotoInvariant
<1>3. CASE Goto(w, "recheck", NULL) /\ Discard(w) /\ UNCHANGED <<row, audit, lock>>
    BY <1>1, <1>3, GotoInvariant
<1>4. CASE /\ ActiveRows(w) = {} /\ MarkReady(seen[w]) /\ Finish(w, seen[w])
           /\ Discard(w) /\ UNCHANGED lock
    BY <1>1, <1>4, ReadyInvariant DEF AdoptOrphan, WriteLock
<1> QED
    BY <1>2, <1>3, <1>4 DEF AdoptOrphan

LEMMA ReuseReadyAfterRaceInvariant ==
    ASSUME IInv, NEW w \in Writers, ReuseReadyAfterRace(w)
    PROVE  IInv'
<1>1. ASSUME NEW id \in ActiveRows(w), Goto(w, "verify_ready", id),
             UNCHANGED <<row, dir, audit, lock>>
      PROVE  IInv'
    <2>1. id \in Rivals(w) /\ id \in Ids
        BY DEF ActiveRows, Rivals
    <2> QED
        BY <1>1, <2>1, GotoInvariant DEF ReuseReadyAfterRace
<1>2. CASE Raise(w, "busy")
    BY <1>2, RaiseInvariant DEF ReuseReadyAfterRace, Errors
<1> QED
    BY <1>1, <1>2 DEF ReuseReadyAfterRace

LEMMA LookAgainInvariant ==
    ASSUME IInv, NEW w \in Writers, LookAgain(w)
    PROVE  IInv'
<1>1. ASSUME NEW error \in Errors, Raise(w, error) PROVE IInv'
    BY <1>1, RaiseInvariant DEF LookAgain
<1>2. ASSUME NEW id \in ActiveRows(w), row[id] # "building", Finish(w, id),
             UNCHANGED <<row, dir, audit, lock>>
      PROVE  IInv'
    <2>1. id \in Rivals(w) /\ row[id] = "ready"
        BY <1>2 DEF ActiveRows, Active
    <2> QED
        BY <1>2, <2>1, ReturnInvariant DEF LookAgain
<1> QED
    BY <1>1, <1>2 DEF LookAgain, Errors

(* Entering the transaction: nothing is active, and until COMMIT nothing    *)
(* becomes active, because whoever would make a row so waits for the lock.  *)
LEMMA PublishBeginInvariant ==
    ASSUME IInv, NEW w \in Writers, PublishBegin(w)
    PROVE  IInv'
<1>1. pc[w] = "publish" /\ lock = NULL
    BY DEF PublishBegin, WriteLock
<1>2. CASE Goto(w, "race", NULL) /\ UNCHANGED <<row, dir, audit, lock>>
    BY <1>1, <1>2, GotoInvariant
<1>3. CASE /\ ActiveRows(w) = {} /\ lock' = w /\ Goto(w, "rename", NULL)
           /\ UNCHANGED <<row, dir, audit>>
    <2>1. /\ pc'[w] = "rename"
          /\ \A v \in Writers \ {w} : pc'[v] = pc[v] /\ seen'[v] = seen[v]
          /\ TypeOK'
        BY <1>3 DEF IInv, TypeOK, Goto
    <2>2. LockInv'
        BY <1>1, <1>3, <2>1, NullAssumption DEF IInv, LockInv, ActiveRows, Rivals, Ids
    <2>3. SeenInv' /\ ResultInv'
        BY <1>3, <2>1 DEF IInv, SeenInv, ResultInv, Rivals, Goto
    <2> QED
        BY <1>3, <2>1, <2>2, <2>3 DEF IInv, OneActive, ReadyIsComplete
<1> QED
    BY <1>2, <1>3 DEF PublishBegin

LEMMA FinalRenameInvariant ==
    ASSUME IInv, NEW w \in Writers, Rename(w)
    PROVE  IInv'
<1>1. pc[w] = "rename" /\ lock = w /\ w \in Ids
    BY DEF IInv, LockInv, Rename, Ids
<1>2. \A v \in Writers \ {w} : pc'[v] = pc[v] /\ seen'[v] = seen[v] /\ result'[v] = result[v]
    BY DEF IInv, TypeOK, Rename, Goto, Finish
<1>3. TypeOK' /\ UNCHANGED <<row, audit>>
    BY <1>1 DEF IInv, TypeOK, Rename, Goto, Finish, Discard, DirStatus, Errors
<1>4. \A id \in Ids : dir[id] = "final" => dir'[id] = "final"
    BY <1>1 DEF IInv, TypeOK, Rename, Discard
<1>5. \/ pc'[w] = "commit" /\ dir'[w] = "final" /\ lock' = lock /\ result'[w] = result[w]
      \/ pc'[w] = "ended" /\ lock' = NULL /\ result'[w] \notin Ids
    BY <1>1, OutcomeAssumption DEF IInv, TypeOK, Rename, Goto, Finish, Errors
<1>6. LockInv'
    BY <1>1, <1>2, <1>3, <1>4, <1>5, NullAssumption DEF IInv, LockInv, ActiveRows, Rivals, Ids
<1>7. SeenInv' /\ ResultInv'
    BY <1>1, <1>2, <1>3, <1>4, <1>5 DEF IInv, SeenInv, ResultInv, Rivals
<1> QED
    BY <1>3, <1>4, <1>6, <1>7 DEF IInv, OneActive, ReadyIsComplete

(* A transaction that ends without its row: the lock is free again. *)
LEMMA ReleasedInvariant ==
    ASSUME IInv, NEW w \in Writers, UNCHANGED <<row, dir, audit>>, TypeOK',
           lock' = IF lock = w THEN NULL ELSE lock,
           pc' = [pc EXCEPT ![w] = "ended"], seen' = [seen EXCEPT ![w] = NULL],
           result' = [result EXCEPT ![w] = result'[w]], result'[w] \notin Ids
    PROVE  IInv'
<1>1. /\ pc'[w] = "ended"
      /\ \A v \in Writers \ {w} : pc'[v] = pc[v] /\ seen'[v] = seen[v] /\ result'[v] = result[v]
    BY DEF IInv, TypeOK
<1>2. LockInv'
    BY <1>1, NullAssumption DEF IInv, LockInv, ActiveRows, Rivals, Ids
<1>3. SeenInv' /\ ResultInv'
    BY <1>1 DEF IInv, SeenInv, ResultInv, Rivals
<1> QED
    BY <1>2, <1>3 DEF IInv, OneActive, ReadyIsComplete

LEMMA CommitInvariant ==
    ASSUME IInv, NEW w \in Writers, Commit(w)
    PROVE  IInv'
<1>1. pc[w] = "commit" /\ lock = w /\ w \in Rivals(w) /\ dir[w] = "final" /\ ActiveRows(w) = {}
    BY DEF IInv, LockInv, Commit, Rivals, Ids
<1>2. CASE MarkReady(w) /\ Finish(w, w)
    BY <1>1, <1>2, ReadyInvariant DEF Commit
<1>3. CASE Finish(w, "commit_failed") /\ UNCHANGED <<row, audit>>
    <2>1. TypeOK' /\ result'[w] \notin Ids
        BY <1>3, OutcomeAssumption DEF IInv, TypeOK, Commit, Finish, Errors
    <2> QED
        BY <1>1, <1>3, <2>1, ReleasedInvariant DEF Commit, Finish, IInv, TypeOK
<1> QED
    BY <1>2, <1>3 DEF Commit

LEMMA CrashInvariant ==
    ASSUME IInv, NEW w \in Writers, Crash(w)
    PROVE  IInv'
<1>1. TypeOK' /\ result'[w] \notin Ids
    BY OutcomeAssumption, CrashesAssumption DEF IInv, TypeOK, Crash
<1> QED
    BY <1>1, ReleasedInvariant DEF Crash, IInv, TypeOK

LEMMA MarkSnapshotFailedInvariant ==
    ASSUME IInv, NEW id \in Ids, MarkSnapshotFailed(id)
    PROVE  IInv'
<1>1. /\ row'[id] = "failed" /\ row[id] = "building"
      /\ \A other \in Ids \ {id} : row'[other] = row[other]
      /\ TypeOK'
    BY DEF IInv, TypeOK, MarkSnapshotFailed, RowStatus
<1>2. LockInv'
    BY <1>1, NullAssumption DEF IInv, LockInv, MarkSnapshotFailed, WriteLock, ActiveRows, Rivals, Active
<1>3. SeenInv' /\ ResultInv'
    BY <1>1 DEF IInv, SeenInv, ResultInv, MarkSnapshotFailed, Rivals
<1> QED
    BY <1>1, <1>2, <1>3 DEF IInv, OneActive, ReadyIsComplete, MarkSnapshotFailed, Active

LEMMA StepInvariant ==
    IInv /\ [Next]_vars => IInv'
<1> SUFFICES ASSUME IInv, [Next]_vars PROVE IInv'
    OBVIOUS
<1>1. ASSUME NEW w \in Writers, PublishOrReuse(w) PROVE IInv'
    BY <1>1, LookupActiveInvariant, VerifyReadyInvariant, CommitReadyReuseInvariant,
       VerifyBuildingInvariant, ConfirmBuildingInvariant, DiscoverMatchingOrphanInvariant,
       AdoptOrphanInvariant, ReuseReadyAfterRaceInvariant, LookAgainInvariant,
       PublishBeginInvariant, FinalRenameInvariant, CommitInvariant
       DEF PublishOrReuse
<1>2. ASSUME NEW w \in Writers, DatabaseError(w) PROVE IInv'
    BY <1>2, RaiseInvariant DEF DatabaseError, Errors
<1>3. ASSUME NEW w \in Writers, Crash(w) PROVE IInv'
    BY <1>3, CrashInvariant
<1>4. ASSUME NEW id \in Ids, MarkSnapshotFailed(id) PROVE IInv'
    BY <1>4, MarkSnapshotFailedInvariant
<1>5. CASE UNCHANGED vars
    BY <1>5 DEF vars, IInv, TypeOK, OneActive, ReadyIsComplete, LockInv, SeenInv,
                ResultInv, ActiveRows, Rivals
<1> QED
    BY <1>1, <1>2, <1>3, <1>4, <1>5 DEF Next

-----------------------------------------------------------------------------
(* Whatever the order of concurrent writers, their failures and crashes:   *)
(* at most one active snapshot per source version, every READY one whole   *)
(* on disk, and every publisher of a source version given the same one     *)
(* (publish_or_reuse of snapshots/service.py).                             *)
THEOREM SnapshotsPublished ==
    Spec => []PublishedSnapshots
<1> QED
    BY InitInvariant, StepInvariant, InvariantImpliesPublished, PTL DEF Spec

(* No step takes a READY row back. *)
LEMMA ReadyStays ==
    ASSUME IInv, [Next]_vars, NEW id \in Ids, row[id] = "ready"
    PROVE  row'[id] = "ready"
<1>1. ASSUME NEW other \in Ids, MarkReady(other) PROVE row'[id] = "ready"
    BY <1>1 DEF MarkReady, IInv, TypeOK
<1>2. ASSUME NEW w \in Writers, PublishOrReuse(w) PROVE row'[id] = "ready"
    <2>1. w \in Ids /\ seen[w] \in Ids \cup {NULL}
        BY DEF IInv, TypeOK, Ids
    <2>2. ASSUME ConfirmBuilding(w) \/ AdoptOrphan(w) PROVE row'[id] = "ready"
        <3>1. seen[w] \in Ids
            BY <2>2 DEF IInv, SeenInv, ConfirmBuilding, AdoptOrphan, Rivals
        <3> QED
            BY <2>2, <3>1, <1>1 DEF ConfirmBuilding, AdoptOrphan, Raise
    <2>3. ASSUME PublishBegin(w) \/ Rename(w) \/ Commit(w) PROVE row'[id] = "ready"
        BY <2>1, <2>3, <1>1 DEF PublishBegin, Rename, Commit
    <2>4. ASSUME LookAgain(w) PROVE row'[id] = "ready"
        BY <2>4 DEF LookAgain, Raise
    <2>5. ASSUME \/ LookupActive(w) \/ VerifyReady(w) \/ CommitReadyReuse(w)
                 \/ VerifyBuilding(w) \/ DiscoverMatchingOrphan(w) \/ ReuseReadyAfterRace(w)
          PROVE  row'[id] = "ready"
        BY <2>5 DEF LookupActive, VerifyReady, CommitReadyReuse, VerifyBuilding,
                    DiscoverMatchingOrphan, ReuseReadyAfterRace, Raise
    <2> QED
        BY <1>2, <2>2, <2>3, <2>4, <2>5 DEF PublishOrReuse
<1>3. ASSUME NEW w \in Writers, DatabaseError(w) \/ Crash(w) PROVE row'[id] = "ready"
    BY <1>3 DEF DatabaseError, Crash, Raise
<1>4. ASSUME NEW other \in Ids, MarkSnapshotFailed(other) PROVE row'[id] = "ready"
    BY <1>4 DEF MarkSnapshotFailed, IInv, TypeOK
<1> QED
    BY <1>2, <1>3, <1>4 DEF Next, vars

(* What was published stays: whatever other publications do later, a READY  *)
(* row stays READY and its directory whole and in place, so a path that a   *)
(* lookup returned can be opened at any later time.                         *)
THEOREM ReadySnapshotsStay ==
    Spec => [][\A id \in Ids : row[id] = "ready" => row'[id] = "ready" /\ dir'[id] = "final"]_vars
<1>1. ASSUME IInv, [Next]_vars
      PROVE  \A id \in Ids : row[id] = "ready" => row'[id] = "ready" /\ dir'[id] = "final"
    <2>1. IInv'
        BY <1>1, StepInvariant
    <2> QED
        BY <1>1, <2>1, ReadyStays DEF IInv, ReadyIsComplete
<1> QED
    BY <1>1, InitInvariant, StepInvariant, PTL DEF Spec

-----------------------------------------------------------------------------
(* Backup and restore: the inductive invariant *)

Parts == RoleSet \cup {"database"}
Steps == 1..(Len(RolePaths) + 2)
LiveDirs == [RoleSet -> SUBSET Artifacts]
HomeDirs == [RoleSet -> {Absent} \cup SUBSET Artifacts]
EmptyDirs == [RoleSet -> {Absent, {}}]

BackupTypeOK ==
    /\ live \in [rows : SUBSET Artifacts, dirs : LiveDirs]
    /\ backingUp \in [stage : {"none", "copying"}, rows : SUBSET Artifacts,
                      dirs : LiveDirs, next : Steps]
    /\ backup = [exists |-> backup.exists, rows |-> backup.rows, dirs |-> backup.dirs,
                 manifest |-> backup.manifest, damaged |-> backup.damaged]
    /\ backup.exists \in BOOLEAN
    /\ backup.rows \in SUBSET Artifacts /\ backup.dirs \in LiveDirs
    /\ home \in [database : {Absent} \cup SUBSET Artifacts, dirs : HomeDirs,
                 staged : SUBSET Parts]
    /\ restore \in [stage : {"none", "staging", "publishing"}, next : Steps,
                    staged : SUBSET Parts, published : SUBSET Parts, before : EmptyDirs,
                    outcome : {"none", "failed", "crashed", "restored"}]

(* A row is committed when its file is in place and is one that a backup   *)
(* copies; no file leaves the running installation.                        *)
LiveInv == \A a \in live.rows : a \in Copied(live.dirs[RoleOf[a]])

(* The rows were copied first: in every directory copied since, they find  *)
(* their files.  There is one backup at a time.                            *)
CopyInv ==
    /\ backingUp.rows \subseteq live.rows
    /\ backingUp.stage = "copying" => ~backup.exists
    /\ \A i \in 1..Len(RolePaths) : i + 1 < backingUp.next =>
           \A a \in backingUp.rows : RoleOf[a] = RolePaths[i] => a \in backingUp.dirs[RolePaths[i]]
    /\ backup.exists => Named(backup.rows, backup.dirs)

(* A restore changes exactly the parts it has published, the database last. *)
RestoreInv ==
    restore.stage # "none" =>
        /\ backup.exists
        /\ restore.stage = "staging" => restore.published = {}
        /\ \A r \in RoleSet :
               home.dirs[r] = IF r \in restore.published THEN backup.dirs[r] ELSE restore.before[r]
        /\ restore.stage = "publishing" =>
               \A i \in 1..Len(RolePaths) : i < restore.next => RolePaths[i] \in restore.published
        /\ "database" \notin restore.published => home.database = Absent
        /\ "database" \in restore.published =>
               home.database = backup.rows /\ restore.next > Len(RolePaths)

Found(dirs) == [r \in RoleSet |-> IF dirs[r] = Absent THEN {} ELSE dirs[r]]
HomeInv == home.database # Absent => Named(home.database, Found(home.dirs))

BackupInv == BackupTypeOK /\ LiveInv /\ CopyInv /\ RestoreInv /\ HomeInv

LEMMA BackupInvImpliesRowsFindFiles ==
    BackupInv => RowsFindFiles
BY DEF BackupInv, CopyInv, HomeInv, RowsFindFiles, Found

(* _ROLE_PATHS is a sequence of directories. *)
LEMMA RolePathFacts ==
    /\ Len(RolePaths) \in Nat
    /\ \A i \in 1..Len(RolePaths) : RolePaths[i] \in RoleSet /\ RolePaths[i] # "database"
    /\ \A r \in RoleSet : \E i \in 1..Len(RolePaths) : RolePaths[i] = r
BY BackupAssumption DEF RoleSet

LEMMA CopyPlanFacts ==
    /\ Len(CopyPlan) = Len(RolePaths) + 1
    /\ CopyPlan[1] = "database"
    /\ \A i \in 1..Len(RolePaths) : CopyPlan[i + 1] = RolePaths[i]
<1>1. RolePaths \in Seq(RoleSet \cup {"database"}) /\ <<"database">> \in Seq(RoleSet \cup {"database"})
    BY BackupAssumption
<1> QED
    BY <1>1 DEF CopyPlan

LEMMA PublishPlanFacts ==
    /\ Len(PublishPlan) = Len(RolePaths) + 1
    /\ PublishPlan[Len(RolePaths) + 1] = "database"
    /\ \A i \in 1..Len(RolePaths) : PublishPlan[i] = RolePaths[i]
<1>1. RolePaths \in Seq(RoleSet \cup {"database"}) /\ <<"database">> \in Seq(RoleSet \cup {"database"})
    BY BackupAssumption
<1> QED
    BY <1>1 DEF PublishPlan

LEMMA BackupInitInvariant ==
    BackupInit => BackupInv
<1> SUFFICES ASSUME BackupInit PROVE BackupInv
    OBVIOUS
<1>1. Len(RolePaths) \in Nat
    BY RolePathFacts
<1>2. BackupTypeOK
    BY <1>1 DEF BackupInit, BackupTypeOK, NotBackingUp, NoBackup, NotRestoring, NoFiles,
                Steps, LiveDirs, HomeDirs, EmptyDirs, Parts
<1>3. LiveInv /\ CopyInv /\ RestoreInv /\ HomeInv
    BY <1>1 DEF BackupInit, LiveInv, CopyInv, RestoreInv, HomeInv, NotBackingUp, NoBackup, NotRestoring
<1> QED
    BY <1>2, <1>3 DEF BackupInv

-----------------------------------------------------------------------------
(* The running installation and its backup *)

LEMMA PublishFilesInvariant ==
    ASSUME BackupInv, NEW a \in Artifacts, PublishFiles(a)
    PROVE  BackupInv'
<1>1. RoleOf[a] \in RoleSet
    BY BackupAssumption
<1>2. /\ live'.rows = live.rows
      /\ live'.dirs \in LiveDirs
      /\ live' \in [rows : SUBSET Artifacts, dirs : LiveDirs]
      /\ \A r \in RoleSet : live.dirs[r] \subseteq live'.dirs[r]
    BY <1>1 DEF BackupInv, BackupTypeOK, PublishFiles, LiveDirs
<1>3. BackupTypeOK'
    BY <1>2 DEF BackupInv, BackupTypeOK, PublishFiles
<1>4. LiveInv'
    BY <1>2, BackupAssumption DEF BackupInv, BackupTypeOK, LiveInv, Copied
<1>5. CopyInv' /\ RestoreInv' /\ HomeInv'
    BY <1>2 DEF BackupInv, CopyInv, RestoreInv, HomeInv, PublishFiles, Named, Found
<1> QED
    BY <1>3, <1>4, <1>5 DEF BackupInv

LEMMA CommitRowInvariant ==
    ASSUME BackupInv, NEW a \in Artifacts, CommitRow(a)
    PROVE  BackupInv'
<1>1. /\ live'.rows = live.rows \cup {a} /\ live'.dirs = live.dirs
      /\ live' \in [rows : SUBSET Artifacts, dirs : LiveDirs]
      /\ a \in Copied(live.dirs[RoleOf[a]])
    BY DEF BackupInv, BackupTypeOK, CommitRow
<1>2. BackupTypeOK'
    BY <1>1 DEF BackupInv, BackupTypeOK, CommitRow
<1>3. LiveInv'
    BY <1>1 DEF BackupInv, LiveInv
<1>4. CopyInv' /\ RestoreInv' /\ HomeInv'
    BY <1>1 DEF BackupInv, CopyInv, RestoreInv, HomeInv, CommitRow, Named, Found
<1> QED
    BY <1>2, <1>3, <1>4 DEF BackupInv

LEMMA StopBackupInvariant ==
    ASSUME BackupInv, BeginBackup \/ AbandonBackup
    PROVE  BackupInv'
<1>1. NoFiles \in LiveDirs /\ 1 \in Steps
    BY RolePathFacts DEF NoFiles, LiveDirs, Steps
<1>2. backingUp' = [stage |-> backingUp'.stage, rows |-> {}, dirs |-> NoFiles, next |-> 1]
    BY DEF BeginBackup, AbandonBackup, NotBackingUp
<1>3. /\ backingUp'.stage \in {"none", "copying"}
      /\ backingUp'.stage = "copying" => ~backup.exists
    BY DEF BeginBackup, AbandonBackup, NotBackingUp
<1>4. UNCHANGED <<live, backup, home, restore>>
    BY DEF BeginBackup, AbandonBackup
<1>5. BackupTypeOK' /\ LiveInv' /\ RestoreInv' /\ HomeInv'
    BY <1>1, <1>4, <1>2, <1>3 DEF BackupInv, BackupTypeOK, LiveInv, RestoreInv, HomeInv, Named, Found
<1>6. CopyInv'
    BY <1>1, <1>4, <1>2, <1>3, RolePathFacts DEF BackupInv, CopyInv
<1> QED
    BY <1>5, <1>6 DEF BackupInv

LEMMA CopyNextInvariant ==
    ASSUME BackupInv, CopyNext
    PROVE  BackupInv'
<1> DEFINE n == backingUp.next
           part == CopyPlan[n]
<1>1. /\ UNCHANGED <<live, backup, home, restore>>
      /\ n \in 1..(Len(RolePaths) + 1) /\ Len(RolePaths) \in Nat
    BY CopyPlanFacts, RolePathFacts DEF BackupInv, BackupTypeOK, CopyNext, Steps
<1>2. LiveInv' /\ RestoreInv' /\ HomeInv'
    BY <1>1 DEF BackupInv, LiveInv, RestoreInv, HomeInv, Named, Found
<1>3. CASE part = "database"
    <2>1. n = 1
        <3>1. ASSUME n # 1 PROVE FALSE
            <4>1. n - 1 \in 1..Len(RolePaths) /\ (n - 1) + 1 = n
                BY <1>1, <3>1
            <4>2. part = RolePaths[n - 1]
                BY <4>1, CopyPlanFacts
            <4> QED
                BY <1>3, <4>1, <4>2, RolePathFacts
        <3> QED
            BY <3>1
    <2>2. backingUp' = [backingUp EXCEPT !.next = 2, !.rows = live.rows] /\ 2 \in Steps
        BY <1>1, <1>3, <2>1, RolePathFacts DEF CopyNext, Steps
    <2>3. /\ backingUp' \in [stage : {"none", "copying"}, rows : SUBSET Artifacts,
                             dirs : LiveDirs, next : Steps]
          /\ backingUp'.next = 2 /\ backingUp'.rows = live.rows
          /\ backingUp'.stage = backingUp.stage
        BY <2>2 DEF BackupInv, BackupTypeOK
    <2>4. BackupTypeOK'
        BY <1>1, <2>3 DEF BackupInv, BackupTypeOK
    <2>5. CopyInv'
        BY <1>1, <2>3 DEF BackupInv, CopyInv
    <2> QED
        BY <1>2, <2>4, <2>5 DEF BackupInv
<1>4. CASE part # "database"
    <2>1. n - 1 \in 1..Len(RolePaths) /\ (n - 1) + 1 = n
        BY <1>1, <1>4, CopyPlanFacts
    <2>2. part = RolePaths[n - 1] /\ part \in RoleSet
        BY <2>1, CopyPlanFacts, RolePathFacts
    <2> HIDE DEF part
    <2>3. backingUp' = [backingUp EXCEPT !.next = @ + 1, !.dirs[part] = Copied(live.dirs[part])]
        BY <1>4 DEF CopyNext, part
    <2>4. Copied(live.dirs[part]) \in SUBSET Artifacts
        BY <2>2 DEF BackupInv, BackupTypeOK, LiveDirs, Copied
    <2> DEFINE copies == Copied(live.dirs[part])
               copied == [backingUp.dirs EXCEPT ![part] = copies]
    <2>5. n + 1 \in Steps
        BY <1>1 DEF Steps
    <2>6. copied \in LiveDirs /\ copied[part] = copies
          /\ \A r \in RoleSet \ {part} : copied[r] = backingUp.dirs[r]
        BY <2>2, <2>4 DEF BackupInv, BackupTypeOK, LiveDirs
    <2>7. backingUp' = [backingUp EXCEPT !.next = n + 1, !.dirs = copied]
        BY <2>3 DEF BackupInv, BackupTypeOK
    <2> HIDE DEF copies, copied
    <2>8. /\ backingUp' \in [stage : {"none", "copying"}, rows : SUBSET Artifacts,
                             dirs : LiveDirs, next : Steps]
          /\ backingUp'.next = n + 1 /\ backingUp'.rows = backingUp.rows
          /\ backingUp'.stage = backingUp.stage
          /\ backingUp'.dirs = copied
        BY <2>5, <2>6, <2>7 DEF BackupInv, BackupTypeOK
    <2>9. BackupTypeOK'
        BY <1>1, <2>8 DEF BackupInv, BackupTypeOK
    <2>10. ASSUME NEW i \in 1..Len(RolePaths), i + 1 < n + 1, NEW a \in backingUp.rows, RoleOf[a] = RolePaths[i]
          PROVE  a \in backingUp'.dirs[RolePaths[i]]
        <3>1. CASE RolePaths[i] = part
            BY <3>1, <2>8, <2>10, <2>6 DEF copies, BackupInv, LiveInv, CopyInv
        <3>2. CASE RolePaths[i] # part
            <4>1. i + 1 < n
                BY <2>10, <3>2, <2>1, <2>2, <1>1
            <4> QED
                BY <4>1, <3>2, <2>8, <2>10, <2>6, RolePathFacts DEF BackupInv, CopyInv
        <3> QED
            BY <3>1, <3>2
    <2>11. CopyInv'
        BY <1>1, <2>8, <2>10 DEF BackupInv, CopyInv
    <2> QED
        BY <1>2, <2>9, <2>11 DEF BackupInv
<1> QED
    BY <1>3, <1>4

LEMMA PublishBackupInvariant ==
    ASSUME BackupInv, PublishBackup
    PROVE  BackupInv'
<1>1. /\ UNCHANGED <<live, home, restore>>
      /\ backingUp' = NotBackingUp
      /\ backup'.exists /\ backup'.rows = backingUp.rows /\ backup'.dirs = backingUp.dirs
      /\ backup' = [exists |-> backup'.exists, rows |-> backup'.rows, dirs |-> backup'.dirs,
                    manifest |-> backup'.manifest, damaged |-> backup'.damaged]
      /\ backingUp.next > Len(RolePaths) + 1
      /\ ~backup.exists
    BY CopyPlanFacts DEF BackupInv, CopyInv, PublishBackup
<1>2. BackupTypeOK'
    BY <1>1, RolePathFacts DEF BackupInv, BackupTypeOK, NotBackingUp, NoFiles, Steps, LiveDirs, PublishBackup
<1>3. ASSUME NEW a \in backup'.rows PROVE a \in backup'.dirs[RoleOf[a]]
    <2>1. a \in backingUp.rows /\ RoleOf[a] \in RoleSet
        BY <1>1, <1>3, BackupAssumption DEF BackupInv, BackupTypeOK
    <2>2. PICK i \in 1..Len(RolePaths) : RolePaths[i] = RoleOf[a]
        BY <2>1, RolePathFacts
    <2> QED
        BY <1>1, <2>1, <2>2, RolePathFacts DEF BackupInv, BackupTypeOK, CopyInv, Steps
<1>4. CopyInv'
    BY <1>1, <1>3 DEF BackupInv, CopyInv, NotBackingUp, Named
<1>5. LiveInv' /\ RestoreInv' /\ HomeInv'
    BY <1>1 DEF BackupInv, LiveInv, RestoreInv, HomeInv, Named, Found
<1> QED
    BY <1>2, <1>4, <1>5 DEF BackupInv

LEMMA DamageBackupInvariant ==
    ASSUME BackupInv, DamageBackup
    PROVE  BackupInv'
<1>1. /\ UNCHANGED <<live, backingUp, home, restore>>
      /\ backup'.exists = backup.exists /\ backup'.rows = backup.rows /\ backup'.dirs = backup.dirs
      /\ backup' = [exists |-> backup'.exists, rows |-> backup'.rows, dirs |-> backup'.dirs,
                    manifest |-> backup'.manifest, damaged |-> backup'.damaged]
    BY DEF BackupInv, BackupTypeOK, DamageBackup
<1>2. BackupTypeOK'
    BY <1>1 DEF BackupInv, BackupTypeOK
<1>3. LiveInv' /\ CopyInv' /\ RestoreInv' /\ HomeInv'
    BY <1>1 DEF BackupInv, LiveInv, CopyInv, RestoreInv, HomeInv, Named, Found
<1> QED
    BY <1>2, <1>3 DEF BackupInv

-----------------------------------------------------------------------------
(* The restore *)

RestoreTypes ==
    [stage : {"none", "staging", "publishing"}, next : Steps,
     staged : SUBSET Parts, published : SUBSET Parts, before : EmptyDirs,
     outcome : {"none", "failed", "crashed", "restored"}]

HomeTypes == [database : {Absent} \cup SUBSET Artifacts, dirs : HomeDirs, staged : SUBSET Parts]

(* A step of the restore leaves the installation and the backup alone. *)
LEMMA RestoreStep ==
    ASSUME BackupInv, UNCHANGED <<live, backingUp, backup>>,
           home' \in HomeTypes, restore' \in RestoreTypes, RestoreInv', HomeInv'
    PROVE  BackupInv'
<1>1. BackupTypeOK'
    BY DEF BackupInv, BackupTypeOK, HomeTypes, RestoreTypes
<1>2. LiveInv' /\ CopyInv'
    BY DEF BackupInv, LiveInv, CopyInv, Named
<1> QED
    BY <1>1, <1>2 DEF BackupInv

LEMMA NotRestoringType ==
    /\ NotRestoring \in RestoreTypes
    /\ NotRestoring.stage = "none" /\ NotRestoring.next = 1 /\ NotRestoring.published = {}
BY RolePathFacts DEF NotRestoring, RestoreTypes, Steps, EmptyDirs, Parts

LEMMA BeginRestoreInvariant ==
    ASSUME BackupInv, BeginRestore
    PROVE  BackupInv'
<1> DEFINE new == [NotRestoring EXCEPT !.stage = "staging", !.before = home.dirs]
<1>1. UNCHANGED <<live, backingUp, backup, home>> /\ restore' = new
    BY DEF BeginRestore
<1>2. home.dirs \in EmptyDirs /\ home.database = Absent /\ backup.exists
    BY DEF BackupInv, BackupTypeOK, BeginRestore, Restorable, VerifiedBackup, HomeDirs, EmptyDirs
<1>3. /\ new \in RestoreTypes
      /\ new.stage = "staging" /\ new.published = {} /\ new.before = home.dirs
    BY <1>2, NotRestoringType DEF RestoreTypes
<1> HIDE DEF new
<1>4. home' \in HomeTypes /\ restore' \in RestoreTypes /\ HomeInv'
    BY <1>1, <1>3 DEF BackupInv, BackupTypeOK, HomeInv, HomeTypes, Named, Found
<1>5. RestoreInv'
    BY <1>1, <1>2, <1>3 DEF RestoreInv
<1> QED
    BY <1>1, <1>4, <1>5, RestoreStep

LEMMA StageInvariant ==
    ASSUME BackupInv, StageRole \/ StageDatabase
    PROVE  BackupInv'
<1>1. /\ UNCHANGED <<live, backingUp, backup>>
      /\ restore.stage = "staging"
      /\ restore.next \in Steps /\ Len(RolePaths) \in Nat
    BY RolePathFacts DEF StageRole, StageDatabase, BackupInv, BackupTypeOK
<1>2. PICK q \in Parts, n \in Steps, where \in {"staging", "publishing"} :
        /\ home' = [home EXCEPT !.staged = @ \union {q}]
        /\ restore' = [restore EXCEPT !.stage = where, !.next = n, !.staged = @ \union {q}]
        /\ where = "publishing" => n = 1
    <2>1. CASE StageRole
        <3>1. RolePaths[restore.next] \in Parts /\ restore.next + 1 \in Steps
            BY <1>1, <2>1, RolePathFacts DEF StageRole, Steps, Parts
        <3>2. restore' = [restore EXCEPT !.stage = "staging", !.next = @ + 1,
                                         !.staged = @ \union {RolePaths[restore.next]}]
            BY <1>1, <2>1 DEF StageRole, BackupInv, BackupTypeOK
        <3> QED
            BY <3>1, <3>2, <2>1 DEF StageRole
    <2>2. CASE StageDatabase
        <3>1. "database" \in Parts /\ 1 \in Steps
            BY <1>1 DEF Parts, Steps
        <3> QED
            BY <3>1, <2>2 DEF StageDatabase
    <2> QED
        BY <2>1, <2>2
<1>3. /\ home' \in HomeTypes /\ home'.database = home.database /\ home'.dirs = home.dirs
      /\ restore' \in RestoreTypes /\ restore'.stage = where /\ restore'.next = n
      /\ restore'.published = restore.published /\ restore'.before = restore.before
    BY <1>2 DEF BackupInv, BackupTypeOK, HomeTypes, RestoreTypes
<1>4. HomeInv'
    BY <1>3 DEF BackupInv, HomeInv, Named, Found
<1>5. RestoreInv'
    <2>1. restore.published = {}
        BY <1>1 DEF BackupInv, RestoreInv
    <2> QED
        BY <1>1, <1>2, <1>3, <2>1 DEF BackupInv, RestoreInv
<1> QED
    BY <1>1, <1>3, <1>4, <1>5, RestoreStep

(* Publishing a directory changes that directory only; publishing the      *)
(* database finds every directory of the backup in place.                  *)
LEMMA PublishPartInvariant ==
    ASSUME BackupInv, PublishPart
    PROVE  BackupInv'
<1> DEFINE n == restore.next
           q == PublishPlan[n]
<1>1. /\ UNCHANGED <<live, backingUp, backup>>
      /\ restore.stage = "publishing" /\ backup.exists
      /\ n \in 1..(Len(RolePaths) + 1) /\ n + 1 \in Steps /\ Len(RolePaths) \in Nat
    BY PublishPlanFacts, RolePathFacts DEF PublishPart, BackupInv, BackupTypeOK, RestoreInv, Steps
<1>2. q \in Parts /\ (q = "database" <=> n = Len(RolePaths) + 1)
    BY <1>1, PublishPlanFacts, RolePathFacts DEF Parts
<1>3. /\ restore' = [restore EXCEPT !.next = n + 1, !.published = @ \union {q}]
      /\ home' = IF q = "database"
                 THEN [home EXCEPT !.database = backup.rows, !.staged = @ \ {q}]
                 ELSE [home EXCEPT !.dirs[q] = backup.dirs[q], !.staged = @ \ {q}]
      /\ n <= Len(RolePaths) => q = RolePaths[n]
    BY <1>1, PublishPlanFacts DEF PublishPart
<1> HIDE DEF n, q
<1>4. /\ restore' \in RestoreTypes /\ restore'.stage = "publishing" /\ restore'.next = n + 1
      /\ restore'.published = restore.published \union {q} /\ restore'.before = restore.before
    BY <1>1, <1>2, <1>3 DEF BackupInv, BackupTypeOK, RestoreTypes
<1>5. CASE q = "database"
    <2>1. /\ home' \in HomeTypes /\ home'.database = backup.rows /\ home'.dirs = home.dirs
        BY <1>3, <1>5 DEF BackupInv, BackupTypeOK, HomeTypes
    <2>2. RestoreInv'
        BY <1>1, <1>2, <1>4, <1>5, <2>1, BackupAssumption DEF BackupInv, RestoreInv, n
    <2>3. HomeInv'
        <3> SUFFICES ASSUME NEW a \in backup.rows
                     PROVE  a \in Found(home.dirs)[RoleOf[a]]
            BY <1>1, <2>1 DEF HomeInv, Named, Found
        <3>1. RoleOf[a] \in RoleSet /\ a \in backup.dirs[RoleOf[a]]
            BY <1>1, BackupAssumption DEF BackupInv, BackupTypeOK, CopyInv, Named
        <3>2. PICK i \in 1..Len(RolePaths) : RolePaths[i] = RoleOf[a]
            BY <3>1, RolePathFacts
        <3>3. RoleOf[a] \in restore.published
            BY <1>1, <1>2, <1>5, <3>2 DEF BackupInv, RestoreInv, n
        <3>4. home.dirs[RoleOf[a]] = backup.dirs[RoleOf[a]]
            BY <1>1, <3>1, <3>3 DEF BackupInv, RestoreInv
        <3>5. backup.dirs[RoleOf[a]] # Absent
            BY <3>1, BackupAssumption DEF BackupInv, BackupTypeOK, LiveDirs
        <3> QED
            BY <3>1, <3>4, <3>5 DEF Found
    <2> QED
        BY <1>1, <1>4, <2>1, <2>2, <2>3, RestoreStep
<1>6. CASE q # "database"
    <2> DEFINE dirs == [home.dirs EXCEPT ![q] = backup.dirs[q]]
    <2>1. q \in RoleSet /\ n <= Len(RolePaths) /\ q = RolePaths[n]
        BY <1>1, <1>2, <1>3, <1>6 DEF Parts
    <2>2. backup.dirs[q] \in SUBSET Artifacts
        BY <2>1 DEF BackupInv, BackupTypeOK, LiveDirs
    <2>3. /\ dirs \in HomeDirs /\ dirs[q] = backup.dirs[q]
          /\ \A r \in RoleSet \ {q} : dirs[r] = home.dirs[r]
        BY <2>1, <2>2 DEF BackupInv, BackupTypeOK, HomeDirs
    <2>4. home' = [home EXCEPT !.dirs = dirs, !.staged = @ \ {q}]
        BY <1>3, <1>6 DEF BackupInv, BackupTypeOK
    <2> HIDE DEF dirs
    <2>5. home' \in HomeTypes /\ home'.database = home.database /\ home'.dirs = dirs
        BY <2>3, <2>4 DEF BackupInv, BackupTypeOK, HomeTypes
    <2>6. "database" \notin restore.published
        BY <1>1, <2>1 DEF BackupInv, RestoreInv, n
    <2>7. home.database = Absent
        BY <1>1, <2>6 DEF BackupInv, RestoreInv
    <2>8. RestoreInv'
        BY <1>1, <1>4, <1>6, <2>1, <2>3, <2>5, <2>6, <2>7 DEF BackupInv, RestoreInv, n
    <2>9. HomeInv'
        BY <2>5, <2>7 DEF HomeInv
    <2> QED
        BY <1>1, <1>4, <2>5, <2>8, <2>9, RestoreStep
<1> QED
    BY <1>5, <1>6

(* The handler of a failed restore puts back what was there. *)
LEMMA RecoverRestores ==
    ASSUME BackupInv, restore.stage \in {"staging", "publishing"},
           NEW extra \in SUBSET Parts, Recover(extra)
    PROVE  home'.database = Absent /\ home'.dirs = restore.before
<1>1. /\ home'.database = IF "database" \in restore.published THEN Absent ELSE home.database
      /\ home'.dirs = [r \in RoleSet |-> IF r \in restore.published \/ home.dirs[r] = Absent
                                         THEN restore.before[r] ELSE home.dirs[r]]
    BY DEF Recover
<1>2. restore.before = [r \in RoleSet |-> restore.before[r]]
    BY DEF BackupInv, BackupTypeOK, EmptyDirs
<1>3. \A r \in RoleSet : r \notin restore.published => home.dirs[r] = restore.before[r]
    BY DEF BackupInv, RestoreInv
<1>4. home'.dirs = [r \in RoleSet |-> restore.before[r]]
    BY <1>1, <1>3
<1> QED
    BY <1>1, <1>2, <1>4 DEF BackupInv, RestoreInv

LEMMA FailRestoreInvariant ==
    ASSUME BackupInv, FailStaging \/ FailRestore
    PROVE  /\ BackupInv'
           /\ home'.database = Absent /\ home'.dirs = restore.before
<1>1. restore.stage \in {"staging", "publishing"} /\ UNCHANGED <<live, backingUp, backup>>
    BY DEF FailStaging, FailRestore
<1>2. PICK extra \in SUBSET Parts : Recover(extra)
    <2>1. CASE FailStaging
        <3>1. RolePaths[restore.next] \in Parts
            BY <2>1, RolePathFacts DEF FailStaging, BackupInv, BackupTypeOK, Steps, Parts
        <3> QED
            BY <2>1, <3>1 DEF FailStaging
    <2>2. CASE FailRestore
        BY <2>2 DEF FailRestore
    <2> QED
        BY <2>1, <2>2
<1>3. home'.database = Absent /\ home'.dirs = restore.before
    BY <1>1, <1>2, RecoverRestores
<1>4. /\ restore' \in RestoreTypes /\ restore'.stage = "none"
    BY <1>2, NotRestoringType DEF Recover, RestoreTypes, BackupInv, BackupTypeOK
<1>5. home' = [database |-> home'.database, dirs |-> home'.dirs, staged |-> home'.staged]
      /\ home'.staged = (home.staged \ restore.staged) \union extra
    BY <1>2 DEF Recover
<1>6. home' \in HomeTypes
    BY <1>3, <1>5 DEF BackupInv, BackupTypeOK, HomeTypes, HomeDirs, EmptyDirs
<1>7. RestoreInv' /\ HomeInv'
    BY <1>3, <1>4 DEF RestoreInv, HomeInv
<1> QED
    BY <1>1, <1>3, <1>4, <1>6, <1>7, RestoreStep

LEMMA EndRestoreInvariant ==
    ASSUME BackupInv, CompleteRestore \/ CrashRestore
    PROVE  BackupInv'
<1>1. UNCHANGED <<live, backingUp, backup, home>>
    BY DEF CompleteRestore, CrashRestore
<1>2. restore' \in RestoreTypes /\ restore'.stage = "none"
    BY NotRestoringType DEF CompleteRestore, CrashRestore, RestoreTypes
<1>3. home' \in HomeTypes /\ RestoreInv' /\ HomeInv'
    BY <1>1, <1>2 DEF BackupInv, BackupTypeOK, HomeTypes, RestoreInv, HomeInv, Named, Found
<1> QED
    BY <1>1, <1>2, <1>3, RestoreStep

LEMMA StartApplicationInvariant ==
    ASSUME BackupInv, StartApplication
    PROVE  BackupInv'
<1> DEFINE made == [r \in RoleSet |-> IF home.dirs[r] = Absent THEN {} ELSE home.dirs[r]]
<1>1. UNCHANGED <<live, backingUp, backup, restore>> /\ restore.stage = "none"
    BY DEF StartApplication
<1>2. made \in HomeDirs
    BY DEF BackupInv, BackupTypeOK, HomeDirs
<1>3. home' = [home EXCEPT !.database = {}, !.dirs = made]
    BY DEF StartApplication
<1> HIDE DEF made
<1>4. home' \in HomeTypes /\ home'.database = {}
    BY <1>2, <1>3 DEF BackupInv, BackupTypeOK, HomeTypes
<1>5. restore' \in RestoreTypes /\ RestoreInv' /\ HomeInv'
    BY <1>1, <1>4 DEF BackupInv, BackupTypeOK, RestoreTypes, RestoreInv, HomeInv, Named
<1> QED
    BY <1>1, <1>4, <1>5, RestoreStep

-----------------------------------------------------------------------------
(* Backup and restore: the theorems *)

LEMMA BackupStepInvariant ==
    BackupInv /\ [BackupNext]_backupVars => BackupInv'
<1> SUFFICES ASSUME BackupInv, [BackupNext]_backupVars PROVE BackupInv'
    OBVIOUS
<1>1. CASE UNCHANGED backupVars
    BY <1>1 DEF backupVars, BackupInv, BackupTypeOK, LiveInv, CopyInv, RestoreInv, HomeInv, Named, Found
<1>2. CASE BackupNext
    BY <1>2, PublishFilesInvariant, CommitRowInvariant, StopBackupInvariant, CopyNextInvariant,
       PublishBackupInvariant, DamageBackupInvariant, BeginRestoreInvariant, StageInvariant,
       PublishPartInvariant, FailRestoreInvariant, EndRestoreInvariant, StartApplicationInvariant
    DEF BackupNext
<1> QED
    BY <1>1, <1>2

(* Every row of a finished backup names files the backup holds, whatever   *)
(* is published while it is made, and at every moment of a restore, a      *)
(* crash between two renames included, a database that is in place finds   *)
(* its artifacts (create_backup, restore_backup of release/backup.py).     *)
THEOREM BackupRowsFindFiles ==
    BackupSpec => []RowsFindFiles
BY BackupInitInvariant, BackupStepInvariant, BackupInvImpliesRowsFindFiles, PTL DEF BackupSpec

(* A restore that reports a failure leaves no database, and every          *)
(* directory absent or empty as it found it (restore_backup's handler).    *)
THEOREM FailedRestoreIsUndone ==
    BackupSpec => FailedRestoreLeavesNothing
<1>1. BackupInv /\ [BackupNext]_backupVars =>
        [restore'.outcome = "failed" /\ restore.outcome # "failed" =>
            home'.database = Absent /\ home'.dirs = restore.before]_backupVars
    <2> SUFFICES ASSUME BackupInv, BackupNext,
                        restore'.outcome = "failed", restore.outcome # "failed"
                 PROVE  home'.database = Absent /\ home'.dirs = restore.before
        OBVIOUS
    <2>1. CASE FailStaging \/ FailRestore
        BY <2>1, FailRestoreInvariant
    <2>2. CASE StageRole \/ StageDatabase \/ PublishPart
        BY <2>2 DEF StageRole, StageDatabase, PublishPart, BackupInv, BackupTypeOK
    <2>3. CASE BeginRestore \/ CompleteRestore \/ CrashRestore
        BY <2>3 DEF BeginRestore, CompleteRestore, CrashRestore, NotRestoring
    <2>4. CASE \/ \E a \in Artifacts : PublishFiles(a) \/ CommitRow(a)
               \/ BeginBackup \/ CopyNext \/ PublishBackup \/ AbandonBackup \/ DamageBackup
               \/ StartApplication
        BY <2>4 DEF PublishFiles, CommitRow, BeginBackup, CopyNext, PublishBackup, AbandonBackup,
                    DamageBackup, StartApplication
    <2> QED
        BY <2>1, <2>2, <2>3, <2>4 DEF BackupNext
<1> QED
    BY <1>1, BackupInitInvariant, BackupStepInvariant, PTL DEF BackupSpec, FailedRestoreLeavesNothing

-----------------------------------------------------------------------------
(* The raw store *)

Fields == {"stage", "attempt", "redirects", "since", "gap", "body", "temp", "requests", "result"}

(* What a call has written is a beginning of what it receives, until the   *)
(* whole of it is at its path.                                             *)
Consistent(x, store) ==
    /\ DOMAIN x = Fields
    /\ x.stage \in {"pacing", "requesting"} => x.temp = <<>>
    /\ x.stage = "streaming" => x.body \in Bodies
                                /\ \E n \in 0..Len(x.body) : x.temp = SubSeq(x.body, 1, n)
    /\ x.stage \in {"written", "renaming"} => x.temp \in Contents
    /\ x.stage = "stored" => x.result \in Contents /\ store[x.result] = x.result

RawInv ==
    /\ files \in [Contents -> Contents \cup {Missing, <<"damage">>}]
    /\ DOMAIN download = Downloads /\ download = [d \in Downloads |-> download[d]]
    /\ \A d \in Downloads : Consistent(download[d], files)

LEMMA RawInvImpliesLoadable ==
    RawInv => StoredIsLoadable
BY RawAssumption DEF RawInv, Consistent, StoredIsLoadable, LoadVerified

LEMMA BeginningIsContent ==
    ASSUME NEW b \in Bodies, NEW n \in 0..Len(b)
    PROVE  SubSeq(b, 1, n) \in Contents
BY DEF Contents, Prefixes

LEMMA RawInitInvariant ==
    RawInit => RawInv
BY DEF RawInit, RawInv, Consistent, Fields, NotStarted

(* One call moves; the store keeps every file that is its own name.        *)
LEMMA CallStep ==
    ASSUME RawInv, NEW d \in Downloads, NEW new,
           download' = [download EXCEPT ![d] = new],
           \/ files' = files
           \/ \E c \in Contents : files' = [files EXCEPT ![c] = c],
           Consistent(new, files')
    PROVE  RawInv'
<1>1. /\ files' \in [Contents -> Contents \cup {Missing, <<"damage">>}]
      /\ \A c \in Contents : files[c] = c => files'[c] = c
    BY DEF RawInv
<1>2. /\ DOMAIN download' = Downloads /\ download' = [e \in Downloads |-> download'[e]]
      /\ download'[d] = new
      /\ \A e \in Downloads \ {d} : download'[e] = download[e]
    BY DEF RawInv
<1>3. ASSUME NEW e \in Downloads PROVE Consistent(download'[e], files')
    <2>1. CASE e = d
        BY <2>1, <1>2
    <2>2. CASE e # d
        <3>1. PICK x : x = download[e]
            OBVIOUS
        <3>2. Consistent(x, files) /\ download'[e] = x
            BY <2>2, <3>1, <1>2 DEF RawInv
        <3>3. Consistent(x, files')
            BY <3>2, <1>1 DEF Consistent
        <3> QED
            BY <3>2, <3>3
    <2> QED
        BY <2>1, <2>2
<1> QED
    BY <1>1, <1>2, <1>3 DEF RawInv

Over == {"refused", "gave_up", "crashed"}

LEMMA SettleInvariant ==
    ASSUME RawInv, NEW d \in Downloads, NEW how \in Over, Settle(d, how), UNCHANGED files
    PROVE  RawInv'
<1> DEFINE new == [download[d] EXCEPT !.stage = how, !.body = <<>>, !.temp = <<>>]
<1>1. download' = [download EXCEPT ![d] = new]
    BY DEF RawInv, Settle
<1>2. Consistent(new, files')
    BY DEF RawInv, Consistent, Fields, Over
<1> HIDE DEF new
<1> QED
    BY <1>1, <1>2, CallStep

LEMMA RetryInvariant ==
    ASSUME RawInv, NEW d \in Downloads, download[d].stage = "requesting",
           RetryOrGiveUp(d), UNCHANGED files
    PROVE  RawInv'
<1> DEFINE new == [download[d] EXCEPT !.stage = "pacing", !.attempt = @ + 1,
                                      !.since = @ + BackoffDelay(download[d].attempt)]
<1>1. CASE Settle(d, "gave_up")
    BY <1>1, SettleInvariant DEF Over
<1>2. CASE ~Settle(d, "gave_up")
    <2>1. download' = [download EXCEPT ![d] = new]
        BY <1>2 DEF RawInv, RetryOrGiveUp
    <2>2. Consistent(new, files')
        BY DEF RawInv, Consistent, Fields
    <2> HIDE DEF new
    <2> QED
        BY <2>1, <2>2, CallStep
<1> QED
    BY <1>1, <1>2

LEMMA StartRequestInvariant ==
    ASSUME RawInv, NEW d \in Downloads, StartRequest(d)
    PROVE  RawInv'
<1> DEFINE gap == IF download[d].since = Missing THEN Missing
                  ELSE download[d].since + PacingDelay(download[d].since)
           new == [download[d] EXCEPT !.stage = "requesting", !.redirects = 0,
                                      !.requests = @ + 1, !.since = 0, !.gap = gap]
<1>1. download' = [download EXCEPT ![d] = new] /\ UNCHANGED files
    BY DEF RawInv, StartRequest
<1> HIDE DEF gap
<1>2. Consistent(new, files')
    BY <1>1 DEF RawInv, Consistent, Fields, StartRequest
<1> HIDE DEF new
<1> QED
    BY <1>1, <1>2, CallStep

LEMMA RequestingInvariant ==
    ASSUME RawInv, NEW d \in Downloads, NetworkFails(d) \/ StatusFails(d) \/ Redirected(d) \/ Respond(d)
    PROVE  RawInv'
<1>1. download[d].stage = "requesting" /\ UNCHANGED files
    BY DEF NetworkFails, StatusFails, Redirected, Respond
<1>2. CASE RetryOrGiveUp(d)
    BY <1>1, <1>2, RetryInvariant
<1>3. CASE Settle(d, "refused")
    BY <1>1, <1>3, SettleInvariant DEF Over
<1>4. CASE download' = [download EXCEPT ![d].redirects = @ + 1]
    <2> DEFINE new == [download[d] EXCEPT !.redirects = @ + 1]
    <2>1. download' = [download EXCEPT ![d] = new]
        BY <1>4 DEF RawInv
    <2>2. Consistent(new, files')
        BY <1>1 DEF RawInv, Consistent, Fields
    <2> HIDE DEF new
    <2> QED
        BY <1>1, <2>1, <2>2, CallStep
<1>5. ASSUME NEW b \in Bodies, download' = [download EXCEPT ![d].stage = "streaming", ![d].body = b]
      PROVE  RawInv'
    <2> DEFINE new == [download[d] EXCEPT !.stage = "streaming", !.body = b]
    <2>1. download' = [download EXCEPT ![d] = new]
        BY <1>5 DEF RawInv
    <2>2. b \in Seq(STRING) /\ SubSeq(b, 1, 0) = <<>> /\ 0 \in 0..Len(b)
        BY RawAssumption
    <2>3. Consistent(new, files')
        BY <1>1, <2>2 DEF RawInv, Consistent, Fields
    <2> HIDE DEF new
    <2> QED
        BY <1>1, <2>1, <2>3, CallStep
<1> QED
    BY <1>2, <1>3, <1>4, <1>5 DEF NetworkFails, StatusFails, Redirected, Respond

(* A chunk that is written extends the beginning of the body by one. *)
LEMMA WriteChunkInvariant ==
    ASSUME RawInv, NEW d \in Downloads, WriteChunk(d)
    PROVE  RawInv'
<1> DEFINE body == download[d].body
           temp == download[d].temp
           more == Append(temp, body[Len(temp) + 1])
           new  == [download[d] EXCEPT !.temp = more]
<1>1. download[d].stage = "streaming" /\ Len(temp) < Len(body) /\ UNCHANGED files
    BY DEF WriteChunk
<1>2. CASE Settle(d, "refused")
    BY <1>1, <1>2, SettleInvariant DEF Over
<1>3. CASE ~Settle(d, "refused")
    <2>1. body \in Bodies /\ \E n \in 0..Len(body) : temp = SubSeq(body, 1, n)
        BY <1>1 DEF RawInv, Consistent
    <2>2. download' = [download EXCEPT ![d] = new]
        BY <1>3 DEF RawInv, WriteChunk
    <2>3. \E n \in 0..Len(body) : more = SubSeq(body, 1, n)
        <3>1. body \in Seq(STRING)
            BY <2>1, RawAssumption
        <3>2. PICK n \in 0..Len(body) : temp = SubSeq(body, 1, n)
            BY <2>1
        <3> HIDE DEF body, temp
        <3>3. Len(temp) = n /\ n + 1 \in 0..Len(body)
            BY <3>1, <3>2, <1>1
        <3>4. more = SubSeq(body, 1, n + 1)
            BY <3>1, <3>2, <3>3
        <3> QED
            BY <3>3, <3>4
    <2> HIDE DEF more
    <2>4. Consistent(new, files')
        BY <1>1, <2>1, <2>3 DEF RawInv, Consistent, Fields
    <2> HIDE DEF new
    <2> QED
        BY <1>1, <2>2, <2>4, CallStep
<1> QED
    BY <1>2, <1>3

LEMMA EndBodyInvariant ==
    ASSUME RawInv, NEW d \in Downloads, EndBody(d)
    PROVE  RawInv'
<1> DEFINE new == [download[d] EXCEPT !.stage = "written"]
<1>1. download[d].stage = "streaming" /\ UNCHANGED files
    BY DEF EndBody
<1>2. CASE Settle(d, "refused")
    BY <1>1, <1>2, SettleInvariant DEF Over
<1>3. CASE ~Settle(d, "refused")
    <2>1. download' = [download EXCEPT ![d] = new]
        BY <1>3 DEF RawInv, EndBody
    <2>2. download[d].temp \in Contents
        <3>1. PICK b \in Bodies : \E n \in 0..Len(b) : download[d].temp = SubSeq(b, 1, n)
            BY <1>1 DEF RawInv, Consistent
        <3>2. PICK n \in 0..Len(b) : download[d].temp = SubSeq(b, 1, n)
            BY <3>1
        <3> QED
            BY <3>2, BeginningIsContent
    <2>3. Consistent(new, files')
        BY <1>1, <2>2 DEF RawInv, Consistent, Fields
    <2> HIDE DEF new
    <2> QED
        BY <1>1, <2>1, <2>3, CallStep
<1> QED
    BY <1>2, <1>3

LEMMA FindExistingInvariant ==
    ASSUME RawInv, NEW d \in Downloads, FindExisting(d)
    PROVE  RawInv'
<1> DEFINE temp  == download[d].temp
           stage == IF files[temp] = Missing THEN "renaming"
                    ELSE IF files[temp] = temp THEN "stored" ELSE "refused"
           found == IF files[temp] = temp THEN temp ELSE Missing
           new   == [download[d] EXCEPT !.stage = stage, !.result = found]
<1>1. download[d].stage = "written" /\ UNCHANGED files /\ temp \in Contents
    BY DEF FindExisting, RawInv, Consistent
<1>2. download' = [download EXCEPT ![d] = new]
    BY DEF RawInv, FindExisting
<1>3. /\ stage = "stored" => found \in Contents /\ files[found] = found
      /\ stage \in {"renaming", "stored", "refused"}
    BY <1>1
<1> HIDE DEF stage, found
<1>4. Consistent(new, files')
    BY <1>1, <1>3 DEF RawInv, Consistent, Fields
<1> HIDE DEF new
<1> QED
    BY <1>1, <1>2, <1>4, CallStep

LEMMA RenameInvariant ==
    ASSUME RawInv, NEW d \in Downloads, RenameIntoPlace(d)
    PROVE  RawInv'
<1> DEFINE temp == download[d].temp
           new  == [download[d] EXCEPT !.stage = "stored", !.result = temp, !.body = <<>>, !.temp = <<>>]
<1>1. download[d].stage = "renaming" /\ temp \in Contents /\ files' = [files EXCEPT ![temp] = temp]
    BY DEF RenameIntoPlace, RawInv, Consistent
<1>2. download' = [download EXCEPT ![d] = new]
    BY DEF RawInv, RenameIntoPlace
<1>3. files'[temp] = temp
    BY <1>1 DEF RawInv
<1>4. Consistent(new, files')
    BY <1>1, <1>3 DEF RawInv, Consistent, Fields
<1> HIDE DEF new, temp
<1> QED
    BY <1>1, <1>2, <1>4, CallStep

LEMMA RawStepInvariant ==
    RawInv /\ [RawNext]_rawVars => RawInv'
<1> SUFFICES ASSUME RawInv, [RawNext]_rawVars PROVE RawInv'
    OBVIOUS
<1>1. CASE UNCHANGED rawVars
    BY <1>1 DEF rawVars, RawInv
<1>2. CASE RawNext
    <2>1. PICK d \in Downloads :
            \/ StartRequest(d) \/ NetworkFails(d) \/ Redirected(d) \/ StatusFails(d) \/ Respond(d)
            \/ WriteChunk(d) \/ EndBody(d) \/ BodyFails(d) \/ FindExisting(d) \/ RenameIntoPlace(d)
            \/ CrashDownload(d)
        BY <1>2 DEF RawNext
    <2>2. CASE BodyFails(d) \/ CrashDownload(d)
        BY <2>2, SettleInvariant DEF BodyFails, CrashDownload, Over
    <2> QED
        BY <2>1, <2>2, StartRequestInvariant, RequestingInvariant, WriteChunkInvariant,
           EndBodyInvariant, FindExistingInvariant, RenameInvariant
<1> QED
    BY <1>1, <1>2

(* A call that returned an artifact finds it in the store, whole, whichever *)
(* other calls stored the same content or died while they wrote it.         *)
THEOREM StoredArtifactsLoad ==
    RawSpec => []StoredIsLoadable
BY RawInitInvariant, RawStepInvariant, RawInvImpliesLoadable, PTL DEF RawSpec

-----------------------------------------------------------------------------
(* Migrations: the inductive invariant *)

MigrationIds == {m.id : m \in UNION {Range(Package[p]) : p \in Starters}}
Rows == [version : Nat, id : MigrationIds]
Effects == MigrationIds \X Nat
Stages == {"idle", "migrating", "refused", "busy", "committed", "failed", "ready"}

MigrationTypeOK ==
    /\ schema \in Seq(Effects) /\ history \in Seq(Rows)
    /\ writer \in Starters \cup {"nobody"}
    /\ work \in [schema : Seq(Effects), history : Seq(Rows), next : Nat, statement : Nat]
    /\ starter \in [Starters -> [stage : Stages, applied : {<<>>}, previous : Nat, reports : Nat]]

Numbered(rows) == \A i \in 1..Len(rows) : rows[i].version = i

WholeEffects(effects, rows) ==
    \A i \in 1..Len(rows), s \in 1..Statements : effects[Before(i) + s] = <<rows[i].id, s>>

(* The rows are the beginning of what a starter ships, or all of it and more. *)
Shipped(rows, p) ==
    /\ Len(rows) <= Len(Package[p])
    /\ \A i \in 1..Len(rows) : rows[i].id = Package[p][i].id

Migrated(rows, p) ==
    /\ Len(Package[p]) <= Len(rows)
    /\ \A i \in 1..Len(Package[p]) : rows[i].id = Package[p][i].id

Extended(rows, more) ==
    /\ Len(rows) <= Len(more)
    /\ \A i \in 1..Len(rows) : more[i] = rows[i]

HistoryInv ==
    /\ Numbered(history)
    /\ Len(schema) = Before(Len(history) + 1)
    /\ WholeEffects(schema, history)

(* The uncommitted work extends the history by migrations of the writer's  *)
(* own package, and the schema by the statements that have run.            *)
WorkInv ==
    writer # "nobody" =>
        /\ work.next = Len(work.history) + 1
        /\ work.statement \in 1..(Statements + 1)
        /\ work.statement > 1 => work.next <= Len(Package[writer])
        /\ Numbered(work.history) /\ Shipped(work.history, writer)
        /\ Extended(history, work.history)
        /\ Len(work.schema) = Before(work.next) + (work.statement - 1)
        /\ WholeEffects(work.schema, work.history)
        /\ \A s \in 1..(work.statement - 1) :
               work.schema[Before(work.next) + s] = <<Package[writer][work.next].id, s>>

StarterInv ==
    \A p \in Starters :
        /\ starter[p].stage \in {"committed", "ready"} => Migrated(history, p)
        /\ starter[p].stage = "ready" => starter[p].reports = Len(Package[p])

MigrationInv == MigrationTypeOK /\ HistoryInv /\ WorkInv /\ StarterInv

-----------------------------------------------------------------------------
(* Facts about the places of effects and about prefixes *)

LEMMA BeforeFacts ==
    /\ Before(1) = 0
    /\ \A i \in Nat \ {0} : Before(i) \in Nat /\ Before(i + 1) = Before(i) + Statements
    /\ \A i, j \in Nat \ {0} : i <= j => Before(i) <= Before(j)
<1>1. Before(1) = 0
    BY PackageAssumption DEF Before
<1>2. ASSUME NEW i \in Nat \ {0} PROVE Before(i) \in Nat /\ Before(i + 1) = Before(i) + Statements
    BY PackageAssumption DEF Before
<1>3. ASSUME NEW i \in Nat \ {0}, NEW j \in Nat \ {0}, i <= j PROVE Before(i) <= Before(j)
    <2>1. Statements * (j - 1) = Statements * (i - 1) + Statements * (j - i)
        BY PackageAssumption
    <2>2. Statements * (j - i) >= 0
        BY PackageAssumption, <1>3
    <2> QED
        BY <2>1, <2>2, PackageAssumption DEF Before
<1> QED
    BY <1>1, <1>2, <1>3

LEMMA PlaceOfEffect ==
    ASSUME NEW n \in Nat, NEW i \in 1..n, NEW s \in 1..Statements
    PROVE  Before(i) + s \in 1..Before(n + 1)
<1>1. i \in Nat \ {0} /\ i + 1 \in Nat \ {0} /\ n + 1 \in Nat \ {0} /\ i + 1 <= n + 1
    OBVIOUS
<1>2. Before(i) \in Nat /\ Before(i + 1) = Before(i) + Statements /\ Before(i + 1) <= Before(n + 1)
      /\ Before(n + 1) \in Nat
    BY <1>1, BeforeFacts
<1> QED
    BY <1>2, PackageAssumption

LEMMA PrefixByElement ==
    ASSUME NEW S, NEW s \in Seq(S), NEW t \in Seq(S), Len(s) <= Len(t),
           \A i \in 1..Len(s) : s[i] = t[i]
    PROVE  IsPrefix(s, t)
<1>1. /\ SubSeq(s, 1, Len(s)) \in Seq(S) /\ SubSeq(t, 1, Len(s)) \in Seq(S)
      /\ Len(SubSeq(s, 1, Len(s))) = Len(s) /\ Len(SubSeq(t, 1, Len(s))) = Len(s)
      /\ \A i \in 1..Len(s) : SubSeq(s, 1, Len(s))[i] = s[i] /\ SubSeq(t, 1, Len(s))[i] = t[i]
    OBVIOUS
<1>2. SubSeq(s, 1, Len(s)) = SubSeq(t, 1, Len(s))
    BY <1>1, SeqEqual
<1> QED
    BY <1>2 DEF IsPrefix

LEMMA PackageFacts ==
    ASSUME NEW p \in Starters
    PROVE  /\ Len(Package[p]) \in Nat
           /\ \A i \in 1..Len(Package[p]) : Package[p][i].id \in MigrationIds
<1>1. Package[p] \in Seq(Range(Package[p]))
    BY PackageAssumption
<1>2. \A i \in 1..Len(Package[p]) : Package[p][i] \in Range(Package[p])
    BY <1>1, ElementOfSeq
<1> QED
    BY <1>1, <1>2 DEF MigrationIds

LEMMA MigrationInvImplies ==
    MigrationInv => SchemaMatchesHistory
<1> SUFFICES ASSUME MigrationInv PROVE EffectsMatchHistory /\ ReadyIsMigrated
    BY DEF SchemaMatchesHistory
<1>1. EffectsMatchHistory
    BY DEF MigrationInv, MigrationTypeOK, HistoryInv, WholeEffects, EffectsMatchHistory, Stages
<1>2. ASSUME NEW p \in Starters, starter[p].stage = "ready"
      PROVE  /\ starter[p].reports = Len(Package[p])
             /\ IsPrefix([i \in 1..Len(Package[p]) |-> Package[p][i].id],
                         [i \in 1..Len(history) |-> history[i].id])
    <2> DEFINE ours == [i \in 1..Len(Package[p]) |-> Package[p][i].id]
               all == [i \in 1..Len(history) |-> history[i].id]
    <2>1. Migrated(history, p) /\ starter[p].reports = Len(Package[p])
        BY <1>2 DEF MigrationInv, StarterInv
    <2>2. /\ Len(Package[p]) \in Nat /\ Len(history) \in Nat
          /\ \A i \in 1..Len(history) : history[i].id \in MigrationIds
        <3>1. history \in Seq(Rows)
            BY DEF MigrationInv, MigrationTypeOK
        <3>2. \A i \in 1..Len(history) : history[i] \in Rows
            BY <3>1, ElementOfSeq
        <3> QED
            BY <3>1, <3>2, PackageFacts DEF Rows
    <2>3. ours \in Seq(MigrationIds) /\ all \in Seq(MigrationIds)
          /\ Len(ours) = Len(Package[p]) /\ Len(all) = Len(history)
        BY <2>2, PackageFacts
    <2>4. Len(ours) <= Len(all) /\ \A i \in 1..Len(ours) : ours[i] = all[i]
        BY <2>1, <2>2, <2>3 DEF Migrated
    <2> HIDE DEF ours, all
    <2>5. IsPrefix(ours, all)
        BY <2>3, <2>4, PrefixByElement
    <2> QED
        BY <2>1, <2>5 DEF ours, all
<1> QED
    BY <1>1, <1>2 DEF ReadyIsMigrated

LEMMA MigrationInitInvariant ==
    MigrationsInit => MigrationInv
<1> SUFFICES ASSUME MigrationsInit PROVE MigrationInv
    OBVIOUS
<1>1. MigrationTypeOK
    BY DEF MigrationsInit, MigrationTypeOK, Idle, NoWork, Stages
<1>2. HistoryInv
    BY BeforeFacts DEF MigrationsInit, HistoryInv, Numbered, WholeEffects
<1>3. WorkInv /\ StarterInv
    BY DEF MigrationsInit, WorkInv, StarterInv, Idle
<1> QED
    BY <1>1, <1>2, <1>3 DEF MigrationInv

-----------------------------------------------------------------------------
(* Migrations: the steps *)

StarterTypes == [stage : Stages, applied : {<<>>}, previous : Nat, reports : Nat]
WorkTypes == [schema : Seq(Effects), history : Seq(Rows), next : Nat, statement : Nat]

(* A starter moves to another stage while nothing is committed. *)
LEMMA StarterStep ==
    ASSUME MigrationInv, UNCHANGED <<schema, history>>, NEW p \in Starters, NEW new \in StarterTypes,
           starter' = [starter EXCEPT ![p] = new],
           new.stage = "ready" => Migrated(history, p) /\ new.reports = Len(Package[p]),
           new.stage # "committed",
           writer' \in Starters \cup {"nobody"}, work' \in WorkTypes, WorkInv'
    PROVE  MigrationInv'
<1>1. /\ starter' \in [Starters -> StarterTypes]
      /\ starter'[p] = new /\ \A q \in Starters \ {p} : starter'[q] = starter[q]
    BY DEF MigrationInv, MigrationTypeOK, StarterTypes
<1>2. MigrationTypeOK'
    BY <1>1 DEF MigrationInv, MigrationTypeOK, StarterTypes, WorkTypes
<1>3. HistoryInv'
    BY DEF MigrationInv, HistoryInv, Numbered, WholeEffects
<1>4. StarterInv'
    BY <1>1 DEF MigrationInv, StarterInv, Migrated
<1> QED
    BY <1>2, <1>3, <1>4 DEF MigrationInv

LEMMA NoWorkType ==
    NoWork \in WorkTypes
BY DEF NoWork, WorkTypes

LEMMA WorkKept ==
    ASSUME WorkInv, UNCHANGED <<history, writer, work>>
    PROVE  WorkInv'
BY DEF WorkInv, Numbered, Shipped, Extended, WholeEffects

LEMMA BeginMigrationInvariant ==
    ASSUME MigrationInv, NEW p \in Starters, BeginMigration(p)
    PROVE  MigrationInv'
<1>1. history \in Seq(Rows) /\ schema \in Seq(Effects) /\ Len(history) \in Nat
      /\ UNCHANGED <<schema, history>>
    BY DEF MigrationInv, MigrationTypeOK, BeginMigration
<1>2. CASE ValidMigrationSequence(Range(Package[p])) /\ CompatibleHistory(history, Package[p])
    <2> DEFINE new == [starter[p] EXCEPT !.stage = "migrating", !.previous = Len(history)]
    <2>1. /\ writer' = p /\ starter' = [starter EXCEPT ![p] = new]
          /\ work' = [schema |-> schema, history |-> history, next |-> Len(history) + 1, statement |-> 1]
        BY <1>2 DEF BeginMigration, MigrationInv, MigrationTypeOK
    <2>2. new \in StarterTypes /\ new.stage = "migrating"
        BY <1>1 DEF MigrationInv, MigrationTypeOK, StarterTypes, Stages
    <2> HIDE DEF new
    <2>3. work' \in WorkTypes /\ writer' \in Starters \cup {"nobody"}
        BY <1>1, <2>1 DEF WorkTypes
    <2>4. Shipped(history, p)
        BY <1>2 DEF CompatibleHistory, Shipped
    <2>5. Before(Len(history) + 1) \in Nat
        BY <1>1, BeforeFacts
    <2>6. WorkInv'
        BY <1>1, <2>1, <2>4, <2>5, PackageAssumption
        DEF WorkInv, MigrationInv, HistoryInv, Numbered, Shipped, Extended, WholeEffects
    <2> QED
        BY <1>1, <2>1, <2>2, <2>3, <2>6, StarterStep
<1>3. CASE ~(ValidMigrationSequence(Range(Package[p])) /\ CompatibleHistory(history, Package[p]))
    <2> DEFINE new == [starter[p] EXCEPT !.stage = "refused"]
    <2>1. UNCHANGED <<writer, work>> /\ starter' = [starter EXCEPT ![p] = new]
        BY <1>3 DEF BeginMigration
    <2>2. new \in StarterTypes /\ new.stage = "refused"
        BY DEF MigrationInv, MigrationTypeOK, StarterTypes, Stages
    <2> HIDE DEF new
    <2>3. WorkInv' /\ work' \in WorkTypes /\ writer' \in Starters \cup {"nobody"}
        BY <1>1, <2>1, WorkKept DEF MigrationInv, MigrationTypeOK, WorkTypes
    <2> QED
        BY <1>1, <2>1, <2>2, <2>3, StarterStep
<1> QED
    BY <1>2, <1>3

(* Busy, rolled back, reported and started again. *)
LEMMA LeaveInvariant ==
    ASSUME MigrationInv, NEW p \in Starters,
           MigrationBusy(p) \/ RollBackMigration(p) \/ ReportReady(p) \/ Restart(p)
    PROVE  MigrationInv'
<1>1. UNCHANGED <<schema, history>>
    BY DEF MigrationBusy, RollBackMigration, ReportReady, Restart
<1>2. WorkInv' /\ work' \in WorkTypes /\ writer' \in Starters \cup {"nobody"}
    <2>1. CASE RollBackMigration(p)
        BY <2>1, NoWorkType DEF RollBackMigration, WorkInv
    <2>2. CASE UNCHANGED <<writer, work>>
        BY <1>1, <2>2, WorkKept DEF MigrationInv, MigrationTypeOK, WorkTypes
    <2> QED
        BY <2>1, <2>2 DEF MigrationBusy, ReportReady, Restart
<1>3. ASSUME NEW how \in {"busy", "failed"}, starter' = [starter EXCEPT ![p].stage = how]
      PROVE  MigrationInv'
    <2> DEFINE new == [starter[p] EXCEPT !.stage = how]
    <2>1. new \in StarterTypes /\ new.stage = how
        BY DEF MigrationInv, MigrationTypeOK, StarterTypes, Stages
    <2>2. starter' = [starter EXCEPT ![p] = new]
        BY <1>3
    <2> HIDE DEF new
    <2> QED
        BY <1>1, <1>2, <2>1, <2>2, StarterStep
<1>4. CASE ReportReady(p)
    <2> DEFINE stage == IF CompatibleHistory(history, Package[p]) THEN "ready" ELSE "refused"
               new == [starter[p] EXCEPT !.stage = stage, !.reports = Len(history)]
    <2>1. starter' = [starter EXCEPT ![p] = new] /\ starter[p].stage = "committed"
        BY <1>4 DEF ReportReady, MigrationInv, MigrationTypeOK
    <2>2. Migrated(history, p) /\ Len(history) \in Nat /\ Len(Package[p]) \in Nat
        BY <2>1, PackageFacts DEF MigrationInv, MigrationTypeOK, StarterInv
    <2>3. stage = "ready" => Len(history) = Len(Package[p])
        BY <2>2 DEF CompatibleHistory, Migrated
    <2>4. stage \in {"ready", "refused"}
        OBVIOUS
    <2> HIDE DEF stage
    <2>5. new \in StarterTypes /\ new.stage = stage /\ new.reports = Len(history)
        BY <2>2, <2>4 DEF MigrationInv, MigrationTypeOK, StarterTypes, Stages
    <2> HIDE DEF new
    <2> QED
        BY <1>1, <1>2, <2>1, <2>2, <2>3, <2>4, <2>5, StarterStep
<1>5. CASE Restart(p)
    <2>1. Idle \in StarterTypes /\ Idle.stage = "idle"
        BY DEF Idle, StarterTypes, Stages
    <2> QED
        BY <1>1, <1>2, <1>5, <2>1, StarterStep DEF Restart
<1> QED
    BY <1>3, <1>4, <1>5 DEF MigrationBusy, RollBackMigration

LEMMA ApplyStatementInvariant ==
    ASSUME MigrationInv, NEW p \in Starters, ApplyStatement(p)
    PROVE  MigrationInv'
<1> DEFINE effect == <<Package[p][work.next].id, work.statement>>
           more == Append(work.schema, effect)
<1>1. /\ writer = p /\ writer # "nobody" /\ UNCHANGED <<schema, history, writer, starter>>
      /\ work.next <= Len(Package[p]) /\ work.statement <= Statements
      /\ work' = [work EXCEPT !.schema = more, !.statement = work.statement + 1]
    BY PackageAssumption DEF ApplyStatement, MoreToApply, MigrationInv, MigrationTypeOK
<1>2. /\ work.schema \in Seq(Effects) /\ work.history \in Seq(Rows)
      /\ work.next = Len(work.history) + 1 /\ Len(work.history) \in Nat
      /\ work.statement \in 1..(Statements + 1) /\ Statements \in Nat
      /\ Before(work.next) \in Nat
      /\ Len(work.schema) = Before(work.next) + (work.statement - 1)
    <2>1. /\ work.schema \in Seq(Effects) /\ work.history \in Seq(Rows)
          /\ work.next = Len(work.history) + 1 /\ Len(work.history) \in Nat
        BY <1>1 DEF MigrationInv, MigrationTypeOK, WorkInv
    <2>2. work.next \in Nat \ {0}
        BY <2>1
    <2> QED
        BY <1>1, <2>1, <2>2, BeforeFacts, PackageAssumption DEF MigrationInv, WorkInv
<1>3. effect \in Effects
    <2>1. work.next \in 1..Len(Package[p])
        BY <1>1, <1>2, PackageFacts
    <2> QED
        BY <1>2, <2>1, PackageFacts DEF Effects
<1>4. /\ more \in Seq(Effects) /\ Len(more) = Len(work.schema) + 1
      /\ \A k \in 1..Len(work.schema) : more[k] = work.schema[k]
      /\ more[Len(work.schema) + 1] = effect
    <2> HIDE DEF effect
    <2> QED
        BY <1>2, <1>3, AppendProperties
<1> HIDE DEF more
<1>5. /\ work' \in WorkTypes
      /\ work'.schema = more /\ work'.history = work.history /\ work'.next = work.next
      /\ work'.statement = work.statement + 1
    <2>1. work \in WorkTypes
        BY DEF MigrationInv, MigrationTypeOK, WorkTypes
    <2>2. work' = [schema |-> more, history |-> work.history, next |-> work.next,
                   statement |-> work.statement + 1]
        BY <1>1, <2>1 DEF WorkTypes
    <2>3. work.next \in Nat /\ work.statement + 1 \in Nat
        BY <1>2
    <2> QED
        BY <1>2, <1>4, <2>2, <2>3 DEF WorkTypes
<1>6. WholeEffects(more, work.history)
    <2> SUFFICES ASSUME NEW i \in 1..Len(work.history), NEW s \in 1..Statements
                 PROVE  more[Before(i) + s] = <<work.history[i].id, s>>
        BY DEF WholeEffects
    <2>1. Before(i) + s \in 1..Before(work.next)
        BY <1>2, PlaceOfEffect
    <2>2. Before(i) + s \in 1..Len(work.schema)
        BY <1>2, <2>1
    <2> QED
        BY <1>1, <1>4, <2>2 DEF MigrationInv, WorkInv, WholeEffects
<1>7. ASSUME NEW s \in 1..work.statement
      PROVE  more[Before(work.next) + s] = <<Package[p][work.next].id, s>>
    <2>1. CASE s = work.statement
        <3>1. Before(work.next) + s = Len(work.schema) + 1
            BY <1>2, <2>1
        <3> QED
            BY <1>4, <2>1, <3>1
    <2>2. CASE s # work.statement
        <3>1. s \in 1..(work.statement - 1) /\ Before(work.next) + s \in 1..Len(work.schema)
            BY <1>2, <2>2
        <3> QED
            BY <1>1, <1>4, <3>1 DEF MigrationInv, WorkInv
    <2> QED
        BY <2>1, <2>2
<1>8. Len(more) = Before(work.next) + (work.statement + 1 - 1)
    BY <1>2, <1>4
<1>9. WorkInv'
    <2>1. work'.statement \in 1..(Statements + 1) /\ work'.statement - 1 = work.statement
        <3>1. PICK n \in 1..(Statements + 1) : n = work.statement
            BY <1>2
        <3>2. n <= Statements /\ work'.statement = n + 1
            BY <1>1, <1>5, <3>1
        <3> QED
            BY <1>2, <3>1, <3>2
    <2>2. /\ Numbered(work.history)' /\ Shipped(work.history, writer)'
          /\ Extended(history, work.history)'
        BY <1>1, <1>5 DEF MigrationInv, WorkInv, Numbered, Shipped, Extended
    <2>3. WholeEffects(work.schema, work.history)'
        BY <1>5, <1>6 DEF WholeEffects
    <2>4. (Len(work.schema) = Before(work.next) + (work.statement - 1))'
        BY <1>5, <1>8, <2>1 DEF Before
    <2>5. (\A s \in 1..(work.statement - 1) :
              work.schema[Before(work.next) + s] = <<Package[writer][work.next].id, s>>)'
        BY <1>1, <1>5, <1>7, <2>1
    <2> QED
        BY <1>1, <1>2, <1>5, <2>1, <2>2, <2>3, <2>4, <2>5 DEF WorkInv
<1>10. MigrationTypeOK' /\ HistoryInv' /\ StarterInv'
    BY <1>1, <1>5 DEF MigrationInv, MigrationTypeOK, WorkTypes, HistoryInv, StarterInv,
                      Numbered, WholeEffects, Migrated
<1> QED
    BY <1>9, <1>10 DEF MigrationInv

(* The row of a migration is never there already: the rows are numbered.   *)
LEMMA RecordMigrationInvariant ==
    ASSUME MigrationInv, NEW p \in Starters, RecordMigration(p)
    PROVE  MigrationInv'
<1> DEFINE entry == [version |-> work.next, id |-> Package[p][work.next].id]
           more == Append(work.history, entry)
<1>1. /\ writer = p /\ writer # "nobody"
      /\ work.next <= Len(Package[p]) /\ work.statement > Statements
      /\ UNCHANGED <<schema, history>>
    BY PackageAssumption DEF RecordMigration, MoreToApply
<1>2. /\ work.schema \in Seq(Effects) /\ work.history \in Seq(Rows)
      /\ work.next = Len(work.history) + 1 /\ Len(work.history) \in Nat
      /\ work.statement = Statements + 1 /\ Statements \in Nat
      /\ Len(work.schema) = Before(work.next) + Statements
      /\ Numbered(work.history)
    <2>1. /\ work.schema \in Seq(Effects) /\ work.history \in Seq(Rows)
          /\ work.next = Len(work.history) + 1 /\ Len(work.history) \in Nat
        BY <1>1 DEF MigrationInv, MigrationTypeOK, WorkInv
    <2> QED
        BY <1>1, <2>1, PackageAssumption DEF MigrationInv, WorkInv
<1>3. ~\E i \in 1..Len(work.history) : work.history[i].version = work.next
    BY <1>2 DEF Numbered
<1>4. /\ work' = [work EXCEPT !.history = more, !.next = work.next + 1, !.statement = 1]
      /\ UNCHANGED <<writer, starter>>
    BY <1>3 DEF RecordMigration
<1>5. entry \in Rows /\ entry.version = work.next /\ entry.id = Package[p][work.next].id
    <2>1. work.next \in 1..Len(Package[p])
        BY <1>1, <1>2, PackageFacts
    <2> QED
        BY <1>2, <2>1, PackageFacts DEF Rows
<1> HIDE DEF entry
<1>6. /\ more \in Seq(Rows) /\ Len(more) = Len(work.history) + 1 /\ Len(more) = work.next
      /\ \A k \in 1..Len(work.history) : more[k] = work.history[k]
      /\ more[work.next] = entry
    BY <1>2, <1>5, AppendProperties
<1> HIDE DEF more
<1>7. /\ work' \in WorkTypes
      /\ work'.schema = work.schema /\ work'.history = more /\ work'.next = work.next + 1
      /\ work'.statement = 1
    <2>1. work \in WorkTypes
        BY DEF MigrationInv, MigrationTypeOK, WorkTypes
    <2>2. work' = [schema |-> work.schema, history |-> more, next |-> work.next + 1, statement |-> 1]
        BY <1>4, <2>1 DEF WorkTypes
    <2>3. work.next + 1 \in Nat
        BY <1>2
    <2> QED
        BY <1>2, <1>6, <2>2, <2>3 DEF WorkTypes
<1>8. Numbered(more) /\ Shipped(more, p) /\ Extended(history, more)
    <2>1. \A k \in 1..Len(more) : k = work.next \/ k \in 1..Len(work.history)
        BY <1>2, <1>6
    <2>2. history \in Seq(Rows) /\ Extended(history, work.history) /\ Shipped(work.history, p)
        BY <1>1 DEF MigrationInv, MigrationTypeOK, WorkInv
    <2>3. Numbered(more)
        BY <1>2, <1>5, <1>6, <2>1 DEF Numbered
    <2>4. Shipped(more, p)
        BY <1>1, <1>2, <1>5, <1>6, <2>1, <2>2 DEF Shipped
    <2>5. Extended(history, more)
        BY <1>2, <1>6, <2>2 DEF Extended
    <2> QED
        BY <2>3, <2>4, <2>5
<1>9. Before(work.next + 1) = Before(work.next) + Statements /\ Before(work.next) \in Nat
    <2>1. work.next \in Nat \ {0}
        BY <1>2
    <2> QED
        BY <2>1, BeforeFacts
<1>10. WholeEffects(work.schema, more)
    <2> SUFFICES ASSUME NEW i \in 1..Len(more), NEW s \in 1..Statements
                 PROVE  work.schema[Before(i) + s] = <<more[i].id, s>>
        BY DEF WholeEffects
    <2>1. CASE i = work.next
        <3>1. s \in 1..(work.statement - 1)
            BY <1>2
        <3> QED
            BY <1>1, <1>5, <1>6, <2>1, <3>1 DEF MigrationInv, WorkInv
    <2>2. CASE i # work.next
        <3>1. i \in 1..Len(work.history)
            BY <1>2, <1>6, <2>2
        <3> QED
            BY <1>1, <1>6, <3>1 DEF MigrationInv, WorkInv, WholeEffects
    <2> QED
        BY <2>1, <2>2
<1>11. WorkInv'
    <2>1. /\ Numbered(work.history)' /\ Shipped(work.history, writer)'
          /\ Extended(history, work.history)'
        BY <1>1, <1>4, <1>7, <1>8 DEF Numbered, Shipped, Extended
    <2>2. WholeEffects(work.schema, work.history)'
        BY <1>7, <1>10 DEF WholeEffects
    <2>3. (Len(work.schema) = Before(work.next) + (work.statement - 1))'
        BY <1>2, <1>7, <1>9
    <2>4. (work.next = Len(work.history) + 1)' /\ work'.statement - 1 = 0
        BY <1>2, <1>6, <1>7
    <2> QED
        BY <1>2, <1>7, <2>1, <2>2, <2>3, <2>4 DEF WorkInv
<1>12. MigrationTypeOK' /\ HistoryInv' /\ StarterInv'
    BY <1>1, <1>4, <1>7 DEF MigrationInv, MigrationTypeOK, WorkTypes, HistoryInv, StarterInv,
                      Numbered, WholeEffects, Migrated
<1> QED
    BY <1>11, <1>12 DEF MigrationInv

LEMMA CommitMigrationInvariant ==
    ASSUME MigrationInv, NEW p \in Starters, CommitMigration(p)
    PROVE  MigrationInv'
<1> DEFINE new == [starter[p] EXCEPT !.stage = "committed"]
<1>1. /\ writer = p /\ writer # "nobody" /\ writer' = "nobody" /\ work' = NoWork
      /\ ~(work.next <= Len(Package[p])) /\ Len(work.history) = Len(Package[p])
      /\ schema' = work.schema /\ history' = work.history
      /\ starter' = [starter EXCEPT ![p] = new]
    BY PackageAssumption DEF CommitMigration, MoreToApply
<1>2. /\ work.schema \in Seq(Effects) /\ work.history \in Seq(Rows)
      /\ history \in Seq(Rows)
      /\ work.next = Len(work.history) + 1 /\ Len(work.history) \in Nat
      /\ work.statement = 1
      /\ Len(work.schema) = Before(work.next)
      /\ Numbered(work.history) /\ Shipped(work.history, p) /\ Extended(history, work.history)
      /\ WholeEffects(work.schema, work.history)
    <2>1. /\ work.schema \in Seq(Effects) /\ work.history \in Seq(Rows) /\ history \in Seq(Rows)
          /\ work.next = Len(work.history) + 1 /\ Len(work.history) \in Nat
        BY <1>1 DEF MigrationInv, MigrationTypeOK, WorkInv
    <2>2. work.next \in Nat \ {0}
        BY <2>1
    <2>3. Before(work.next) \in Nat
        BY <2>2, BeforeFacts
    <2> QED
        BY <1>1, <2>1, <2>3, PackageAssumption DEF MigrationInv, WorkInv
<1>3. /\ starter' \in [Starters -> StarterTypes]
      /\ starter'[p].stage = "committed" /\ \A q \in Starters \ {p} : starter'[q] = starter[q]
    BY <1>1 DEF MigrationInv, MigrationTypeOK, StarterTypes, Stages
<1>4. MigrationTypeOK'
    BY <1>1, <1>2, <1>3, NoWorkType DEF MigrationTypeOK, StarterTypes, WorkTypes
<1>5. HistoryInv' /\ WorkInv'
    BY <1>1, <1>2 DEF HistoryInv, WorkInv, Numbered, WholeEffects
<1>6. ASSUME NEW q \in Starters
      PROVE  /\ starter'[q].stage \in {"committed", "ready"} => Migrated(history', q)
             /\ starter'[q].stage = "ready" => starter'[q].reports = Len(Package[q])
    <2>1. CASE q = p
        BY <1>1, <1>2, <1>3, <2>1 DEF Shipped, Migrated
    <2>2. CASE q # p
        <3>1. Migrated(history, q) => Migrated(work.history, q)
            <4>1. Len(Package[q]) \in Nat /\ Len(history) \in Nat /\ Len(work.history) \in Nat
                BY <1>2, PackageFacts
            <4>2. /\ Len(history) <= Len(work.history)
                  /\ \A i \in 1..Len(history) : work.history[i] = history[i]
                BY <1>2 DEF Extended
            <4> QED
                BY <4>1, <4>2 DEF Migrated
        <3> QED
            BY <1>1, <1>3, <2>2, <3>1 DEF MigrationInv, StarterInv
    <2> QED
        BY <2>1, <2>2
<1> QED
    BY <1>4, <1>5, <1>6 DEF MigrationInv, StarterInv

LEMMA MigrationStepInvariant ==
    MigrationInv /\ [MigrationsNext]_migrationVars => MigrationInv'
<1> SUFFICES ASSUME MigrationInv, [MigrationsNext]_migrationVars PROVE MigrationInv'
    OBVIOUS
<1>1. CASE UNCHANGED migrationVars
    BY <1>1, WorkKept DEF migrationVars, MigrationInv, MigrationTypeOK, HistoryInv, StarterInv, Numbered,
                WholeEffects, Migrated
<1>2. CASE MigrationsNext
    BY <1>2, BeginMigrationInvariant, LeaveInvariant, ApplyStatementInvariant,
       RecordMigrationInvariant, CommitMigrationInvariant DEF MigrationsNext
<1> QED
    BY <1>1, <1>2

(* Every statement of every recorded migration has run exactly once, in    *)
(* the order of the versions, and nothing else has; a starter that reports *)
(* ready has its whole package applied and no other release takes it back  *)
(* (apply_migrations of data/migrations.py, whichever releases meet).      *)
THEOREM MigrationsMatchHistory ==
    MigrationsSpec => []SchemaMatchesHistory
BY MigrationInitInvariant, MigrationStepInvariant, MigrationInvImplies, PTL DEF MigrationsSpec

-----------------------------------------------------------------------------
(***************************************************************************)
(* Artifacts: the directories published by rename, for any requests and    *)
(* any number of publishers.                                               *)
(***************************************************************************)

Kinds == {"document", "typed", "feature", "model"}
Names == {"predictions.jsonl", "opportunities.jsonl", "features.parquet", "targets.parquet",
          "folds.parquet", "model.json", "manifest.json", Sidecar}
Checksum(r) == Digest(DirectoryManifest(r.kind, r.content))
Landed == {"loading", "returned"}

(* Reading with a checksum or without gives the same content.               *)
LEMMA WeakerExpectation ==
    ASSUME NEW kind, NEW directory, NEW expected,
           VerifyDirectory(kind, directory, expected) # Nothing
    PROVE  VerifyDirectory(kind, directory, Nothing) # Nothing
BY DEF VerifyDirectory, ManifestVerified

LEMMA VerifiedFiles ==
    ASSUME NEW kind \in Kinds, NEW directory, NEW expected,
           VerifyDirectory(kind, directory, expected) # Nothing
    PROVE  MainFile(kind) \in DOMAIN directory
<1> DEFINE r == [kind |-> kind, stamped |-> FALSE]
           before == DatasetFiles(kind)
           after == <<MainFile(kind), Sidecar>>
<1>1. Files(r) = (before \o after) \o <<>>
    BY DEF Files
<1>2. before \in Seq(Names) /\ after \in Seq(Names) /\ after[1] = MainFile(kind) /\ Len(after) = 2
  <2>1. before \in Seq(Names)
    <3>1. CASE kind = "typed"
      <4>1. before = <<"predictions.jsonl", "opportunities.jsonl">>
        BY <3>1 DEF DatasetFiles
      <4>2. "predictions.jsonl" \in Names /\ "opportunities.jsonl" \in Names
        BY DEF Names
      <4> QED
        BY <4>1, <4>2
    <3>2. CASE kind = "feature"
      <4>1. before = <<"features.parquet", "targets.parquet", "folds.parquet">>
        BY <3>2 DEF DatasetFiles
      <4>2. "features.parquet" \in Names /\ "targets.parquet" \in Names /\ "folds.parquet" \in Names
        BY DEF Names
      <4> QED
        BY <4>1, <4>2
    <3>3. CASE kind \notin {"typed", "feature"}
      <4>1. before = <<>>
        BY <3>3 DEF DatasetFiles
      <4> QED
        BY <4>1
    <3> QED
      BY <3>1, <3>2, <3>3
  <2>2. MainFile(kind) \in Names /\ Sidecar \in Names
    BY DEF MainFile, Names
  <2> QED
    BY <2>1, <2>2
<1>3. PICK i : i = Len(before) + 1
    OBVIOUS
<1>4. /\ before \o after \in Seq(Names) /\ Len(before \o after) = Len(before) + 2
      /\ (before \o after)[i] = MainFile(kind) /\ i \in 1..(Len(before) + 2)
    BY <1>2, <1>3, ConcatProperties
<1> HIDE DEF before, after, r
<1>5. Files(r) = before \o after
    BY <1>1, <1>4, ConcatEmptySeq
<1>6. MainFile(kind) \in {Files(r)[j] : j \in DOMAIN Files(r)}
  <2>1. i \in DOMAIN Files(r) /\ Files(r)[i] = MainFile(kind)
    BY <1>4, <1>5
  <2> QED
    BY <2>1
<1>7. ExactFiles(kind, directory)
    BY DEF VerifyDirectory
<1>8. {Files(r)[j] : j \in DOMAIN Files(r)} \subseteq DOMAIN directory
    BY <1>7 DEF ExactFiles, r
<1> QED
    BY <1>6, <1>8

(* Whatever the directory holds, what loads with the checksum of a request   *)
(* is the content of the request: the manifest is the one the digest is of,  *)
(* and the datasets are those its digests are of.                            *)
LEMMA LoadedIsContent ==
    ASSUME NEW r \in Requests, NEW directory
    PROVE  VerifyDirectory(r.kind, directory, Checksum(r)) \in {Nothing, r.content}
<1> SUFFICES ASSUME VerifyDirectory(r.kind, directory, Checksum(r)) # Nothing
             PROVE  VerifyDirectory(r.kind, directory, Checksum(r)) = r.content
    OBVIOUS
<1>1. PICK manifest : manifest = directory[MainFile(r.kind)]
    OBVIOUS
<1>2. /\ ManifestVerified(r.kind, directory, Checksum(r))
      /\ DatasetsMatch(directory, manifest)
      /\ VerifyDirectory(r.kind, directory, Checksum(r)) =
            IF r.kind \in {"typed", "feature"} THEN directory[DatasetFiles(r.kind)[1]]
            ELSE manifest.payload
    BY <1>1 DEF VerifyDirectory
<1>3. Checksum(r) = Digest(manifest)
    BY <1>1, <1>2, DigestAssumption DEF ManifestVerified, Checksum
<1>4. manifest = DirectoryManifest(r.kind, r.content)
    BY <1>3 DEF Checksum, Digest
<1>5. CASE r.kind \in {"typed", "feature"}
  <2>1. PICK names : names = DatasetFiles(r.kind)
    OBVIOUS
  <2>2. 1 \in DOMAIN names
    BY <1>5, <2>1 DEF DatasetFiles
  <2>3. manifest.digests = [f \in {names[i] : i \in DOMAIN names} |-> Digest(r.content)]
    BY <1>4, <2>1 DEF DirectoryManifest
  <2>4. names[1] \in DOMAIN manifest.digests /\ manifest.digests[names[1]] = Digest(r.content)
    BY <2>2, <2>3
  <2>5. Digest(directory[names[1]]) = Digest(r.content)
    BY <1>2, <2>4 DEF DatasetsMatch
  <2> QED
    BY <1>2, <1>5, <2>1, <2>5 DEF Digest
<1>6. CASE r.kind \notin {"typed", "feature"}
  <2>1. manifest.payload = r.content
    BY <1>4 DEF DirectoryManifest
  <2> QED
    BY <1>2, <1>6, <2>1
<1> QED
    BY <1>5, <1>6

-----------------------------------------------------------------------------
(* A publisher: what it holds, and what it has put at its path.              *)
PublisherInv(p) ==
    /\ publisher[p] = [pc |-> publisher[p].pc, request |-> Request(p),
                       checksum |-> publisher[p].checksum]
    /\ Request(p) \in Requests
    /\ publisher[p].pc \in {"idle", "failed"} \cup Landed => temporary[p] = Nothing
    /\ publisher[p].pc \in {"writing", "verifying"} =>
          (MainFile(Request(p).kind) \in DOMAIN temporary[p]
              => publisher[p].checksum = Checksum(Request(p)))
    /\ publisher[p].pc \in {"renaming"} \cup Landed =>
          publisher[p].checksum = Checksum(Request(p))
    /\ publisher[p].pc = "renaming" =>
          VerifyDirectory(Request(p).kind, temporary[p], publisher[p].checksum) # Nothing
    /\ publisher[p].pc \in Landed /\ damages[Request(p).path] = 0 =>
          published[Request(p).path] # Nothing

OneLanded ==
    \A p, q \in Publishers :
        (/\ publisher[p].pc \in Landed /\ publisher[q].pc \in Landed
         /\ Request(p).path = Request(q).path /\ damages[Request(p).path] = 0) => p = q

PublishingTypes ==
    /\ temporary = [p \in Publishers |-> temporary[p]]
    /\ publisher = [p \in Publishers |-> publisher[p]]
    /\ published = [path \in Paths |-> published[path]]
    /\ damages \in [Paths -> Nat]

PublishingInv ==
    /\ PublishingTypes
    /\ \A p \in Publishers : PublisherInv(p)
    /\ OneLanded
    /\ VisibleIsWhole

LEMMA PublishingStarts == PublishingInit => PublishingInv
<1> SUFFICES ASSUME PublishingInit PROVE PublishingInv
    OBVIOUS
<1>1. PublishingTypes
    BY DEF PublishingInit, PublishingTypes
<1>2. ASSUME NEW p \in Publishers
      PROVE  publisher[p].pc = "idle" /\ PublisherInv(p)
  <2>1. PICK r \in Requests : publisher[p] = [pc |-> "idle", request |-> r, checksum |-> Nothing]
    BY DEF PublishingInit
  <2>2. /\ publisher[p].pc = "idle" /\ Request(p) = r /\ publisher[p].checksum = Nothing
        /\ temporary[p] = Nothing
    BY <2>1 DEF PublishingInit, Request
  <2> QED
    BY <2>1, <2>2 DEF PublisherInv, Landed
<1>3. OneLanded /\ VisibleIsWhole
    BY <1>2 DEF OneLanded, VisibleIsWhole, PublishingInit, Landed
<1> QED
    BY <1>1, <1>2, <1>3 DEF PublishingInv

(* A step of one publisher that leaves the published directories alone.      *)
LEMMA QuietStep ==
    ASSUME PublishingInv, NEW p \in Publishers, UNCHANGED <<published, damages>>,
           NEW new, publisher' = [publisher EXCEPT ![p] = new],
           NEW held, temporary' = [temporary EXCEPT ![p] = held],
           new = [pc |-> new.pc, request |-> new.request, checksum |-> new.checksum],
           new.request = Request(p),
           new.pc \in {"idle", "failed"} \cup Landed => held = Nothing,
           new.pc \in {"writing", "verifying"} =>
              (MainFile(Request(p).kind) \in DOMAIN held => new.checksum = Checksum(Request(p))),
           new.pc \in {"renaming"} \cup Landed => new.checksum = Checksum(Request(p)),
           new.pc = "renaming" => VerifyDirectory(Request(p).kind, held, new.checksum) # Nothing,
           new.pc \in Landed => publisher[p].pc \in Landed
    PROVE  PublishingInv'
<1>1. PublishingTypes'
    BY DEF PublishingInv, PublishingTypes
<1>2. /\ publisher'[p] = new /\ temporary'[p] = held
      /\ \A q \in Publishers \ {p} : publisher'[q] = publisher[q] /\ temporary'[q] = temporary[q]
    BY DEF PublishingInv, PublishingTypes
<1>3. PublisherInv(p)'
    <2>1. PICK r \in Requests : r = Request(p) /\ r = Request(p)'
        BY <1>2 DEF PublishingInv, PublisherInv, Request
    <2>2. new.pc \in Landed /\ damages[r.path] = 0 => published[r.path] # Nothing
        BY <2>1 DEF PublishingInv, PublisherInv
    <2>3. publisher'[p] = new /\ temporary'[p] = held
        BY <1>2
    <2> QED
        BY <2>1, <2>2, <2>3 DEF PublisherInv
<1>4. ASSUME NEW q \in Publishers \ {p} PROVE PublisherInv(q)'
    BY <1>2 DEF PublishingInv, PublisherInv, Request
<1>5. \A q \in Publishers : /\ Request(q)' = Request(q)
                            /\ publisher'[q].pc \in Landed => publisher[q].pc \in Landed
    BY <1>2 DEF Request
<1>6. OneLanded'
    BY <1>5 DEF PublishingInv, OneLanded
<1>7. VisibleIsWhole'
    BY DEF PublishingInv, VisibleIsWhole
<1> QED
    BY <1>1, <1>3, <1>4, <1>6, <1>7 DEF PublishingInv

LEMMA PublisherSteps ==
    ASSUME PublishingInv, NEW p \in Publishers,
           \/ StartPublishing(p) \/ WriteFails(p) \/ VerifyTemporary(p)
           \/ LoadPublished(p) \/ PublisherCrash(p)
    PROVE  PublishingInv'
<1>1. PICK old : old = publisher[p]
    OBVIOUS
<1>2. /\ old = [pc |-> old.pc, request |-> Request(p), checksum |-> old.checksum]
      /\ temporary = [q \in Publishers |-> temporary[q]]
      /\ old.pc \in {"idle", "failed"} \cup Landed => temporary[p] = Nothing
    BY <1>1 DEF PublishingInv, PublishingTypes, PublisherInv
<1>3. ASSUME NEW stage, Proceed(p, stage)
      PROVE  \E new : /\ publisher' = [publisher EXCEPT ![p] = new]
                      /\ new = [pc |-> stage, request |-> Request(p), checksum |-> old.checksum]
  <2>1. PICK new : new = [old EXCEPT !.pc = stage]
    OBVIOUS
  <2>2. new = [pc |-> stage, request |-> Request(p), checksum |-> old.checksum]
    BY <1>2, <2>1
  <2>3. publisher' = [publisher EXCEPT ![p] = new]
    BY <1>1, <1>3, <2>1 DEF Proceed, PublishingInv, PublishingTypes
  <2> QED
    BY <2>2, <2>3
<1>4. temporary = [temporary EXCEPT ![p] = temporary[p]]
    BY <1>2
<1>5. ASSUME Abandon(p) PROVE PublishingInv'
  <2>1. PICK new : /\ publisher' = [publisher EXCEPT ![p] = new]
                   /\ new = [pc |-> "failed", request |-> Request(p), checksum |-> old.checksum]
    BY <1>3, <1>5 DEF Abandon
  <2>2. /\ temporary' = [temporary EXCEPT ![p] = Nothing]
        /\ UNCHANGED <<published, damages>>
    BY <1>5 DEF Abandon
  <2>3. /\ new = [pc |-> new.pc, request |-> new.request, checksum |-> new.checksum]
        /\ new.request = Request(p) /\ new.pc = "failed"
    BY <2>1
  <2> QED
    BY <2>1, <2>2, <2>3, QuietStep DEF Landed
<1>6. CASE StartPublishing(p)
  <2>1. At(p, "idle") /\ UNCHANGED <<published, damages>> /\ temporary[p] = Nothing
    BY <1>1, <1>2, <1>6 DEF StartPublishing, At
  <2>2. CASE Occupied(Request(p))
    <3>1. PICK new : /\ publisher' = [publisher EXCEPT ![p] = new]
                     /\ new = [pc |-> "failed", request |-> Request(p), checksum |-> old.checksum]
      BY <1>3, <1>6, <2>2 DEF StartPublishing
    <3>2. temporary' = [temporary EXCEPT ![p] = Nothing]
      BY <1>4, <1>6, <2>1, <2>2 DEF StartPublishing
    <3>3. /\ new = [pc |-> new.pc, request |-> new.request, checksum |-> new.checksum]
          /\ new.request = Request(p) /\ new.pc = "failed"
      BY <3>1
    <3> QED
      BY <2>1, <3>1, <3>2, <3>3, QuietStep DEF Landed
  <2>3. CASE ~Occupied(Request(p))
    <3>1. PICK new : /\ publisher' = [publisher EXCEPT ![p] = new]
                     /\ new = [pc |-> "writing", request |-> Request(p), checksum |-> old.checksum]
      BY <1>3, <1>6, <2>3 DEF StartPublishing
    <3>2. temporary' = [temporary EXCEPT ![p] = Empty]
      BY <1>6, <2>3 DEF StartPublishing
    <3>3. /\ new = [pc |-> new.pc, request |-> new.request, checksum |-> new.checksum]
          /\ new.request = Request(p) /\ new.pc = "writing"
      BY <3>1
    <3>4. DOMAIN Empty = {}
      BY DEF Empty
    <3> QED
      BY <2>1, <3>1, <3>2, <3>3, <3>4, QuietStep DEF Landed
  <2> QED
    BY <2>2, <2>3
<1>7. CASE WriteFails(p)
    BY <1>5, <1>7 DEF WriteFails
<1>8. CASE VerifyTemporary(p)
  <2>1. CASE VerifyDirectory(Request(p).kind, temporary[p], publisher[p].checksum) = Nothing
    BY <1>5, <1>8, <2>1 DEF VerifyTemporary
  <2>2. CASE VerifyDirectory(Request(p).kind, temporary[p], publisher[p].checksum) # Nothing
    <3>1. PICK new : /\ publisher' = [publisher EXCEPT ![p] = new]
                     /\ new = [pc |-> "renaming", request |-> Request(p), checksum |-> old.checksum]
      BY <1>3, <1>8, <2>2 DEF VerifyTemporary
    <3>2. PICK held : held = temporary[p]
      OBVIOUS
    <3>3. temporary' = [temporary EXCEPT ![p] = held] /\ UNCHANGED <<published, damages>>
      BY <1>4, <1>8, <2>2, <3>2 DEF VerifyTemporary
    <3>4. Request(p).kind \in Kinds
      BY PublishingAssumption DEF PublishingInv, PublisherInv, Kinds
    <3>5. MainFile(Request(p).kind) \in DOMAIN temporary[p]
      BY <2>2, <3>4, VerifiedFiles
    <3>6. old.checksum = Checksum(Request(p))
      BY <1>1, <1>8, <3>5 DEF VerifyTemporary, At, PublishingInv, PublisherInv
    <3>7. /\ new = [pc |-> new.pc, request |-> new.request, checksum |-> new.checksum]
          /\ new.request = Request(p) /\ new.pc = "renaming" /\ new.checksum = old.checksum
      BY <3>1
    <3> QED
      BY <1>1, <2>2, <3>1, <3>2, <3>3, <3>6, <3>7, QuietStep DEF Landed
  <2> QED
    BY <2>1, <2>2
<1>9. CASE LoadPublished(p)
  <2>1. PICK stage : stage \in {"failed", "returned"} /\ Proceed(p, stage)
    BY <1>9 DEF LoadPublished
  <2>2. PICK new : /\ publisher' = [publisher EXCEPT ![p] = new]
                   /\ new = [pc |-> stage, request |-> Request(p), checksum |-> old.checksum]
    BY <1>3, <2>1
  <2>3. /\ temporary' = [temporary EXCEPT ![p] = Nothing] /\ UNCHANGED <<published, damages>>
        /\ publisher[p].pc = "loading"
    BY <1>1, <1>2, <1>4, <1>9 DEF LoadPublished, At, Landed
  <2>4. old.checksum = Checksum(Request(p))
    BY <1>1, <2>3 DEF PublishingInv, PublisherInv, Landed
  <2>5. /\ new = [pc |-> new.pc, request |-> new.request, checksum |-> new.checksum]
        /\ new.request = Request(p) /\ new.pc = stage /\ new.checksum = old.checksum
    BY <2>2
  <2> QED
    BY <2>1, <2>2, <2>3, <2>4, <2>5, QuietStep DEF Landed
<1>10. CASE PublisherCrash(p)
  <2>1. PICK new : /\ publisher' = [publisher EXCEPT ![p] = new]
                   /\ new = [pc |-> "crashed", request |-> Request(p), checksum |-> old.checksum]
    BY <1>3, <1>10 DEF PublisherCrash
  <2>2. PICK held : held = temporary[p]
    OBVIOUS
  <2>3. temporary' = [temporary EXCEPT ![p] = held] /\ UNCHANGED <<published, damages>>
    BY <1>4, <1>10, <2>2 DEF PublisherCrash
  <2>4. /\ new = [pc |-> new.pc, request |-> new.request, checksum |-> new.checksum]
        /\ new.request = Request(p) /\ new.pc = "crashed"
    BY <2>1
  <2> QED
    BY <2>1, <2>3, <2>4, QuietStep DEF Landed
<1> QED
    BY <1>6, <1>7, <1>8, <1>9, <1>10

LEMMA WriteFileStep ==
    ASSUME PublishingInv, NEW p \in Publishers, WriteFile(p)
    PROVE  PublishingInv'
<1>1. PICK file : file = NextFile(p)
    OBVIOUS
<1>2. PICK held : held = [f \in DOMAIN temporary[p] \cup {file} |->
                             IF f = file THEN Bytes(Request(p), file) ELSE temporary[p][f]]
    OBVIOUS
<1>3. PICK stage \in {"verifying", "writing"} :
         stage = IF Cardinality(DOMAIN held) = Len(Files(Request(p))) THEN "verifying" ELSE "writing"
    OBVIOUS
<1>4. PICK new : new = [pc |-> stage, request |-> Request(p),
                        checksum |-> IF file = MainFile(Request(p).kind) THEN Digest(held[file])
                                     ELSE publisher[p].checksum]
    OBVIOUS
<1>5. /\ publisher' = [publisher EXCEPT ![p] = new] /\ temporary' = [temporary EXCEPT ![p] = held]
      /\ UNCHANGED <<published, damages>> /\ publisher[p].pc = "writing"
    BY <1>1, <1>2, <1>3, <1>4 DEF WriteFile, At
<1>6. /\ new = [pc |-> new.pc, request |-> new.request, checksum |-> new.checksum]
      /\ new.request = Request(p) /\ new.pc \in {"verifying", "writing"}
    BY <1>3, <1>4
<1>7. ASSUME MainFile(Request(p).kind) \in DOMAIN held
      PROVE  new.checksum = Checksum(Request(p))
  <2>1. CASE file = MainFile(Request(p).kind)
    <3>1. held[file] = Bytes(Request(p), file)
      BY <1>2
    <3>2. Bytes(Request(p), file) = DirectoryManifest(Request(p).kind, Request(p).content)
      <4>1. MainFile(Request(p).kind) # Sidecar
        BY DEF MainFile, Sidecar
      <4> QED
        BY <2>1, <4>1 DEF Bytes
    <3> QED
      BY <1>4, <2>1, <3>1, <3>2 DEF Checksum
  <2>2. CASE file # MainFile(Request(p).kind)
    <3>1. MainFile(Request(p).kind) \in DOMAIN temporary[p]
      BY <1>2, <1>7, <2>2
    <3>2. publisher[p].checksum = Checksum(Request(p))
      BY <1>5, <3>1 DEF PublishingInv, PublisherInv
    <3> QED
      BY <1>4, <2>2, <3>2
  <2> QED
    BY <2>1, <2>2
<1> QED
    BY <1>5, <1>6, <1>7, QuietStep DEF Landed

(* Of two publishers of a path the second finds the first one's directory:   *)
(* it is whole, hence neither missing nor empty.                             *)
LEMMA RenameArtifactStep ==
    ASSUME PublishingInv, NEW p \in Publishers, RenameArtifact(p)
    PROVE  PublishingInv'
<1>1. /\ publisher[p].pc = "renaming" /\ Request(p) \in Requests
      /\ VerifyDirectory(Request(p).kind, temporary[p], publisher[p].checksum) # Nothing
      /\ publisher[p].checksum = Checksum(Request(p))
    BY DEF RenameArtifact, At, PublishingInv, PublisherInv
<1>2. CASE published[Request(p).path] \notin {Nothing, Empty}
  <2>1. WriteFails(p) \/ Abandon(p)
    BY <1>2 DEF RenameArtifact
  <2>2. PICK new : new = [pc |-> "failed", request |-> Request(p), checksum |-> publisher[p].checksum]
    OBVIOUS
  <2>3. /\ publisher' = [publisher EXCEPT ![p] = new] /\ temporary' = [temporary EXCEPT ![p] = Nothing]
        /\ UNCHANGED <<published, damages>>
    BY <2>1, <2>2 DEF WriteFails, Abandon, Proceed, PublishingInv, PublishingTypes, PublisherInv
  <2>4. /\ new = [pc |-> new.pc, request |-> new.request, checksum |-> new.checksum]
        /\ new.request = Request(p) /\ new.pc = "failed"
    BY <2>2
  <2> QED
    BY <2>3, <2>4, QuietStep DEF Landed
<1>3. CASE published[Request(p).path] \in {Nothing, Empty}
  <2>1. PICK path \in Paths : path = Request(p).path
    BY <1>1 DEF Paths
  <2>2. PICK stage \in Landed :
           stage = IF Request(p).kind \in {"document", "typed"} THEN "loading" ELSE "returned"
    BY DEF Landed
  <2>3. PICK new : new = [pc |-> stage, request |-> Request(p), checksum |-> publisher[p].checksum]
    OBVIOUS
  <2>4. PICK held : held = temporary[p]
    OBVIOUS
  <2>5. /\ published' = [published EXCEPT ![path] = held] /\ temporary' = [temporary EXCEPT ![p] = Nothing]
        /\ UNCHANGED damages
        /\ publisher' = [publisher EXCEPT ![p] = new]
    BY <1>3, <2>1, <2>2, <2>3, <2>4
      DEF RenameArtifact, Proceed, PublishingInv, PublishingTypes, PublisherInv
  <2>6. /\ publisher'[p] = new /\ temporary'[p] = Nothing /\ published'[path] = held
        /\ \A q \in Publishers \ {p} : publisher'[q] = publisher[q] /\ temporary'[q] = temporary[q]
        /\ \A other \in Paths \ {path} : published'[other] = published[other]
    BY <2>5 DEF PublishingInv, PublishingTypes
  <2>7. PublishingTypes'
    BY <2>5 DEF PublishingInv, PublishingTypes
  <2>8. held # Nothing /\ VerifyDirectory(Request(p).kind, held, Nothing) # Nothing
    <3>1. held # Nothing
      BY <1>1, <2>4 DEF VerifyDirectory
    <3> QED
      BY <1>1, <2>4, <3>1, WeakerExpectation
  <2>9. KindAt(path) = Request(p).kind
    BY <1>1, <2>1, PublishingAssumption DEF KindAt
  <2>10. VisibleIsWhole'
    <3> SUFFICES ASSUME NEW other \in Paths, published'[other] # Nothing, damages'[other] = 0
                 PROVE  VerifyDirectory(KindAt(other), published'[other], Nothing) # Nothing
      BY DEF VisibleIsWhole
    <3>1. CASE other = path
      BY <2>6, <2>8, <2>9, <3>1
    <3>2. CASE other # path
      BY <2>5, <2>6, <3>2 DEF PublishingInv, VisibleIsWhole
    <3> QED
      BY <3>1, <3>2
  <2>11. ASSUME NEW q \in Publishers, publisher[q].pc \in Landed, Request(q).path = path,
                damages[path] = 0
         PROVE  FALSE
    <3>1. published[path] # Nothing
      BY <2>11 DEF PublishingInv, PublisherInv
    <3>2. VerifyDirectory(KindAt(path), published[path], Nothing) # Nothing
      BY <2>11, <3>1 DEF PublishingInv, VisibleIsWhole
    <3>3. KindAt(path) \in Kinds
      BY <1>1, <2>9, PublishingAssumption DEF Kinds
    <3>4. DOMAIN published[path] # {}
      BY <3>2, <3>3, VerifiedFiles
    <3> QED
      BY <1>3, <2>1, <3>1, <3>4 DEF Empty
  <2>12. \A q \in Publishers : Request(q)' = Request(q)
    BY <2>3, <2>6 DEF Request
  <2>13. PublisherInv(p)'
    <3>1. /\ new = [pc |-> new.pc, request |-> new.request, checksum |-> new.checksum]
          /\ new.request = Request(p) /\ new.pc \in Landed /\ new.checksum = Checksum(Request(p))
      BY <1>1, <2>2, <2>3
    <3> QED
      BY <1>1, <2>1, <2>6, <2>8, <3>1 DEF PublisherInv, Request, Landed
  <2>14. ASSUME NEW q \in Publishers \ {p} PROVE PublisherInv(q)'
    <3>1. PublisherInv(q) /\ Request(q)' = Request(q) /\ Request(q) \in Requests
      BY <2>12 DEF PublishingInv, PublisherInv
    <3>2. Request(q).path \in Paths
      BY <3>1 DEF Paths
    <3>3. publisher'[q].pc \in Landed /\ damages'[Request(q).path] = 0 =>
              published'[Request(q).path] # Nothing
      BY <2>5, <2>6, <2>8, <3>1, <3>2 DEF PublisherInv
    <3> QED
      BY <2>5, <2>6, <3>1, <3>3 DEF PublisherInv
  <2>15. OneLanded'
    <3> SUFFICES ASSUME NEW q \in Publishers, NEW r \in Publishers,
                        publisher'[q].pc \in Landed, publisher'[r].pc \in Landed,
                        Request(q).path = Request(r).path, damages[Request(q).path] = 0
                 PROVE  q = r
      BY <2>5, <2>12 DEF OneLanded
    <3>1. CASE q # p /\ r # p
      BY <2>6, <3>1 DEF PublishingInv, OneLanded
    <3>2. CASE q = p /\ r # p
      BY <2>1, <2>6, <2>11, <3>2
    <3>3. CASE q # p /\ r = p
      BY <2>1, <2>6, <2>11, <3>3
    <3> QED
      BY <3>1, <3>2, <3>3
  <2> QED
    BY <2>7, <2>10, <2>13, <2>14, <2>15 DEF PublishingInv
<1> QED
    BY <1>2, <1>3

LEMMA DamageStep ==
    ASSUME PublishingInv, NEW path \in Paths, DamagePublished(path)
    PROVE  PublishingInv'
<1>1. /\ damages' = [damages EXCEPT ![path] = damages[path] + 1]
      /\ UNCHANGED <<temporary, publisher>>
      /\ \E directory : published' = [published EXCEPT ![path] = directory]
    BY DEF DamagePublished
<1>2. /\ damages' \in [Paths -> Nat] /\ damages'[path] # 0
      /\ \A other \in Paths \ {path} : /\ damages'[other] = damages[other]
                                       /\ published'[other] = published[other]
    BY <1>1 DEF PublishingInv, PublishingTypes
<1>3. PublishingTypes'
    BY <1>1, <1>2 DEF PublishingInv, PublishingTypes
<1>4. VisibleIsWhole'
    BY <1>2 DEF PublishingInv, VisibleIsWhole
<1>5. ASSUME NEW p \in Publishers
      PROVE  /\ Request(p)' = Request(p) /\ Request(p).path \in Paths
             /\ damages'[Request(p).path] = 0 =>
                   /\ damages[Request(p).path] = 0
                   /\ published'[Request(p).path] = published[Request(p).path]
    BY <1>1, <1>2 DEF PublishingInv, PublisherInv, Request, Paths
<1>6. ASSUME NEW p \in Publishers PROVE PublisherInv(p)'
    BY <1>1, <1>5 DEF PublishingInv, PublisherInv
<1>7. OneLanded'
    BY <1>1, <1>5 DEF PublishingInv, OneLanded
<1> QED
    BY <1>3, <1>4, <1>6, <1>7 DEF PublishingInv

LEMMA PublishingStep == PublishingInv /\ [PublishingNext]_publishingVars => PublishingInv'
<1> SUFFICES ASSUME PublishingInv, [PublishingNext]_publishingVars PROVE PublishingInv'
    OBVIOUS
<1>1. CASE UNCHANGED publishingVars
    BY <1>1 DEF publishingVars, PublishingInv, PublishingTypes, PublisherInv, OneLanded,
        VisibleIsWhole, Request
<1> QED
    BY <1>1, PublisherSteps, WriteFileStep, RenameArtifactStep, DamageStep DEF PublishingNext

(* An artifact is seen whole from its first moment, it loads as what its     *)
(* publisher wrote or not at all, whatever happens to its files, and of the  *)
(* publishers that race for a path one gets it (write_typed_analytical_      *)
(* artifact, build_feature_artifact, write_model_artifact and the loaders).  *)
THEOREM ArtifactsStayIntact == PublishingSpec => []ArtifactsIntact
<1>1. ASSUME PublishingInv PROVE ArtifactsIntact
  <2>1. LoadedAsPublished
    BY <1>1, LoadedIsContent DEF PublishingInv, PublisherInv, LoadedAsPublished, At, Landed
  <2>2. OnePublisherPerPath
    BY <1>1 DEF PublishingInv, PublisherInv, OneLanded, OnePublisherPerPath, At, Landed
  <2> QED
    BY <1>1, <2>1, <2>2 DEF PublishingInv, ArtifactsIntact
<1> QED
    BY <1>1, PublishingStarts, PublishingStep, PTL DEF PublishingSpec
=============================================================================
