------------------------------ MODULE JobQueue ------------------------------
(***************************************************************************)
(* The durable job queue: the tables jobs, job_events and worker_instances *)
(* of the operational SQLite database and the repository operations on     *)
(* them (data/repositories/jobs.py, job_queue.py, workers.py, called       *)
(* through jobs/service.py).                                               *)
(*                                                                         *)
(* Every operation runs in one BEGIN IMMEDIATE transaction, so it is one   *)
(* atomic action here; a rejected operation rolls back and changes nothing *)
(* (a guard that is false).  What is not atomic is the caller: it samples  *)
(* its clock before it waits for the write lock, and it keeps the JobClaim *)
(* it was given for as long as it likes.  Operations therefore take a      *)
(* timestamp "at" that may lag the clock by up to MaxLag, and "claims"     *)
(* remembers every claim ever handed out: a paused process may present any *)
(* of them at any later time.                                              *)
(*                                                                         *)
(* The row version of worker_instances is left out: it is always read and  *)
(* compared inside the same serialised transaction.                        *)
(***************************************************************************)
EXTENDS Naturals, FiniteSets, Sequences

CONSTANTS
    Jobs,           \* job ids; "id ASC" is their order as numbers
    Workers,        \* worker UUIDs; never reused
    Keys,           \* idempotency keys
    NULL,           \* SQL NULL
    Priority,       \* priority of each job: lower is served first
    MaximumAttempts,\* maximum_attempts of each job
    LeaseDuration,  \* worker.stale_job_timeout_seconds: lease and staleness
    BackoffBase,    \* worker.retry_backoff_base_seconds
    BackoffMax,     \* worker.retry_backoff_max_seconds
    RecoveryBatch,  \* worker.recovery_batch_size
    Delays,         \* how far in the future create_job's available_at may be
    MaxLag,         \* bound: how old a sampled timestamp may be when used
    MaxTime         \* bound: last value of the clock

ASSUME JobsAssumption == Jobs \subseteq Nat
ASSUME NullAssumption == NULL \notin Jobs \cup Workers \cup Keys \cup Nat
ASSUME AttemptsAssumption == MaximumAttempts \in [Jobs -> Nat \ {0}]
ASSUME PriorityAssumption == Priority \in [Jobs -> Nat]
ASSUME TimingAssumption ==
    /\ LeaseDuration \in Nat \ {0}
    /\ BackoffBase \in Nat \ {0}
    /\ BackoffMax \in Nat
    /\ BackoffMax >= BackoffBase
ASSUME BoundsAssumption ==
    /\ RecoveryBatch \in Nat \ {0}
    /\ Delays \subseteq Nat
    /\ MaxLag \in Nat
    /\ MaxTime \in Nat

VARIABLES
    jobs,       \* table jobs
    events,     \* table job_events, one sequence per job
    workers,    \* table worker_instances
    claims,     \* every JobClaim handed out so far (held by callers)
    now         \* the wall clock

vars == <<jobs, events, workers, claims, now>>

-----------------------------------------------------------------------------
(* Rows *)

JobStatus == {"absent", "pending", "running", "succeeded", "failed", "cancelled"}
WorkerStatus == {"absent", "starting", "running", "stopping", "stopped", "failed"}
TerminalWorker == {"stopped", "failed"}

JobRow == [status : JobStatus, attempts : Nat, version : Nat,
           available_at : Nat, created_at : Nat,
           lease_owner : Workers \cup {NULL},
           lease_expires_at : Nat \cup {NULL},
           key : Keys \cup {NULL}]

WorkerRow == [status : WorkerStatus, heartbeat_at : Nat,
              current_job : Jobs \cup {NULL}]

(* JobClaim: what claim_next_job returns and its caller keeps. *)
JobClaim == [job : Jobs, worker : Workers, version : Nat, attempt : Nat]

EventType == {"created", "claimed", "succeeded", "retry_scheduled", "failed",
              "lease_expired_requeued", "lease_expired_failed", "cancelled",
              "retry_requested"}

(* A job_events row.  "worker" is the worker (or previous lease owner) that *)
(* details_json names; "claim" is the job version at which the claim this   *)
(* transition was made under was taken (0 for an administrative one).       *)
JobEvent == [type : EventType, from : JobStatus, to : JobStatus, version : Nat,
             worker : Workers \cup {NULL}, claim : Nat]

AbsentJob == [status |-> "absent", attempts |-> 0, version |-> 0,
              available_at |-> 0, created_at |-> 0, lease_owner |-> NULL,
              lease_expires_at |-> NULL, key |-> NULL]

AbsentWorker == [status |-> "absent", heartbeat_at |-> 0, current_job |-> NULL]

-----------------------------------------------------------------------------
(* Helpers *)

(* A timestamp a caller may present now: sampled at most MaxLag ago. *)
Sampled(at) == at <= now /\ now <= at + MaxLag

(* compute_retry_delay_seconds: base * 2^(attempts-1), capped. *)
RetryDelay(attempts) ==
    LET delay == BackoffBase * 2^(attempts - 1)
    IN  IF delay \in 0..BackoffMax THEN delay ELSE BackoffMax

(* ORDER BY priority, available_at, created_at, id. *)
ClaimsBefore(j, k) ==
    LET a == jobs[j]  b == jobs[k]
    IN  \/ Priority[j] < Priority[k]
        \/ /\ Priority[j] = Priority[k]
           /\ \/ a.available_at < b.available_at
              \/ /\ a.available_at = b.available_at
                 /\ \/ a.created_at < b.created_at
                    \/ a.created_at = b.created_at /\ j < k

Claimable(at) ==
    {j \in Jobs : /\ jobs[j].status = "pending"
                  /\ jobs[j].available_at <= at
                  /\ jobs[j].attempts < MaximumAttempts[j]
                  /\ jobs[j].lease_owner = NULL
                  /\ jobs[j].lease_expires_at = NULL}

(* ORDER BY lease_expires_at, updated_at, id.  A running row's updated_at is *)
(* lease_expires_at - LeaseDuration, so it never breaks a tie.               *)
ExpiresBefore(j, k) ==
    \/ jobs[j].lease_expires_at < jobs[k].lease_expires_at
    \/ jobs[j].lease_expires_at = jobs[k].lease_expires_at /\ j < k

(* Faulty variant of Expired: recovers every lease, expired or not. *)
ExpiredIgnoringDeadline(at) ==
    {j \in Jobs : /\ jobs[j].status = "running"
                  /\ jobs[j].lease_owner # NULL
                  /\ jobs[j].lease_expires_at # NULL}

Expired(at) ==
    {j \in Jobs : /\ jobs[j].status = "running"
                  /\ jobs[j].lease_owner # NULL
                  /\ jobs[j].lease_expires_at # NULL
                  /\ jobs[j].lease_expires_at <= at}

RecoveryRows(at) ==
    {j \in Expired(at) :
        Cardinality({k \in Expired(at) : ExpiresBefore(k, j)}) < RecoveryBatch}

(* Faulty variant of RequireActiveLease: the job version is not compared. *)
RequireActiveLeaseAnyVersion(c, at) ==
    LET job == jobs[c.job]  worker == workers[c.worker]
    IN  /\ job.status = "running"
        /\ job.lease_owner = c.worker
        /\ job.lease_expires_at # NULL /\ job.lease_expires_at > at
        /\ worker.status \in {"running", "stopping"}
        /\ worker.current_job = c.job

(* _require_active_lease: the fence every renewal and finalization passes. *)
RequireActiveLease(c, at) ==
    LET job == jobs[c.job]  worker == workers[c.worker]
    IN  /\ job.status = "running"
        /\ job.lease_owner = c.worker
        /\ job.lease_expires_at # NULL /\ job.lease_expires_at > at
        /\ job.version = c.version
        /\ worker.status \in {"running", "stopping"}
        /\ worker.current_job = c.job

(* INSERT INTO job_events with the new job version. *)
Event(j, type, to, worker, claim) ==
    [type |-> type, from |-> jobs[j].status, to |-> to,
     version |-> jobs[j].version + 1, worker |-> worker, claim |-> claim]

LogEvent(j, type, to, worker, claim) ==
    events' = [events EXCEPT ![j] = Append(@, Event(j, type, to, worker, claim))]

Claimed(row, w, at) ==
    [row EXCEPT !.status = "running", !.version = row.version + 1,
                !.attempts = row.attempts + 1,
                !.lease_owner = w, !.lease_expires_at = at + LeaseDuration]

(* Faulty variant of Released: the version is not bumped. *)
ReleasedSameVersion(row, status, version) ==
    [row EXCEPT !.status = status, !.lease_owner = NULL, !.lease_expires_at = NULL]

Released(row, status, version) ==
    [row EXCEPT !.status = status, !.version = version,
                !.lease_owner = NULL, !.lease_expires_at = NULL]

Requeued(row, at) ==
    [Released(row, "pending", row.version + 1)
        EXCEPT !.available_at = at + RetryDelay(row.attempts)]

-----------------------------------------------------------------------------
(* Job operations *)

Init ==
    /\ jobs = [j \in Jobs |-> AbsentJob]
    /\ events = [j \in Jobs |-> <<>>]
    /\ workers = [w \in Workers |-> AbsentWorker]
    /\ claims = {}
    /\ now = 0

(* create_job: with an idempotency key that exists the stored job is       *)
(* returned (or a conflict raised) and nothing is inserted.                *)
CreateJob(j, key, available, at) ==
    /\ jobs[j].status = "absent"
    /\ key # NULL => \A k \in Jobs : jobs[k].key # key
    /\ jobs' = [jobs EXCEPT ![j] =
                  [status |-> "pending", attempts |-> 0, version |-> 1,
                   available_at |-> available, created_at |-> at,
                   lease_owner |-> NULL, lease_expires_at |-> NULL, key |-> key]]
    /\ LogEvent(j, "created", "pending", NULL, 0)
    /\ UNCHANGED <<workers, claims, now>>

(* Faulty variant of ClaimNextJob: a worker that has a job takes another.   *)
ClaimWhileBusy(w, at) ==
    /\ workers[w].status = "running"
    /\ \E j \in Claimable(at) :
        /\ \A k \in Claimable(at) \ {j} : ClaimsBefore(j, k)
        /\ jobs' = [jobs EXCEPT ![j] = Claimed(@, w, at)]
        /\ LogEvent(j, "claimed", "running", w, jobs[j].version + 1)
        /\ workers' = [workers EXCEPT ![w] =
                         [@ EXCEPT !.current_job = j, !.heartbeat_at = at]]
        /\ claims' = claims \cup {[job |-> j, worker |-> w,
                                   version |-> jobs[j].version + 1,
                                   attempt |-> jobs[j].attempts + 1]}
    /\ UNCHANGED now

(* claim_next_job: the first claimable row goes to a running, free worker. *)
ClaimNextJob(w, at) ==
    /\ workers[w].status = "running"
    /\ workers[w].current_job = NULL
    /\ \E j \in Claimable(at) :
        /\ \A k \in Claimable(at) \ {j} : ClaimsBefore(j, k)
        /\ jobs' = [jobs EXCEPT ![j] = Claimed(@, w, at)]
        /\ LogEvent(j, "claimed", "running", w, jobs[j].version + 1)
        /\ workers' = [workers EXCEPT ![w] =
                         [@ EXCEPT !.current_job = j, !.heartbeat_at = at]]
        /\ claims' = claims \cup {[job |-> j, worker |-> w,
                                   version |-> jobs[j].version + 1,
                                   attempt |-> jobs[j].attempts + 1]}
    /\ UNCHANGED now

(* renew_job_lease: extends the lease, neither version nor event. *)
RenewJobLease(c, at) ==
    /\ RequireActiveLease(c, at)
    /\ jobs' = [jobs EXCEPT ![c.job] =
                  [@ EXCEPT !.lease_expires_at = at + LeaseDuration]]
    /\ workers' = [workers EXCEPT ![c.worker] = [@ EXCEPT !.heartbeat_at = at]]
    /\ UNCHANGED <<events, claims, now>>

(* Faulty variant of ClearWorkerCurrentJob: only the heartbeat is written. *)
HeartbeatWithoutClearing(w, at) ==
    workers' = [workers EXCEPT ![w] = [@ EXCEPT !.heartbeat_at = at]]

(* _clear_worker_current_job, the last statement of both finalizations. *)
ClearWorkerCurrentJob(w, at) ==
    workers' = [workers EXCEPT ![w] =
                  [@ EXCEPT !.current_job = NULL, !.heartbeat_at = at]]

CompleteClaimedJob(c, at) ==
    /\ RequireActiveLease(c, at)
    /\ jobs' = [jobs EXCEPT ![c.job] = Released(@, "succeeded", @.version + 1)]
    /\ LogEvent(c.job, "succeeded", "succeeded", c.worker, c.version)
    /\ ClearWorkerCurrentJob(c.worker, at)
    /\ UNCHANGED <<claims, now>>

FailClaimedJob(c, retryable, at) ==
    LET job == jobs[c.job]
        scheduleRetry == retryable /\ job.attempts < MaximumAttempts[c.job]
    IN  /\ RequireActiveLease(c, at)
        /\ \/ /\ scheduleRetry
              /\ jobs' = [jobs EXCEPT ![c.job] = Requeued(@, at)]
              /\ LogEvent(c.job, "retry_scheduled", "pending", c.worker, c.version)
           \/ /\ ~scheduleRetry
              /\ jobs' = [jobs EXCEPT ![c.job] = Released(@, "failed", @.version + 1)]
              /\ LogEvent(c.job, "failed", "failed", c.worker, c.version)
        /\ ClearWorkerCurrentJob(c.worker, at)
        /\ UNCHANGED <<claims, now>>

(* recover_expired_leases: one batch of expired rows is requeued or failed, *)
(* and the old owner detached when it still points at the row.              *)
RecoverExpiredLeases(at) ==
    LET rows == RecoveryRows(at)
        retry(j) == jobs[j].attempts < MaximumAttempts[j]
    IN  /\ rows # {}
        /\ jobs' = [j \in Jobs |->
             IF j \notin rows THEN jobs[j]
             ELSE IF retry(j) THEN Requeued(jobs[j], at)
             ELSE Released(jobs[j], "failed", jobs[j].version + 1)]
        /\ events' = [j \in Jobs |->
             IF j \notin rows THEN events[j]
             ELSE Append(events[j],
                    IF retry(j)
                    THEN Event(j, "lease_expired_requeued", "pending",
                               jobs[j].lease_owner, jobs[j].version)
                    ELSE Event(j, "lease_expired_failed", "failed",
                               jobs[j].lease_owner, jobs[j].version))]
        /\ workers' = [w \in Workers |->
             IF \E j \in rows : jobs[j].lease_owner = w /\ workers[w].current_job = j
             THEN [workers[w] EXCEPT !.current_job = NULL]
             ELSE workers[w]]
        /\ UNCHANGED <<claims, now>>

(* cancel_pending_job -> transition_job(new_status = cancelled). *)
CancelPendingJob(j) ==
    /\ jobs[j].status \in {"pending", "failed"}
    /\ jobs[j].lease_owner = NULL /\ jobs[j].lease_expires_at = NULL
    /\ jobs' = [jobs EXCEPT ![j] = Released(@, "cancelled", @.version + 1)]
    /\ LogEvent(j, "cancelled", "cancelled", NULL, 0)
    /\ UNCHANGED <<workers, claims, now>>

(* Faulty variant of RetryFailedJob: used-up attempts are not checked. *)
RetryExhaustedJob(j) ==
    /\ jobs[j].status = "failed"
    /\ jobs[j].lease_owner = NULL /\ jobs[j].lease_expires_at = NULL
    /\ jobs' = [jobs EXCEPT ![j] = Released(@, "pending", @.version + 1)]
    /\ LogEvent(j, "retry_requested", "pending", NULL, 0)
    /\ UNCHANGED <<workers, claims, now>>

(* transition_job(failed -> pending, retry=True): attempts must remain. *)
RetryFailedJob(j) ==
    /\ jobs[j].status = "failed"
    /\ jobs[j].lease_owner = NULL /\ jobs[j].lease_expires_at = NULL
    /\ jobs[j].attempts < MaximumAttempts[j]
    /\ jobs' = [jobs EXCEPT ![j] = Released(@, "pending", @.version + 1)]
    /\ LogEvent(j, "retry_requested", "pending", NULL, 0)
    /\ UNCHANGED <<workers, claims, now>>

-----------------------------------------------------------------------------
(* Worker operations *)

JobTables == <<jobs, events, claims, now>>

(* register_worker: the primary key refuses an id that was used before. *)
RegisterWorker(w, at) ==
    /\ workers[w].status = "absent"
    /\ workers' = [workers EXCEPT ![w] =
                     [@ EXCEPT !.status = "starting", !.heartbeat_at = at]]
    /\ UNCHANGED JobTables

(* heartbeat_worker, through WorkerService.heartbeat_idle. *)
HeartbeatIdle(w, at) ==
    /\ workers[w].status \in {"starting", "running", "stopping"}
    /\ workers' = [workers EXCEPT ![w] = [@ EXCEPT !.heartbeat_at = at]]
    /\ UNCHANGED JobTables

(* _transition_status *)
TransitionStatus(w, expected, status, clearCurrentJob, at) ==
    /\ workers[w].status \in expected
    /\ workers' = [workers EXCEPT ![w] =
         [@ EXCEPT !.status = status, !.heartbeat_at = at,
                   !.current_job = IF clearCurrentJob THEN NULL
                                   ELSE workers[w].current_job]]
    /\ UNCHANGED JobTables

MarkRunning(w, at) == TransitionStatus(w, {"starting"}, "running", FALSE, at)

MarkStopping(w, at) == TransitionStatus(w, {"running"}, "stopping", FALSE, at)

MarkStopped(w, at) ==
    TransitionStatus(w, {"starting", "running", "stopping"}, "stopped", TRUE, at)

MarkFailed(w, at) ==
    TransitionStatus(w, {"starting", "running", "stopping"}, "failed", TRUE, at)

(* Workers whose heartbeat is at or before the cutoff at - threshold. *)
StaleWorkers(at) ==
    {w \in Workers : /\ workers[w].status \in {"running", "stopping"}
                     /\ workers[w].heartbeat_at + LeaseDuration <= at}

(* reconcile_stale_workers: mark every stale worker failed; jobs untouched. *)
ReconcileStaleWorkers(at) ==
    /\ StaleWorkers(at) # {}
    /\ workers' = [w \in Workers |->
         IF w \in StaleWorkers(at)
         THEN [status |-> "failed", heartbeat_at |-> at, current_job |-> NULL]
         ELSE workers[w]]
    /\ UNCHANGED JobTables

Tick ==
    /\ now < MaxTime
    /\ now' = now + 1
    /\ UNCHANGED <<jobs, events, workers, claims>>

-----------------------------------------------------------------------------
(* Any caller may issue any operation with any timestamp it sampled and any *)
(* claim it was ever given.                                                 *)

JobOperation(at) ==
    \/ \E j \in Jobs, key \in Keys \cup {NULL}, delay \in Delays :
            CreateJob(j, key, at + delay, at)
    \/ \E w \in Workers : ClaimNextJob(w, at)
    \/ \E c \in claims : RenewJobLease(c, at)
    \/ \E c \in claims : CompleteClaimedJob(c, at)
    \/ \E c \in claims, retryable \in BOOLEAN : FailClaimedJob(c, retryable, at)
    \/ RecoverExpiredLeases(at)

WorkerOperation(at) ==
    \/ \E w \in Workers : RegisterWorker(w, at)
    \/ \E w \in Workers : HeartbeatIdle(w, at)
    \/ \E w \in Workers : MarkRunning(w, at)
    \/ \E w \in Workers : MarkStopping(w, at)
    \/ \E w \in Workers : MarkStopped(w, at)
    \/ \E w \in Workers : MarkFailed(w, at)
    \/ ReconcileStaleWorkers(at)

Next ==
    \/ \E at \in {t \in 0..now : Sampled(t)} : JobOperation(at) \/ WorkerOperation(at)
    \/ \E j \in Jobs : CancelPendingJob(j)
    \/ \E j \in Jobs : RetryFailedJob(j)
    \/ Tick

Spec == Init /\ [][Next]_vars

-----------------------------------------------------------------------------
(* Properties *)

(* Every row keeps the type its columns declare in 0001_initial.sql and     *)
(* 0002_worker_runtime.sql.                                                 *)
TypeOK ==
    /\ jobs \in [Jobs -> JobRow]
    /\ events \in [Jobs -> Seq(JobEvent)]
    /\ workers \in [Workers -> WorkerRow]
    /\ claims \subseteq JobClaim
    /\ now \in Nat

(* A job carries a lease exactly while it is running (the triggers of       *)
(* 0002_worker_runtime.sql), and a worker that names a current job holds    *)
(* that job's lease: finalization, recovery, reconciliation and shutdown    *)
(* never leave a worker pointing at a job it no longer owns.                *)
LeaseIntegrity ==
    /\ \A j \in Jobs :
        /\ jobs[j].status = "running" <=> jobs[j].lease_owner # NULL
        /\ jobs[j].status = "running" <=> jobs[j].lease_expires_at # NULL
    /\ \A w \in Workers :
        workers[w].current_job # NULL =>
            /\ workers[w].status \in {"running", "stopping"}
            /\ jobs[workers[w].current_job].status = "running"
            /\ jobs[workers[w].current_job].lease_owner = w

(* No job waits for ever: retry scheduling, lease recovery and the          *)
(* administrative retry never leave a pending job with its attempts used    *)
(* up, which claim_next_job would skip without ever failing it.             *)
PendingIsClaimable ==
    \A j \in Jobs :
        /\ jobs[j].attempts <= MaximumAttempts[j]
        /\ jobs[j].status = "pending" => jobs[j].attempts < MaximumAttempts[j]

(* The log of a row: one event per version, each starting from the status   *)
(* the previous one ended in, the last one naming the present status.       *)
ChainOK(log, row) ==
    /\ Len(log) = row.version
    /\ row.version > 0 => log[row.version].to = row.status
    /\ row.version = 0 => row.status = "absent"
    /\ \A i \in 1..Len(log) :
        /\ log[i].version = i
        /\ i > 1 => log[i].from = log[i - 1].to

(* job_events is a complete history of every job, whichever operation moved *)
(* it: no transition without its event, no event without its transition.    *)
EventChain == \A j \in Jobs : ChainOK(events[j], jobs[j])

(* An attempt in the log ended under the claim that started it. *)
FinishedOK(log) ==
    \A i \in 1..Len(log) :
        log[i].type \in {"succeeded", "retry_scheduled", "failed"} =>
            /\ i > 1
            /\ log[i - 1].type = "claimed"
            /\ log[i - 1].worker = log[i].worker
            /\ log[i].claim = i - 1

(* Fencing: a completed, failed or rescheduled attempt was finished under   *)
(* the very claim that started it.  A paused or replaced worker, or an      *)
(* earlier claim of the same worker, never finishes somebody else's         *)
(* attempt (docs/worker.md, "Worker UUID fencing").                         *)
FinishedByItsClaim == \A j \in Jobs : FinishedOK(events[j])

(* A lease is honoured: while the clock has not reached its expiry, a       *)
(* running job leaves its claim (owner and version) only through a          *)
(* finalization by that claim.  Neither recovery nor reconciliation, with   *)
(* whatever stale timestamp they use, takes a live lease away.              *)
LeaseHonoured ==
    [][\A j \in Jobs :
        (/\ jobs[j].status = "running"
         /\ jobs[j].lease_expires_at > now
         /\ jobs'[j].version # jobs[j].version) =>
            LET last == events'[j][Len(events'[j])]
            IN  /\ last.type \in {"succeeded", "retry_scheduled", "failed"}
                /\ last.worker = jobs[j].lease_owner
                /\ last.claim = jobs[j].version]_vars

(* Terminal statuses are final for the queue: only an administrator moves   *)
(* a failed job, and nothing moves a succeeded or cancelled one.            *)
TerminalIsFinal ==
    [][\A j \in Jobs :
        jobs[j].status \in {"succeeded", "cancelled"} => jobs'[j] = jobs[j]]_vars

(* The tables implement the life of a job that the queue promises: at most  *)
(* one worker per job and one job per worker, every attempt ended once and  *)
(* no attempt too many, whatever leases, clocks and late claims do.         *)
Lifecycle ==
    INSTANCE JobLifecycle WITH
        status <- [j \in Jobs |-> jobs[j].status],
        holder <- [j \in Jobs |-> jobs[j].lease_owner],
        attempts <- [j \in Jobs |-> jobs[j].attempts]

RefinesLifecycle == Lifecycle!LifecycleSpec

=============================================================================
