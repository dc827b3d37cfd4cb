--------------------------- MODULE JobQueueProofs ---------------------------
(***************************************************************************)
(* Proofs about JobQueue for every set of jobs, workers and keys and every *)
(* lease, backoff and attempt setting.                                     *)
(***************************************************************************)
EXTENDS JobQueue, TLAPS, SequenceTheorems

-----------------------------------------------------------------------------
(* Lemmas about the helpers *)

(* compute_retry_delay_seconds never returns more than the configured       *)
(* maximum.                                                                 *)
LEMMA RetryDelayBound ==
    ASSUME NEW n PROVE RetryDelay(n) \in Nat /\ RetryDelay(n) <= BackoffMax
BY TimingAssumption DEF RetryDelay

(* Recovery only touches expired rows. *)
LEMMA RecoveryRowsExpired ==
    ASSUME NEW at, NEW j \in RecoveryRows(at)
    PROVE  /\ j \in Jobs
           /\ jobs[j].status = "running"
           /\ jobs[j].lease_owner # NULL
           /\ jobs[j].lease_expires_at # NULL
           /\ jobs[j].lease_expires_at <= at
BY DEF RecoveryRows, Expired

(* A claimed row gains one attempt, one version and its lease. *)
LEMMA ClaimedRow ==
    ASSUME NEW row \in JobRow, NEW w \in Workers, NEW at \in Nat
    PROVE  /\ Claimed(row, w, at) \in JobRow
           /\ Claimed(row, w, at).status = "running"
           /\ Claimed(row, w, at).version = row.version + 1
           /\ Claimed(row, w, at).attempts = row.attempts + 1
           /\ Claimed(row, w, at).lease_owner = w
           /\ Claimed(row, w, at).lease_expires_at = at + LeaseDuration
<1>1. /\ row.version + 1 \in Nat /\ row.attempts + 1 \in Nat
      /\ at + LeaseDuration \in Nat /\ "running" \in JobStatus
    BY TimingAssumption DEF JobRow, JobStatus
<1> DEFINE new == Claimed(row, w, at)
<1>2. new = [row EXCEPT !.status = "running", !.version = row.version + 1,
                        !.attempts = row.attempts + 1, !.lease_owner = w,
                        !.lease_expires_at = at + LeaseDuration]
    BY DEF Claimed
<1>3. new \in JobRow
    BY <1>1, <1>2 DEF JobRow
<1> QED
    BY <1>1, <1>2, <1>3 DEF JobRow

(* A released row drops its lease and keeps its attempts. *)
LEMMA ReleasedRow ==
    ASSUME NEW row \in JobRow, NEW status \in JobStatus
    PROVE  /\ Released(row, status, row.version + 1) \in JobRow
           /\ Released(row, status, row.version + 1).status = status
           /\ Released(row, status, row.version + 1).version = row.version + 1
           /\ Released(row, status, row.version + 1).attempts = row.attempts
           /\ Released(row, status, row.version + 1).lease_owner = NULL
           /\ Released(row, status, row.version + 1).lease_expires_at = NULL
<1>1. row.version + 1 \in Nat
    BY DEF JobRow
<1> DEFINE new == Released(row, status, row.version + 1)
<1>2. new = [row EXCEPT !.status = status, !.version = row.version + 1,
                        !.lease_owner = NULL, !.lease_expires_at = NULL]
    BY DEF Released
<1>3. new \in JobRow
    BY <1>1, <1>2 DEF JobRow
<1> QED
    BY <1>1, <1>2, <1>3 DEF JobRow

(* A requeued row is a released one with a later available_at. *)
LEMMA RequeuedRow ==
    ASSUME NEW row \in JobRow, NEW at \in Nat
    PROVE  /\ Requeued(row, at) \in JobRow
           /\ Requeued(row, at).status = "pending"
           /\ Requeued(row, at).version = row.version + 1
           /\ Requeued(row, at).attempts = row.attempts
           /\ Requeued(row, at).lease_owner = NULL
           /\ Requeued(row, at).lease_expires_at = NULL
<1> DEFINE mid == Released(row, "pending", row.version + 1)
<1>1. at + RetryDelay(row.attempts) \in Nat
    BY RetryDelayBound
<1>2. "pending" \in JobStatus
    BY DEF JobStatus
<1>3. /\ mid \in JobRow
      /\ mid.status = "pending" /\ mid.version = row.version + 1
      /\ mid.attempts = row.attempts
      /\ mid.lease_owner = NULL /\ mid.lease_expires_at = NULL
    BY <1>2, ReleasedRow
<1>4. Requeued(row, at) = [mid EXCEPT !.available_at = at + RetryDelay(row.attempts)]
    BY DEF Requeued
<1> HIDE DEF mid
<1> QED
    BY <1>1, <1>3, <1>4 DEF JobRow

(* Event reads the row it is about. *)
LEMMA EventOfRow ==
    ASSUME NEW j \in Jobs, jobs[j] \in JobRow,
           NEW type \in EventType, NEW to \in JobStatus,
           NEW worker \in Workers \cup {NULL}, NEW claim \in Nat
    PROVE  LET e == Event(j, type, to, worker, claim)
           IN  /\ e \in JobEvent
               /\ e.type = type /\ e.to = to /\ e.from = jobs[j].status
               /\ e.version = jobs[j].version + 1
               /\ e.worker = worker /\ e.claim = claim
BY DEF Event, JobEvent, JobRow

(* Appending to a log keeps its type and its earlier entries. *)
LEMMA AppendLog ==
    ASSUME NEW log \in Seq(JobEvent), NEW e \in JobEvent
    PROVE  /\ Append(log, e) \in Seq(JobEvent)
           /\ Len(log) \in Nat
           /\ Len(Append(log, e)) = Len(log) + 1
           /\ Append(log, e)[Len(log) + 1] = e
           /\ \A i \in 1..Len(log) : Append(log, e)[i] = log[i]
OBVIOUS

(* The step every transition makes: one event and one version further.      *)
LEMMA ChainStep ==
    ASSUME NEW row \in JobRow, NEW new \in JobRow,
           NEW log \in Seq(JobEvent), NEW e \in JobEvent,
           ChainOK(log, row),
           e.from = row.status, e.to = new.status, e.version = row.version + 1,
           new.version = row.version + 1
    PROVE  ChainOK(Append(log, e), new)
<1> DEFINE longer == Append(log, e)
<1>1. row.version \in Nat /\ Len(log) = row.version
    BY DEF ChainOK, JobRow
<1>2. Len(longer) = row.version + 1 /\ longer[row.version + 1] = e
    BY <1>1, AppendLog
<1>3. \A i \in 1..Len(log) : longer[i] = log[i]
    BY AppendLog
<1> HIDE DEF longer
<1>4. ASSUME NEW i \in 1..Len(longer)
      PROVE  longer[i].version = i /\ (i > 1 => longer[i].from = longer[i - 1].to)
    <2>1. CASE i = row.version + 1
        <3>1. longer[i].version = i
            BY <1>2, <2>1
        <3>2. ASSUME i > 1 PROVE longer[i].from = longer[i - 1].to
            <4>1. row.version > 0 /\ i - 1 = row.version /\ i - 1 \in 1..Len(log)
                BY <1>1, <2>1, <3>2
            <4>2. longer[i - 1].to = row.status
                BY <4>1, <1>3 DEF ChainOK
            <4> QED
                BY <4>2, <1>2, <2>1
        <3> QED
            BY <3>1, <3>2
    <2>2. CASE i \in 1..Len(log)
        <3>1. i > 1 => i - 1 \in 1..Len(log)
            BY <1>1, <2>2
        <3> QED
            BY <1>3, <2>2, <3>1 DEF ChainOK
    <2> QED
        BY <1>1, <1>2, <2>1, <2>2
<1> QED
    BY <1>1, <1>2, <1>4 DEF ChainOK, longer

(* Appending an event that finishes nothing, or that finishes the claim the *)
(* log ends with, keeps every attempt finished by its own claim.            *)
LEMMA FinishStep ==
    ASSUME NEW log \in Seq(JobEvent), NEW e \in JobEvent, FinishedOK(log),
           e.type \in {"succeeded", "retry_scheduled", "failed"} =>
                /\ Len(log) > 0
                /\ log[Len(log)].type = "claimed"
                /\ log[Len(log)].worker = e.worker
                /\ e.claim = Len(log)
    PROVE  FinishedOK(Append(log, e))
<1> DEFINE longer == Append(log, e)
<1>1. Len(log) \in Nat /\ Len(longer) = Len(log) + 1 /\ longer[Len(log) + 1] = e
    BY AppendLog
<1>2. \A i \in 1..Len(log) : longer[i] = log[i]
    BY AppendLog
<1> HIDE DEF longer
<1>3. SUFFICES ASSUME NEW i \in 1..Len(longer),
                      longer[i].type \in {"succeeded", "retry_scheduled", "failed"}
               PROVE  /\ i > 1
                      /\ longer[i - 1].type = "claimed"
                      /\ longer[i - 1].worker = longer[i].worker
                      /\ longer[i].claim = i - 1
    BY DEF FinishedOK, longer
<1>4. CASE i = Len(log) + 1
    <2>1. Len(log) > 0 /\ i - 1 = Len(log) /\ i - 1 \in 1..Len(log)
        BY <1>1, <1>3, <1>4
    <2> QED
        BY <2>1, <1>1, <1>2, <1>3, <1>4
<1>5. CASE i \in 1..Len(log)
    <2>1. i > 1 /\ i - 1 \in 1..Len(log)
        BY <1>1, <1>2, <1>3, <1>5 DEF FinishedOK
    <2> QED
        BY <2>1, <1>2, <1>3, <1>5 DEF FinishedOK
<1> QED
    BY <1>1, <1>4, <1>5

-----------------------------------------------------------------------------
(* The inductive invariant *)

(* A running job's last event is the claim by its lease owner: the fact     *)
(* that lets FinishedByItsClaim survive a finalization.                     *)
ClaimedOK(log, row) ==
    row.status = "running" =>
        /\ Len(log) > 0
        /\ log[Len(log)].type = "claimed"
        /\ log[Len(log)].worker = row.lease_owner

LeaseOK(row) ==
    /\ row.status = "running" <=> row.lease_owner # NULL
    /\ row.status = "running" <=> row.lease_expires_at # NULL

AttemptsOK(row, maximum) ==
    /\ row.attempts <= maximum
    /\ row.status = "pending" => row.attempts < maximum

RowInv(row, log, maximum) ==
    /\ row.status = "absent" => row = AbsentJob
    /\ LeaseOK(row)
    /\ AttemptsOK(row, maximum)
    /\ ChainOK(log, row)
    /\ FinishedOK(log)
    /\ ClaimedOK(log, row)

JobInv == \A j \in Jobs : RowInv(jobs[j], events[j], MaximumAttempts[j])

WorkerInv ==
    \A w \in Workers :
        workers[w].current_job # NULL =>
            /\ workers[w].status \in {"running", "stopping"}
            /\ jobs[workers[w].current_job].status = "running"
            /\ jobs[workers[w].current_job].lease_owner = w

IInv == TypeOK /\ JobInv /\ WorkerInv

(* One transition of one row under one new event keeps the row's invariant. *)
LEMMA RowStep ==
    ASSUME NEW row \in JobRow, NEW new \in JobRow, NEW maximum \in Nat,
           NEW log \in Seq(JobEvent), NEW e \in JobEvent,
           RowInv(row, log, maximum),
           e.from = row.status, e.to = new.status, e.version = row.version + 1,
           new.version = row.version + 1, new.status # "absent",
           LeaseOK(new), AttemptsOK(new, maximum),
           new.status = "running" => e.type = "claimed" /\ e.worker = new.lease_owner,
           e.type \in {"succeeded", "retry_scheduled", "failed"} =>
                row.status = "running" /\ e.worker = row.lease_owner /\ e.claim = row.version
    PROVE  RowInv(new, Append(log, e), maximum)
<1>1. ChainOK(Append(log, e), new)
    BY ChainStep DEF RowInv
<1>2. Len(log) = row.version
    BY DEF RowInv, ChainOK
<1>3. FinishedOK(Append(log, e))
    BY <1>2, FinishStep DEF RowInv, ClaimedOK
<1>4. ClaimedOK(Append(log, e), new)
    BY AppendLog DEF ClaimedOK
<1> QED
    BY <1>1, <1>3, <1>4 DEF RowInv

(* An operation that moves one job and logs it keeps the job tables.        *)
LEMMA OneJobStep ==
    ASSUME IInv, NEW j \in Jobs, NEW new \in JobRow, NEW e \in JobEvent,
           jobs' = [jobs EXCEPT ![j] = new],
           events' = [events EXCEPT ![j] = Append(@, e)],
           RowInv(new, Append(events[j], e), MaximumAttempts[j])
    PROVE  /\ jobs' \in [Jobs -> JobRow]
           /\ events' \in [Jobs -> Seq(JobEvent)]
           /\ JobInv'
<1>1. jobs \in [Jobs -> JobRow] /\ events \in [Jobs -> Seq(JobEvent)]
    BY DEF IInv, TypeOK
<1>2. Append(events[j], e) \in Seq(JobEvent)
    BY <1>1, AppendLog
<1>3. jobs'[j] = new /\ events'[j] = Append(events[j], e)
    BY <1>1
<1>4. \A k \in Jobs \ {j} : jobs'[k] = jobs[k] /\ events'[k] = events[k]
    BY <1>1
<1>5. jobs' \in [Jobs -> JobRow] /\ events' \in [Jobs -> Seq(JobEvent)]
    BY <1>1, <1>2
<1>6. JobInv'
    <2> SUFFICES ASSUME NEW k \in Jobs
                 PROVE  RowInv(jobs'[k], events'[k], MaximumAttempts[k])
        BY DEF JobInv
    <2>1. CASE k = j
        BY <1>3, <2>1
    <2>2. CASE k # j
        BY <1>4, <2>2 DEF IInv, JobInv
    <2> QED
        BY <2>1, <2>2
<1> QED
    BY <1>5, <1>6

LEMMA InitIInv == Init => IInv
<1> SUFFICES ASSUME Init PROVE IInv
    OBVIOUS
<1>1. AbsentJob \in JobRow /\ AbsentWorker \in WorkerRow
    BY DEF AbsentJob, AbsentWorker, JobRow, WorkerRow, JobStatus, WorkerStatus
<1>2. TypeOK
    BY <1>1 DEF Init, TypeOK
<1>3. ASSUME NEW j \in Jobs PROVE RowInv(jobs[j], events[j], MaximumAttempts[j])
    <2>1. jobs[j] = AbsentJob /\ events[j] = <<>> /\ MaximumAttempts[j] \in Nat
        BY AttemptsAssumption DEF Init
    <2>2. LeaseOK(AbsentJob) /\ AttemptsOK(AbsentJob, MaximumAttempts[j])
        BY AttemptsAssumption DEF LeaseOK, AttemptsOK, AbsentJob
    <2>3. ChainOK(<<>>, AbsentJob) /\ FinishedOK(<<>>) /\ ClaimedOK(<<>>, AbsentJob)
        BY DEF ChainOK, FinishedOK, ClaimedOK, AbsentJob
    <2> QED
        BY <2>1, <2>2, <2>3 DEF RowInv
<1>4. WorkerInv
    BY DEF WorkerInv, Init, AbsentWorker
<1> QED
    BY <1>2, <1>3, <1>4 DEF IInv, JobInv

(* The invariant implies the properties the runs check. *)
LEMMA IInvImplies ==
    IInv => TypeOK /\ LeaseIntegrity /\ PendingIsClaimable
                   /\ EventChain /\ FinishedByItsClaim
BY DEF IInv, JobInv, WorkerInv, RowInv, LeaseOK, AttemptsOK,
       LeaseIntegrity, PendingIsClaimable, EventChain, FinishedByItsClaim

-----------------------------------------------------------------------------
(* Each operation preserves the invariant *)

(* What the invariant says of one row. *)
LEMMA RowFacts ==
    ASSUME IInv, NEW j \in Jobs
    PROVE  /\ jobs[j] \in JobRow /\ events[j] \in Seq(JobEvent)
           /\ RowInv(jobs[j], events[j], MaximumAttempts[j])
           /\ MaximumAttempts[j] \in Nat /\ MaximumAttempts[j] > 0
           /\ jobs[j].version \in Nat /\ jobs[j].attempts \in Nat
BY AttemptsAssumption DEF IInv, TypeOK, JobInv, JobRow

(* create_job preserves the invariant. *)
LEMMA CreateJobStep ==
    ASSUME IInv, NEW j \in Jobs, NEW key \in Keys \cup {NULL},
           NEW available \in Nat, NEW at \in Nat, CreateJob(j, key, available, at)
    PROVE  IInv'
<1> DEFINE new == [status |-> "pending", attempts |-> 0, version |-> 1,
                   available_at |-> available, created_at |-> at,
                   lease_owner |-> NULL, lease_expires_at |-> NULL, key |-> key]
           e == Event(j, "created", "pending", NULL, 0)
<1>1. jobs[j] = AbsentJob /\ jobs[j].version = 0 /\ jobs[j].attempts = 0
    BY RowFacts DEF CreateJob, RowInv, AbsentJob
<1>2. /\ new \in JobRow /\ new.status = "pending" /\ new.version = jobs[j].version + 1
      /\ new.attempts = 0 /\ new.lease_owner = NULL /\ new.lease_expires_at = NULL
    BY <1>1 DEF JobRow, JobStatus
<1>3. jobs[j] \in JobRow /\ "created" \in EventType /\ "pending" \in JobStatus
    BY RowFacts DEF EventType, JobStatus
<1>4. /\ e \in JobEvent /\ e.type = "created" /\ e.to = "pending"
      /\ e.from = jobs[j].status /\ e.version = jobs[j].version + 1
    BY <1>3, EventOfRow
<1>5. jobs' = [jobs EXCEPT ![j] = new] /\ events' = [events EXCEPT ![j] = Append(@, e)]
    BY DEF CreateJob, LogEvent
<1> HIDE DEF new, e
<1>6. LeaseOK(new) /\ AttemptsOK(new, MaximumAttempts[j])
    BY <1>2, RowFacts DEF LeaseOK, AttemptsOK
<1>7. RowInv(new, Append(events[j], e), MaximumAttempts[j])
    BY <1>2, <1>4, <1>6, RowFacts, RowStep
<1>8. jobs' \in [Jobs -> JobRow] /\ events' \in [Jobs -> Seq(JobEvent)] /\ JobInv'
    BY <1>2, <1>4, <1>5, <1>7, OneJobStep
<1>9. TypeOK'
    BY <1>8 DEF CreateJob, IInv, TypeOK
<1>10. WorkerInv'
    <2>1. jobs \in [Jobs -> JobRow] /\ workers \in [Workers -> WorkerRow]
        BY DEF IInv, TypeOK
    <2>2. \A w \in Workers : workers[w].current_job \in Jobs \cup {NULL}
        BY <2>1 DEF WorkerRow
    <2>3. jobs[j].status # "running"
        BY <1>1 DEF AbsentJob
    <2>4. \A k \in Jobs : jobs[k].status = "running" => jobs'[k] = jobs[k]
        BY <2>1, <2>3, <1>5
    <2> QED
        BY <2>2, <2>4 DEF IInv, WorkerInv, CreateJob
<1> QED
    BY <1>8, <1>9, <1>10 DEF IInv

(* A job that leaves "running" or was not running, moved under event e by   *)
(* its own claim or by an administrator: the shape of every release.        *)
LEMMA ReleaseRow ==
    ASSUME IInv, NEW j \in Jobs, NEW new \in JobRow,
           NEW type \in EventType \ {"claimed", "created"},
           NEW worker \in Workers \cup {NULL}, NEW claim \in Nat,
           jobs[j].status # "absent",
           new.status \notin {"running", "absent"},
           new.version = jobs[j].version + 1, new.attempts = jobs[j].attempts,
           new.lease_owner = NULL, new.lease_expires_at = NULL,
           new.status = "pending" => jobs[j].attempts < MaximumAttempts[j],
           type \in {"succeeded", "retry_scheduled", "failed"} =>
               jobs[j].status = "running" /\ worker = jobs[j].lease_owner
                                          /\ claim = jobs[j].version
    PROVE  /\ Event(j, type, new.status, worker, claim) \in JobEvent
           /\ RowInv(new, Append(events[j], Event(j, type, new.status, worker, claim)),
                     MaximumAttempts[j])
<1> DEFINE e == Event(j, type, new.status, worker, claim)
<1>1. /\ jobs[j] \in JobRow /\ events[j] \in Seq(JobEvent)
      /\ RowInv(jobs[j], events[j], MaximumAttempts[j])
      /\ MaximumAttempts[j] \in Nat
    BY RowFacts
<1>2. type \in EventType /\ new.status \in JobStatus
    BY DEF JobRow
<1>3. /\ e \in JobEvent /\ e.type = type /\ e.to = new.status
      /\ e.from = jobs[j].status /\ e.version = jobs[j].version + 1
      /\ e.worker = worker /\ e.claim = claim
    BY <1>1, <1>2 DEF Event, JobEvent, JobRow
<1> HIDE DEF e
<1>4. LeaseOK(new) /\ AttemptsOK(new, MaximumAttempts[j])
    BY <1>1 DEF LeaseOK, AttemptsOK, RowInv
<1>5. RowInv(new, Append(events[j], e), MaximumAttempts[j])
    BY <1>1, <1>3, <1>4, RowStep
<1> QED
    BY <1>3, <1>5 DEF e

(* A finalization: the claim's job is released, its worker freed.           *)
LEMMA FinalizeStep ==
    ASSUME IInv, NEW c \in claims, NEW at \in Nat, RequireActiveLease(c, at),
           NEW new \in JobRow,
           NEW type \in {"succeeded", "retry_scheduled", "failed"},
           new.status \notin {"running", "absent"},
           new.version = jobs[c.job].version + 1,
           new.attempts = jobs[c.job].attempts,
           new.lease_owner = NULL, new.lease_expires_at = NULL,
           new.status = "pending" => jobs[c.job].attempts < MaximumAttempts[c.job],
           jobs' = [jobs EXCEPT ![c.job] = new],
           LogEvent(c.job, type, new.status, c.worker, c.version),
           ClearWorkerCurrentJob(c.worker, at),
           UNCHANGED <<claims, now>>
    PROVE  IInv'
<1> DEFINE e == Event(c.job, type, new.status, c.worker, c.version)
<1>1. c.job \in Jobs /\ c.worker \in Workers /\ c.version \in Nat
    BY DEF IInv, TypeOK, JobClaim
<1>2. /\ jobs[c.job].status = "running" /\ jobs[c.job].lease_owner = c.worker
      /\ jobs[c.job].version = c.version
    BY DEF RequireActiveLease
<1>3. type \in EventType \ {"claimed", "created"}
    BY DEF EventType
<1>4. e \in JobEvent /\ RowInv(new, Append(events[c.job], e), MaximumAttempts[c.job])
    BY <1>1, <1>2, <1>3, ReleaseRow
<1>5. events' = [events EXCEPT ![c.job] = Append(@, e)]
    BY DEF LogEvent
<1> HIDE DEF e
<1>6. jobs' \in [Jobs -> JobRow] /\ events' \in [Jobs -> Seq(JobEvent)] /\ JobInv'
    BY <1>1, <1>4, <1>5, OneJobStep
<1>7. workers \in [Workers -> WorkerRow] /\ jobs \in [Jobs -> JobRow]
    BY DEF IInv, TypeOK
<1>8. /\ workers' \in [Workers -> WorkerRow]
      /\ workers'[c.worker].current_job = NULL
      /\ \A w \in Workers \ {c.worker} : workers'[w] = workers[w]
    BY <1>1, <1>7 DEF ClearWorkerCurrentJob, WorkerRow
<1>9. TypeOK'
    BY <1>6, <1>8 DEF IInv, TypeOK
<1>10. WorkerInv'
    <2> SUFFICES ASSUME NEW w \in Workers, workers'[w].current_job # NULL
                 PROVE  /\ workers'[w].status \in {"running", "stopping"}
                        /\ jobs'[workers'[w].current_job].status = "running"
                        /\ jobs'[workers'[w].current_job].lease_owner = w
        BY DEF WorkerInv
    <2>1. w # c.worker /\ workers'[w] = workers[w]
        BY <1>8
    <2>2. workers[w].current_job \in Jobs
        BY <1>7, <2>1 DEF WorkerRow
    <2>3. workers[w].current_job # c.job
        BY <1>2, <2>1, <2>2 DEF IInv, WorkerInv
    <2>4. jobs'[workers[w].current_job] = jobs[workers[w].current_job]
        BY <1>7, <2>2, <2>3
    <2> QED
        BY <2>1, <2>2, <2>4 DEF IInv, WorkerInv
<1> QED
    BY <1>6, <1>9, <1>10 DEF IInv

(* complete_claimed_job preserves the invariant. *)
LEMMA CompleteStep ==
    ASSUME IInv, NEW c \in claims, NEW at \in Nat, CompleteClaimedJob(c, at)
    PROVE  IInv'
<1>1. c.job \in Jobs /\ jobs[c.job] \in JobRow /\ "succeeded" \in JobStatus
    BY DEF IInv, TypeOK, JobClaim, JobStatus
<1> DEFINE new == Released(jobs[c.job], "succeeded", jobs[c.job].version + 1)
<1>2. /\ new \in JobRow /\ new.status = "succeeded"
      /\ new.version = jobs[c.job].version + 1 /\ new.attempts = jobs[c.job].attempts
      /\ new.lease_owner = NULL /\ new.lease_expires_at = NULL
    BY <1>1, ReleasedRow
<1>3. /\ RequireActiveLease(c, at) /\ jobs' = [jobs EXCEPT ![c.job] = new]
      /\ LogEvent(c.job, "succeeded", "succeeded", c.worker, c.version)
      /\ ClearWorkerCurrentJob(c.worker, at) /\ UNCHANGED <<claims, now>>
    BY DEF CompleteClaimedJob
<1> HIDE DEF new
<1> QED
    BY <1>2, <1>3, FinalizeStep

(* fail_claimed_job, with or without a retry, preserves the invariant. *)
LEMMA FailStep ==
    ASSUME IInv, NEW c \in claims, NEW retryable \in BOOLEAN, NEW at \in Nat,
           FailClaimedJob(c, retryable, at)
    PROVE  IInv'
<1>1. c.job \in Jobs /\ jobs[c.job] \in JobRow /\ "failed" \in JobStatus
    BY DEF IInv, TypeOK, JobClaim, JobStatus
<1>2. /\ RequireActiveLease(c, at)
      /\ ClearWorkerCurrentJob(c.worker, at) /\ UNCHANGED <<claims, now>>
    BY DEF FailClaimedJob
<1>3. CASE /\ jobs[c.job].attempts < MaximumAttempts[c.job]
           /\ jobs' = [jobs EXCEPT ![c.job] = Requeued(jobs[c.job], at)]
           /\ LogEvent(c.job, "retry_scheduled", "pending", c.worker, c.version)
    <2> DEFINE new == Requeued(jobs[c.job], at)
    <2>1. /\ new \in JobRow /\ new.status = "pending"
          /\ new.version = jobs[c.job].version + 1 /\ new.attempts = jobs[c.job].attempts
          /\ new.lease_owner = NULL /\ new.lease_expires_at = NULL
        BY <1>1, RequeuedRow
    <2>2. jobs' = [jobs EXCEPT ![c.job] = new]
        BY <1>3
    <2> HIDE DEF new
    <2> QED
        BY <1>2, <1>3, <2>1, <2>2, FinalizeStep
<1>4. CASE /\ jobs' = [jobs EXCEPT ![c.job] =
                         Released(jobs[c.job], "failed", jobs[c.job].version + 1)]
           /\ LogEvent(c.job, "failed", "failed", c.worker, c.version)
    <2> DEFINE new == Released(jobs[c.job], "failed", jobs[c.job].version + 1)
    <2>1. /\ new \in JobRow /\ new.status = "failed"
          /\ new.version = jobs[c.job].version + 1 /\ new.attempts = jobs[c.job].attempts
          /\ new.lease_owner = NULL /\ new.lease_expires_at = NULL
        BY <1>1, ReleasedRow
    <2>2. jobs' = [jobs EXCEPT ![c.job] = new]
        BY <1>4
    <2> HIDE DEF new
    <2> QED
        BY <1>2, <1>4, <2>1, <2>2, FinalizeStep
<1> QED
    BY <1>3, <1>4 DEF FailClaimedJob

(* claim_next_job preserves the invariant. *)
LEMMA ClaimStep ==
    ASSUME IInv, NEW w \in Workers, NEW at \in Nat, ClaimNextJob(w, at)
    PROVE  IInv'
<1>1. PICK j \in Claimable(at) :
        /\ jobs' = [jobs EXCEPT ![j] = Claimed(@, w, at)]
        /\ LogEvent(j, "claimed", "running", w, jobs[j].version + 1)
        /\ workers' = [workers EXCEPT ![w] =
                         [@ EXCEPT !.current_job = j, !.heartbeat_at = at]]
        /\ claims' = claims \cup {[job |-> j, worker |-> w,
                                   version |-> jobs[j].version + 1,
                                   attempt |-> jobs[j].attempts + 1]}
    BY DEF ClaimNextJob
<1>2. /\ j \in Jobs /\ jobs[j].status = "pending"
      /\ jobs[j].attempts < MaximumAttempts[j]
    BY DEF Claimable
<1>3. /\ jobs[j] \in JobRow /\ events[j] \in Seq(JobEvent)
      /\ RowInv(jobs[j], events[j], MaximumAttempts[j])
      /\ MaximumAttempts[j] \in Nat
      /\ jobs[j].version \in Nat /\ jobs[j].attempts \in Nat
    BY <1>2, RowFacts
<1> DEFINE new == Claimed(jobs[j], w, at)
           e == Event(j, "claimed", "running", w, jobs[j].version + 1)
<1>4. at + LeaseDuration \in Nat
    BY TimingAssumption
<1>5. /\ new \in JobRow /\ new.status = "running"
      /\ new.attempts = jobs[j].attempts + 1 /\ new.version = jobs[j].version + 1
      /\ new.lease_owner = w /\ new.lease_expires_at = at + LeaseDuration
    <2>1. PICK row \in JobRow : row = jobs[j]
        BY <1>3
    <2>2. /\ Claimed(row, w, at) \in JobRow /\ Claimed(row, w, at).status = "running"
          /\ Claimed(row, w, at).attempts = row.attempts + 1
          /\ Claimed(row, w, at).version = row.version + 1
          /\ Claimed(row, w, at).lease_owner = w
          /\ Claimed(row, w, at).lease_expires_at = at + LeaseDuration
        BY ClaimedRow
    <2> QED
        BY <2>1, <2>2
<1>6. /\ e \in JobEvent /\ e.type = "claimed" /\ e.to = "running"
      /\ e.from = jobs[j].status /\ e.version = jobs[j].version + 1 /\ e.worker = w
    BY <1>3 DEF Event, JobEvent, JobRow, EventType, JobStatus
<1>7. jobs' = [jobs EXCEPT ![j] = new] /\ events' = [events EXCEPT ![j] = Append(@, e)]
    BY <1>1 DEF LogEvent
<1> HIDE DEF new, e
<1>8. LeaseOK(new)
    BY <1>4, <1>5, NullAssumption DEF LeaseOK
<1>9. AttemptsOK(new, MaximumAttempts[j])
    BY <1>2, <1>3, <1>5 DEF AttemptsOK
<1>10. RowInv(new, Append(events[j], e), MaximumAttempts[j])
    BY <1>3, <1>5, <1>6, <1>8, <1>9, RowStep
<1>11. jobs' \in [Jobs -> JobRow] /\ events' \in [Jobs -> Seq(JobEvent)] /\ JobInv'
    BY <1>2, <1>5, <1>6, <1>7, <1>10, OneJobStep
<1>12. workers \in [Workers -> WorkerRow] /\ jobs \in [Jobs -> JobRow]
    BY DEF IInv, TypeOK
<1>13. /\ workers' \in [Workers -> WorkerRow]
       /\ workers'[w].current_job = j /\ workers'[w].status = "running"
       /\ \A v \in Workers \ {w} : workers'[v] = workers[v]
    <2>1. workers[w].status = "running"
        BY DEF ClaimNextJob
    <2> QED
        BY <2>1, <1>1, <1>2, <1>12 DEF WorkerRow
<1>14. claims' \subseteq JobClaim
    BY <1>1, <1>2, <1>3 DEF IInv, TypeOK, JobClaim
<1>15. TypeOK'
    BY <1>11, <1>13, <1>14 DEF IInv, TypeOK, ClaimNextJob
<1>16. WorkerInv'
    <2> SUFFICES ASSUME NEW v \in Workers, workers'[v].current_job # NULL
                 PROVE  /\ workers'[v].status \in {"running", "stopping"}
                        /\ jobs'[workers'[v].current_job].status = "running"
                        /\ jobs'[workers'[v].current_job].lease_owner = v
        BY DEF WorkerInv
    <2>1. CASE v = w
        BY <2>1, <1>2, <1>5, <1>7, <1>12, <1>13
    <2>2. CASE v # w
        <3>1. workers'[v] = workers[v] /\ workers[v].current_job \in Jobs
            BY <2>2, <1>12, <1>13 DEF WorkerRow
        <3>2. workers[v].current_job # j
            BY <3>1, <1>2 DEF IInv, WorkerInv
        <3> QED
            BY <3>1, <3>2, <1>7, <1>12 DEF IInv, WorkerInv
    <2> QED
        BY <2>1, <2>2
<1> QED
    BY <1>11, <1>15, <1>16 DEF IInv

(* renew_job_lease preserves the invariant. *)
LEMMA RenewStep ==
    ASSUME IInv, NEW c \in claims, NEW at \in Nat, RenewJobLease(c, at)
    PROVE  IInv'
<1>1. c.job \in Jobs /\ c.worker \in Workers
    BY DEF IInv, TypeOK, JobClaim
<1> DEFINE new == [jobs[c.job] EXCEPT !.lease_expires_at = at + LeaseDuration]
<1>2. /\ jobs[c.job] \in JobRow /\ events[c.job] \in Seq(JobEvent)
      /\ RowInv(jobs[c.job], events[c.job], MaximumAttempts[c.job])
      /\ at + LeaseDuration \in Nat
    BY <1>1, RowFacts, TimingAssumption
<1>3. /\ jobs[c.job].status = "running" /\ jobs' = [jobs EXCEPT ![c.job] = new]
    BY DEF RenewJobLease, RequireActiveLease
<1>4. /\ new \in JobRow /\ new.status = jobs[c.job].status
      /\ new.attempts = jobs[c.job].attempts /\ new.version = jobs[c.job].version
      /\ new.lease_owner = jobs[c.job].lease_owner
      /\ new.lease_expires_at = at + LeaseDuration
    BY <1>2 DEF JobRow
<1> HIDE DEF new
<1>5. LeaseOK(new)
    BY <1>2, <1>3, <1>4, NullAssumption DEF LeaseOK, RowInv
<1>6. RowInv(new, events[c.job], MaximumAttempts[c.job])
    BY <1>2, <1>3, <1>4, <1>5 DEF RowInv, AttemptsOK, ChainOK, ClaimedOK
<1>7. jobs \in [Jobs -> JobRow] /\ workers \in [Workers -> WorkerRow]
    BY DEF IInv, TypeOK
<1>8. jobs' \in [Jobs -> JobRow] /\ jobs'[c.job] = new
      /\ \A k \in Jobs \ {c.job} : jobs'[k] = jobs[k]
    BY <1>1, <1>3, <1>4, <1>7
<1>9. JobInv'
    <2> SUFFICES ASSUME NEW k \in Jobs
                 PROVE  RowInv(jobs'[k], events'[k], MaximumAttempts[k])
        BY DEF JobInv
    <2>1. events' = events
        BY DEF RenewJobLease
    <2>2. CASE k = c.job
        BY <1>6, <1>8, <2>1, <2>2
    <2>3. CASE k # c.job
        BY <1>8, <2>1, <2>3 DEF IInv, JobInv
    <2> QED
        BY <2>2, <2>3
<1>10. /\ workers' \in [Workers -> WorkerRow]
       /\ \A v \in Workers : /\ workers'[v].status = workers[v].status
                              /\ workers'[v].current_job = workers[v].current_job
    BY <1>1, <1>7 DEF RenewJobLease, WorkerRow
<1>11. TypeOK'
    BY <1>8, <1>10 DEF IInv, TypeOK, RenewJobLease
<1>12. \A k \in Jobs : /\ jobs'[k].status = jobs[k].status
                       /\ jobs'[k].lease_owner = jobs[k].lease_owner
    BY <1>4, <1>8
<1>13. \A v \in Workers : workers[v].current_job \in Jobs \cup {NULL}
    BY <1>7 DEF WorkerRow
<1>14. WorkerInv'
    BY <1>10, <1>12, <1>13 DEF IInv, WorkerInv
<1> QED
    BY <1>9, <1>11, <1>14 DEF IInv

(* recover_expired_leases preserves the invariant. *)
LEMMA RecoverStep ==
    ASSUME IInv, NEW at \in Nat, RecoverExpiredLeases(at)
    PROVE  IInv'
<1> DEFINE rows == RecoveryRows(at)
           retry(j) == jobs[j].attempts < MaximumAttempts[j]
           newRow(j) == IF retry(j) THEN Requeued(jobs[j], at)
                        ELSE Released(jobs[j], "failed", jobs[j].version + 1)
           newEvent(j) == IF retry(j)
                          THEN Event(j, "lease_expired_requeued", "pending",
                                     jobs[j].lease_owner, jobs[j].version)
                          ELSE Event(j, "lease_expired_failed", "failed",
                                     jobs[j].lease_owner, jobs[j].version)
<1>1. /\ jobs' = [j \in Jobs |-> IF j \notin rows THEN jobs[j] ELSE newRow(j)]
      /\ events' = [j \in Jobs |-> IF j \notin rows THEN events[j]
                                   ELSE Append(events[j], newEvent(j))]
      /\ workers' = [w \in Workers |->
             IF \E j \in rows : jobs[j].lease_owner = w /\ workers[w].current_job = j
             THEN [workers[w] EXCEPT !.current_job = NULL]
             ELSE workers[w]]
      /\ UNCHANGED <<claims, now>>
    BY DEF RecoverExpiredLeases
<1>2. /\ jobs \in [Jobs -> JobRow] /\ workers \in [Workers -> WorkerRow]
      /\ events \in [Jobs -> Seq(JobEvent)]
    BY DEF IInv, TypeOK
<1>3. ASSUME NEW j \in rows
      PROVE  /\ j \in Jobs /\ jobs[j].status = "running"
             /\ newRow(j) \in JobRow /\ newEvent(j) \in JobEvent
             /\ RowInv(newRow(j), Append(events[j], newEvent(j)), MaximumAttempts[j])
    <2>1. j \in Jobs /\ jobs[j].status = "running"
        BY <1>3, RecoveryRowsExpired
    <2>2. jobs[j] \in JobRow /\ jobs[j].version \in Nat
          /\ jobs[j].lease_owner \in Workers \cup {NULL}
        BY <1>2, <2>1 DEF JobRow
    <2>3. CASE retry(j)
        <3> DEFINE new == Requeued(jobs[j], at)
        <3>1. /\ new \in JobRow /\ new.status = "pending"
              /\ new.version = jobs[j].version + 1 /\ new.attempts = jobs[j].attempts
              /\ new.lease_owner = NULL /\ new.lease_expires_at = NULL
            BY <2>2, RequeuedRow
        <3>2. newRow(j) = new
            BY <2>3
        <3>3. newEvent(j) = Event(j, "lease_expired_requeued", new.status,
                                  jobs[j].lease_owner, jobs[j].version)
            BY <2>3, <3>1
        <3>4. /\ "lease_expired_requeued" \in EventType \ {"claimed", "created"}
              /\ "lease_expired_requeued" \notin {"succeeded", "retry_scheduled", "failed"}
            BY DEF EventType
        <3>5. jobs[j].status # "absent" /\ new.status \notin {"running", "absent"}
            BY <2>1, <3>1
        <3> HIDE DEF new, newRow, newEvent
        <3>6. LET e == Event(j, "lease_expired_requeued", new.status, jobs[j].lease_owner, jobs[j].version)
              IN  e \in JobEvent /\ RowInv(new, Append(events[j], e), MaximumAttempts[j])
            BY <2>1, <2>2, <2>3, <3>1, <3>4, <3>5, ReleaseRow
        <3>7. /\ newEvent(j) \in JobEvent
              /\ RowInv(new, Append(events[j], newEvent(j)), MaximumAttempts[j])
            BY <3>3, <3>6
        <3> QED
            BY <2>1, <3>1, <3>2, <3>7
    <2>4. CASE ~retry(j)
        <3> DEFINE new == Released(jobs[j], "failed", jobs[j].version + 1)
        <3>1. /\ new \in JobRow /\ new.status = "failed"
              /\ new.version = jobs[j].version + 1 /\ new.attempts = jobs[j].attempts
              /\ new.lease_owner = NULL /\ new.lease_expires_at = NULL
            <4>1. "failed" \in JobStatus
                BY DEF JobStatus
            <4> QED
                BY <4>1, <2>2, ReleasedRow
        <3>2. newRow(j) = new
            BY <2>4
        <3>3. newEvent(j) = Event(j, "lease_expired_failed", new.status,
                                  jobs[j].lease_owner, jobs[j].version)
            BY <2>4, <3>1
        <3>4. /\ "lease_expired_failed" \in EventType \ {"claimed", "created"}
              /\ "lease_expired_failed" \notin {"succeeded", "retry_scheduled", "failed"}
            BY DEF EventType
        <3>5. jobs[j].status # "absent" /\ new.status \notin {"running", "absent"}
            BY <2>1, <3>1
        <3> HIDE DEF new, newRow, newEvent
        <3>6. LET e == Event(j, "lease_expired_failed", new.status, jobs[j].lease_owner, jobs[j].version)
              IN  e \in JobEvent /\ RowInv(new, Append(events[j], e), MaximumAttempts[j])
            BY <2>1, <2>2, <3>1, <3>4, <3>5, ReleaseRow
        <3>7. /\ newEvent(j) \in JobEvent
              /\ RowInv(new, Append(events[j], newEvent(j)), MaximumAttempts[j])
            BY <3>3, <3>6
        <3> QED
            BY <2>1, <3>1, <3>2, <3>7
    <2> QED
        BY <2>3, <2>4
<1> HIDE DEF newRow, newEvent, rows
<1>4. /\ jobs' \in [Jobs -> JobRow]
      /\ \A j \in Jobs \ rows : jobs'[j] = jobs[j] /\ events'[j] = events[j]
      /\ \A j \in rows : /\ jobs'[j] = newRow(j)
                          /\ events'[j] = Append(events[j], newEvent(j))
    BY <1>1, <1>2, <1>3
<1>5. events' \in [Jobs -> Seq(JobEvent)]
    <2>1. \A j \in rows : Append(events[j], newEvent(j)) \in Seq(JobEvent)
        BY <1>2, <1>3, AppendLog
    <2> QED
        BY <1>1, <1>2, <2>1
<1>6. JobInv'
    <2> SUFFICES ASSUME NEW k \in Jobs
                 PROVE  RowInv(jobs'[k], events'[k], MaximumAttempts[k])
        BY DEF JobInv
    <2>1. CASE k \in rows
        BY <1>3, <1>4, <2>1
    <2>2. CASE k \notin rows
        BY <1>4, <2>2 DEF IInv, JobInv
    <2> QED
        BY <2>1, <2>2
<1>7. workers' \in [Workers -> WorkerRow]
    BY <1>1, <1>2 DEF WorkerRow
<1>8. TypeOK'
    BY <1>1, <1>4, <1>5, <1>7 DEF IInv, TypeOK
<1>9. WorkerInv'
    <2> SUFFICES ASSUME NEW w \in Workers, workers'[w].current_job # NULL
                 PROVE  /\ workers'[w].status \in {"running", "stopping"}
                        /\ jobs'[workers'[w].current_job].status = "running"
                        /\ jobs'[workers'[w].current_job].lease_owner = w
        BY DEF WorkerInv
    <2>1. workers'[w] = workers[w] /\ workers[w].current_job \in Jobs
          /\ ~ \E j \in rows : jobs[j].lease_owner = w /\ workers[w].current_job = j
        BY <1>1, <1>2 DEF WorkerRow
    <2>2. jobs[workers[w].current_job].lease_owner = w
        BY <2>1 DEF IInv, WorkerInv
    <2>3. workers[w].current_job \notin rows
        BY <2>1, <2>2
    <2> QED
        BY <2>1, <2>3, <1>4 DEF IInv, WorkerInv
<1> QED
    BY <1>6, <1>8, <1>9 DEF IInv

(* An administrative transition of a job that holds no lease.               *)
LEMMA AdministrativeStep ==
    ASSUME IInv, NEW j \in Jobs, jobs[j].status \in {"pending", "failed"},
           NEW status \in {"cancelled", "pending"},
           NEW type \in {"cancelled", "retry_requested"},
           status = "pending" => jobs[j].attempts < MaximumAttempts[j],
           jobs' = [jobs EXCEPT ![j] = Released(@, status, @.version + 1)],
           LogEvent(j, type, status, NULL, 0),
           UNCHANGED <<workers, claims, now>>
    PROVE  IInv'
<1> DEFINE new == Released(jobs[j], status, jobs[j].version + 1)
           e == Event(j, type, new.status, NULL, 0)
<1>1. /\ jobs \in [Jobs -> JobRow] /\ workers \in [Workers -> WorkerRow]
      /\ status \in JobStatus /\ type \in EventType \ {"claimed", "created"}
    BY DEF IInv, TypeOK, JobStatus, EventType
<1>2. /\ new \in JobRow /\ new.status = status
      /\ new.version = jobs[j].version + 1 /\ new.attempts = jobs[j].attempts
      /\ new.lease_owner = NULL /\ new.lease_expires_at = NULL
    BY <1>1, ReleasedRow
<1>3. jobs' = [jobs EXCEPT ![j] = new] /\ events' = [events EXCEPT ![j] = Append(@, e)]
    BY <1>2 DEF LogEvent
<1> HIDE DEF new
<1>4. e \in JobEvent /\ RowInv(new, Append(events[j], e), MaximumAttempts[j])
    BY <1>1, <1>2, ReleaseRow
<1> HIDE DEF e
<1>5. jobs' \in [Jobs -> JobRow] /\ events' \in [Jobs -> Seq(JobEvent)] /\ JobInv'
    BY <1>2, <1>3, <1>4, OneJobStep
<1>6. TypeOK'
    BY <1>5 DEF IInv, TypeOK
<1>7. \A k \in Jobs : jobs[k].status = "running" => jobs'[k] = jobs[k]
    BY <1>1, <1>3
<1>8. \A w \in Workers : workers[w].current_job \in Jobs \cup {NULL}
    BY <1>1 DEF WorkerRow
<1>9. WorkerInv'
    BY <1>7, <1>8 DEF IInv, WorkerInv
<1> QED
    BY <1>5, <1>6, <1>9 DEF IInv

(* A worker operation leaves the job tables alone and never makes a worker  *)
(* point at another job or keep one in a status that cannot work.           *)
LEMMA WorkerTableStep ==
    ASSUME IInv, UNCHANGED JobTables, workers' \in [Workers -> WorkerRow],
           \A w \in Workers :
              workers'[w].current_job # NULL =>
                 /\ workers'[w].current_job = workers[w].current_job
                 /\ workers'[w].status \in {"running", "stopping"}
    PROVE  IInv'
<1>1. jobs' = jobs /\ events' = events /\ claims' = claims /\ now' = now
    BY DEF JobTables
<1>2. TypeOK' /\ JobInv'
    BY <1>1 DEF IInv, TypeOK, JobInv
<1>3. WorkerInv'
    BY <1>1 DEF IInv, WorkerInv
<1> QED
    BY <1>2, <1>3 DEF IInv

(* _transition_status preserves the invariant in the four ways it is used. *)
LEMMA TransitionStep ==
    ASSUME IInv, NEW w \in Workers, NEW at \in Nat,
           NEW expected, NEW status \in WorkerStatus \ {"absent"}, NEW clear \in BOOLEAN,
           TransitionStatus(w, expected, status, clear, at),
           clear \/ status \in {"running", "stopping"}
    PROVE  IInv'
<1>1. workers \in [Workers -> WorkerRow]
    BY DEF IInv, TypeOK
<1> DEFINE new == [workers[w] EXCEPT !.status = status, !.heartbeat_at = at,
                     !.current_job = IF clear THEN NULL ELSE workers[w].current_job]
<1>2. /\ new \in WorkerRow /\ new.status = status
      /\ new.current_job = IF clear THEN NULL ELSE workers[w].current_job
    BY <1>1 DEF WorkerRow
<1>3. workers' = [workers EXCEPT ![w] = new] /\ UNCHANGED JobTables
    BY DEF TransitionStatus
<1> HIDE DEF new
<1>4. /\ workers' \in [Workers -> WorkerRow] /\ workers'[w] = new
      /\ \A v \in Workers \ {w} : workers'[v] = workers[v]
    BY <1>1, <1>2, <1>3
<1> QED
    BY <1>2, <1>3, <1>4, WorkerTableStep DEF IInv, WorkerInv

(* The remaining operations on worker_instances preserve the invariant. *)
LEMMA WorkerOperationStep ==
    ASSUME IInv, NEW at \in Nat, WorkerOperation(at)
    PROVE  IInv'
<1>1. workers \in [Workers -> WorkerRow]
    BY DEF IInv, TypeOK
<1>2. ASSUME NEW w \in Workers, RegisterWorker(w, at) PROVE IInv'
    <2>1. /\ workers' \in [Workers -> WorkerRow]
          /\ workers'[w].current_job = workers[w].current_job
          /\ \A v \in Workers \ {w} : workers'[v] = workers[v]
        BY <1>1, <1>2 DEF RegisterWorker, WorkerRow, WorkerStatus
    <2>2. workers[w].current_job = NULL
        BY <1>2 DEF RegisterWorker, IInv, WorkerInv
    <2> QED
        BY <1>2, <2>1, <2>2, WorkerTableStep DEF RegisterWorker, IInv, WorkerInv
<1>3. ASSUME NEW w \in Workers, HeartbeatIdle(w, at) PROVE IInv'
    <2>1. /\ workers' \in [Workers -> WorkerRow]
          /\ workers'[w].current_job = workers[w].current_job
          /\ workers'[w].status = workers[w].status
          /\ \A v \in Workers \ {w} : workers'[v] = workers[v]
        BY <1>1, <1>3 DEF HeartbeatIdle, WorkerRow
    <2> QED
        BY <1>3, <2>1, WorkerTableStep DEF HeartbeatIdle, IInv, WorkerInv
<1>4. ASSUME NEW w \in Workers,
             MarkRunning(w, at) \/ MarkStopping(w, at) \/ MarkStopped(w, at)
                \/ MarkFailed(w, at)
      PROVE  IInv'
    <2>1. /\ "running" \in WorkerStatus \ {"absent"}
          /\ "stopping" \in WorkerStatus \ {"absent"}
          /\ "stopped" \in WorkerStatus \ {"absent"}
          /\ "failed" \in WorkerStatus \ {"absent"}
        BY DEF WorkerStatus
    <2>2. CASE MarkRunning(w, at)
        BY <2>1, <2>2, TransitionStep DEF MarkRunning
    <2>3. CASE MarkStopping(w, at)
        BY <2>1, <2>3, TransitionStep DEF MarkStopping
    <2>4. CASE MarkStopped(w, at)
        BY <2>1, <2>4, TransitionStep DEF MarkStopped
    <2>5. CASE MarkFailed(w, at)
        BY <2>1, <2>5, TransitionStep DEF MarkFailed
    <2> QED
        BY <1>4, <2>2, <2>3, <2>4, <2>5
<1>5. CASE ReconcileStaleWorkers(at)
    <2>1. /\ workers' \in [Workers -> WorkerRow]
          /\ \A v \in Workers : workers'[v].current_job = NULL \/ workers'[v] = workers[v]
        BY <1>1, <1>5 DEF ReconcileStaleWorkers, WorkerRow, WorkerStatus
    <2> QED
        BY <1>5, <2>1, WorkerTableStep DEF ReconcileStaleWorkers, IInv, WorkerInv
<1> QED
    BY <1>2, <1>3, <1>4, <1>5 DEF WorkerOperation

(* Every step of the queue preserves the invariant. *)
LEMMA NextIInv == IInv /\ [Next]_vars => IInv'
<1> SUFFICES ASSUME IInv, [Next]_vars PROVE IInv'
    OBVIOUS
<1>1. now \in Nat
    BY DEF IInv, TypeOK
<1>2. ASSUME NEW at \in 0..now, JobOperation(at) PROVE IInv'
    <2>1. at \in Nat
        BY <1>1
    <2>2. ASSUME NEW j \in Jobs, NEW key \in Keys \cup {NULL}, NEW delay \in Delays,
                 CreateJob(j, key, at + delay, at)
          PROVE  IInv'
        <3>1. at + delay \in Nat
            BY <2>1, BoundsAssumption
        <3> QED
            BY <2>1, <2>2, <3>1, CreateJobStep
    <2>3. ASSUME NEW w \in Workers, ClaimNextJob(w, at) PROVE IInv'
        BY <2>1, <2>3, ClaimStep
    <2>4. ASSUME NEW c \in claims, RenewJobLease(c, at) PROVE IInv'
        BY <2>1, <2>4, RenewStep
    <2>5. ASSUME NEW c \in claims, CompleteClaimedJob(c, at) PROVE IInv'
        BY <2>1, <2>5, CompleteStep
    <2>6. ASSUME NEW c \in claims, NEW retryable \in BOOLEAN,
                 FailClaimedJob(c, retryable, at)
          PROVE  IInv'
        BY <2>1, <2>6, FailStep
    <2>7. ASSUME RecoverExpiredLeases(at) PROVE IInv'
        BY <2>1, <2>7, RecoverStep
    <2> QED
        BY <1>2, <2>2, <2>3, <2>4, <2>5, <2>6, <2>7 DEF JobOperation
<1>3. ASSUME NEW at \in 0..now, WorkerOperation(at) PROVE IInv'
    BY <1>1, <1>3, WorkerOperationStep
<1>4. ASSUME NEW j \in Jobs, CancelPendingJob(j) PROVE IInv'
    BY <1>4, AdministrativeStep DEF CancelPendingJob
<1>5. ASSUME NEW j \in Jobs, RetryFailedJob(j) PROVE IInv'
    BY <1>5, AdministrativeStep DEF RetryFailedJob
<1>6. CASE Tick
    BY <1>6 DEF Tick, IInv, TypeOK, JobInv, WorkerInv
<1>7. CASE UNCHANGED vars
    BY <1>7 DEF vars, IInv, TypeOK, JobInv, WorkerInv
<1> QED
    BY <1>2, <1>3, <1>4, <1>5, <1>6, <1>7 DEF Next

-----------------------------------------------------------------------------
(* The theorems *)

(* The tables keep the types their columns declare. *)
THEOREM QueueTypes == Spec => []TypeOK
BY InitIInv, NextIInv, IInvImplies, PTL DEF Spec

(* A worker names a current job only while it holds that job's lease, and   *)
(* only running jobs are leased, whatever dies, lags or retries.            *)
THEOREM QueueLeaseIntegrity == Spec => []LeaseIntegrity
BY InitIInv, NextIInv, IInvImplies, PTL DEF Spec

(* A pending job always has an attempt left. *)
THEOREM QueuePendingIsClaimable == Spec => []PendingIsClaimable
BY InitIInv, NextIInv, IInvImplies, PTL DEF Spec

(* job_events is a gapless history of every job. *)
THEOREM QueueEventChain == Spec => []EventChain
BY InitIInv, NextIInv, IInvImplies, PTL DEF Spec

(* Only the claim that started an attempt finishes it. *)
THEOREM QueueFencing == Spec => []FinishedByItsClaim
BY InitIInv, NextIInv, IInvImplies, PTL DEF Spec

-----------------------------------------------------------------------------
(* What a step may do to one job *)

Finishing == {"succeeded", "retry_scheduled", "failed"}

(* The step logs that the holder of j's lease finished its attempt. *)
FinishedByHolder(j) ==
    /\ events'[j][Len(events'[j])].type \in Finishing
    /\ events'[j][Len(events'[j])].worker = jobs[j].lease_owner
    /\ events'[j][Len(events'[j])].claim = jobs[j].version

(* The last entry of a log that LogEvent extended. *)
LEMMA LastLogged ==
    ASSUME IInv, NEW c \in claims, NEW type \in EventType, NEW to \in JobStatus,
           LogEvent(c.job, type, to, c.worker, c.version)
    PROVE  LET last == events'[c.job][Len(events'[c.job])]
           IN  last.type = type /\ last.worker = c.worker /\ last.claim = c.version
<1> DEFINE e == Event(c.job, type, to, c.worker, c.version)
<1>1. /\ c.job \in Jobs /\ c.worker \in Workers /\ c.version \in Nat
      /\ events \in [Jobs -> Seq(JobEvent)] /\ jobs[c.job] \in JobRow
    BY DEF IInv, TypeOK, JobClaim
<1>2. events'[c.job] = Append(events[c.job], e)
    BY <1>1 DEF LogEvent
<1>3. e \in JobEvent /\ e.type = type /\ e.worker = c.worker /\ e.claim = c.version
    BY <1>1 DEF Event, JobEvent, JobRow
<1> HIDE DEF e
<1>4. events[c.job] \in Seq(JobEvent)
    BY <1>1
<1>5. events'[c.job][Len(events'[c.job])] = e
    BY <1>2, <1>3, <1>4, AppendLog
<1> QED
    BY <1>3, <1>5

(* A job changes only while it is absent, pending or failed, by a renewal,  *)
(* by the recovery of an expired lease, or by its lease holder.             *)
LEMMA MovedJob ==
    ASSUME IInv, Next, NEW j \in Jobs, jobs'[j] # jobs[j]
    PROVE  \/ jobs[j].status \in {"absent", "pending", "failed"}
           \/ /\ jobs[j].status = "running"
              /\ \/ jobs'[j].version = jobs[j].version
                 \/ jobs[j].lease_expires_at <= now
                 \/ FinishedByHolder(j)
<1> DEFINE Goal == \/ jobs[j].status \in {"absent", "pending", "failed"}
                   \/ /\ jobs[j].status = "running"
                      /\ \/ jobs'[j].version = jobs[j].version
                         \/ jobs[j].lease_expires_at <= now
                         \/ FinishedByHolder(j)
<1>1. /\ now \in Nat /\ jobs \in [Jobs -> JobRow]
      /\ \A c \in claims : c.job \in Jobs
    BY DEF IInv, TypeOK, JobClaim
<1>2. ASSUME NEW at \in 0..now, JobOperation(at) PROVE Goal
    <2>1. ASSUME NEW i \in Jobs, NEW key, NEW available, CreateJob(i, key, available, at)
          PROVE  Goal
        BY <1>1, <2>1 DEF CreateJob
    <2>2. ASSUME NEW w \in Workers, ClaimNextJob(w, at) PROVE Goal
        BY <1>1, <2>2 DEF ClaimNextJob, Claimable
    <2>3. ASSUME NEW c \in claims, RenewJobLease(c, at) PROVE Goal
        BY <1>1, <2>3 DEF RenewJobLease, RequireActiveLease, JobRow
    <2>4. ASSUME NEW c \in claims, NEW type \in Finishing, NEW to \in JobStatus,
                 RequireActiveLease(c, at), j = c.job,
                 LogEvent(c.job, type, to, c.worker, c.version)
          PROVE  Goal
        <3>1. type \in EventType
            BY DEF Finishing, EventType
        <3> QED
            BY <2>4, <3>1, LastLogged DEF RequireActiveLease, FinishedByHolder
    <2>5. ASSUME NEW c \in claims, CompleteClaimedJob(c, at) PROVE Goal
        <3>1. j = c.job
            BY <1>1, <2>5 DEF CompleteClaimedJob
        <3>2. "succeeded" \in Finishing /\ "succeeded" \in JobStatus
            BY DEF Finishing, JobStatus
        <3> QED
            BY <2>5, <2>4, <3>1, <3>2 DEF CompleteClaimedJob
    <2>6. ASSUME NEW c \in claims, NEW retryable \in BOOLEAN,
                 FailClaimedJob(c, retryable, at)
          PROVE  Goal
        <3>1. j = c.job
            BY <1>1, <2>6 DEF FailClaimedJob
        <3>2. /\ "retry_scheduled" \in Finishing /\ "failed" \in Finishing
              /\ "pending" \in JobStatus /\ "failed" \in JobStatus
            BY DEF Finishing, JobStatus
        <3> QED
            BY <2>6, <2>4, <3>1, <3>2 DEF FailClaimedJob
    <2>7. ASSUME RecoverExpiredLeases(at) PROVE Goal
        <3>1. j \in RecoveryRows(at)
            BY <2>7 DEF RecoverExpiredLeases
        <3>2. jobs[j].status = "running" /\ jobs[j].lease_expires_at <= at
              /\ jobs[j].lease_expires_at # NULL
            BY <3>1, RecoveryRowsExpired
        <3>3. jobs[j].lease_expires_at \in Nat
            BY <1>1, <3>2 DEF JobRow
        <3> QED
            BY <1>1, <3>2, <3>3
    <2> QED
        BY <1>2, <2>1, <2>2, <2>3, <2>5, <2>6, <2>7 DEF JobOperation
<1>3. ASSUME NEW at \in 0..now, WorkerOperation(at) PROVE jobs' = jobs
    BY <1>3 DEF WorkerOperation, RegisterWorker, HeartbeatIdle, MarkRunning,
        MarkStopping, MarkStopped, MarkFailed, TransitionStatus,
        ReconcileStaleWorkers, JobTables
<1>4. ASSUME NEW i \in Jobs, CancelPendingJob(i) \/ RetryFailedJob(i) PROVE Goal
    BY <1>1, <1>4 DEF CancelPendingJob, RetryFailedJob
<1>5. Tick => jobs' = jobs
    BY DEF Tick
<1> QED
    BY <1>2, <1>3, <1>4, <1>5 DEF Next

(* Succeeded and cancelled jobs never change again. *)
THEOREM QueueTerminalIsFinal == Spec => TerminalIsFinal
<1>1. IInv /\ [Next]_vars =>
        [\A j \in Jobs :
            jobs[j].status \in {"succeeded", "cancelled"} => jobs'[j] = jobs[j]]_vars
    BY MovedJob DEF vars
<1> QED
    BY <1>1, InitIInv, NextIInv, PTL DEF Spec, TerminalIsFinal

(* A live lease ends only by a finalization of the claim that holds it:     *)
(* neither recovery nor reconciliation nor an administrator can break it.   *)
THEOREM QueueLeaseHonoured == Spec => LeaseHonoured
<1>1. IInv /\ [Next]_vars =>
        [\A j \in Jobs :
            (/\ jobs[j].status = "running"
             /\ jobs[j].lease_expires_at > now
             /\ jobs'[j].version # jobs[j].version) =>
                LET last == events'[j][Len(events'[j])]
                IN  /\ last.type \in {"succeeded", "retry_scheduled", "failed"}
                    /\ last.worker = jobs[j].lease_owner
                    /\ last.claim = jobs[j].version]_vars
    <2> SUFFICES ASSUME IInv, Next, NEW j \in Jobs, jobs[j].status = "running",
                        jobs[j].lease_expires_at > now,
                        jobs'[j].version # jobs[j].version
                 PROVE  FinishedByHolder(j)
        BY DEF vars, FinishedByHolder, Finishing
    <2>1. now \in Nat /\ jobs[j].lease_expires_at \in Nat
        <3>1. jobs[j] \in JobRow /\ RowInv(jobs[j], events[j], MaximumAttempts[j])
            BY RowFacts
        <3> QED
            BY <3>1 DEF IInv, TypeOK, JobRow, RowInv, LeaseOK
    <2>2. jobs'[j] # jobs[j]
        OBVIOUS
    <2> QED
        BY <2>1, <2>2, MovedJob
<1> QED
    BY <1>1, InitIInv, NextIInv, PTL DEF Spec, LeaseHonoured

-----------------------------------------------------------------------------
(* The strengthening the refinement needs *)

(* A worker that has not ended works on every job that names it as its     *)
(* lease owner: a free worker therefore owns no lease, although an expired *)
(* lease may still name a worker that failed.                              *)
OwnerInv ==
    \A j \in Jobs :
        jobs[j].lease_owner # NULL =>
            \/ workers[jobs[j].lease_owner].status \in TerminalWorker
            \/ workers[jobs[j].lease_owner].current_job = j

(* The typed view of the tables that every step below uses. *)
LEMMA Tables ==
    ASSUME IInv
    PROVE  /\ jobs \in [Jobs -> JobRow] /\ workers \in [Workers -> WorkerRow]
           /\ \A c \in claims : c.job \in Jobs /\ c.worker \in Workers
           /\ \A j \in Jobs : jobs[j].lease_owner \in Workers \cup {NULL}
           /\ \A j \in Jobs : jobs[j].status = "running" <=> jobs[j].lease_owner # NULL
           /\ NULL \notin Workers /\ NULL \notin Jobs /\ now \in Nat
BY NullAssumption DEF IInv, TypeOK, JobClaim, JobRow, JobInv, RowInv, LeaseOK

(* One job is released by the worker that holds it, which becomes free. *)
LEMMA OwnerReleased ==
    ASSUME IInv, OwnerInv, NEW c \in claims, NEW at \in Nat, RequireActiveLease(c, at),
           NEW new \in JobRow, new.lease_owner = NULL,
           jobs' = [jobs EXCEPT ![c.job] = new], ClearWorkerCurrentJob(c.worker, at)
    PROVE  OwnerInv'
<1>1. /\ workers[c.worker].current_job = c.job
      /\ workers[c.worker].status \notin TerminalWorker
    BY DEF RequireActiveLease, TerminalWorker
<1>2. jobs'[c.job] = new /\ \A k \in Jobs \ {c.job} : jobs'[k] = jobs[k]
    BY Tables
<1>3. \A v \in Workers \ {c.worker} : workers'[v] = workers[v]
    BY Tables DEF ClearWorkerCurrentJob
<1> QED
    BY <1>1, <1>2, <1>3, Tables DEF OwnerInv

(* One job that no worker holds changes and stays free. *)
LEMMA OwnerUntouched ==
    ASSUME IInv, OwnerInv, NEW j \in Jobs, NEW new, new.lease_owner = NULL,
           jobs' = [jobs EXCEPT ![j] = new], workers' = workers
    PROVE  OwnerInv'
<1>1. jobs'[j] = new /\ \A k \in Jobs \ {j} : jobs'[k] = jobs[k]
    BY Tables
<1> QED
    BY <1>1, Tables DEF OwnerInv

(* No worker operation detaches a worker from its job without ending it. *)
LEMMA OwnerWorkerOperation ==
    ASSUME IInv, OwnerInv, NEW at \in Nat, WorkerOperation(at)
    PROVE  OwnerInv' /\ jobs' = jobs
<1>1. workers \in [Workers -> WorkerRow]
    BY Tables
<1> DEFINE Kept == /\ jobs' = jobs
                   /\ \A w \in Workers :
                         \/ workers'[w].status \in TerminalWorker
                         \/ /\ workers[w].status \notin TerminalWorker
                            /\ workers'[w].current_job = workers[w].current_job
                         \/ workers'[w] = workers[w]
<1>2. Kept
    <2>1. ASSUME NEW w \in Workers, NEW new \in WorkerRow, UNCHANGED JobTables,
                 workers' = [workers EXCEPT ![w] = new],
                 \/ new.status \in TerminalWorker
                 \/ /\ workers[w].status \notin TerminalWorker
                    /\ new.current_job = workers[w].current_job
          PROVE  Kept
        <3>1. workers'[w] = new /\ \A v \in Workers \ {w} : workers'[v] = workers[v]
            BY <1>1, <2>1
        <3> QED
            BY <2>1, <3>1 DEF JobTables
    <2>2. ASSUME NEW w \in Workers, RegisterWorker(w, at) PROVE Kept
        <3> DEFINE new == [workers[w] EXCEPT !.status = "starting", !.heartbeat_at = at]
        <3>1. new \in WorkerRow /\ new.current_job = workers[w].current_job
            BY <1>1 DEF WorkerRow, WorkerStatus
        <3> QED
            BY <2>1, <2>2, <3>1 DEF RegisterWorker, TerminalWorker
    <2>3. ASSUME NEW w \in Workers, NEW expected, NEW clear, NEW status \in WorkerStatus,
                 TransitionStatus(w, expected, status, clear, at),
                 status \in TerminalWorker \/ (~clear /\ expected \cap TerminalWorker = {})
          PROVE  Kept
        <3> DEFINE new == [workers[w] EXCEPT !.status = status, !.heartbeat_at = at,
                             !.current_job = IF clear THEN NULL ELSE workers[w].current_job]
        <3>1. /\ new \in WorkerRow /\ new.status = status
              /\ ~clear => new.current_job = workers[w].current_job
            BY <1>1 DEF WorkerRow
        <3>2. workers' = [workers EXCEPT ![w] = new] /\ workers[w].status \in expected
              /\ UNCHANGED JobTables
            BY <2>3 DEF TransitionStatus
        <3> HIDE DEF new
        <3> QED
            BY <2>1, <2>3, <3>1, <3>2
    <2>4. ASSUME NEW w \in Workers, HeartbeatIdle(w, at) PROVE Kept
        <3> DEFINE new == [workers[w] EXCEPT !.heartbeat_at = at]
        <3>1. new \in WorkerRow /\ new.current_job = workers[w].current_job
            BY <1>1 DEF WorkerRow
        <3> QED
            BY <2>1, <2>4, <3>1 DEF HeartbeatIdle, TerminalWorker
    <2>5. ASSUME NEW w \in Workers,
                 \/ MarkRunning(w, at) \/ MarkStopping(w, at)
                 \/ MarkStopped(w, at) \/ MarkFailed(w, at)
          PROVE  Kept
        BY <2>3, <2>5 DEF MarkRunning, MarkStopping, MarkStopped, MarkFailed,
            TerminalWorker, WorkerStatus
    <2>6. CASE ReconcileStaleWorkers(at)
        BY <1>1, <2>6 DEF ReconcileStaleWorkers, JobTables, TerminalWorker
    <2> QED
        BY <2>2, <2>4, <2>5, <2>6 DEF WorkerOperation
<1>3. ASSUME NEW j \in Jobs, jobs[j].lease_owner # NULL
      PROVE  \/ workers'[jobs[j].lease_owner].status \in TerminalWorker
             \/ workers'[jobs[j].lease_owner].current_job = j
    <2>1. jobs[j].lease_owner \in Workers
        BY <1>3, Tables
    <2> QED
        BY <1>2, <1>3, <2>1 DEF OwnerInv
<1> QED
    BY <1>2, <1>3 DEF OwnerInv

-----------------------------------------------------------------------------
(* Every operation is a step of the life of a job, or changes none of it. *)

(* The abstract state, as the tables show it. *)
StatusMap == [j \in Jobs |-> jobs[j].status]
HolderMap == [j \in Jobs |-> jobs[j].lease_owner]
AttemptMap == [j \in Jobs |-> jobs[j].attempts]

(* The functional form of an update. *)
LEMMA Updated ==
    ASSUME NEW S, NEW j, NEW v, NEW f, NEW g,
           f = [k \in S |-> f[k]], g = [k \in S |-> g[k]],
           \A k \in S : g[k] = IF k = j THEN v ELSE f[k]
    PROVE  g = [f EXCEPT ![j] = v]
OBVIOUS

(* A step that writes no row but j's. *)
OnlyRow(j) == \A k \in Jobs \ {j} : jobs'[k] = jobs[k]

LEMMA OneRowWritten ==
    ASSUME IInv, NEW j \in Jobs, NEW new, jobs' = [jobs EXCEPT ![j] = new]
    PROVE  OnlyRow(j) /\ jobs'[j] = new
BY Tables DEF OnlyRow

(* A change of one row changes the abstract state of that job only. *)
LEMMA OneRow ==
    ASSUME NEW j \in Jobs, OnlyRow(j)
    PROVE  /\ StatusMap' = [StatusMap EXCEPT ![j] = jobs'[j].status]
           /\ HolderMap' = [HolderMap EXCEPT ![j] = jobs'[j].lease_owner]
           /\ AttemptMap' = [AttemptMap EXCEPT ![j] = jobs'[j].attempts]
           /\ jobs[j].lease_owner = jobs'[j].lease_owner => HolderMap' = HolderMap
           /\ jobs[j].attempts = jobs'[j].attempts => AttemptMap' = AttemptMap
<1>1. StatusMap' = [StatusMap EXCEPT ![j] = jobs'[j].status]
    <2>1. StatusMap = [k \in Jobs |-> StatusMap[k]] /\ StatusMap' = [k \in Jobs |-> StatusMap'[k]]
        BY DEF StatusMap
    <2>2. \A k \in Jobs : StatusMap'[k] = IF k = j THEN jobs'[j].status ELSE StatusMap[k]
        BY DEF StatusMap, OnlyRow
    <2> QED
        BY <2>1, <2>2, Updated
<1>2. HolderMap' = [HolderMap EXCEPT ![j] = jobs'[j].lease_owner]
    <2>1. HolderMap = [k \in Jobs |-> HolderMap[k]] /\ HolderMap' = [k \in Jobs |-> HolderMap'[k]]
        BY DEF HolderMap
    <2>2. \A k \in Jobs : HolderMap'[k] = IF k = j THEN jobs'[j].lease_owner ELSE HolderMap[k]
        BY DEF HolderMap, OnlyRow
    <2> QED
        BY <2>1, <2>2, Updated
<1>3. AttemptMap' = [AttemptMap EXCEPT ![j] = jobs'[j].attempts]
    <2>1. AttemptMap = [k \in Jobs |-> AttemptMap[k]] /\ AttemptMap' = [k \in Jobs |-> AttemptMap'[k]]
        BY DEF AttemptMap
    <2>2. \A k \in Jobs : AttemptMap'[k] = IF k = j THEN jobs'[j].attempts ELSE AttemptMap[k]
        BY DEF AttemptMap, OnlyRow
    <2> QED
        BY <2>1, <2>2, Updated
<1>4. jobs[j].lease_owner = jobs'[j].lease_owner => HolderMap' = HolderMap
    BY DEF HolderMap, OnlyRow
<1>5. jobs[j].attempts = jobs'[j].attempts => AttemptMap' = AttemptMap
    BY DEF AttemptMap, OnlyRow
<1> QED
    BY <1>1, <1>2, <1>3, <1>4, <1>5

(* create_job submits the job. *)
LEMMA CreateIsSubmit ==
    ASSUME IInv, OwnerInv, NEW j \in Jobs, NEW key, NEW available, NEW at,
           CreateJob(j, key, available, at)
    PROVE  Lifecycle!Submit(j) /\ OwnerInv'
<1> DEFINE new == [status |-> "pending", attempts |-> 0, version |-> 1,
                   available_at |-> available, created_at |-> at,
                   lease_owner |-> NULL, lease_expires_at |-> NULL, key |-> key]
<1>1. jobs[j] = AbsentJob /\ AbsentJob.lease_owner = NULL /\ AbsentJob.attempts = 0
    BY RowFacts DEF CreateJob, RowInv, AbsentJob
<1>2. /\ jobs' = [jobs EXCEPT ![j] = new] /\ workers' = workers /\ jobs[j].status = "absent"
      /\ new.status = "pending" /\ new.lease_owner = NULL /\ new.attempts = 0
    BY DEF CreateJob
<1> HIDE DEF new
<1>3. OwnerInv'
    BY <1>2, OwnerUntouched
<1>4. Lifecycle!Submit(j)
    <2>1. /\ StatusMap' = [StatusMap EXCEPT ![j] = "pending"]
          /\ HolderMap' = HolderMap /\ AttemptMap' = AttemptMap
        BY <1>1, <1>2, OneRowWritten, OneRow
    <2>2. StatusMap[j] = "absent"
        BY <1>2 DEF StatusMap
    <2> QED
        BY <2>1, <2>2, Zenon DEF Lifecycle!Submit, StatusMap, HolderMap, AttemptMap
<1> QED
    BY <1>3, <1>4

(* claim_next_job starts an attempt by a worker that works on nothing. *)
LEMMA ClaimIsStart ==
    ASSUME IInv, OwnerInv, NEW w \in Workers, NEW at \in Nat, ClaimNextJob(w, at)
    PROVE  (\E j \in Jobs : Lifecycle!Start(j, w)) /\ OwnerInv'
<1>1. PICK j \in Claimable(at) :
        /\ jobs' = [jobs EXCEPT ![j] = Claimed(jobs[j], w, at)]
        /\ workers' = [workers EXCEPT ![w] =
                         [workers[w] EXCEPT !.current_job = j, !.heartbeat_at = at]]
    BY DEF ClaimNextJob
<1> DEFINE new == Claimed(jobs[j], w, at)
<1>2. /\ j \in Jobs /\ jobs[j].status = "pending" /\ jobs[j].attempts < MaximumAttempts[j]
      /\ jobs[j].lease_owner = NULL
    BY DEF Claimable
<1>3. /\ new.status = "running" /\ new.lease_owner = w
      /\ new.attempts = jobs[j].attempts + 1
    BY <1>2, RowFacts, ClaimedRow
<1> HIDE DEF new
<1>4. workers[w].current_job = NULL /\ workers[w].status \notin TerminalWorker
    BY DEF ClaimNextJob, TerminalWorker
<1>5. \A k \in Jobs : jobs[k].lease_owner # w
    BY <1>4, Tables DEF OwnerInv
<1>6. /\ workers'[w].current_job = j
      /\ \A v \in Workers \ {w} : workers'[v] = workers[v]
    BY <1>1, Tables DEF WorkerRow
<1>7. /\ jobs'[j].lease_owner = w
      /\ \A k \in Jobs \ {j} : jobs'[k] = jobs[k]
    BY <1>1, <1>2, <1>3, Tables DEF new
<1>8. OwnerInv'
    BY <1>5, <1>6, <1>7, Tables DEF OwnerInv
<1>9. Lifecycle!Start(j, w)
    <2>1. jobs' = [jobs EXCEPT ![j] = new]
        BY <1>1 DEF new
    <2>2. /\ StatusMap' = [StatusMap EXCEPT ![j] = "running"]
          /\ HolderMap' = [HolderMap EXCEPT ![j] = w]
          /\ AttemptMap' = [AttemptMap EXCEPT ![j] = jobs[j].attempts + 1]
        <3>1. OnlyRow(j) /\ jobs'[j] = new
            BY <1>2, <2>1, OneRowWritten
        <3> QED
            BY <1>2, <1>3, <3>1, OneRow
    <2>3. /\ StatusMap[j] = "pending" /\ AttemptMap[j] < MaximumAttempts[j]
          /\ AttemptMap[j] = jobs[j].attempts /\ \A i \in Jobs : HolderMap[i] # w
        BY <1>2, <1>5 DEF StatusMap, AttemptMap, HolderMap
    <2>4. AttemptMap' = [AttemptMap EXCEPT ![j] = AttemptMap[j] + 1]
        BY <2>2, <2>3
    <2> QED
        BY <2>2, <2>3, <2>4, Zenon
        DEF Lifecycle!Start, Lifecycle!MayRepeat, StatusMap, AttemptMap, HolderMap
<1> QED
    BY <1>2, <1>8, <1>9

(* A released row ends the attempt of the worker that held it. *)
LEMMA ReleaseIsFinish ==
    ASSUME IInv, OwnerInv, NEW c \in claims, NEW at \in Nat, RequireActiveLease(c, at),
           NEW new \in JobRow, jobs' = [jobs EXCEPT ![c.job] = new],
           ClearWorkerCurrentJob(c.worker, at),
           new.lease_owner = NULL, new.attempts = jobs[c.job].attempts,
           \/ new.status \in {"succeeded", "failed"}
           \/ new.status = "pending" /\ jobs[c.job].attempts < MaximumAttempts[c.job]
    PROVE  Lifecycle!Finish(c.job) /\ OwnerInv'
<1>1. OwnerInv'
    BY OwnerReleased
<1>2. c.job \in Jobs /\ jobs[c.job].status = "running"
    BY Tables DEF RequireActiveLease
<1>3. Lifecycle!Finish(c.job)
    <2>1. /\ StatusMap' = [StatusMap EXCEPT ![c.job] = new.status]
          /\ HolderMap' = [HolderMap EXCEPT ![c.job] = NULL] /\ AttemptMap' = AttemptMap
        <3>1. OnlyRow(c.job) /\ jobs'[c.job] = new
            BY <1>2, OneRowWritten
        <3> QED
            BY <1>2, <3>1, OneRow
    <2>2. /\ StatusMap[c.job] = "running"
          /\ new.status \in {"succeeded", "failed"}
                \cup (IF AttemptMap[c.job] < MaximumAttempts[c.job] THEN {"pending"} ELSE {})
        BY <1>2 DEF StatusMap, AttemptMap
    <2> QED
        BY <2>1, <2>2, Zenon
        DEF Lifecycle!Finish, Lifecycle!MayRepeat, StatusMap, HolderMap, AttemptMap
<1> QED
    BY <1>1, <1>3

(* complete_claimed_job finishes an attempt. *)
LEMMA CompleteIsFinish ==
    ASSUME IInv, OwnerInv, NEW c \in claims, NEW at \in Nat, CompleteClaimedJob(c, at)
    PROVE  Lifecycle!Finish(c.job) /\ OwnerInv'
<1> DEFINE new == Released(jobs[c.job], "succeeded", jobs[c.job].version + 1)
<1>1. c.job \in Jobs /\ jobs[c.job] \in JobRow /\ "succeeded" \in JobStatus
    BY Tables DEF JobStatus
<1>2. /\ new \in JobRow /\ new.status = "succeeded" /\ new.lease_owner = NULL
      /\ new.attempts = jobs[c.job].attempts
    BY <1>1, ReleasedRow
<1>3. /\ jobs' = [jobs EXCEPT ![c.job] = new] /\ RequireActiveLease(c, at)
      /\ ClearWorkerCurrentJob(c.worker, at)
    BY DEF CompleteClaimedJob
<1> HIDE DEF new
<1> QED
    BY <1>2, <1>3, ReleaseIsFinish

(* fail_claimed_job finishes an attempt, for good or to be repeated. *)
LEMMA FailIsFinish ==
    ASSUME IInv, OwnerInv, NEW c \in claims, NEW retryable \in BOOLEAN, NEW at \in Nat,
           FailClaimedJob(c, retryable, at)
    PROVE  Lifecycle!Finish(c.job) /\ OwnerInv'
<1>1. c.job \in Jobs /\ jobs[c.job] \in JobRow /\ "failed" \in JobStatus
    BY Tables DEF JobStatus
<1>2. RequireActiveLease(c, at) /\ ClearWorkerCurrentJob(c.worker, at)
    BY DEF FailClaimedJob
<1>3. CASE /\ jobs[c.job].attempts < MaximumAttempts[c.job]
           /\ jobs' = [jobs EXCEPT ![c.job] = Requeued(jobs[c.job], at)]
    <2> DEFINE new == Requeued(jobs[c.job], at)
    <2>1. /\ new \in JobRow /\ new.status = "pending" /\ new.lease_owner = NULL
          /\ new.attempts = jobs[c.job].attempts
        BY <1>1, RequeuedRow
    <2> QED
        BY <1>2, <1>3, <2>1, ReleaseIsFinish
<1>4. CASE jobs' = [jobs EXCEPT ![c.job] =
                      Released(jobs[c.job], "failed", jobs[c.job].version + 1)]
    <2> DEFINE new == Released(jobs[c.job], "failed", jobs[c.job].version + 1)
    <2>1. /\ new \in JobRow /\ new.status = "failed" /\ new.lease_owner = NULL
          /\ new.attempts = jobs[c.job].attempts
        BY <1>1, ReleasedRow
    <2> QED
        BY <1>2, <1>4, <2>1, ReleaseIsFinish
<1> QED
    BY <1>3, <1>4 DEF FailClaimedJob

(* renew_job_lease changes nothing of the life of a job. *)
LEMMA RenewIsStutter ==
    ASSUME IInv, OwnerInv, NEW c \in claims, NEW at, RenewJobLease(c, at)
    PROVE  OwnerInv' /\ UNCHANGED Lifecycle!lifecycleVars
<1>1. \A j \in Jobs : /\ jobs'[j].status = jobs[j].status
                      /\ jobs'[j].lease_owner = jobs[j].lease_owner
                      /\ jobs'[j].attempts = jobs[j].attempts
    BY Tables DEF RenewJobLease, JobRow
<1>2. \A w \in Workers : /\ workers'[w].status = workers[w].status
                         /\ workers'[w].current_job = workers[w].current_job
    BY Tables DEF RenewJobLease, WorkerRow
<1>3. OwnerInv'
    <2> SUFFICES ASSUME NEW j \in Jobs, jobs'[j].lease_owner # NULL
                 PROVE  \/ workers'[jobs'[j].lease_owner].status \in TerminalWorker
                        \/ workers'[jobs'[j].lease_owner].current_job = j
        BY DEF OwnerInv
    <2>1. jobs[j].lease_owner \in Workers /\ jobs[j].lease_owner # NULL
        BY <1>1, Tables
    <2> QED
        BY <1>1, <1>2, <2>1 DEF OwnerInv
<1> QED
    BY <1>1, <1>3 DEF Lifecycle!lifecycleVars

(* recover_expired_leases loses the attempts of the rows it recovers. *)
LEMMA RecoverIsLose ==
    ASSUME IInv, OwnerInv, NEW at \in Nat, RecoverExpiredLeases(at)
    PROVE  (\E lost \in SUBSET Jobs : Lifecycle!Lose(lost)) /\ OwnerInv'
<1> DEFINE repeat(j) == jobs[j].attempts < MaximumAttempts[j]
<1>0. PICK lost \in SUBSET Jobs : lost = RecoveryRows(at)
    BY RecoveryRowsExpired
<1>1. \A j \in lost : jobs[j].status = "running"
    BY <1>0, RecoveryRowsExpired
<1>2. ASSUME NEW j \in Jobs
      PROVE  /\ j \notin lost => jobs'[j] = jobs[j]
             /\ j \in lost =>
                  /\ jobs'[j].status = IF repeat(j) THEN "pending" ELSE "failed"
                  /\ jobs'[j].lease_owner = NULL
                  /\ jobs'[j].attempts = jobs[j].attempts
    <2>1. jobs'[j] = IF j \notin lost THEN jobs[j]
                     ELSE IF repeat(j) THEN Requeued(jobs[j], at)
                     ELSE Released(jobs[j], "failed", jobs[j].version + 1)
        BY <1>0 DEF RecoverExpiredLeases
    <2>2. jobs[j] \in JobRow /\ "failed" \in JobStatus
        BY RowFacts DEF JobStatus
    <2> HIDE DEF repeat
    <2>3. CASE j \in lost /\ repeat(j)
        <3>1. jobs'[j] = Requeued(jobs[j], at)
            BY <2>1, <2>3
        <3> QED
            BY <2>2, <2>3, <3>1, RequeuedRow
    <2>4. CASE j \in lost /\ ~repeat(j)
        <3>1. jobs'[j] = Released(jobs[j], "failed", jobs[j].version + 1)
            BY <2>1, <2>4
        <3> QED
            BY <2>2, <2>4, <3>1, ReleasedRow
    <2> QED
        BY <2>1, <2>3, <2>4
<1>3. lost # {}
    BY <1>0 DEF RecoverExpiredLeases
<1>4. StatusMap' = [j \in Jobs |-> IF j \notin lost THEN StatusMap[j]
                                  ELSE IF AttemptMap[j] < MaximumAttempts[j]
                                  THEN "pending" ELSE "failed"]
    BY <1>2 DEF StatusMap, AttemptMap
<1>5. HolderMap' = [j \in Jobs |-> IF j \in lost THEN NULL ELSE HolderMap[j]]
    BY <1>2 DEF HolderMap
<1>6. AttemptMap' = AttemptMap
    BY <1>2 DEF AttemptMap
<1>7. \A j \in lost : StatusMap[j] = "running"
    BY <1>1 DEF StatusMap
<1>8. Lifecycle!Lose(lost)
    BY <1>3, <1>4, <1>5, <1>6, <1>7, Zenon
    DEF Lifecycle!Lose, Lifecycle!MayRepeat, StatusMap, HolderMap, AttemptMap
<1>9. OwnerInv'
    <2> SUFFICES ASSUME NEW j \in Jobs, jobs'[j].lease_owner # NULL
                 PROVE  \/ workers'[jobs'[j].lease_owner].status \in TerminalWorker
                        \/ workers'[jobs'[j].lease_owner].current_job = j
        BY DEF OwnerInv
    <2> DEFINE w == jobs[j].lease_owner
    <2>1. j \notin lost /\ jobs'[j] = jobs[j] /\ w \in Workers
        BY <1>2, Tables
    <2>2. workers'[w] = IF \E i \in lost : jobs[i].lease_owner = w /\ workers[w].current_job = i
                        THEN [workers[w] EXCEPT !.current_job = NULL]
                        ELSE workers[w]
        BY <1>0, <2>1 DEF RecoverExpiredLeases
    <2>3. workers[w].status \in TerminalWorker \/ workers[w].current_job = j
        BY <2>1 DEF OwnerInv
    <2>4. [workers[w] EXCEPT !.current_job = NULL].status = workers[w].status
        BY <2>1, Tables DEF WorkerRow
    <2> HIDE DEF w
    <2>5. workers'[w].status \in TerminalWorker \/ workers'[w].current_job = j
        BY <2>1, <2>2, <2>3, <2>4
    <2> QED
        BY <2>1, <2>5 DEF w
<1> QED
    BY <1>8, <1>9

(* An administrator withdraws or reopens a job. *)
LEMMA AdministrativeIsWithdrawOrReopen ==
    ASSUME IInv, OwnerInv, NEW j \in Jobs, CancelPendingJob(j) \/ RetryFailedJob(j)
    PROVE  (Lifecycle!Withdraw(j) \/ Lifecycle!Reopen(j)) /\ OwnerInv'
<1>1. jobs[j] \in JobRow /\ jobs[j].version + 1 \in Nat
    BY RowFacts
<1>2. ASSUME NEW status \in {"pending", "cancelled"}, jobs[j].lease_owner = NULL,
             jobs' = [jobs EXCEPT ![j] = Released(jobs[j], status, jobs[j].version + 1)],
             workers' = workers
      PROVE  /\ StatusMap' = [StatusMap EXCEPT ![j] = status]
             /\ HolderMap' = HolderMap /\ AttemptMap' = AttemptMap /\ OwnerInv'
    <2> DEFINE new == Released(jobs[j], status, jobs[j].version + 1)
    <2>0. status \in JobStatus
        BY DEF JobStatus
    <2>1. new.status = status /\ new.lease_owner = NULL /\ new.attempts = jobs[j].attempts
        BY <1>1, <2>0, ReleasedRow
    <2>2. jobs' = [jobs EXCEPT ![j] = new]
        BY <1>2
    <2> HIDE DEF new
    <2>3. OnlyRow(j) /\ jobs'[j] = new
        BY <2>2, OneRowWritten
    <2>4. OwnerInv'
        BY <1>2, <2>1, <2>2, OwnerUntouched
    <2> QED
        BY <1>2, <2>1, <2>3, <2>4, OneRow
<1>3. CASE CancelPendingJob(j)
    <2>1. /\ StatusMap' = [StatusMap EXCEPT ![j] = "cancelled"]
          /\ HolderMap' = HolderMap /\ AttemptMap' = AttemptMap /\ OwnerInv'
        <3>1. /\ jobs[j].lease_owner = NULL /\ workers' = workers
              /\ jobs' = [jobs EXCEPT ![j] = Released(jobs[j], "cancelled", jobs[j].version + 1)]
            BY <1>3 DEF CancelPendingJob
        <3> QED
            BY <1>2, <3>1
    <2>2. StatusMap[j] \in {"pending", "failed"}
        BY <1>3 DEF CancelPendingJob, StatusMap
    <2>3. Lifecycle!Withdraw(j)
        BY <2>1, <2>2, Zenon DEF Lifecycle!Withdraw, StatusMap, HolderMap, AttemptMap
    <2> QED
        BY <2>1, <2>3
<1>4. CASE RetryFailedJob(j)
    <2>1. /\ StatusMap' = [StatusMap EXCEPT ![j] = "pending"]
          /\ HolderMap' = HolderMap /\ AttemptMap' = AttemptMap /\ OwnerInv'
        BY <1>2, <1>4 DEF RetryFailedJob
    <2>2. StatusMap[j] = "failed" /\ AttemptMap[j] < MaximumAttempts[j]
        BY <1>4 DEF RetryFailedJob, StatusMap, AttemptMap
    <2>3. Lifecycle!Reopen(j)
        BY <2>1, <2>2, Zenon
        DEF Lifecycle!Reopen, Lifecycle!MayRepeat, StatusMap, HolderMap, AttemptMap
    <2> QED
        BY <2>1, <2>3
<1> QED
    BY <1>3, <1>4

(* One step of the queue is one step of the life of its jobs, or none. *)
LEMMA LifecycleStep ==
    ASSUME IInv, OwnerInv, Next
    PROVE  OwnerInv' /\ [Lifecycle!LifecycleNext]_(Lifecycle!lifecycleVars)
<1> DEFINE Goal == OwnerInv' /\ [Lifecycle!LifecycleNext]_(Lifecycle!lifecycleVars)
<1>1. jobs' = jobs => UNCHANGED Lifecycle!lifecycleVars
    BY DEF Lifecycle!lifecycleVars
<1>2. ASSUME NEW at \in 0..now, JobOperation(at) PROVE Goal
    <2>1. at \in Nat
        BY Tables
    <2>2. ASSUME NEW j \in Jobs, NEW key, NEW available, CreateJob(j, key, available, at)
          PROVE  Goal
        BY <2>2, CreateIsSubmit DEF Lifecycle!LifecycleNext
    <2>3. ASSUME NEW w \in Workers, ClaimNextJob(w, at) PROVE Goal
        BY <2>1, <2>3, ClaimIsStart DEF Lifecycle!LifecycleNext
    <2>4. ASSUME NEW c \in claims, RenewJobLease(c, at) PROVE Goal
        BY <2>4, RenewIsStutter
    <2>5. ASSUME NEW c \in claims, CompleteClaimedJob(c, at) PROVE Goal
        BY <2>1, <2>5, CompleteIsFinish, Tables DEF Lifecycle!LifecycleNext
    <2>6. ASSUME NEW c \in claims, NEW retryable \in BOOLEAN, FailClaimedJob(c, retryable, at)
          PROVE  Goal
        BY <2>1, <2>6, FailIsFinish, Tables DEF Lifecycle!LifecycleNext
    <2>7. ASSUME RecoverExpiredLeases(at) PROVE Goal
        BY <2>1, <2>7, RecoverIsLose DEF Lifecycle!LifecycleNext
    <2> QED
        BY <1>2, <2>2, <2>3, <2>4, <2>5, <2>6, <2>7 DEF JobOperation
<1>3. ASSUME NEW at \in 0..now, WorkerOperation(at) PROVE Goal
    <2>1. at \in Nat
        BY Tables
    <2> QED
        BY <1>1, <1>3, <2>1, OwnerWorkerOperation
<1>4. ASSUME NEW j \in Jobs, CancelPendingJob(j) \/ RetryFailedJob(j) PROVE Goal
    BY <1>4, AdministrativeIsWithdrawOrReopen DEF Lifecycle!LifecycleNext
<1>5. CASE Tick
    BY <1>1, <1>5 DEF Tick, OwnerInv
<1> QED
    BY <1>2, <1>3, <1>4, <1>5 DEF Next

(* The queue implements the life of a job: whatever leases expire, clocks   *)
(* lag and claims are presented late, a job has one worker at a time, a     *)
(* worker one job at a time, every attempt ends once and none is one too    *)
(* many.                                                                    *)
THEOREM QueueRefinesLifecycle == Spec => RefinesLifecycle
<1>1. Init => OwnerInv /\ Lifecycle!LifecycleInit
    <2> SUFFICES ASSUME Init PROVE OwnerInv /\ Lifecycle!LifecycleInit
        OBVIOUS
    <2>1. \A j \in Jobs : /\ jobs[j].status = "absent" /\ jobs[j].lease_owner = NULL
                          /\ jobs[j].attempts = 0
        BY DEF Init, AbsentJob
    <2> QED
        BY <2>1 DEF OwnerInv, Lifecycle!LifecycleInit
<1>2. IInv /\ OwnerInv /\ [Next]_vars
        => OwnerInv' /\ [Lifecycle!LifecycleNext]_(Lifecycle!lifecycleVars)
    <2>1. CASE Next
        BY <2>1, LifecycleStep
    <2>2. CASE UNCHANGED vars
        BY <2>2 DEF vars, OwnerInv, Lifecycle!lifecycleVars
    <2> QED
        BY <2>1, <2>2
<1> QED
    BY <1>1, <1>2, InitIInv, NextIInv, PTL DEF Spec, RefinesLifecycle, Lifecycle!LifecycleSpec

=============================================================================
