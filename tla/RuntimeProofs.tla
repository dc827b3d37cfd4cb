--------------------------- MODULE RuntimeProofs ----------------------------
(***************************************************************************)
(* The worker processes use the queue as JobQueue describes its callers,   *)
(* for every set of jobs and workers and every lease, backoff, attempt and *)
(* lag setting: whatever is proved of JobQueue holds of the running system.*)
(***************************************************************************)
EXTENDS WorkerRuntime, JobQueueProofs

-----------------------------------------------------------------------------
(* The inductive invariant *)

(* A clock is read for a call, which is made at most MaxLag later. *)
ClockInv(w) ==
    /\ \A at \in {proc[w].at, proc[w].hbAt} : at # NULL => Sampled(at)
    /\ proc[w].pc \notin Calls => proc[w].at = NULL

WithHeartbeat == {"handler", "join", "mark_failed", "raised"}

(* A process that executes a job, or whose heartbeat thread is alive, holds *)
(* a claim of its own; the thread and the knowledge that the lease is lost  *)
(* survive only until the process has left run().                           *)
MemoryInv(w) ==
    /\ (proc[w].pc \in {"handler", "join", "finalize"} \/ proc[w].hb # "off")
            => proc[w].claim \in claims /\ proc[w].claim.worker = w
    /\ proc[w].hb # "off" => proc[w].pc \in WithHeartbeat
    /\ proc[w].hb = "renew" => proc[w].hbAt # NULL
    /\ proc[w].lost => proc[w].pc \in WithHeartbeat

Jobless == {"register", "mark_running", "reconcile", "startup_recover", "loop",
            "idle_heartbeat", "idle_recover", "claim", "returned"}

(* What the tables say of the process: it has no job while it looks for     *)
(* one, its row is terminal once run() has returned, and its heartbeat and  *)
(* its lease move together.  A clock read for mark_stopping is not older    *)
(* than the last heartbeat, because the heartbeat thread has ended.         *)
TableInv(w) ==
    /\ workers[w].heartbeat_at <= now
    /\ proc[w].pc = "returned" => workers[w].status \in TerminalWorker
    /\ workers[w].current_job # NULL =>
        /\ proc[w].pc \notin Jobless
        /\ jobs[workers[w].current_job].lease_expires_at
                <= workers[w].heartbeat_at + LeaseDuration
        /\ (proc[w].pc = "mark_stopping" /\ proc[w].at # NULL)
                => workers[w].heartbeat_at <= proc[w].at

ProcInv(w) == ClockInv(w) /\ MemoryInv(w) /\ TableInv(w)

RInv == IInv /\ proc \in [Workers -> Process] /\ \A w \in Workers : ProcInv(w)

(* What the invariant says of the tables and of one process. *)
LEMMA RuntimeFacts ==
    ASSUME RInv, NEW w \in Workers
    PROVE  /\ IInv /\ TypeOK
           /\ jobs \in [Jobs -> JobRow] /\ workers \in [Workers -> WorkerRow]
           /\ claims \subseteq JobClaim /\ now \in Nat
           /\ proc \in [Workers -> Process] /\ proc[w] \in Process
           /\ proc[w].at \in Nat \cup {NULL} /\ proc[w].hbAt \in Nat \cup {NULL}
           /\ workers[w].heartbeat_at \in Nat
           /\ NULL \notin Nat /\ NULL \notin Jobs /\ NULL \notin Workers
           /\ LeaseDuration \in Nat /\ MaxLag \in Nat
           /\ ProcInv(w)
BY NullAssumption, TimingAssumption, BoundsAssumption
   DEF RInv, IInv, TypeOK, Process, WorkerRow

LEMMA RuntimeInvImplies ==
    RInv => RuntimeConsistent
<1> SUFFICES ASSUME RInv PROVE RuntimeConsistent
    OBVIOUS
<1>1. RuntimeTypeOK
    BY DEF RInv, IInv, RuntimeTypeOK
<1>2. CleanReturn
    BY RuntimeFacts DEF CleanReturn, ProcInv, MemoryInv, TableInv, WithHeartbeat, Jobless
<1>3. HeartbeatCoversLease
    BY RuntimeFacts DEF HeartbeatCoversLease, ProcInv, TableInv
<1> QED
    BY <1>1, <1>2, <1>3 DEF RuntimeConsistent

LEMMA RuntimeInitInv ==
    RuntimeInit => RInv
<1> SUFFICES ASSUME RuntimeInit PROVE RInv
    OBVIOUS
<1>1. IInv
    BY InitIInv DEF RuntimeInit
<1>2. proc \in [Workers -> Process]
    BY DEF RuntimeInit, NewProcess, Process, Calls
<1>3. ASSUME NEW w \in Workers PROVE ProcInv(w)
    <2>1. proc[w] = NewProcess /\ workers[w] = AbsentWorker /\ now = 0
        BY DEF RuntimeInit, Init
    <2> QED
        BY <2>1 DEF ProcInv, ClockInv, MemoryInv, TableInv, NewProcess, AbsentWorker
<1> QED
    BY <1>1, <1>2, <1>3 DEF RInv

-----------------------------------------------------------------------------
(* What a step leaves of a process that does not take it *)

(* The row of v keeps what the invariant says of it, or loses its job. *)
Undisturbed(v) ==
    /\ workers[v].status \in TerminalWorker => workers'[v].status \in TerminalWorker
    /\ workers'[v].heartbeat_at <= now
    /\ workers'[v].current_job # NULL =>
        /\ workers'[v] = workers[v]
        /\ jobs'[workers[v].current_job].lease_expires_at
               = jobs[workers[v].current_job].lease_expires_at

LEMMA UndisturbedKeeps ==
    ASSUME RInv, NEW v \in Workers, proc'[v] = proc[v], Undisturbed(v),
           claims \subseteq claims', now' = now
    PROVE  ProcInv(v)'
<1>1. ProcInv(v)
    BY DEF RInv
<1> QED
    BY <1>1 DEF ProcInv, ClockInv, Sampled, MemoryInv, TableInv, Undisturbed

(* A step of the process w. *)
LEMMA ProcessStep ==
    ASSUME RInv, NEW w \in Workers, NEW new \in Process,
           proc' = [proc EXCEPT ![w] = new], IInv',
           claims \subseteq claims', now' = now,
           \A v \in Workers \ {w} : Undisturbed(v), ProcInv(w)'
    PROVE  RInv'
<1>1. proc' \in [Workers -> Process] /\ proc'[w] = new
      /\ \A v \in Workers \ {w} : proc'[v] = proc[v]
    BY DEF RInv
<1>2. \A v \in Workers \ {w} : ProcInv(v)'
    BY <1>1, UndisturbedKeeps
<1> QED
    BY <1>1, <1>2 DEF RInv

LEMMA UnchangedUndisturbed ==
    ASSUME RInv, UNCHANGED Queue, NEW v \in Workers
    PROVE  Undisturbed(v)
BY RuntimeFacts DEF Undisturbed, Queue, ProcInv, TableInv

(* A step of w that leaves the tables alone. *)
LEMMA LocalStep ==
    ASSUME RInv, NEW w \in Workers, NEW new \in Process,
           proc' = [proc EXCEPT ![w] = new], UNCHANGED Queue,
           \A at \in {new.at, new.hbAt} : at # NULL => Sampled(at),
           new.pc \notin Calls => new.at = NULL,
           (new.pc \in {"handler", "join", "finalize"} \/ new.hb # "off")
                => new.claim \in claims /\ new.claim.worker = w,
           new.hb # "off" => new.pc \in WithHeartbeat,
           new.hb = "renew" => new.hbAt # NULL,
           new.lost => new.pc \in WithHeartbeat,
           new.pc = "returned" => workers[w].status \in TerminalWorker,
           workers[w].current_job # NULL =>
              /\ new.pc \notin Jobless
              /\ (new.pc = "mark_stopping" /\ new.at # NULL)
                     => workers[w].heartbeat_at <= new.at
    PROVE  RInv' /\ UNCHANGED vars
<1>1. proc'[w] = new
    BY RuntimeFacts
<1>2. UNCHANGED vars
    BY DEF Queue, vars
<1>3. IInv'
    BY <1>2, NextIInv DEF RInv
<1>4. ProcInv(w)'
    BY <1>1, RuntimeFacts DEF Queue, ProcInv, ClockInv, Sampled, MemoryInv, TableInv
<1> QED
    BY <1>2, <1>3, <1>4, UnchangedUndisturbed, ProcessStep DEF Queue

-----------------------------------------------------------------------------
(* The steps of a process in general *)

ProcessPC == Calls \cup {"loop", "handler", "join"} \cup Ended

Going(w, pc) == [proc[w] EXCEPT !.pc = pc, !.at = NULL]

Leaving(w, pc) ==
    [NewProcess EXCEPT
        !.pc = pc, !.stop = proc[w].stop,
        !.claim = IF proc[w].hb = "off" THEN NULL ELSE proc[w].claim,
        !.hb = proc[w].hb, !.hbAt = proc[w].hbAt, !.hbStop = proc[w].hbStop]

LEMMA GoingProcess ==
    ASSUME RInv, NEW w \in Workers, NEW pc \in ProcessPC
    PROVE  LET new == Going(w, pc)
           IN  /\ Goto(w, pc) <=> proc' = [proc EXCEPT ![w] = new]
               /\ new \in Process
               /\ new.pc = pc /\ new.at = NULL /\ new.claim = proc[w].claim
               /\ new.hb = proc[w].hb /\ new.hbAt = proc[w].hbAt /\ new.lost = proc[w].lost
<1>1. proc \in [Workers -> Process] /\ proc[w] \in Process
    BY DEF RInv
<1> QED
    BY <1>1 DEF Going, Goto, Process, ProcessPC

LEMMA LeavingProcess ==
    ASSUME RInv, NEW w \in Workers, NEW pc \in ProcessPC
    PROVE  LET new == Leaving(w, pc)
           IN  /\ Leave(w, pc) <=> proc' = [proc EXCEPT ![w] = new]
               /\ new \in Process
               /\ new.pc = pc /\ new.at = NULL /\ new.lost = FALSE
               /\ new.claim = IF proc[w].hb = "off" THEN NULL ELSE proc[w].claim
               /\ new.hb = proc[w].hb /\ new.hbAt = proc[w].hbAt
<1>1. proc \in [Workers -> Process] /\ proc[w] \in Process
    BY DEF RInv
<1>2. Leave(w, pc) <=> proc' = [proc EXCEPT ![w] = Leaving(w, pc)]
    BY DEF Leave, Leaving
<1> DEFINE old == proc[w]
           kept == IF old.hb = "off" THEN NULL ELSE old.claim
<1>3. /\ old.stop \in BOOLEAN /\ old.hb \in {"off", "wait", "renew"}
      /\ old.hbAt \in Nat \cup {NULL} /\ old.hbStop \in BOOLEAN
      /\ kept \in JobClaim \cup {NULL}
    BY <1>1 DEF Process
<1>4. Leaving(w, pc) =
         [NewProcess EXCEPT !.pc = pc, !.stop = old.stop, !.claim = kept, !.hb = old.hb,
                            !.hbAt = old.hbAt, !.hbStop = old.hbStop]
    BY DEF Leaving
<1> HIDE DEF kept, old
<1>5. NewProcess \in Process
    BY DEF NewProcess, Process, Calls
<1>6. Leaving(w, pc) \in Process
    BY <1>3, <1>4, <1>5 DEF Process, ProcessPC
<1>7. /\ Leaving(w, pc).pc = pc /\ Leaving(w, pc).at = NULL /\ Leaving(w, pc).lost = FALSE
      /\ Leaving(w, pc).claim = kept
      /\ Leaving(w, pc).hb = old.hb /\ Leaving(w, pc).hbAt = old.hbAt
    BY <1>3, <1>4, <1>5 DEF Process, NewProcess
<1> QED
    BY <1>2, <1>7, <1>6 DEF kept, old

(* A call presents a clock reading that JobQueue allows. *)
LEMMA CallIsQueueStep ==
    ASSUME RInv, NEW w \in Workers, NEW at \in {proc[w].at, proc[w].hbAt}, at # NULL,
           JobOperation(at) \/ WorkerOperation(at)
    PROVE  [Next]_vars /\ IInv'
<1>1. at \in 0..now /\ Sampled(at)
    BY RuntimeFacts DEF ProcInv, ClockInv, Sampled
<1> QED
    BY <1>1, NextIInv DEF Next, RInv

LEMMA CallTime ==
    ASSUME RInv, NEW w \in Workers, NEW at \in {proc[w].at, proc[w].hbAt}, at # NULL
    PROVE  at \in Nat /\ at <= now
BY RuntimeFacts DEF ProcInv, ClockInv, Sampled

(* A call returned to a process without a heartbeat thread, which goes on.  *)
LEMMA GoOn ==
    ASSUME RInv, NEW w \in Workers, NEW pc \in ProcessPC \ {"handler", "join", "finalize", "returned"},
           Goto(w, pc), proc[w].pc \notin WithHeartbeat \/ pc \in WithHeartbeat,
           IInv', claims \subseteq claims', now' = now,
           \A v \in Workers \ {w} : Undisturbed(v),
           workers'[w].heartbeat_at <= now,
           workers'[w].current_job # NULL =>
              /\ pc \notin Jobless
              /\ jobs'[workers'[w].current_job].lease_expires_at
                    <= workers'[w].heartbeat_at + LeaseDuration
    PROVE  RInv'
<1> DEFINE new == Going(w, pc)
<1>1. /\ proc' = [proc EXCEPT ![w] = new] /\ new \in Process
      /\ new.pc = pc /\ new.at = NULL /\ new.claim = proc[w].claim
      /\ new.hb = proc[w].hb /\ new.hbAt = proc[w].hbAt /\ new.lost = proc[w].lost
    BY GoingProcess
<1> HIDE DEF new
<1>2. proc'[w] = new
    BY <1>1, RuntimeFacts
<1>3. ProcInv(w)'
    BY <1>1, <1>2, RuntimeFacts DEF ProcInv, ClockInv, Sampled, MemoryInv, TableInv
<1> QED
    BY <1>1, <1>3, ProcessStep

(* The same for a process that leaves run() or an execution.                *)
LEMMA GoAway ==
    ASSUME RInv, NEW w \in Workers, NEW pc \in {"loop", "mark_stopping", "returned", "raised"},
           Leave(w, pc), proc[w].pc \notin WithHeartbeat \/ pc \in WithHeartbeat,
           IInv', claims \subseteq claims', now' = now,
           \A v \in Workers \ {w} : Undisturbed(v),
           workers'[w].heartbeat_at <= now,
           pc = "returned" => workers'[w].status \in TerminalWorker,
           workers'[w].current_job # NULL =>
              /\ pc \notin Jobless
              /\ jobs'[workers'[w].current_job].lease_expires_at
                    <= workers'[w].heartbeat_at + LeaseDuration
    PROVE  RInv'
<1> DEFINE new == Leaving(w, pc)
<1>1. pc \in ProcessPC
    BY DEF ProcessPC, Calls, Ended
<1>2. /\ proc' = [proc EXCEPT ![w] = new] /\ new \in Process
      /\ new.pc = pc /\ new.at = NULL /\ new.lost = FALSE
      /\ new.claim = IF proc[w].hb = "off" THEN NULL ELSE proc[w].claim
      /\ new.hb = proc[w].hb /\ new.hbAt = proc[w].hbAt
    BY <1>1, LeavingProcess
<1> HIDE DEF new
<1>3. proc'[w] = new
    BY <1>2, RuntimeFacts
<1>4. ProcInv(w)'
    BY <1>2, <1>3, RuntimeFacts DEF ProcInv, ClockInv, Sampled, MemoryInv, TableInv
<1> QED
    BY <1>2, <1>4, ProcessStep

-----------------------------------------------------------------------------
(* What the operations of the queue do to the rows of workers *)

(* An operation that writes one row of worker_instances. *)
LEMMA OneWorkerEffect ==
    ASSUME RInv, NEW w \in Workers, NEW new, UNCHANGED JobTables,
           workers' = [workers EXCEPT ![w] = new]
    PROVE  /\ workers'[w] = new /\ jobs' = jobs /\ claims' = claims /\ now' = now
           /\ \A v \in Workers \ {w} : Undisturbed(v)
BY RuntimeFacts DEF JobTables, Undisturbed, ProcInv, TableInv

(* The two forms of a transition: the worker keeps its job, or is cleared.   *)
LEMMA KeepingEffect ==
    ASSUME RInv, NEW w \in Workers, NEW expected, NEW status, NEW at,
           TransitionStatus(w, expected, status, FALSE, at)
    PROVE  /\ workers'[w].status = status /\ workers'[w].heartbeat_at = at
           /\ workers'[w].current_job = workers[w].current_job
           /\ jobs' = jobs /\ claims' = claims /\ now' = now
           /\ \A v \in Workers \ {w} : Undisturbed(v)
<1> DEFINE new == [workers[w] EXCEPT !.status = status, !.heartbeat_at = at,
                     !.current_job = workers[w].current_job]
<1>1. workers' = [workers EXCEPT ![w] = new] /\ UNCHANGED JobTables
    BY DEF TransitionStatus
<1>2. new.status = status /\ new.heartbeat_at = at /\ new.current_job = workers[w].current_job
    <2>1. workers[w] \in WorkerRow
        BY RuntimeFacts
    <2> QED
        BY <2>1 DEF WorkerRow
<1> HIDE DEF new
<1> QED
    BY <1>1, <1>2, OneWorkerEffect

LEMMA ClearingEffect ==
    ASSUME RInv, NEW w \in Workers, NEW expected, NEW status, NEW at,
           TransitionStatus(w, expected, status, TRUE, at)
    PROVE  /\ workers'[w].status = status /\ workers'[w].heartbeat_at = at
           /\ workers'[w].current_job = NULL
           /\ jobs' = jobs /\ claims' = claims /\ now' = now
           /\ \A v \in Workers \ {w} : Undisturbed(v)
<1> DEFINE new == [workers[w] EXCEPT !.status = status, !.heartbeat_at = at,
                     !.current_job = NULL]
<1>1. workers' = [workers EXCEPT ![w] = new] /\ UNCHANGED JobTables
    BY DEF TransitionStatus
<1>2. new.status = status /\ new.heartbeat_at = at /\ new.current_job = NULL
    <2>1. workers[w] \in WorkerRow
        BY RuntimeFacts
    <2> QED
        BY <2>1 DEF WorkerRow
<1> HIDE DEF new
<1> QED
    BY <1>1, <1>2, OneWorkerEffect

(* reconcile_stale takes the job of a stale worker away, and no other.      *)
LEMMA ReconcileEffect ==
    ASSUME RInv, NEW at \in Nat, at <= now, ReconcileStaleWorkers(at)
    PROVE  /\ claims' = claims /\ now' = now
           /\ \A v \in Workers : Undisturbed(v)
<1>1. jobs' = jobs /\ claims' = claims /\ now' = now
    BY DEF ReconcileStaleWorkers, JobTables
<1>2. ASSUME NEW v \in Workers PROVE Undisturbed(v)
    <2>1. workers'[v] = IF v \in StaleWorkers(at)
                        THEN [status |-> "failed", heartbeat_at |-> at, current_job |-> NULL]
                        ELSE workers[v]
        BY DEF ReconcileStaleWorkers
    <2> QED
        BY <1>1, <2>1, RuntimeFacts DEF Undisturbed, ProcInv, TableInv, TerminalWorker
<1> QED
    BY <1>1, <1>2

(* recover_expired detaches the owner of every job it takes back.           *)
LEMMA RecoverEffect ==
    ASSUME RInv, NEW at \in Nat, RecoverExpiredLeases(at)
    PROVE  /\ claims' = claims /\ now' = now
           /\ \A v \in Workers : Undisturbed(v)
<1>1. claims' = claims /\ now' = now
    BY DEF RecoverExpiredLeases
<1>2. ASSUME NEW v \in Workers PROVE Undisturbed(v)
    <2>1. workers'[v] =
             IF \E j \in RecoveryRows(at) : jobs[j].lease_owner = v /\ workers[v].current_job = j
             THEN [workers[v] EXCEPT !.current_job = NULL] ELSE workers[v]
        BY DEF RecoverExpiredLeases
    <2>2. /\ workers'[v].status = workers[v].status
          /\ workers'[v].heartbeat_at = workers[v].heartbeat_at
        BY <2>1, RuntimeFacts DEF WorkerRow
    <2>3. ASSUME workers'[v].current_job # NULL
          PROVE  /\ workers'[v] = workers[v]
                 /\ jobs'[workers[v].current_job] = jobs[workers[v].current_job]
        <3>1. /\ workers'[v] = workers[v]
              /\ \A j \in RecoveryRows(at) : jobs[j].lease_owner = v => workers[v].current_job # j
            BY <2>1, <2>3, RuntimeFacts DEF WorkerRow
        <3>2. /\ workers[v].current_job \in Jobs
              /\ jobs[workers[v].current_job].lease_owner = v
            BY <2>3, <3>1, RuntimeFacts DEF WorkerRow, RInv, IInv, WorkerInv
        <3> QED
            BY <3>1, <3>2 DEF RecoverExpiredLeases
    <2> QED
        BY <2>2, <2>3, RuntimeFacts DEF Undisturbed, ProcInv, TableInv
<1> QED
    BY <1>1, <1>2

(* An operation on a job that w holds, or that nobody holds: the jobs of    *)
(* the other workers stay as they are.                                      *)
LEMMA OneJobEffect ==
    ASSUME RInv, NEW w \in Workers, NEW j \in Jobs, NEW new, NEW row,
           jobs' = [jobs EXCEPT ![j] = new], workers' = [workers EXCEPT ![w] = row],
           jobs[j].status # "running" \/ jobs[j].lease_owner = w
    PROVE  /\ jobs'[j] = new /\ workers'[w] = row
           /\ \A v \in Workers \ {w} : Undisturbed(v)
<1>1. jobs'[j] = new /\ workers'[w] = row
    BY RuntimeFacts
<1>2. ASSUME NEW v \in Workers \ {w} PROVE Undisturbed(v)
    <2>1. workers'[v] = workers[v]
        BY RuntimeFacts
    <2>2. ASSUME workers[v].current_job # NULL
          PROVE  jobs'[workers[v].current_job] = jobs[workers[v].current_job]
        BY <2>2, RuntimeFacts DEF WorkerRow, RInv, IInv, WorkerInv
    <2> QED
        BY <2>1, <2>2, RuntimeFacts DEF Undisturbed, ProcInv, TableInv
<1> QED
    BY <1>1, <1>2

(* An administrative operation or a new job: no worker holds it.            *)
LEMMA FreeJobEffect ==
    ASSUME RInv, NEW j \in Jobs, NEW new, jobs' = [jobs EXCEPT ![j] = new],
           workers' = workers, jobs[j].status # "running"
    PROVE  \A v \in Workers : Undisturbed(v)
<1> SUFFICES ASSUME NEW v \in Workers PROVE Undisturbed(v)
    OBVIOUS
<1>1. ASSUME workers[v].current_job # NULL
      PROVE  jobs'[workers[v].current_job] = jobs[workers[v].current_job]
    BY <1>1, RuntimeFacts DEF WorkerRow, RInv, IInv, WorkerInv
<1> QED
    BY <1>1, RuntimeFacts DEF Undisturbed, ProcInv, TableInv

(* A heartbeat thread or a finalization writes the row and the job of the   *)
(* claim it was given.                                                      *)
LEMMA FencedRows ==
    ASSUME RInv, NEW w \in Workers, proc[w].claim \in claims, proc[w].claim.worker = w,
           NEW at, RequireActiveLease(proc[w].claim, at)
    PROVE  /\ proc[w].claim.job \in Jobs
           /\ jobs[proc[w].claim.job].status = "running"
           /\ jobs[proc[w].claim.job].lease_owner = w
           /\ workers[w].current_job = proc[w].claim.job
BY RuntimeFacts DEF RequireActiveLease, JobClaim

-----------------------------------------------------------------------------
(* The actions of a process: each is a step of the queue, or none, and keeps *)
(* the invariant.                                                            *)

(* A process outside an execution has neither heartbeat thread nor job.      *)
LEMMA Outside ==
    ASSUME RInv, NEW w \in Workers, proc[w].pc \in Jobless
    PROVE  proc[w].pc \notin WithHeartbeat /\ workers[w].current_job = NULL
BY RuntimeFacts DEF ProcInv, TableInv, Jobless, WithHeartbeat

(* A worker that is not running or stopping has no job.                      *)
LEMMA NoJob ==
    ASSUME RInv, NEW w \in Workers, workers[w].status \notin {"running", "stopping"}
    PROVE  workers[w].current_job = NULL
BY DEF RInv, IInv, WorkerInv

LEMMA SampleStep ==
    ASSUME RInv, NEW w \in Workers, Sample(w)
    PROVE  RInv' /\ [Next]_vars
<1> DEFINE new == [proc[w] EXCEPT !.at = now]
<1>1. /\ proc' = [proc EXCEPT ![w] = new] /\ new \in Process
      /\ new.pc = proc[w].pc /\ new.at = now /\ new.claim = proc[w].claim
      /\ new.hb = proc[w].hb /\ new.hbAt = proc[w].hbAt /\ new.lost = proc[w].lost
    <2>1. proc' = [proc EXCEPT ![w] = new]
        BY DEF Sample
    <2>2. proc[w] \in Process /\ now \in Nat \cup {NULL}
        BY RuntimeFacts
    <2> QED
        BY <2>1, <2>2 DEF Process
<1> HIDE DEF new
<1>2. Sampled(now)
    BY RuntimeFacts DEF Sampled
<1>3. UNCHANGED Queue /\ proc[w].pc \in Calls
    BY DEF Sample
<1>4. /\ \A at \in {new.at, new.hbAt} : at # NULL => Sampled(at)
      /\ (new.pc \in {"handler", "join", "finalize"} \/ new.hb # "off")
            => new.claim \in claims /\ new.claim.worker = w
      /\ new.hb # "off" => new.pc \in WithHeartbeat
      /\ new.hb = "renew" => new.hbAt # NULL
      /\ new.lost => new.pc \in WithHeartbeat
    BY <1>1, <1>2, RuntimeFacts DEF ProcInv, ClockInv, MemoryInv
<1>5. /\ new.pc = "returned" => workers[w].status \in TerminalWorker
      /\ workers[w].current_job # NULL =>
            /\ new.pc \notin Jobless
            /\ (new.pc = "mark_stopping" /\ new.at # NULL) => workers[w].heartbeat_at <= new.at
    BY <1>1, RuntimeFacts DEF ProcInv, TableInv
<1>6. RInv' /\ UNCHANGED vars
    BY <1>1, <1>3, <1>4, <1>5, LocalStep
<1> QED
    BY <1>6

LEMMA RegisterStep ==
    ASSUME RInv, NEW w \in Workers, Register(w)
    PROVE  RInv' /\ [Next]_vars
<1> DEFINE at == proc[w].at
           new == [workers[w] EXCEPT !.status = "starting", !.heartbeat_at = at]
<1>1. proc[w].pc = "register" /\ at # NULL /\ RegisterWorker(w, at) /\ Goto(w, "mark_running")
    BY DEF Register, Calling
<1>2. at \in Nat /\ at <= now
    BY <1>1, CallTime
<1>3. [Next]_vars /\ IInv'
    BY <1>1, CallIsQueueStep DEF WorkerOperation
<1>4. workers[w].current_job = NULL
    BY <1>1, NoJob DEF RegisterWorker
<1>5. new.heartbeat_at = at /\ new.current_job = NULL
    BY <1>4, RuntimeFacts DEF WorkerRow
<1>6. UNCHANGED JobTables /\ workers' = [workers EXCEPT ![w] = new]
    BY <1>1 DEF RegisterWorker
<1> HIDE DEF new
<1>7. /\ workers'[w] = new /\ jobs' = jobs /\ claims' = claims /\ now' = now
      /\ \A v \in Workers \ {w} : Undisturbed(v)
    BY <1>6, OneWorkerEffect
<1>8. "mark_running" \in ProcessPC \ {"handler", "join", "finalize", "returned"}
    BY DEF ProcessPC, Calls
<1> QED
    BY <1>1, <1>2, <1>3, <1>5, <1>7, <1>8, GoOn DEF WithHeartbeat

LEMMA BecomeRunningStep ==
    ASSUME RInv, NEW w \in Workers, BecomeRunning(w)
    PROVE  RInv' /\ [Next]_vars
<1> DEFINE at == proc[w].at
<1>1. proc[w].pc = "mark_running" /\ at # NULL /\ MarkRunning(w, at) /\ Goto(w, "reconcile")
    BY DEF BecomeRunning, Calling
<1>2. at \in Nat /\ at <= now
    BY <1>1, CallTime
<1>3. [Next]_vars /\ IInv'
    BY <1>1, CallIsQueueStep DEF WorkerOperation
<1>4. workers[w].current_job = NULL
    BY <1>1, Outside DEF Jobless
<1>5. /\ workers'[w].heartbeat_at = at /\ workers'[w].current_job = NULL
      /\ jobs' = jobs /\ claims' = claims /\ now' = now
      /\ \A v \in Workers \ {w} : Undisturbed(v)
    <2>1. TransitionStatus(w, {"starting"}, "running", FALSE, at)
        BY <1>1 DEF MarkRunning
    <2> QED
        BY <1>4, <2>1, KeepingEffect
<1>6. "reconcile" \in ProcessPC \ {"handler", "join", "finalize", "returned"}
    BY DEF ProcessPC, Calls
<1> QED
    BY <1>1, <1>2, <1>3, <1>5, <1>6, GoOn DEF WithHeartbeat

(* A call that returns to the loop without having given w a job.             *)
LEMMA JoblessStep ==
    ASSUME RInv, NEW w \in Workers, NEW pc \in Jobless \ {"returned"},
           proc[w].pc \in Jobless, Goto(w, pc), IInv',
           claims' = claims, now' = now, \A v \in Workers : Undisturbed(v)
    PROVE  RInv'
<1>1. pc \in ProcessPC \ {"handler", "join", "finalize", "returned"}
    BY DEF Jobless, ProcessPC, Calls
<1>2. proc[w].pc \notin WithHeartbeat /\ workers[w].current_job = NULL
    BY Outside
<1>3. workers'[w].heartbeat_at <= now /\ workers'[w].current_job = NULL
    BY <1>2 DEF Undisturbed
<1> QED
    BY <1>1, <1>2, <1>3, GoOn

LEMMA StartupReconcileStep ==
    ASSUME RInv, NEW w \in Workers, StartupReconcile(w)
    PROVE  RInv' /\ [Next]_vars
<1> DEFINE at == proc[w].at
<1>1. proc[w].pc = "reconcile" /\ at # NULL /\ Goto(w, "startup_recover")
    BY DEF StartupReconcile, Calling
<1>2. /\ [Next]_vars /\ IInv' /\ claims' = claims /\ now' = now
      /\ \A v \in Workers : Undisturbed(v)
    <2>1. CASE ReconcileStaleWorkers(at)
        BY <1>1, <2>1, CallTime, CallIsQueueStep, ReconcileEffect DEF WorkerOperation
    <2>2. CASE UNCHANGED Queue
        BY <2>2, NextIInv, UnchangedUndisturbed DEF RInv, Queue, vars
    <2> QED
        BY <2>1, <2>2 DEF StartupReconcile
<1> QED
    BY <1>1, <1>2, JoblessStep DEF Jobless

LEMMA RecoverCallStep ==
    ASSUME RInv, NEW w \in Workers, NEW pc \in Jobless, NEW next \in Jobless \ {"returned"},
           Recover(w, pc, next)
    PROVE  RInv' /\ [Next]_vars
<1> DEFINE at == proc[w].at
<1>1. proc[w].pc = pc /\ at # NULL /\ Goto(w, next)
    BY DEF Recover, Calling
<1>2. /\ [Next]_vars /\ IInv' /\ claims' = claims /\ now' = now
      /\ \A v \in Workers : Undisturbed(v)
    <2>1. CASE RecoverExpiredLeases(at)
        BY <1>1, <2>1, CallTime, CallIsQueueStep, RecoverEffect DEF JobOperation
    <2>2. CASE UNCHANGED Queue
        BY <2>2, NextIInv, UnchangedUndisturbed DEF RInv, Queue, vars
    <2> QED
        BY <2>1, <2>2 DEF Recover
<1> QED
    BY <1>1, <1>2, JoblessStep

(* A step that only moves the process, whose memory stays otherwise.         *)
LEMMA GotoStep ==
    ASSUME RInv, NEW w \in Workers, NEW pc \in ProcessPC \ {"handler", "join", "finalize", "returned"},
           Goto(w, pc), UNCHANGED Queue,
           proc[w].pc \notin WithHeartbeat \/ pc \in WithHeartbeat,
           workers[w].current_job = NULL \/ pc \notin Jobless
    PROVE  RInv' /\ [Next]_vars
<1>1. /\ [Next]_vars /\ IInv' /\ claims' = claims /\ now' = now
      /\ workers' = workers /\ jobs' = jobs
    BY NextIInv DEF RInv, Queue, vars
<1>2. /\ workers'[w].heartbeat_at <= now
      /\ workers'[w].current_job # NULL =>
             jobs'[workers'[w].current_job].lease_expires_at
                <= workers'[w].heartbeat_at + LeaseDuration
    BY <1>1, RuntimeFacts DEF ProcInv, TableInv
<1> QED
    BY <1>1, <1>2, UnchangedUndisturbed, GoOn

LEMMA LoopStep ==
    ASSUME RInv, NEW w \in Workers, Loop(w)
    PROVE  RInv' /\ [Next]_vars
<1>1. proc[w].pc = "loop" /\ UNCHANGED Queue
    BY DEF Loop
<1>2. proc[w].pc \notin WithHeartbeat /\ workers[w].current_job = NULL
    BY <1>1, Outside DEF Jobless
<1>3. PICK pc \in {"mark_stopping", "idle_heartbeat", "idle_recover", "claim"} : Goto(w, pc)
    BY DEF Loop
<1>4. pc \in ProcessPC \ {"handler", "join", "finalize", "returned"}
    BY DEF ProcessPC, Calls
<1> QED
    BY <1>1, <1>2, <1>3, <1>4, GotoStep

LEMMA IdleHeartbeatStep ==
    ASSUME RInv, NEW w \in Workers, IdleHeartbeat(w)
    PROVE  RInv' /\ [Next]_vars
<1> DEFINE at == proc[w].at
           new == [workers[w] EXCEPT !.heartbeat_at = at]
<1>1. proc[w].pc = "idle_heartbeat" /\ at # NULL /\ HeartbeatIdle(w, at)
    BY DEF IdleHeartbeat, Calling
<1>2. at \in Nat /\ at <= now
    BY <1>1, CallTime
<1>3. [Next]_vars /\ IInv'
    BY <1>1, CallIsQueueStep DEF WorkerOperation
<1>4. proc[w].pc \notin WithHeartbeat /\ workers[w].current_job = NULL
    BY <1>1, Outside DEF Jobless
<1>5. new.heartbeat_at = at /\ new.current_job = NULL
    BY <1>4, RuntimeFacts DEF WorkerRow
<1>6. UNCHANGED JobTables /\ workers' = [workers EXCEPT ![w] = new]
    BY <1>1 DEF HeartbeatIdle
<1> HIDE DEF new
<1>7. /\ workers'[w] = new /\ claims' = claims /\ now' = now
      /\ \A v \in Workers \ {w} : Undisturbed(v)
    BY <1>6, OneWorkerEffect
<1>8. PICK pc \in {"idle_recover", "claim"} : Goto(w, pc)
    BY DEF IdleHeartbeat
<1>9. pc \in ProcessPC \ {"handler", "join", "finalize", "returned"}
    BY DEF ProcessPC, Calls
<1> QED
    BY <1>2, <1>3, <1>4, <1>5, <1>7, <1>8, <1>9, GoOn

(* claim_next: heartbeat and lease are written with one clock reading.       *)
LEMMA ClaimCallStep ==
    ASSUME RInv, NEW w \in Workers, Claim(w)
    PROVE  RInv' /\ [Next]_vars
<1> DEFINE at == proc[w].at
<1>1. proc[w].pc = "claim" /\ at # NULL /\ ClaimNextJob(w, at)
    BY DEF Claim, Calling
<1>2. at \in Nat /\ at <= now
    BY <1>1, CallTime
<1>3. [Next]_vars /\ IInv'
    BY <1>1, CallIsQueueStep DEF JobOperation
<1>4. PICK j \in Claimable(at) :
          /\ jobs' = [jobs EXCEPT ![j] = Claimed(@, w, at)]
          /\ workers' = [workers EXCEPT ![w] = [@ EXCEPT !.current_job = j, !.heartbeat_at = at]]
          /\ claims' = claims \cup {[job |-> j, worker |-> w, version |-> jobs[j].version + 1,
                                     attempt |-> jobs[j].attempts + 1]}
    BY <1>1 DEF ClaimNextJob
<1>5. j \in Jobs /\ jobs[j].status = "pending"
    BY DEF Claimable
<1> DEFINE row == [workers[w] EXCEPT !.current_job = j, !.heartbeat_at = at]
           taken == Claimed(jobs[j], w, at)
           c == [job |-> j, worker |-> w, version |-> jobs[j].version + 1,
                 attempt |-> jobs[j].attempts + 1]
<1>6. row.current_job = j /\ row.heartbeat_at = at
    BY RuntimeFacts DEF WorkerRow
<1>7. taken.lease_expires_at = at + LeaseDuration
    <2> DEFINE held == jobs[j]
               read == at
    <2>1. held \in JobRow /\ read \in Nat /\ LeaseDuration \in Nat
        BY <1>2, <1>5, RuntimeFacts
    <2>2. taken = Claimed(held, w, read)
        OBVIOUS
    <2> HIDE DEF held, taken, read
    <2>3. taken.lease_expires_at = read + LeaseDuration
        BY <2>1, <2>2, ClaimedRow
    <2> QED
        BY <2>3 DEF read
<1>8. jobs' = [jobs EXCEPT ![j] = taken] /\ workers' = [workers EXCEPT ![w] = row]
    BY <1>4
<1>9. c \in JobClaim /\ c.worker = w
    BY <1>5, RuntimeFacts DEF JobClaim, JobRow
<1>10. claims' = claims \cup {c} /\ now' = now
    BY <1>1, <1>4 DEF ClaimNextJob
<1> DEFINE new == [proc[w] EXCEPT !.at = NULL, !.claim = c, !.pc = "handler",
                      !.ctxStop = proc[w].stop, !.lost = FALSE, !.outcome = "none",
                      !.hb = "wait", !.hbStop = FALSE]
<1> HIDE DEF row, taken, c
<1>11. proc' = [proc EXCEPT ![w] = new]
    BY <1>10 DEF Claim
<1>12. /\ new \in Process /\ new.pc = "handler" /\ new.at = NULL /\ new.claim = c
       /\ new.hb = "wait" /\ new.hbAt = proc[w].hbAt /\ new.lost = FALSE
    <2> DEFINE old == proc[w]
               stopped == old.stop
    <2>1. stopped \in BOOLEAN /\ old \in Process
        BY RuntimeFacts DEF Process
    <2>2. new = [old EXCEPT !.at = NULL, !.claim = c, !.pc = "handler", !.ctxStop = stopped,
                            !.lost = FALSE, !.outcome = "none", !.hb = "wait", !.hbStop = FALSE]
        OBVIOUS
    <2> HIDE DEF old, stopped, new
    <2>3. /\ new \in Process /\ new.pc = "handler" /\ new.at = NULL /\ new.claim = c
          /\ new.hb = "wait" /\ new.hbAt = old.hbAt /\ new.lost = FALSE
        BY <1>9, <2>1, <2>2 DEF Process
    <2> QED
        BY <2>3 DEF old
<1> HIDE DEF new
<1>13. /\ jobs'[j] = taken /\ workers'[w] = row
       /\ \A v \in Workers \ {w} : Undisturbed(v)
    BY <1>5, <1>8, OneJobEffect
<1>14. proc'[w] = new
    BY <1>11, RuntimeFacts
<1>15. ProcInv(w)'
    BY <1>2, <1>6, <1>7, <1>9, <1>10, <1>12, <1>13, <1>14, RuntimeFacts
       DEF ProcInv, ClockInv, Sampled, MemoryInv, TableInv, WithHeartbeat, Jobless
<1> QED
    BY <1>3, <1>10, <1>11, <1>12, <1>13, <1>15, ProcessStep

LEMMA ClaimNoneStep ==
    ASSUME RInv, NEW w \in Workers, ClaimNone(w)
    PROVE  RInv' /\ [Next]_vars
<1>1. proc[w].pc = "claim" /\ UNCHANGED Queue
    BY DEF ClaimNone, Calling
<1>2. proc[w].pc \notin WithHeartbeat /\ workers[w].current_job = NULL
    BY <1>1, Outside DEF Jobless
<1>3. PICK pc \in {"loop", "mark_stopping"} : Goto(w, pc)
    BY DEF ClaimNone
<1>4. pc \in ProcessPC \ {"handler", "join", "finalize", "returned"}
    BY DEF ProcessPC, Calls
<1> QED
    BY <1>1, <1>2, <1>3, <1>4, GotoStep

(* What LocalStep asks of the memory of a process. *)
LocalOK(w, new) ==
    /\ \A at \in {new.at, new.hbAt} : at # NULL => Sampled(at)
    /\ new.pc \notin Calls => new.at = NULL
    /\ (new.pc \in {"handler", "join", "finalize"} \/ new.hb # "off")
            => new.claim \in claims /\ new.claim.worker = w
    /\ new.hb # "off" => new.pc \in WithHeartbeat
    /\ new.hb = "renew" => new.hbAt # NULL
    /\ new.lost => new.pc \in WithHeartbeat
    /\ new.pc = "returned" => workers[w].status \in TerminalWorker
    /\ workers[w].current_job # NULL =>
            /\ new.pc \notin Jobless
            /\ (new.pc = "mark_stopping" /\ new.at # NULL) => workers[w].heartbeat_at <= new.at

LEMMA LocalQueueStep ==
    ASSUME RInv, NEW w \in Workers, NEW new \in Process,
           proc' = [proc EXCEPT ![w] = new], UNCHANGED Queue, LocalOK(w, new)
    PROVE  RInv' /\ [Next]_vars
<1>1. RInv' /\ UNCHANGED vars
    BY LocalStep DEF LocalOK
<1> QED
    BY <1>1

LEMMA HandlerEndsStep ==
    ASSUME RInv, NEW w \in Workers,
           NEW outcome \in {"ok", "retryable", "permanent", "shutdown", "lost"},
           HandlerEnds(w, outcome)
    PROVE  RInv' /\ [Next]_vars
<1> DEFINE new == [proc[w] EXCEPT !.pc = "join", !.outcome = outcome, !.hbStop = TRUE]
<1>1. /\ proc' = [proc EXCEPT ![w] = new] /\ UNCHANGED Queue /\ proc[w].pc = "handler"
    BY DEF HandlerEnds
<1>2. /\ new \in Process /\ new.pc = "join" /\ new.at = proc[w].at /\ new.claim = proc[w].claim
      /\ new.hb = proc[w].hb /\ new.hbAt = proc[w].hbAt /\ new.lost = proc[w].lost
    <2>1. proc[w] \in Process
        BY RuntimeFacts
    <2> QED
        BY <2>1 DEF Process
<1> HIDE DEF new
<1>3. LocalOK(w, new)
    BY <1>1, <1>2, RuntimeFacts
       DEF LocalOK, ProcInv, ClockInv, MemoryInv, TableInv, WithHeartbeat, Jobless, Calls
<1> QED
    BY <1>1, <1>2, <1>3, LocalQueueStep

LEMMA JoinStep ==
    ASSUME RInv, NEW w \in Workers, Join(w)
    PROVE  RInv' /\ [Next]_vars
<1> DEFINE old == proc[w]
           lost == old.lost \/ old.hb # "off"
           pc == IF lost THEN "mark_failed"
                 ELSE IF old.outcome = "shutdown" THEN "mark_stopping" ELSE "finalize"
           new == [old EXCEPT !.lost = lost, !.pc = pc]
<1>1. /\ proc' = [proc EXCEPT ![w] = new] /\ UNCHANGED Queue /\ old.pc = "join"
    BY DEF Join
<1>2. old \in Process /\ old.at = NULL /\ lost \in BOOLEAN
    BY <1>1, RuntimeFacts DEF ProcInv, ClockInv, Calls
<1>3. /\ pc \in {"mark_failed", "mark_stopping", "finalize"}
      /\ lost => pc = "mark_failed"
      /\ pc # "mark_failed" => old.hb = "off"
    OBVIOUS
<1> HIDE DEF lost, pc
<1>4. /\ new \in Process /\ new.pc = pc /\ new.at = NULL /\ new.claim = old.claim
      /\ new.hb = old.hb /\ new.hbAt = old.hbAt /\ new.lost = lost
    <2>1. pc \in Calls
        BY <1>3 DEF Calls
    <2> QED
        BY <1>2, <2>1 DEF Process
<1> HIDE DEF new
<1>5. LocalOK(w, new)
    BY <1>1, <1>2, <1>3, <1>4, RuntimeFacts
       DEF LocalOK, ProcInv, ClockInv, MemoryInv, TableInv, WithHeartbeat, Jobless, Calls
<1> QED
    BY <1>1, <1>4, <1>5, LocalQueueStep

(* Both finalizations write the job and the row of the claim, and free the   *)
(* worker.                                                                   *)
LEMMA FinalizeCallStep ==
    ASSUME RInv, NEW w \in Workers, Finalize(w)
    PROVE  RInv' /\ [Next]_vars
<1> DEFINE at == proc[w].at
           c == proc[w].claim
           row == [workers[w] EXCEPT !.current_job = NULL, !.heartbeat_at = at]
<1>1. proc[w].pc = "finalize" /\ at # NULL
    BY DEF Finalize, Calling
<1>2. at \in Nat /\ at <= now
    BY <1>1, CallTime
<1>3. c \in claims /\ c.worker = w
    BY <1>1, RuntimeFacts DEF ProcInv, MemoryInv
<1>4. /\ [Next]_vars /\ IInv' /\ claims' = claims /\ now' = now
      /\ RequireActiveLease(c, at)
      /\ \E new : jobs' = [jobs EXCEPT ![c.job] = new]
      /\ workers' = [workers EXCEPT ![w] = row]
    <2>1. CASE CompleteClaimedJob(c, at)
        BY <1>1, <1>3, <2>1, CallIsQueueStep
           DEF JobOperation, CompleteClaimedJob, ClearWorkerCurrentJob
    <2>2. ASSUME NEW retryable \in BOOLEAN, FailClaimedJob(c, retryable, at)
          PROVE  /\ [Next]_vars /\ IInv' /\ claims' = claims /\ now' = now
                 /\ RequireActiveLease(c, at)
                 /\ \E new : jobs' = [jobs EXCEPT ![c.job] = new]
                 /\ workers' = [workers EXCEPT ![w] = row]
        <3>1. [Next]_vars /\ IInv'
            BY <1>1, <1>3, <2>2, CallIsQueueStep DEF JobOperation
        <3> QED
            BY <1>3, <2>2, <3>1 DEF FailClaimedJob, ClearWorkerCurrentJob
    <2> QED
        BY <2>1, <2>2 DEF Finalize
<1>5. PICK new : jobs' = [jobs EXCEPT ![c.job] = new]
    BY <1>4
<1>6. row.current_job = NULL /\ row.heartbeat_at = at
    BY RuntimeFacts DEF WorkerRow
<1> DEFINE j == c.job
<1>7. j \in Jobs /\ jobs[j].lease_owner = w /\ jobs' = [jobs EXCEPT ![j] = new]
    BY <1>3, <1>4, <1>5, FencedRows
<1> HIDE DEF row, j
<1>8. /\ workers'[w] = row
      /\ \A v \in Workers \ {w} : Undisturbed(v)
    <2>1. workers' = [workers EXCEPT ![w] = row]
        BY <1>4
    <2> HIDE DEF c, at
    <2> QED
        BY <1>7, <2>1, OneJobEffect
<1>9. PICK pc \in {"loop", "mark_stopping"} : Leave(w, pc)
    BY DEF Finalize
<1>10. proc[w].pc \notin WithHeartbeat
    BY <1>1 DEF WithHeartbeat
<1> QED
    BY <1>2, <1>4, <1>6, <1>8, <1>9, <1>10, GoAway

(* mark_stopping writes the heartbeat of a worker that may still hold its    *)
(* job: the clock was read after the last renewal.                           *)
LEMMA BeginStopStep ==
    ASSUME RInv, NEW w \in Workers, BeginStop(w)
    PROVE  RInv' /\ [Next]_vars
<1> DEFINE at == proc[w].at
<1>1. proc[w].pc = "mark_stopping" /\ at # NULL /\ Goto(w, "mark_stopped")
    BY DEF BeginStop, Calling
<1>2. at \in Nat /\ at <= now /\ proc[w].pc \notin WithHeartbeat
    BY <1>1, CallTime DEF WithHeartbeat
<1>3. "mark_stopped" \in ProcessPC \ {"handler", "join", "finalize", "returned"}
    BY DEF ProcessPC, Calls
<1>4. CASE MarkStopping(w, at)
    <2>1. [Next]_vars /\ IInv'
        BY <1>1, <1>4, CallIsQueueStep DEF WorkerOperation
    <2>2. /\ workers'[w].heartbeat_at = at
          /\ workers'[w].current_job = workers[w].current_job
          /\ jobs' = jobs /\ claims' = claims /\ now' = now
          /\ \A v \in Workers \ {w} : Undisturbed(v)
        <3>1. TransitionStatus(w, {"running"}, "stopping", FALSE, at)
            BY <1>4 DEF MarkStopping
        <3> QED
            BY <3>1, KeepingEffect
    <2>3. ASSUME workers[w].current_job # NULL
          PROVE  jobs[workers[w].current_job].lease_expires_at <= at + LeaseDuration
        <3>1. /\ jobs[workers[w].current_job].lease_expires_at
                     <= workers[w].heartbeat_at + LeaseDuration
              /\ workers[w].heartbeat_at <= at
            BY <1>1, <2>3, RuntimeFacts DEF ProcInv, TableInv
        <3>2. jobs[workers[w].current_job].lease_expires_at \in Nat
            BY <2>3, RuntimeFacts
               DEF WorkerRow, JobRow, RInv, IInv, WorkerInv, JobInv, RowInv, LeaseOK
        <3> QED
            BY <1>2, <3>1, <3>2, RuntimeFacts
    <2>4. "mark_stopped" \notin Jobless
        BY DEF Jobless
    <2> QED
        BY <1>1, <1>2, <1>3, <2>1, <2>2, <2>3, <2>4, GoOn
<1>5. CASE UNCHANGED Queue
    <2>1. "mark_stopped" \notin Jobless
        BY DEF Jobless
    <2> QED
        BY <1>1, <1>2, <1>3, <1>5, <2>1, GotoStep
<1> QED
    BY <1>4, <1>5 DEF BeginStop

(* A call that makes the row of its worker terminal, or finds it so.         *)
LEMMA EndingCall ==
    ASSUME RInv, NEW w \in Workers, NEW status \in TerminalWorker,
           NEW expected, NEW at \in Nat, at <= now,
           NEW pc \in {"returned", "raised"}, Leave(w, pc),
           proc[w].pc \notin WithHeartbeat \/ pc \in WithHeartbeat,
           TransitionStatus(w, expected, status, TRUE, at), [Next]_vars, IInv'
    PROVE  RInv'
<1>1. /\ workers'[w].status = status /\ workers'[w].heartbeat_at = at
      /\ workers'[w].current_job = NULL
      /\ claims' = claims /\ now' = now
      /\ \A v \in Workers \ {w} : Undisturbed(v)
    BY ClearingEffect
<1> QED
    BY <1>1, GoAway

LEMMA EndedCall ==
    ASSUME RInv, NEW w \in Workers, workers[w].status \in TerminalWorker,
           NEW pc \in {"returned", "raised"}, Leave(w, pc), UNCHANGED Queue,
           proc[w].pc \notin WithHeartbeat \/ pc \in WithHeartbeat
    PROVE  RInv' /\ [Next]_vars
<1>1. [Next]_vars /\ IInv' /\ claims' = claims /\ now' = now /\ workers' = workers
    BY NextIInv DEF RInv, Queue, vars
<1>2. workers[w].current_job = NULL
    BY NoJob DEF TerminalWorker
<1>3. workers[w].heartbeat_at <= now
    BY RuntimeFacts DEF ProcInv, TableInv
<1> QED
    BY <1>1, <1>2, <1>3, UnchangedUndisturbed, GoAway

LEMMA EndStopStep ==
    ASSUME RInv, NEW w \in Workers, EndStop(w)
    PROVE  RInv' /\ [Next]_vars
<1> DEFINE at == proc[w].at
<1>1. /\ proc[w].pc = "mark_stopped" /\ at # NULL /\ Leave(w, "returned")
      /\ proc[w].pc \notin WithHeartbeat
    BY DEF EndStop, Calling, WithHeartbeat
<1>2. CASE MarkStopped(w, at)
    <2>1. [Next]_vars /\ IInv' /\ at \in Nat /\ at <= now
        BY <1>1, <1>2, CallTime, CallIsQueueStep DEF WorkerOperation
    <2>2. "stopped" \in TerminalWorker
        BY DEF TerminalWorker
    <2> QED
        BY <1>1, <1>2, <2>1, <2>2, EndingCall DEF MarkStopped
<1>3. CASE workers[w].status \in TerminalWorker /\ UNCHANGED Queue
    BY <1>1, <1>3, EndedCall
<1> QED
    BY <1>2, <1>3 DEF EndStop

LEMMA FailStepOfProcess ==
    ASSUME RInv, NEW w \in Workers, Fail(w)
    PROVE  RInv' /\ [Next]_vars
<1> DEFINE at == proc[w].at
<1>1. /\ proc[w].pc = "mark_failed" /\ at # NULL /\ Leave(w, "raised")
      /\ "raised" \in WithHeartbeat
    BY DEF Fail, Calling, WithHeartbeat
<1>2. CASE MarkFailed(w, at)
    <2>1. [Next]_vars /\ IInv' /\ at \in Nat /\ at <= now
        BY <1>1, <1>2, CallTime, CallIsQueueStep DEF WorkerOperation
    <2>2. "failed" \in TerminalWorker
        BY DEF TerminalWorker
    <2> QED
        BY <1>1, <1>2, <2>1, <2>2, EndingCall DEF MarkFailed
<1>3. CASE workers[w].status \in TerminalWorker /\ UNCHANGED Queue
    BY <1>1, <1>3, EndedCall
<1> QED
    BY <1>2, <1>3 DEF Fail

LEMMA RejectedStep ==
    ASSUME RInv, NEW w \in Workers, Rejected(w)
    PROVE  RInv' /\ [Next]_vars
<1>1. Goto(w, "mark_failed") /\ UNCHANGED Queue
    BY DEF Rejected
<1>2. /\ "mark_failed" \in ProcessPC \ {"handler", "join", "finalize", "returned"}
      /\ "mark_failed" \in WithHeartbeat /\ "mark_failed" \notin Jobless
    BY DEF ProcessPC, Calls, WithHeartbeat, Jobless
<1> QED
    BY <1>1, <1>2, GotoStep

-----------------------------------------------------------------------------
(* The heartbeat thread and the environment *)

LEMMA HeartbeatWakesStep ==
    ASSUME RInv, NEW w \in Workers, HeartbeatWakes(w)
    PROVE  RInv' /\ [Next]_vars
<1> DEFINE old == proc[w]
<1>1. old.hb = "wait" /\ UNCHANGED Queue /\ old \in Process /\ old.pc \in WithHeartbeat
    BY RuntimeFacts DEF HeartbeatWakes, ProcInv, MemoryInv
<1>2. LocalOK(w, old)
    BY RuntimeFacts DEF LocalOK, ProcInv, ClockInv, MemoryInv, TableInv
<1>3. Sampled(now)
    BY RuntimeFacts DEF Sampled
<1>4. CASE old.hbStop
    <2> DEFINE new == [old EXCEPT !.hb = "off"]
    <2>1. proc' = [proc EXCEPT ![w] = new]
        BY <1>4 DEF HeartbeatWakes
    <2>2. /\ new \in Process /\ new.pc = old.pc /\ new.at = old.at /\ new.claim = old.claim
          /\ new.hb = "off" /\ new.hbAt = old.hbAt /\ new.lost = old.lost
        BY <1>1 DEF Process
    <2> HIDE DEF new
    <2>3. LocalOK(w, new)
        BY <1>1, <1>2, <2>2 DEF LocalOK
    <2> QED
        BY <1>1, <2>1, <2>2, <2>3, LocalQueueStep
<1>5. CASE ~old.hbStop
    <2> DEFINE stop == old.ctxStop \/ old.stop
               hb == IF old.lost THEN "off" ELSE "renew"
               hbAt == IF old.lost THEN NULL ELSE now
               new == [old EXCEPT !.ctxStop = stop, !.hb = hb, !.hbAt = hbAt]
    <2>1. proc' = [proc EXCEPT ![w] = new]
        BY <1>5 DEF HeartbeatWakes
    <2>2. /\ stop \in BOOLEAN /\ hb \in {"off", "renew"} /\ hbAt \in {NULL, now}
          /\ hb = "renew" => hbAt # NULL
        BY RuntimeFacts
    <2> HIDE DEF stop, hb, hbAt
    <2>3. /\ new \in Process /\ new.pc = old.pc /\ new.at = old.at /\ new.claim = old.claim
          /\ new.hb = hb /\ new.hbAt = hbAt /\ new.lost = old.lost
        <3>1. old \in Process /\ hbAt \in Nat \cup {NULL}
            BY <2>2, RuntimeFacts
        <3> QED
            BY <2>2, <3>1 DEF Process
    <2> HIDE DEF new
    <2>4. LocalOK(w, new)
        BY <1>1, <1>2, <1>3, <2>2, <2>3 DEF LocalOK
    <2> QED
        BY <1>1, <2>1, <2>3, <2>4, LocalQueueStep
<1> QED
    BY <1>4, <1>5

(* A renewal writes heartbeat and lease with one clock reading, and only for *)
(* a worker whose process is not waiting in mark_stopping.                   *)
LEMMA HeartbeatRenewsStep ==
    ASSUME RInv, NEW w \in Workers, HeartbeatRenews(w)
    PROVE  RInv' /\ [Next]_vars
<1> DEFINE at == proc[w].hbAt
           c == proc[w].claim
           row == [workers[w] EXCEPT !.heartbeat_at = at]
           j == c.job
           job == [jobs[j] EXCEPT !.lease_expires_at = at + LeaseDuration]
           new == [proc[w] EXCEPT !.hb = "wait", !.hbAt = NULL]
<1>1. /\ proc[w].hb = "renew" /\ RenewJobLease(c, at)
      /\ proc' = [proc EXCEPT ![w] = new]
    BY DEF HeartbeatRenews
<1>2. at # NULL /\ c \in claims /\ c.worker = w /\ proc[w].pc \in WithHeartbeat
    BY <1>1, RuntimeFacts DEF ProcInv, MemoryInv
<1>3. at \in Nat /\ at <= now
    BY <1>2, CallTime
<1>4. [Next]_vars /\ IInv' /\ claims' = claims /\ now' = now
    BY <1>1, <1>2, CallIsQueueStep DEF JobOperation, RenewJobLease
<1>5. /\ j \in Jobs /\ jobs[j].lease_owner = w /\ workers[w].current_job = j
    BY <1>1, <1>2, FencedRows DEF RenewJobLease
<1>6. jobs' = [jobs EXCEPT ![j] = job] /\ workers' = [workers EXCEPT ![w] = row]
    BY <1>1, <1>2 DEF RenewJobLease
<1>7. /\ row.heartbeat_at = at /\ row.current_job = j /\ row.status = workers[w].status
      /\ job.lease_expires_at = at + LeaseDuration
    BY <1>5, RuntimeFacts DEF WorkerRow, JobRow
<1>8. /\ new \in Process /\ new.pc = proc[w].pc /\ new.at = proc[w].at /\ new.claim = c
      /\ new.hb = "wait" /\ new.hbAt = NULL /\ new.lost = proc[w].lost
    <2>1. proc[w] \in Process
        BY RuntimeFacts
    <2> QED
        BY <2>1 DEF Process
<1> HIDE DEF row, job, new, j
<1>9. /\ jobs'[j] = job /\ workers'[w] = row
      /\ \A v \in Workers \ {w} : Undisturbed(v)
    BY <1>5, <1>6, OneJobEffect
<1>10. proc'[w] = new
    BY <1>1, RuntimeFacts
<1>11. ProcInv(w)'
    BY <1>2, <1>3, <1>4, <1>5, <1>7, <1>8, <1>9, <1>10, RuntimeFacts
       DEF ProcInv, ClockInv, Sampled, MemoryInv, TableInv, WithHeartbeat, Jobless
<1> QED
    BY <1>1, <1>4, <1>8, <1>9, <1>11, ProcessStep

(* A failed renewal: the thread notes the loss and ends.                     *)
LEMMA HeartbeatEndsStep ==
    ASSUME RInv, NEW w \in Workers, HeartbeatLoses(w) \/ HeartbeatDatabaseError(w)
    PROVE  RInv' /\ [Next]_vars
<1> DEFINE old == proc[w]
           new == [old EXCEPT !.hb = "off", !.hbAt = NULL, !.lost = TRUE]
<1>1. /\ old.hb = "renew" /\ UNCHANGED Queue /\ proc' = [proc EXCEPT ![w] = new]
      /\ old.pc \in WithHeartbeat
    BY RuntimeFacts DEF HeartbeatLoses, HeartbeatDatabaseError, ProcInv, MemoryInv
<1>2. LocalOK(w, old)
    BY RuntimeFacts DEF LocalOK, ProcInv, ClockInv, MemoryInv, TableInv
<1>3. /\ new \in Process /\ new.pc = old.pc /\ new.at = old.at /\ new.claim = old.claim
      /\ new.hb = "off" /\ new.hbAt = NULL /\ new.lost = TRUE
    <2>1. old \in Process
        BY RuntimeFacts
    <2> QED
        BY <2>1 DEF Process
<1> HIDE DEF new
<1>4. LocalOK(w, new)
    BY <1>1, <1>2, <1>3 DEF LocalOK
<1> QED
    BY <1>1, <1>3, <1>4, LocalQueueStep

LEMMA RequestStopStep ==
    ASSUME RInv, NEW w \in Workers, RequestStop(w)
    PROVE  RInv' /\ [Next]_vars
<1> DEFINE old == proc[w]
           new == [old EXCEPT !.stop = TRUE]
<1>1. UNCHANGED Queue /\ proc' = [proc EXCEPT ![w] = new]
    BY RuntimeFacts DEF RequestStop
<1>2. LocalOK(w, old)
    BY RuntimeFacts DEF LocalOK, ProcInv, ClockInv, MemoryInv, TableInv
<1>3. /\ new \in Process /\ new.pc = old.pc /\ new.at = old.at /\ new.claim = old.claim
      /\ new.hb = old.hb /\ new.hbAt = old.hbAt /\ new.lost = old.lost
    <2>1. old \in Process
        BY RuntimeFacts
    <2> QED
        BY <2>1 DEF Process
<1> HIDE DEF new
<1>4. LocalOK(w, new)
    BY <1>2, <1>3 DEF LocalOK
<1> QED
    BY <1>1, <1>3, <1>4, LocalQueueStep

LEMMA MainDatabaseErrorStep ==
    ASSUME RInv, NEW w \in Workers, MainDatabaseError(w)
    PROVE  RInv' /\ [Next]_vars
<1>1. UNCHANGED Queue /\ proc[w].pc \in Calls
    BY DEF MainDatabaseError, Calling
<1>2. CASE proc[w].pc \in {"register", "mark_failed"}
    <2> DEFINE new == Leaving(w, "raised")
    <2>1. "raised" \in ProcessPC /\ Leave(w, "raised")
        BY <1>2 DEF ProcessPC, Ended, MainDatabaseError
    <2>2. /\ proc' = [proc EXCEPT ![w] = new] /\ new \in Process
          /\ new.pc = "raised" /\ new.at = NULL /\ new.lost = FALSE
          /\ new.claim = IF proc[w].hb = "off" THEN NULL ELSE proc[w].claim
          /\ new.hb = proc[w].hb /\ new.hbAt = proc[w].hbAt
        BY <2>1, LeavingProcess
    <2> HIDE DEF new
    <2>3. LocalOK(w, new)
        BY <2>2, RuntimeFacts
           DEF LocalOK, ProcInv, ClockInv, MemoryInv, WithHeartbeat, Jobless, Calls
    <2> QED
        BY <1>1, <2>2, <2>3, LocalQueueStep
<1>3. CASE proc[w].pc \notin {"register", "mark_failed"}
    <2>1. Goto(w, "mark_failed")
        BY <1>3 DEF MainDatabaseError
    <2>2. /\ "mark_failed" \in ProcessPC \ {"handler", "join", "finalize", "returned"}
          /\ "mark_failed" \in WithHeartbeat /\ "mark_failed" \notin Jobless
        BY DEF ProcessPC, Calls, WithHeartbeat, Jobless
    <2> QED
        BY <1>1, <2>1, <2>2, GotoStep
<1> QED
    BY <1>2, <1>3

(* The memory of a process that is gone.                                     *)
LEMMA GoneStep ==
    ASSUME RInv, NEW w \in Workers, NEW pc \in Ended, UNCHANGED Queue,
           proc' = [proc EXCEPT ![w] = [NewProcess EXCEPT !.pc = pc]],
           pc = "returned" => proc[w].pc = "returned"
    PROVE  RInv' /\ [Next]_vars
<1> DEFINE new == [NewProcess EXCEPT !.pc = pc]
<1>1. /\ new \in Process /\ new.pc = pc /\ new.at = NULL /\ new.lost = FALSE
      /\ new.hb = "off" /\ new.hbAt = NULL
    BY DEF NewProcess, Process, Ended, Calls
<1> HIDE DEF new
<1>2. new.pc = "returned" =>
         workers[w].status \in TerminalWorker /\ workers[w].current_job = NULL
    BY <1>1, RuntimeFacts, Outside DEF ProcInv, TableInv, Jobless
<1>3. LocalOK(w, new)
    BY <1>1, <1>2, RuntimeFacts DEF LocalOK, Ended, Jobless
<1> QED
    BY <1>1, <1>3, LocalQueueStep DEF new

LEMMA CrashStep ==
    ASSUME RInv, NEW w \in Workers, Crash(w)
    PROVE  RInv' /\ [Next]_vars
<1>1. "crashed" \in Ended
    BY DEF Ended
<1> QED
    BY <1>1, GoneStep DEF Crash

LEMMA DaemonDiesStep ==
    ASSUME RInv, NEW w \in Workers, DaemonDies(w)
    PROVE  RInv' /\ [Next]_vars
<1> DEFINE pc == proc[w].pc
<1>1. /\ pc \in Ended /\ UNCHANGED Queue
      /\ proc' = [proc EXCEPT ![w] = [NewProcess EXCEPT !.pc = pc]]
    BY DEF DaemonDies
<1> QED
    BY <1>1, GoneStep

(* Producers and administrators: their jobs are held by nobody.              *)
LEMMA ClientStep ==
    ASSUME RInv, Client
    PROVE  RInv' /\ [Next]_vars
<1>1. ASSUME [Next]_vars, claims' = claims, now' = now, \A v \in Workers : Undisturbed(v)
      PROVE  RInv'
    BY <1>1, NextIInv, UndisturbedKeeps DEF RInv, Client
<1>2. ASSUME NEW j \in Jobs, NEW key \in Keys \cup {NULL}, NEW delay \in Delays,
             CreateJob(j, key, now + delay, now)
      PROVE  RInv' /\ [Next]_vars
    <2>1. now \in 0..now /\ Sampled(now)
        BY BoundsAssumption DEF RInv, IInv, TypeOK, Sampled
    <2>2. [Next]_vars
        BY <1>2, <2>1 DEF Next, JobOperation
    <2>3. /\ claims' = claims /\ now' = now /\ workers' = workers /\ jobs[j].status # "running"
          /\ \E new : jobs' = [jobs EXCEPT ![j] = new]
        BY <1>2 DEF CreateJob
    <2> QED
        BY <1>1, <2>2, <2>3, FreeJobEffect
<1>3. ASSUME NEW j \in Jobs, CancelPendingJob(j) \/ RetryFailedJob(j)
      PROVE  RInv' /\ [Next]_vars
    <2>1. /\ claims' = claims /\ now' = now /\ workers' = workers /\ jobs[j].status # "running"
          /\ \E new : jobs' = [jobs EXCEPT ![j] = new]
        BY <1>3 DEF CancelPendingJob, RetryFailedJob
    <2> QED
        BY <1>1, <1>3, <2>1, FreeJobEffect DEF Next
<1> QED
    BY <1>2, <1>3 DEF Client

(* Time does not pass a clock reading by more than MaxLag before its use.    *)
LEMMA ClockTicksStep ==
    ASSUME RInv, ClockTicks
    PROVE  RInv' /\ [Next]_vars
<1>1. /\ now' = now + 1 /\ proc' = proc
      /\ jobs' = jobs /\ events' = events /\ workers' = workers /\ claims' = claims
    BY DEF ClockTicks, Tick
<1>2. [Next]_vars /\ IInv'
    BY NextIInv DEF ClockTicks, Next, RInv
<1>3. ASSUME NEW w \in Workers PROVE ProcInv(w)'
    <2>1. ASSUME NEW at \in {proc[w].at, proc[w].hbAt}, at # NULL
          PROVE  at <= now + 1 /\ now + 1 <= at + MaxLag
        <3>1. at \in Nat /\ at <= now /\ now < at + MaxLag
            BY <2>1, CallTime DEF ClockTicks
        <3> QED
            BY <3>1, RuntimeFacts
    <2>2. workers[w].heartbeat_at <= now + 1
        BY RuntimeFacts DEF ProcInv, TableInv
    <2> QED
        BY <1>1, <2>1, <2>2, RuntimeFacts DEF ProcInv, ClockInv, Sampled, MemoryInv, TableInv
<1> QED
    BY <1>1, <1>2, <1>3 DEF RInv

LEMMA RuntimeStep ==
    RInv /\ [RuntimeNext]_rvars => RInv' /\ [Next]_vars
<1> SUFFICES ASSUME RInv, [RuntimeNext]_rvars PROVE RInv' /\ [Next]_vars
    OBVIOUS
<1>1. ASSUME NEW w \in Workers, MainStep(w) PROVE RInv' /\ [Next]_vars
    <2>1. ASSUME StartupRecover(w) \/ IdleRecover(w) PROVE RInv' /\ [Next]_vars
        BY <2>1, RecoverCallStep DEF StartupRecover, IdleRecover, Jobless
    <2> QED
        BY <1>1, <2>1, SampleStep, RegisterStep, BecomeRunningStep, StartupReconcileStep,
           LoopStep, IdleHeartbeatStep, ClaimCallStep, ClaimNoneStep, HandlerEndsStep,
           JoinStep, FinalizeCallStep, BeginStopStep, EndStopStep, FailStepOfProcess,
           RejectedStep
           DEF MainStep
<1>2. ASSUME NEW w \in Workers, HeartbeatStep(w) PROVE RInv' /\ [Next]_vars
    BY <1>2, HeartbeatWakesStep, HeartbeatRenewsStep, HeartbeatEndsStep, DaemonDiesStep
       DEF HeartbeatStep
<1>3. ASSUME NEW w \in Workers, Fault(w) PROVE RInv' /\ [Next]_vars
    BY <1>3, MainDatabaseErrorStep, HeartbeatEndsStep, CrashStep DEF Fault
<1>4. CASE UNCHANGED rvars
    <2>1. UNCHANGED vars
        BY <1>4 DEF rvars, vars
    <2>2. IInv'
        BY <2>1, NextIInv DEF RInv
    <2>3. \A w \in Workers : ProcInv(w)'
        BY <1>4 DEF RInv, rvars, ProcInv, ClockInv, Sampled, MemoryInv, TableInv
    <2> QED
        BY <1>4, <2>1, <2>2, <2>3 DEF RInv, rvars
<1> QED
    BY <1>1, <1>2, <1>3, <1>4, RequestStopStep, ClientStep, ClockTicksStep DEF RuntimeNext

-----------------------------------------------------------------------------
(* The theorems *)

(* Every call a process makes is one that JobQueue allows: a clock reading   *)
(* no older than MaxLag, a claim it was given.  So each invariant and action *)
(* property proved of JobQueue holds of the running workers.                 *)
THEOREM RuntimeRefinesQueue ==
    RuntimeSpec => RefinesQueue
<1>1. RuntimeInit => Init
    BY DEF RuntimeInit
<1> QED
    BY <1>1, RuntimeInitInv, RuntimeStep, PTL DEF RuntimeSpec, RefinesQueue, Spec

(* The running workers therefore give every job the life JobLifecycle         *)
(* promises: one worker at a time, every attempt ended once, none too many.   *)
THEOREM RuntimeRefinesLifecycle ==
    RuntimeSpec => RefinesLifecycle
BY RuntimeRefinesQueue, QueueRefinesLifecycle, PTL DEF RefinesQueue

(* run() returns only with its row terminal, free of any job and with its    *)
(* heartbeat thread gone; and no lease outlasts the heartbeat of the worker  *)
(* that holds it by more than the lease duration, so reconcile_stale never   *)
(* fails a worker whose lease is live.                                       *)
THEOREM RuntimeIsConsistent ==
    RuntimeSpec => []RuntimeConsistent
BY RuntimeInitInv, RuntimeStep, RuntimeInvImplies, PTL DEF RuntimeSpec

-----------------------------------------------------------------------------
(* The fence of a lost lease *)

(* The step logs in job k the end of an attempt of worker w. *)
Ends(k, w) ==
    /\ Len(events'[k]) > Len(events[k])
    /\ events'[k][Len(events'[k])].worker = w
    /\ events'[k][Len(events'[k])].type \in Finishing

(* One operation logs one event. *)
LEMMA Logged ==
    ASSUME IInv, NEW j \in Jobs, NEW type \in EventType, NEW to \in JobStatus,
           NEW worker \in Workers \cup {NULL}, NEW claim \in Nat,
           LogEvent(j, type, to, worker, claim), NEW k \in Jobs, NEW w, Ends(k, w)
    PROVE  type \in Finishing /\ worker = w
<1> DEFINE e == Event(j, type, to, worker, claim)
<1>1. events \in [Jobs -> Seq(JobEvent)] /\ jobs[j] \in JobRow
    BY DEF IInv, TypeOK
<1>2. e \in JobEvent /\ e.type = type /\ e.worker = worker
    BY <1>1 DEF Event, JobEvent, JobRow
<1>3. events' = [events EXCEPT ![j] = Append(@, e)]
    BY DEF LogEvent
<1> HIDE DEF e
<1>4. k = j
    BY <1>1, <1>3 DEF Ends
<1>5. events[j] \in Seq(JobEvent) /\ events'[j] = Append(events[j], e)
    BY <1>1, <1>3
<1>6. events'[j][Len(events'[j])] = e
    BY <1>2, <1>5, AppendLog
<1> QED
    BY <1>2, <1>4, <1>6 DEF Ends

LEMMA EventTypes ==
    /\ {"created", "claimed", "cancelled", "retry_requested"} \subseteq EventType \ Finishing
    /\ {"succeeded", "retry_scheduled", "failed"} \subseteq EventType
    /\ {"pending", "running", "succeeded", "failed", "cancelled"} \subseteq JobStatus
    /\ {"lease_expired_requeued", "lease_expired_failed"} \subseteq EventType \ Finishing
BY DEF EventType, Finishing, JobStatus

(* Recovery ends nobody's attempt in that worker's name. *)
LEMMA RecoverEndsNone ==
    ASSUME IInv, NEW at \in Nat, RecoverExpiredLeases(at), NEW k \in Jobs, NEW w
    PROVE  ~Ends(k, w)
<1>1. /\ events \in [Jobs -> Seq(JobEvent)] /\ events[k] \in Seq(JobEvent)
      /\ jobs[k] \in JobRow
    BY DEF IInv, TypeOK
<1>2. CASE k \notin RecoveryRows(at)
    BY <1>2 DEF RecoverExpiredLeases, Ends
<1>3. CASE k \in RecoveryRows(at)
    <2>1. PICK type \in {"lease_expired_requeued", "lease_expired_failed"}, to \in JobStatus :
             events'[k] = Append(events[k], Event(k, type, to, jobs[k].lease_owner, jobs[k].version))
        BY <1>3, EventTypes DEF RecoverExpiredLeases
    <2> DEFINE e == Event(k, type, to, jobs[k].lease_owner, jobs[k].version)
    <2>2. jobs[k].lease_owner \in Workers \cup {NULL} /\ jobs[k].version \in Nat
        BY <1>1 DEF JobRow
    <2>3. type \in EventType /\ type \notin Finishing
        BY EventTypes
    <2>4. e \in JobEvent /\ e.type = type
        BY <1>1, <2>2, <2>3 DEF Event, JobEvent, JobRow
    <2> HIDE DEF e
    <2>5. events'[k][Len(events'[k])] = e
        BY <1>1, <2>1, <2>4, AppendLog DEF e
    <2> QED
        BY <2>3, <2>4, <2>5 DEF Ends
<1> QED
    BY <1>2, <1>3

(* A process claims and finishes only in its own name, and only with the     *)
(* lease not known to be lost.                                               *)
LEMMA LostStaysOut ==
    ASSUME RInv, RuntimeNext, NEW w \in Workers, proc[w].lost
    PROVE  /\ \A c \in claims' \ claims : c.worker # w
           /\ \A k \in Jobs : ~Ends(k, w)
<1> DEFINE Goal == /\ \A c \in claims' \ claims : c.worker # w
                   /\ \A k \in Jobs : ~Ends(k, w)
<1>1. IInv /\ TypeOK /\ NULL \notin Workers /\ proc[w].pc \in WithHeartbeat
    BY RuntimeFacts DEF ProcInv, MemoryInv
<1>2. ASSUME UNCHANGED <<events, claims>> PROVE Goal
    BY <1>2, <1>1 DEF Ends, TypeOK
<1>3. ASSUME NEW v \in Workers, Claim(v) PROVE Goal
    <2>1. v # w /\ proc[v].at # NULL
        BY <1>1, <1>3 DEF Claim, Calling, WithHeartbeat
    <2>2. PICK j \in Jobs :
             /\ LogEvent(j, "claimed", "running", v, jobs[j].version + 1)
             /\ claims' = claims \cup {[job |-> j, worker |-> v, version |-> jobs[j].version + 1,
                                        attempt |-> jobs[j].attempts + 1]}
        BY <1>3 DEF Claim, ClaimNextJob, Claimable
    <2>3. jobs[j].version + 1 \in Nat
        BY <1>1, RowFacts
    <2>4. "claimed" \in EventType /\ "claimed" \notin Finishing /\ "running" \in JobStatus
        BY EventTypes
    <2>5. ASSUME NEW k \in Jobs PROVE ~Ends(k, w)
        BY <1>1, <2>2, <2>3, <2>4, Logged
    <2> QED
        BY <2>1, <2>2, <2>5
<1>4. ASSUME NEW v \in Workers, Finalize(v) PROVE Goal
    <2> DEFINE c == proc[v].claim
    <2>1. v # w /\ c \in claims /\ c.worker = v
        BY <1>1, <1>4, RuntimeFacts DEF Finalize, Calling, WithHeartbeat, ProcInv, MemoryInv
    <2>2. c.job \in Jobs /\ c.version \in Nat
        BY <1>1, <2>1 DEF TypeOK, JobClaim
    <2>3. claims' = claims
        BY <1>4 DEF Finalize, CompleteClaimedJob, FailClaimedJob
    <2>4. PICK type \in {"succeeded", "retry_scheduled", "failed"},
               to \in {"succeeded", "pending", "failed"} :
                  LogEvent(c.job, type, to, v, c.version)
        BY <1>4, <2>1 DEF Finalize, CompleteClaimedJob, FailClaimedJob
    <2>5. type \in EventType /\ to \in JobStatus
        BY EventTypes
    <2>6. ASSUME NEW k \in Jobs PROVE ~Ends(k, w)
        BY <1>1, <2>1, <2>2, <2>4, <2>5, Logged
    <2> QED
        BY <2>3, <2>6
<1>5. ASSUME NEW v \in Workers, StartupRecover(v) \/ IdleRecover(v) PROVE Goal
    <2>1. CASE UNCHANGED Queue
        BY <1>2, <2>1 DEF Queue
    <2>2. ASSUME RecoverExpiredLeases(proc[v].at), proc[v].at # NULL PROVE Goal
        <3>1. proc[v].at \in Nat /\ claims' = claims
            BY <2>2, CallTime, RecoverEffect
        <3> QED
            BY <1>1, <2>2, <3>1, RecoverEndsNone
    <2> QED
        BY <1>5, <2>1, <2>2 DEF StartupRecover, IdleRecover, Recover, Calling
<1>6. CASE Client
    <2>1. ASSUME NEW j \in Jobs, NEW type \in {"created", "cancelled", "retry_requested"},
                 NEW to \in {"pending", "cancelled"}, LogEvent(j, type, to, NULL, 0),
                 claims' = claims
          PROVE  Goal
        <3>1. type \in EventType /\ type \notin Finishing /\ to \in JobStatus
            BY EventTypes
        <3>2. ASSUME NEW k \in Jobs PROVE ~Ends(k, w)
            BY <1>1, <2>1, <3>1, Logged
        <3> QED
            BY <2>1, <3>2
    <2> QED
        BY <1>6, <2>1 DEF Client, CreateJob, CancelPendingJob, RetryFailedJob
<1>7. ASSUME NEW v \in Workers,
             \/ Register(v) \/ BecomeRunning(v) \/ StartupReconcile(v) \/ IdleHeartbeat(v)
             \/ BeginStop(v) \/ EndStop(v) \/ Fail(v)
      PROVE  UNCHANGED <<events, claims>>
    BY <1>7 DEF Register, BecomeRunning, StartupReconcile, IdleHeartbeat, BeginStop, EndStop,
                Fail, RegisterWorker, MarkRunning, ReconcileStaleWorkers, HeartbeatIdle,
                MarkStopping, MarkStopped, MarkFailed, TransitionStatus, JobTables, Queue
<1>8. ASSUME NEW v \in Workers,
             \/ Sample(v) \/ Loop(v) \/ ClaimNone(v) \/ Join(v) \/ Rejected(v)
             \/ \E outcome \in {"ok", "retryable", "permanent", "shutdown", "lost"} :
                    HandlerEnds(v, outcome)
      PROVE  UNCHANGED <<events, claims>>
    BY <1>8 DEF Sample, Loop, ClaimNone, Join, Rejected, HandlerEnds, Queue
<1>9. ASSUME NEW v \in Workers, HeartbeatStep(v) \/ Fault(v) \/ RequestStop(v)
      PROVE  UNCHANGED <<events, claims>>
    BY <1>9 DEF HeartbeatStep, HeartbeatWakes, HeartbeatRenews, HeartbeatLoses, DaemonDies,
                RenewJobLease, Fault, MainDatabaseError, HeartbeatDatabaseError, Crash,
                RequestStop, Queue
<1>10. ClockTicks => UNCHANGED <<events, claims>>
    BY DEF ClockTicks, Tick
<1>11. ASSUME NEW v \in Workers, MainStep(v) PROVE Goal
    BY <1>11, <1>2, <1>3, <1>4, <1>5, <1>7, <1>8 DEF MainStep
<1> QED
    BY <1>2, <1>6, <1>9, <1>10, <1>11 DEF RuntimeNext

(* A process that has seen its lease lost neither finishes its job nor       *)
(* claims another: join, loop head and except block all lead it out of run().*)
THEOREM RuntimeLeaseLossFence ==
    RuntimeSpec => LeaseLossFence
<1>1. RInv /\ [RuntimeNext]_rvars =>
        [\A w \in Workers : proc[w].lost =>
            /\ \A c \in claims' \ claims : c.worker # w
            /\ \A j \in Jobs :
                Len(events'[j]) > Len(events[j]) =>
                    ~ /\ events'[j][Len(events'[j])].worker = w
                      /\ events'[j][Len(events'[j])].type
                            \in {"succeeded", "retry_scheduled", "failed"}]_rvars
    BY LostStaysOut DEF Ends, Finishing
<1> QED
    BY <1>1, RuntimeInitInv, RuntimeStep, PTL DEF RuntimeSpec, LeaseLossFence
=============================================================================
