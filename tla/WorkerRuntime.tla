---------------------------- MODULE WorkerRuntime ----------------------------
(***************************************************************************)
(* Worker processes over the durable queue (jobs/runner.py, context.py,    *)
(* service.py).  A process runs LocalWorker.run on its main thread and,    *)
(* while a handler executes, a daemon LeaseHeartbeatController thread.     *)
(*                                                                         *)
(* Every database call is one JobQueue action, but the caller samples its  *)
(* clock first (Sample) and may be delayed up to MaxLag before the call.   *)
(* Processes may crash anywhere; a database call may raise (busy timeout,  *)
(* I/O) without writing.  A worker id stands for one process run: ids are  *)
(* never reused.  The wall clock is taken to be monotonic.                 *)
(***************************************************************************)
EXTENDS JobQueue

VARIABLE proc       \* the memory of each process

rvars == <<jobs, events, workers, claims, now, proc>>

(* Database calls of the main thread, in program order. *)
Calls == {"register", "mark_running", "reconcile", "startup_recover",
          "idle_heartbeat", "idle_recover", "claim", "finalize",
          "mark_stopping", "mark_stopped", "mark_failed"}

Ended == {"returned", "raised", "crashed"}

Process == [pc : Calls \cup {"loop", "handler", "join"} \cup Ended,
            at : Nat \cup {NULL},           \* main thread's sampled clock
            claim : JobClaim \cup {NULL},
            outcome : {"none", "ok", "retryable", "permanent", "shutdown", "lost"},
            stop : BOOLEAN,                 \* local_stop / stop_event
            ctxStop : BOOLEAN,              \* context._stop_requested
            lost : BOOLEAN,                 \* context._lease_lost
            hb : {"off", "wait", "renew"},  \* heartbeat thread
            hbAt : Nat \cup {NULL},         \* its sampled clock
            hbStop : BOOLEAN]               \* controller._stop_requested

NewProcess == [pc |-> "register", at |-> NULL, claim |-> NULL, outcome |-> "none",
               stop |-> FALSE, ctxStop |-> FALSE, lost |-> FALSE,
               hb |-> "off", hbAt |-> NULL, hbStop |-> FALSE]

RuntimeInit == Init /\ proc = [w \in Workers |-> NewProcess]

Goto(w, pc) == proc' = [proc EXCEPT ![w].pc = pc, ![w].at = NULL]

(* run() leaves, or _execute_claim returns: the memory of the execution is *)
(* dropped.  A heartbeat thread that outlived its join keeps what it uses. *)
Leave(w, pc) ==
    proc' = [proc EXCEPT ![w] =
        [NewProcess EXCEPT
            !.pc = pc, !.stop = proc[w].stop,
            !.claim = IF proc[w].hb = "off" THEN NULL ELSE proc[w].claim,
            !.hb = proc[w].hb, !.hbAt = proc[w].hbAt, !.hbStop = proc[w].hbStop]]

(* The main thread reads its clock and is about to make call "pc". *)
Calling(w, pc) == proc[w].pc = pc /\ proc[w].at # NULL

Queue == <<jobs, events, workers, claims, now>>

Sample(w) ==
    /\ proc[w].pc \in Calls /\ proc[w].at = NULL
    /\ proc' = [proc EXCEPT ![w].at = now]
    /\ UNCHANGED Queue

-----------------------------------------------------------------------------
(* LocalWorker.run *)

Register(w) ==
    /\ Calling(w, "register")
    /\ RegisterWorker(w, proc[w].at)
    /\ Goto(w, "mark_running")

BecomeRunning(w) ==
    /\ Calling(w, "mark_running")
    /\ MarkRunning(w, proc[w].at)
    /\ Goto(w, "reconcile")

(* _run_startup_recovery: reconcile_stale, then recover_expired. *)
StartupReconcile(w) ==
    /\ Calling(w, "reconcile")
    /\ \/ ReconcileStaleWorkers(proc[w].at)
       \/ StaleWorkers(proc[w].at) = {} /\ UNCHANGED Queue
    /\ Goto(w, "startup_recover")

Recover(w, pc, next) ==
    /\ Calling(w, pc)
    /\ \/ RecoverExpiredLeases(proc[w].at)
       \/ RecoveryRows(proc[w].at) = {} /\ UNCHANGED Queue
    /\ Goto(w, next)

StartupRecover(w) == Recover(w, "startup_recover", "loop")

(* Faulty variant of Loop: the stop event is only looked at after a job. *)
LoopIgnoringStop(w) ==
    /\ proc[w].pc = "loop"
    /\ \E pc \in {"idle_heartbeat", "idle_recover", "claim"} : Goto(w, pc)
    /\ UNCHANGED Queue

(* The loop head: leave on a stop request, else do what is due and claim. *)
Loop(w) ==
    /\ proc[w].pc = "loop"
    /\ \/ proc[w].stop /\ Goto(w, "mark_stopping")
       \/ /\ ~proc[w].stop
          /\ \E pc \in {"idle_heartbeat", "idle_recover", "claim"} : Goto(w, pc)
    /\ UNCHANGED Queue

IdleHeartbeat(w) ==
    /\ Calling(w, "idle_heartbeat")
    /\ HeartbeatIdle(w, proc[w].at)
    /\ \E pc \in {"idle_recover", "claim"} : Goto(w, pc)

IdleRecover(w) == Recover(w, "idle_recover", "claim")

(* claim_next, and _execute_claim up to controller.start and the first     *)
(* checkpoint: a stop already requested interrupts before the handler.     *)
Claim(w) ==
    /\ Calling(w, "claim")
    /\ ClaimNextJob(w, proc[w].at)
    /\ \E c \in claims' \ claims :
        proc' = [proc EXCEPT ![w] =
                   [@ EXCEPT !.at = NULL, !.claim = c, !.pc = "handler",
                             !.ctxStop = proc[w].stop, !.lost = FALSE,
                             !.outcome = "none",
                             !.hb = "wait", !.hbStop = FALSE]]

(* No job: sleep until stop or the next poll; "once" mode leaves. *)
ClaimNone(w) ==
    /\ Calling(w, "claim")
    /\ workers[w].status = "running" /\ workers[w].current_job = NULL
    /\ Claimable(proc[w].at) = {}
    /\ \E pc \in {"loop", "mark_stopping"} : Goto(w, pc)
    /\ UNCHANGED Queue

(* The handler returns past its last checkpoint, raises, or is interrupted  *)
(* by a checkpoint; the finally block asks the heartbeat thread to stop.    *)
HandlerEnds(w, outcome) ==
    /\ proc[w].pc = "handler"
    /\ outcome = "ok" => ~proc[w].ctxStop /\ ~proc[w].lost
    /\ outcome = "shutdown" => proc[w].ctxStop
    /\ outcome = "lost" => proc[w].lost /\ ~proc[w].ctxStop
    /\ proc' = [proc EXCEPT ![w] =
                  [@ EXCEPT !.pc = "join", !.outcome = outcome, !.hbStop = TRUE]]
    /\ UNCHANGED Queue

(* Faulty variant of Join: a timed-out join is ignored. *)
JoinIgnoringTimeout(w) ==
    /\ proc[w].pc = "join"
    /\ Goto(w, IF proc[w].lost THEN "mark_failed"
               ELSE IF proc[w].outcome = "shutdown" THEN "mark_stopping"
               ELSE "finalize")
    /\ UNCHANGED Queue

(* controller.stop: the thread ended within the grace period, or it did    *)
(* not, which counts as a lost lease.  Lease loss wins over everything.    *)
Join(w) ==
    /\ proc[w].pc = "join"
    /\ LET lost == proc[w].lost \/ proc[w].hb # "off"
       IN  proc' = [proc EXCEPT ![w] =
             [@ EXCEPT !.lost = lost,
                       !.pc = IF lost THEN "mark_failed"
                              ELSE IF proc[w].outcome = "shutdown" THEN "mark_stopping"
                              ELSE "finalize"]]
    /\ UNCHANGED Queue

(* complete or _finalize_failure; max_jobs and once leave the loop.        *)
Finalize(w) ==
    /\ Calling(w, "finalize")
    /\ \/ proc[w].outcome = "ok" /\ CompleteClaimedJob(proc[w].claim, proc[w].at)
       \/ /\ proc[w].outcome \in {"retryable", "permanent"}
          /\ FailClaimedJob(proc[w].claim, proc[w].outcome = "retryable", proc[w].at)
    /\ \E pc \in {"loop", "mark_stopping"} : Leave(w, pc)

(* The service's mark_stopping and mark_stopped return at once for a row    *)
(* that is already terminal.                                                *)
BeginStop(w) ==
    /\ Calling(w, "mark_stopping")
    /\ \/ MarkStopping(w, proc[w].at)
       \/ workers[w].status \in TerminalWorker \cup {"stopping"} /\ UNCHANGED Queue
    /\ Goto(w, "mark_stopped")

(* Faulty variant of EndStop: a row that is stopping is taken for stopped. *)
EndStopEarly(w) ==
    /\ Calling(w, "mark_stopped")
    /\ \/ MarkStopped(w, proc[w].at)
       \/ workers[w].status \in TerminalWorker \cup {"stopping"} /\ UNCHANGED Queue
    /\ Leave(w, "returned")

EndStop(w) ==
    /\ Calling(w, "mark_stopped")
    /\ \/ MarkStopped(w, proc[w].at)
       \/ workers[w].status \in TerminalWorker /\ UNCHANGED Queue
    /\ Leave(w, "returned")

(* The except block: mark_failed, then the exception leaves run(). *)
Fail(w) ==
    /\ Calling(w, "mark_failed")
    /\ \/ MarkFailed(w, proc[w].at)
       \/ workers[w].status \in TerminalWorker /\ UNCHANGED Queue
    /\ Leave(w, "raised")

(* A call the repository rejects: the queue fenced this worker off. *)
Rejected(w) ==
    /\ \/ Calling(w, "idle_heartbeat") /\ workers[w].status \in TerminalWorker
       \/ /\ Calling(w, "claim")
          /\ workers[w].status # "running" \/ workers[w].current_job # NULL
       \/ /\ Calling(w, "finalize")
          /\ ~RequireActiveLease(proc[w].claim, proc[w].at)
    /\ Goto(w, "mark_failed")
    /\ UNCHANGED Queue

-----------------------------------------------------------------------------
(* LeaseHeartbeatController._run *)

HeartbeatWakes(w) ==
    /\ proc[w].hb = "wait"
    /\ proc' = [proc EXCEPT ![w] =
         IF proc[w].hbStop THEN [@ EXCEPT !.hb = "off"]
         ELSE [@ EXCEPT !.ctxStop = proc[w].ctxStop \/ proc[w].stop,
                        !.hb = IF proc[w].lost THEN "off" ELSE "renew",
                        !.hbAt = IF proc[w].lost THEN NULL ELSE now]]
    /\ UNCHANGED Queue

(* Faulty variant of HeartbeatRenews: extends the lease without the fence. *)
HeartbeatRenewsUnfenced(w) ==
    /\ proc[w].hb = "renew"
    /\ jobs' = [jobs EXCEPT ![proc[w].claim.job] =
                  [@ EXCEPT !.lease_expires_at = proc[w].hbAt + LeaseDuration]]
    /\ UNCHANGED <<events, workers, claims, now>>
    /\ proc' = [proc EXCEPT ![w] = [@ EXCEPT !.hb = "wait", !.hbAt = NULL]]

HeartbeatRenews(w) ==
    /\ proc[w].hb = "renew"
    /\ RenewJobLease(proc[w].claim, proc[w].hbAt)
    /\ proc' = [proc EXCEPT ![w] = [@ EXCEPT !.hb = "wait", !.hbAt = NULL]]

HeartbeatLoses(w) ==
    /\ proc[w].hb = "renew"
    /\ ~RequireActiveLease(proc[w].claim, proc[w].hbAt)
    /\ proc' = [proc EXCEPT ![w] =
                  [@ EXCEPT !.hb = "off", !.hbAt = NULL, !.lost = TRUE]]
    /\ UNCHANGED Queue

-----------------------------------------------------------------------------
(* The environment of a process *)

(* A signal handler or the supervisor sets the stop event. *)
RequestStop(w) ==
    /\ proc[w].pc \notin Ended /\ ~proc[w].stop
    /\ proc' = [proc EXCEPT ![w].stop = TRUE]
    /\ UNCHANGED Queue

(* A database call raises without writing.  Before registration there is   *)
(* no row to fail; a failing mark_failed is only logged.                   *)
MainDatabaseError(w) ==
    /\ \E pc \in Calls : Calling(w, pc)
    /\ IF proc[w].pc \in {"register", "mark_failed"} THEN Leave(w, "raised")
       ELSE Goto(w, "mark_failed")
    /\ UNCHANGED Queue

HeartbeatDatabaseError(w) ==
    /\ proc[w].hb = "renew"
    /\ proc' = [proc EXCEPT ![w] =
                  [@ EXCEPT !.hb = "off", !.hbAt = NULL, !.lost = TRUE]]
    /\ UNCHANGED Queue

(* The process dies, daemon thread included. *)
Crash(w) ==
    /\ proc[w].pc \notin Ended
    /\ proc' = [proc EXCEPT ![w] = [NewProcess EXCEPT !.pc = "crashed"]]
    /\ UNCHANGED Queue

(* An ended process takes its daemon thread with it. *)
DaemonDies(w) ==
    /\ proc[w].pc \in Ended /\ proc[w].hb # "off"
    /\ proc' = [proc EXCEPT ![w] = [NewProcess EXCEPT !.pc = proc[w].pc]]
    /\ UNCHANGED Queue

(* Producers and administrators use the queue directly. *)
Client ==
    /\ \/ \E j \in Jobs, key \in Keys \cup {NULL}, delay \in Delays :
            CreateJob(j, key, now + delay, now)
       \/ \E j \in Jobs : CancelPendingJob(j) \/ RetryFailedJob(j)
    /\ UNCHANGED proc

(* Time passes; no call is made more than MaxLag after its clock reading. *)
ClockTicks ==
    /\ \A w \in Workers : \A at \in {proc[w].at, proc[w].hbAt} :
            at # NULL => now < at + MaxLag
    /\ Tick
    /\ UNCHANGED proc

-----------------------------------------------------------------------------

MainStep(w) ==
    \/ Sample(w) \/ Register(w) \/ BecomeRunning(w) \/ StartupReconcile(w)
    \/ StartupRecover(w) \/ Loop(w) \/ IdleHeartbeat(w) \/ IdleRecover(w)
    \/ Claim(w) \/ ClaimNone(w) \/ Join(w) \/ Finalize(w) \/ BeginStop(w)
    \/ EndStop(w) \/ Fail(w) \/ Rejected(w)
    \/ \E outcome \in {"ok", "retryable", "permanent", "shutdown", "lost"} :
            HandlerEnds(w, outcome)

HeartbeatStep(w) ==
    HeartbeatWakes(w) \/ HeartbeatRenews(w) \/ HeartbeatLoses(w) \/ DaemonDies(w)

Fault(w) == MainDatabaseError(w) \/ HeartbeatDatabaseError(w) \/ Crash(w)

RuntimeNext ==
    \/ \E w \in Workers : MainStep(w) \/ HeartbeatStep(w) \/ Fault(w) \/ RequestStop(w)
    \/ Client
    \/ ClockTicks

RuntimeSpec == RuntimeInit /\ [][RuntimeNext]_rvars

(* Threads are scheduled and handlers return: every handler either ends or  *)
(* reaches a checkpoint.                                                    *)
Fairness ==
    \A w \in Workers : WF_rvars(MainStep(w)) /\ WF_rvars(HeartbeatStep(w))

FairSpec == RuntimeSpec /\ Fairness

-----------------------------------------------------------------------------
(* Properties *)

RuntimeTypeOK == TypeOK /\ proc \in [Workers -> Process]

(* The lease and the worker heartbeat move together: the lease of a         *)
(* worker's current job never outlasts the worker's last heartbeat by more  *)
(* than LeaseDuration.  Hence reconcile_stale, which uses the same          *)
(* threshold on heartbeat_at, never fails a worker whose lease is live.     *)
HeartbeatCoversLease ==
    \A w \in Workers :
        workers[w].current_job # NULL =>
            jobs[workers[w].current_job].lease_expires_at
                <= workers[w].heartbeat_at + LeaseDuration

(* Locally observed lease loss is a hard fence: a process that has seen it  *)
(* neither completes nor fails its job, nor claims another one.             *)
LeaseLossFence ==
    [][\A w \in Workers : proc[w].lost =>
        /\ \A c \in claims' \ claims : c.worker # w
        /\ \A j \in Jobs :
            Len(events'[j]) > Len(events[j]) =>
                ~ /\ events'[j][Len(events'[j])].worker = w
                  /\ events'[j][Len(events'[j])].type
                        \in {"succeeded", "retry_scheduled", "failed"}]_rvars

(* The processes use the queue as JobQueue describes its callers: with      *)
(* clock readings at most MaxLag old and claims they were given.  What is   *)
(* shown of JobQueue therefore holds of the running system.                 *)
RefinesQueue == Spec

(* run() returns normally only with its row terminal, detached from any job *)
(* and its heartbeat thread gone.                                           *)
CleanReturn ==
    \A w \in Workers :
        proc[w].pc = "returned" =>
            /\ workers[w].status \in TerminalWorker
            /\ workers[w].current_job = NULL
            /\ proc[w].hb = "off"

(* A process that is asked to stop, or has seen its lease lost, comes to an *)
(* end whatever it was doing: the loop head, the sleep and the checkpoints  *)
(* see the request, and the join is bounded.                                *)
ExitsWhenTold ==
    \A w \in Workers : (proc[w].stop \/ proc[w].lost) ~> proc[w].pc \in Ended

(* Whatever a process meets, it returns clean, and while it lives its lease *)
(* and its heartbeat tell the same.                                         *)
RuntimeConsistent == RuntimeTypeOK /\ CleanReturn /\ HeartbeatCoversLease
=============================================================================
