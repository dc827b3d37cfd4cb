------------------------ MODULE AutomaticMarketData ------------------------
(***************************************************************************)
(* Automatic acquisition from The Odds API (mvp/automatic_market_data.py): *)
(* three JSON files (configuration, secret, state), a chain of durable     *)
(* jobs that schedule their successors, the worker that runs them and the  *)
(* operator's controls in the UI process.  The files are read and written  *)
(* by both processes without a lock, so each file access and each          *)
(* transaction is a step of its own.                                       *)
(*                                                                         *)
(* The code maps one competition, so there is no competition loop here;    *)
(* its champion exists once enable() succeeded and is never removed.       *)
(***************************************************************************)
EXTENDS Integers, FiniteSets

CONSTANTS Keys,          \* API keys
          Contents,      \* digests of odds responses
          Quotas,        \* values of the quota header, which is always sent
          Reserve,       \* quota_reserve
          JobIds,        \* ids of the jobs that are pending or running
          MaxAttempts,   \* MAXIMUM_ATTEMPTS of a job
          MaxGeneration, \* bound on the operator's configuration changes
          MaxFaults,     \* bound on restarts and unexpected errors
          Unset

ASSUME BoundsAssumption ==
    /\ Quotas \subseteq Nat /\ Reserve \in Nat
    /\ MaxAttempts \in Nat \ {0} /\ MaxGeneration \in Nat /\ MaxFaults \in Nat
    /\ IsFiniteSet(JobIds) /\ Cardinality(JobIds) > 2

VARIABLES config, secret, st,   \* config.json, the-odds-api.secret.json, state.json
          raw,     \* raw response artifacts: the quota stored with each content
          jobs,    \* pending and running jobs of this type
          handling,    \* the worker's handler execution
          ui,      \* the operation in the UI process
          valid,   \* keys the provider accepts
          failed,  \* history: keys whose authentication failure was persisted
                   \* while no control was under way
          faults,
          overlap  \* whether, in this behaviour, the operator acts while a job runs

automaticVars == <<config, secret, st, raw, jobs, handling, ui, valid, failed, faults, overlap>>
files == <<config, secret, st, raw>>
stateVars == <<config, secret, st, raw, jobs, handling, ui, valid, failed, faults>>

EmptyState == [conn |-> "not-configured", digest |-> Unset, quota |-> Unset]
NoExec == [pc |-> "idle", job |-> Unset, cfg |-> Unset, key |-> Unset, st |-> EmptyState, why |-> "none"]
NoUi == [op |-> "idle", pc |-> "idle", cfg |-> Unset, key |-> Unset, st |-> EmptyState]

AutomaticInit ==
    /\ config = Unset /\ secret = Unset /\ st = EmptyState
    /\ raw = [c \in Contents |-> Unset]
    /\ jobs = [i \in JobIds |-> Unset]
    /\ handling = NoExec /\ ui = NoUi
    /\ valid = Keys /\ failed = {} /\ faults = 0 /\ overlap \in BOOLEAN

Live == {i \in JobIds : jobs[i] # Unset}

(* Enabled, neither paused nor blocked. *)
Active(c) == c # Unset /\ ~c.paused /\ ~c.blocked

-----------------------------------------------------------------------------
(* The chain of jobs *)

NewJob(generation, due, retry) ==
    [status |-> "pending", generation |-> generation, retry |-> retry, attempts |-> 0, due |-> due]

(* Faulty variant of EnsureJob: only pending jobs count as existing. *)
EnsureJobPending(generation, due, replace, own, retry) ==
    LET pending == {i \in JobIds \ {own} : jobs[i] # Unset /\ jobs[i].status = "pending"}
        free == {i \in JobIds : jobs[i] = Unset}
    IN  IF (pending # {} /\ ~replace) \/ free = {} THEN jobs
        ELSE [jobs EXCEPT ![CHOOSE i \in free : TRUE] = NewJob(generation, due, retry)]

(* ensure_automatic_market_data_job, one transaction: pending jobs are      *)
(* cancelled first when they are to be replaced; a job other than the       *)
(* caller's own that is still there is good enough.                         *)
EnsureJob(generation, due, replace, own, retry) ==
    LET kept == [i \in JobIds |->
                    IF replace /\ i # own /\ jobs[i] # Unset /\ jobs[i].status = "pending"
                    THEN Unset ELSE jobs[i]]
        free == {i \in JobIds : kept[i] = Unset}
    IN  IF \E i \in JobIds \ {own} : kept[i] # Unset THEN kept
        ELSE [kept EXCEPT ![CHOOSE i \in free : TRUE] = NewJob(generation, due, retry)]

(* The queue: a job's time comes, *)
Due(i) ==
    /\ jobs[i] # Unset /\ jobs[i].status = "pending" /\ ~jobs[i].due
    /\ jobs' = [jobs EXCEPT ![i].due = TRUE]
    /\ UNCHANGED <<files, handling, ui, valid, failed, faults>>

(* ... a worker claims it, *)
Claim(i) ==
    /\ handling.pc = "idle" /\ (overlap \/ ui.op = "idle")
    /\ jobs[i] # Unset /\ jobs[i].status = "pending" /\ jobs[i].due
    /\ jobs' = [jobs EXCEPT ![i].status = "running", ![i].attempts = @ + 1]
    /\ handling' = [NoExec EXCEPT !.pc = "config", !.job = i]
    /\ UNCHANGED <<files, ui, valid, failed, faults>>

(* ... and an attempt that did not end is repeated or the job has failed.   *)
Retried(i) == IF jobs[i].attempts < MaxAttempts
              THEN [jobs EXCEPT ![i].status = "pending", ![i].due = FALSE]
              ELSE [jobs EXCEPT ![i] = Unset]

(* The lease of a job whose worker is gone expires. *)
Recover(i) ==
    /\ jobs[i] # Unset /\ jobs[i].status = "running" /\ handling.job # i
    /\ jobs' = Retried(i)
    /\ UNCHANGED <<files, handling, ui, valid, failed, faults>>

-----------------------------------------------------------------------------
(* automatic_market_data_handler *)

Goto(pc, why) == handling' = [handling EXCEPT !.pc = pc, !.why = why]

(* The configuration decides whether there is anything to do; a job of      *)
(* another generation only makes sure that there is one of this generation. *)
LoadConfig ==
    /\ handling.pc = "config"
    /\ IF ~Active(config) THEN Goto("done", "none") /\ UNCHANGED jobs
       ELSE IF config.generation # jobs[handling.job].generation
       THEN /\ jobs' = EnsureJob(config.generation, TRUE, FALSE, handling.job, 0)
            /\ Goto("done", "none")
       ELSE /\ handling' = [handling EXCEPT !.pc = "secret", !.cfg = config]
            /\ UNCHANGED jobs
    /\ UNCHANGED <<files, ui, valid, failed, faults>>

(* Without a secret the job ends with a recorded failure. *)
LoadSecret ==
    /\ handling.pc = "secret"
    /\ IF secret = Unset THEN Goto("load", "not-configured")
       ELSE handling' = [handling EXCEPT !.pc = "state", !.key = secret]
    /\ UNCHANGED <<files, jobs, ui, valid, failed, faults>>

(* run_automatic_acquisition: the state is read here and written at the end. *)
LoadState ==
    /\ handling.pc = "state"
    /\ handling' = [handling EXCEPT !.pc = "request", !.st = st]
    /\ UNCHANGED <<files, jobs, ui, valid, failed, faults>>

(* get_odds sends nothing when the quota it knows is at the reserve. *)
QuotaReached ==
    /\ handling.pc = "request"
    /\ handling.st.quota # Unset /\ handling.st.quota <= Reserve
    /\ Goto("load", "quota-reserve-paused")
    /\ UNCHANGED <<files, jobs, ui, valid, failed, faults>>

Request == handling.pc = "request" /\ (handling.st.quota # Unset => handling.st.quota > Reserve)

RequestUnauthorized ==
    /\ Request /\ handling.key \notin valid
    /\ Goto("block", "authentication-failed")
    /\ UNCHANGED <<files, jobs, ui, valid, failed, faults>>

(* Faulty variant of RequestUnavailable: a rate limit counts as refusal. *)
RequestUnavailableBlocking ==
    /\ Request
    /\ Goto("block", "authentication-failed")
    /\ UNCHANGED <<files, jobs, ui, valid, failed, faults>>

(* Time-out, rate limit or server error: RetryableSourceError. *)
RequestUnavailable ==
    /\ Request
    /\ IF jobs[handling.job].retry < 2 THEN Goto("retry", "retry-scheduled")
       ELSE Goto("load", "temporarily-unavailable")
    /\ UNCHANGED <<files, jobs, ui, valid, failed, faults>>

(* The request or its answer is refused: PermanentSourceError. *)
RequestRejected ==
    /\ Request
    /\ Goto("load", "validation-failed")
    /\ UNCHANGED <<files, jobs, ui, valid, failed, faults>>

(* The same content as last time changes nothing but the quota. *)
RespondSame(q) ==
    /\ Request /\ handling.key \in valid /\ handling.st.digest # Unset
    /\ handling' = [handling EXCEPT !.pc = "save", !.st.quota = q]
    /\ UNCHANGED <<files, jobs, ui, valid, failed, faults>>

(* _publish_raw_batch of other content: the artifact holds the quota, and   *)
(* an artifact of this content with another quota is a conflict.            *)
RespondConflict(c, q) ==
    /\ Request /\ handling.key \in valid /\ handling.st.digest # c
    /\ raw[c] \notin {Unset, q}
    /\ Goto("load", "replay-conflict")
    /\ UNCHANGED <<files, jobs, ui, valid, failed, faults>>

(* ... otherwise the events are reconciled and analysed. *)
Respond(c, q) ==
    /\ Request /\ handling.key \in valid /\ handling.st.digest # c
    /\ raw[c] \in {Unset, q}
    /\ raw' = [raw EXCEPT ![c] = q]
    /\ handling' = [handling EXCEPT !.pc = "save", !.st.quota = q, !.st.digest = c]
    /\ UNCHANGED <<config, secret, st, jobs, ui, valid, failed, faults>>

(* ... or the analysis fails, after the raw artifact was published. *)
RespondInvalid(c, q) ==
    /\ Request /\ handling.key \in valid /\ handling.st.digest # c
    /\ raw[c] \in {Unset, q}
    /\ raw' = [raw EXCEPT ![c] = q]
    /\ Goto("load", "validation-failed")
    /\ UNCHANGED <<config, secret, st, jobs, ui, valid, failed, faults>>

SaveState ==
    /\ handling.pc = "save"
    /\ st' = [handling.st EXCEPT !.conn = "connected"]
    /\ Goto("next", "none")
    /\ UNCHANGED <<config, secret, raw, jobs, ui, valid, failed, faults>>

(* Authentication failed: the configuration the handler has read is written *)
(* back, blocked.                                                           *)
SaveBlocked ==
    /\ handling.pc = "block"
    /\ config' = [handling.cfg EXCEPT !.blocked = TRUE, !.generation = @ + 1]
    /\ failed' = IF ui.op = "idle" THEN failed \cup {handling.key} ELSE failed
    /\ Goto("load", handling.why)
    /\ UNCHANGED <<secret, st, raw, jobs, ui, valid, faults>>

ScheduleRetry ==
    /\ handling.pc = "retry"
    /\ jobs' = EnsureJob(handling.cfg.generation, FALSE, FALSE, handling.job, jobs[handling.job].retry + 1)
    /\ Goto("load", handling.why)
    /\ UNCHANGED <<files, ui, valid, failed, faults>>

(* Faulty variant of ScheduleNext: the running job is not excluded. *)
ScheduleNextCountingOwn ==
    /\ handling.pc = "next"
    /\ jobs' = EnsureJob(handling.cfg.generation, FALSE, FALSE, Unset, 0)
    /\ Goto("load", "scheduled")
    /\ UNCHANGED <<files, ui, valid, failed, faults>>

(* _schedule_next: the successor, then next_scheduled_acquisition. *)
ScheduleNext ==
    /\ handling.pc = "next"
    /\ jobs' = EnsureJob(handling.cfg.generation, FALSE, FALSE, handling.job, 0)
    /\ Goto("load", "scheduled")
    /\ UNCHANGED <<files, ui, valid, failed, faults>>

(* _record_failure and the other updates of state.json load it first. *)
LoadForUpdate ==
    /\ handling.pc = "load"
    /\ handling' = [handling EXCEPT !.pc = "write", !.st = st]
    /\ UNCHANGED <<files, jobs, ui, valid, failed, faults>>

(* Only temporary unavailability and validation failures go on to schedule  *)
(* a successor; after a retry or an interval it is there already.           *)
WriteUpdate ==
    /\ handling.pc = "write"
    /\ st' = IF handling.why = "scheduled" THEN handling.st ELSE [handling.st EXCEPT !.conn = handling.why]
    /\ IF handling.why \in {"temporarily-unavailable", "validation-failed", "replay-conflict"}
       THEN Goto("next", "none") ELSE Goto("done", "none")
    /\ UNCHANGED <<config, secret, raw, jobs, ui, valid, failed, faults>>

(* The worker marks the job succeeded. *)
Finish ==
    /\ handling.pc = "done"
    /\ jobs' = [jobs EXCEPT ![handling.job] = Unset]
    /\ handling' = NoExec
    /\ UNCHANGED <<files, ui, valid, failed, faults>>

(* An exception the handler does not catch: the queue retries the job. *)
UnexpectedError ==
    /\ handling.pc \notin {"idle", "done"} /\ faults < MaxFaults
    /\ jobs' = Retried(handling.job)
    /\ handling' = NoExec /\ faults' = faults + 1
    /\ UNCHANGED <<files, ui, valid, failed>>

-----------------------------------------------------------------------------
(* AutomaticMarketDataController *)

MayAct == ui.op = "idle" /\ (overlap \/ handling.pc = "idle")
MayChange == MayAct /\ (config # Unset => config.generation < MaxGeneration)

(* enable: the key is validated and the system prepared before any write. *)
Enable(k, q) ==
    /\ MayChange /\ k \in valid
    /\ ui' = [op |-> "enable", pc |-> "read", cfg |-> Unset, key |-> k,
              st |-> [EmptyState EXCEPT !.conn = "validated", !.quota = q]]
    /\ UNCHANGED <<files, jobs, handling, valid, failed, faults>>

ReadPrior ==
    /\ ui.pc = "read"
    /\ ui' = [ui EXCEPT !.pc = "secret", !.cfg =
           [paused |-> FALSE, blocked |-> FALSE,
            generation |-> IF config = Unset THEN 1 ELSE config.generation + 1]]
    /\ UNCHANGED <<files, jobs, handling, valid, failed, faults>>

(* replace_key reads the configuration before it asks the provider. *)
ReplaceKey(k) ==
    /\ MayChange /\ config # Unset
    /\ ui' = [NoUi EXCEPT !.op = "replace", !.pc = "validate", !.key = k,
           !.cfg = [paused |-> FALSE, blocked |-> FALSE, generation |-> config.generation + 1]]
    /\ UNCHANGED <<files, jobs, handling, valid, failed, faults>>

ValidateKey(q) ==
    /\ ui.pc = "validate"
    /\ IF ui.key \in valid
       THEN ui' = [ui EXCEPT !.pc = "secret", !.st.quota = q]
       ELSE ui' = NoUi
    /\ UNCHANGED <<files, jobs, handling, valid, failed, faults>>

SetPaused(paused) ==
    /\ MayChange /\ config # Unset
    /\ ui' = [NoUi EXCEPT !.op = IF paused THEN "pause" ELSE "resume", !.pc = "config",
           !.cfg = [config EXCEPT !.paused = paused, !.generation = @ + 1]]
    /\ UNCHANGED <<files, jobs, handling, valid, failed, faults>>

RunNow ==
    /\ MayAct /\ Active(config)
    /\ ui' = [NoUi EXCEPT !.op = "run now", !.pc = "ensure", !.cfg = config]
    /\ UNCHANGED <<files, jobs, handling, valid, failed, faults>>

SaveSecret ==
    /\ ui.pc = "secret"
    /\ secret' = ui.key
    /\ ui' = [ui EXCEPT !.pc = "config"]
    /\ UNCHANGED <<config, st, raw, jobs, handling, valid, failed, faults>>

SaveConfig ==
    /\ ui.pc = "config"
    /\ config' = ui.cfg
    /\ ui' = [ui EXCEPT !.pc = CASE ui.op = "enable" -> "write" [] ui.op = "replace" -> "load"
                                 [] ui.op = "pause" -> "cancel" [] ui.op = "resume" -> "reload"]
    /\ UNCHANGED <<secret, st, raw, jobs, handling, valid, failed, faults>>

(* replace_key keeps the rest of the state it loads; enable starts afresh. *)
UiLoadState ==
    /\ ui.pc = "load"
    /\ ui' = [ui EXCEPT !.pc = "write", !.st = [st EXCEPT !.conn = "validated", !.quota = ui.st.quota]]
    /\ UNCHANGED <<files, jobs, handling, valid, failed, faults>>

UiWriteState ==
    /\ ui.pc = "write"
    /\ st' = ui.st
    /\ ui' = [ui EXCEPT !.pc = "ensure"]
    /\ UNCHANGED <<config, secret, raw, jobs, handling, valid, failed, faults>>

(* resume reads the configuration again. *)
Reload ==
    /\ ui.pc = "reload"
    /\ ui' = [ui EXCEPT !.pc = "ensure", !.cfg = config]
    /\ UNCHANGED <<files, jobs, handling, valid, failed, faults>>

(* Every control but enable replaces the pending jobs by one that is due. *)
UiEnsureJob ==
    /\ ui.pc = "ensure"
    /\ jobs' = EnsureJob(ui.cfg.generation, TRUE, ui.op # "enable", Unset, 0)
    /\ ui' = NoUi
    /\ UNCHANGED <<files, handling, valid, failed, faults>>

(* _cancel_pending_automatic_jobs: a running job is left alone. *)
CancelPending ==
    /\ ui.pc = "cancel"
    /\ jobs' = [i \in JobIds |->
           IF jobs[i] # Unset /\ jobs[i].status = "pending" THEN Unset ELSE jobs[i]]
    /\ ui' = NoUi
    /\ UNCHANGED <<files, handling, valid, failed, faults>>

-----------------------------------------------------------------------------
(* The processes stop, whatever they were doing, and start again;           *)
(* ensure_startup_automatic_job runs before they are started.               *)
Restart ==
    /\ faults < MaxFaults /\ faults' = faults + 1
    /\ handling' = NoExec /\ ui' = NoUi
    /\ jobs' = IF Active(config) /\ secret # Unset
               THEN EnsureJob(config.generation, TRUE, FALSE, Unset, 0) ELSE jobs
    /\ UNCHANGED <<files, valid, failed>>

(* The provider stops accepting a key. *)
Revoke(k) ==
    /\ k \in valid
    /\ valid' = valid \ {k}
    /\ UNCHANGED <<files, jobs, handling, ui, failed, faults>>

Worker ==
    \/ LoadConfig \/ LoadSecret \/ LoadState
    \/ QuotaReached \/ RequestUnauthorized \/ RequestUnavailable \/ RequestRejected
    \/ \E q \in Quotas :
           RespondSame(q) \/ \E c \in Contents : RespondConflict(c, q) \/ RespondInvalid(c, q) \/ Respond(c, q)
    \/ SaveState \/ SaveBlocked \/ ScheduleRetry \/ ScheduleNext
    \/ LoadForUpdate \/ WriteUpdate \/ Finish

Operator ==
    \/ \E k \in Keys : ReplaceKey(k) \/ \E q \in Quotas : Enable(k, q)
    \/ \E paused \in BOOLEAN : SetPaused(paused)
    \/ RunNow

Controller ==
    \/ ReadPrior \/ (\E q \in Quotas : ValidateKey(q)) \/ SaveSecret \/ SaveConfig
    \/ UiLoadState \/ UiWriteState \/ Reload \/ UiEnsureJob \/ CancelPending

AutomaticNext ==
    /\ UNCHANGED overlap
    /\ \/ \E i \in JobIds : Due(i) \/ Claim(i) \/ Recover(i)
       \/ Worker \/ UnexpectedError
       \/ Operator \/ Controller
       \/ Restart
       \/ \E k \in Keys : Revoke(k)

AutomaticSpec == AutomaticInit /\ [][AutomaticNext]_automaticVars

(* The worker polls and its handler and the controls run to their end; time *)
(* passes, so jobs come due and leases expire.                              *)
FairAutomaticSpec ==
    /\ AutomaticSpec /\ WF_stateVars(Worker) /\ WF_stateVars(Controller)
    /\ \A i \in JobIds : WF_stateVars(Due(i)) /\ WF_stateVars(Claim(i)) /\ WF_stateVars(Recover(i))

-----------------------------------------------------------------------------
(* Properties *)

Config == [paused : BOOLEAN, blocked : BOOLEAN, generation : Nat]
Connections == {"not-configured", "validated", "connected", "quota-reserve-paused",
                "authentication-failed", "retry-scheduled", "temporarily-unavailable",
                "validation-failed", "replay-conflict"}
State == [conn : Connections, digest : Contents \cup {Unset}, quota : Quotas \cup {Unset}]
Job == [status : {"pending", "running"}, generation : Nat, retry : 0..2,
        attempts : 0..MaxAttempts, due : BOOLEAN]

ASSUME UnsetAssumption ==
    /\ Unset \notin Keys /\ Unset \notin Contents /\ Unset \notin JobIds /\ Unset \notin Nat
    /\ Unset \notin Config /\ Unset \notin Job

(* Types; a pending job has an attempt left, and the handler's job runs. *)
AutomaticTypeOK ==
    /\ config \in Config \cup {Unset} /\ secret \in Keys \cup {Unset} /\ st \in State
    /\ \A i \in Live : jobs[i] \in Job /\ (jobs[i].status = "pending" => jobs[i].attempts < MaxAttempts)
    /\ handling.pc # "idle" => handling.job \in Live /\ jobs[handling.job].status = "running"

(* "durable ... acquisition with duplicate suppression": whoever asks for a *)
(* job, there are never more than the one that runs and its successor.      *)
DuplicatesSuppressed == Cardinality(Live) <= 2

Sent == handling.pc = "request" /\ handling'.pc \notin {"request", "idle"}
        /\ handling'.why # "quota-reserve-paused"

(* "Authentication failure blocks retries until the key is replaced": a key *)
(* whose failure was persisted while no control was under way is not sent   *)
(* again, however controls and jobs overlap afterwards.                     *)
KeyFailsOnce == [][Sent => handling.key \notin failed]_automaticVars

(* ... the operation is blocked only when the stored key is refused by the  *)
(* provider, or was stored while the handler worked with the one before it. *)
BlocksRevokedKey ==
    [][config # Unset /\ ~config.blocked /\ config'.blocked
        => secret \notin valid \/ secret # handling.key]_automaticVars

(* While the operation is active there is a job, unless the quota is used   *)
(* up: the chain of jobs does not break.                                    *)
StaysScheduled ==
    Active(config) /\ ui.op = "idle" /\ st.conn # "quota-reserve-paused" => Live # {}

(* An active operation keeps acquiring, whatever single acquisitions meet,  *)
(* if the operator acts between jobs.                                       *)
KeepsAcquiring ==
    ~overlap =>
        (<>[](Active(config) /\ ui.op = "idle" /\ st.conn # "quota-reserve-paused")
            => []<>(handling.pc = "request"))

(* One chain of jobs: it never forks, and it does not break while the       *)
(* operator acts between jobs.                                              *)
OneJobChain == AutomaticTypeOK /\ DuplicatesSuppressed /\ (overlap \/ StaysScheduled)

(* A refused key is used no more, and only a refused key blocks. *)
KeysRespected == KeyFailsOnce /\ BlocksRevokedKey
=============================================================================
