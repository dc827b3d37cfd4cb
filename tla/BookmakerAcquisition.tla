------------------------ MODULE BookmakerAcquisition ------------------------
(***************************************************************************)
(* One sport's autonomous bookmaker cycles: the job handler runs the       *)
(* orchestrator over the providers in order, the ingestion service         *)
(* persists what each of them gave, and the fallback decision closes the   *)
(* cycle.  Several executions may be under way at once: jobs of different  *)
(* cycles on different workers and, when a lease was lost, an              *)
(* execution that nobody waits for any more, since the orchestrator hands  *)
(* the service no checkpoint.  A bundle is what a browser session brought  *)
(* back, reduced to what admission looks at.                               *)
(***************************************************************************)
EXTENDS Integers, Sequences, FiniteSets

CONSTANTS Executions,        \* handler executions that can be under way at once
          Cycles,            \* acquisition cycles, each with its job
          Bundles,           \* what an acquisition may bring back
          EnabledProviders,  \* providers enabled in the settings
          SelectionMode,     \* "betano", "betclic", or one that uses both
          MaximumAttempts,   \* of each cycle's job
          BlockedCooldown,   \* blocked_cooldown_seconds
          AcquisitionInterval, \* acquisition_interval_seconds
          MaxNow,            \* bound on the clock
          NULL

Providers == {"betano", "betclic"}

(* Bundle: the facts evaluate_admission reads. *)
Bundle == [verified : BOOLEAN, critical : BOOLEAN, events : BOOLEAN,
           drift : BOOLEAN, markets : BOOLEAN, priced : BOOLEAN,
           quotes : BOOLEAN, unresolved : BOOLEAN, complete : BOOLEAN]

(* _verified_extraction_applied needs an event, a priced selection a market. *)
ASSUME BundlesAssumption ==
    Bundles \subseteq {b \in Bundle : (b.verified => b.events) /\ (b.priced => b.markets)}
ASSUME ProvidersAssumption == EnabledProviders \subseteq Providers
ASSUME NumbersAssumption ==
    /\ MaximumAttempts \in Nat \ {0} /\ MaxNow \in Nat
    /\ BlockedCooldown \in Nat /\ AcquisitionInterval \in Nat

VARIABLES
    job,       \* the cycle's job: status and number of claims
    runs,      \* bookmaker_acquisition_runs by cycle and provider
    attempts,  \* bookmaker_acquisition_attempts of those runs
    status,    \* bookmaker_provider_status
    registered,\* bookmaker_snapshot_registrations by cycle and provider
    decisions, \* bookmaker_fallback_decisions
    exec,      \* the executions
    blocked,   \* history: until when a persisted block asked to stay away
    alone,     \* history: no two executions have ever been under way at once
    now

tables == <<runs, attempts, status, registered, decisions>>
history == <<blocked, alone>>
vars == <<job, runs, attempts, status, registered, decisions, exec, blocked, alone, now>>

Snapshot == [cycle : Cycles, provider : Providers, bundle : Bundles]
RunStatus == {"succeeded", "blocked", "failed", "retryable"}
Run == [status : RunStatus, snapshot : {NULL} \cup Snapshot]
Registration == [snapshot : Snapshot, observed : 0..MaxNow]
Outcome == {"none", "success", "blocked", "cooldown", "retryable", "permanent"}

ASSUME NullAssumption ==
    /\ NULL \notin Snapshot /\ NULL \notin Run /\ NULL \notin Registration
    /\ NULL \notin Nat

(* What an acquisition ends in: an error, a block, or a bundle. *)
Acquired == [kind : {"retryable", "permanent", "blocked"}, bundle : {NULL}]
            \cup [kind : {"bundle"}, bundle : Bundles]
Idle == [pc |-> "idle", cycle |-> NULL, attempt |-> 0, started |-> 0,
         todo |-> <<>>, out |-> [p \in Providers |-> "none"],
         seen |-> NULL, cached |-> NULL]

Init ==
    /\ job = [c \in Cycles |-> [status |-> "pending", attempts |-> 0]]
    /\ runs = [c \in Cycles |-> [p \in Providers |-> NULL]]
    /\ attempts = [c \in Cycles |-> [p \in Providers |->
                      [n \in 1..MaximumAttempts |-> NULL]]]
    /\ status = [p \in Providers |->
                   [code |-> "unknown", lastValid |-> NULL, nextEligible |-> NULL]]
    /\ registered = [c \in Cycles |-> [p \in Providers |-> NULL]]
    /\ decisions = {}
    /\ exec = [e \in Executions |-> Idle]
    /\ blocked = [p \in Providers |-> 0]
    /\ alone = TRUE
    /\ now = 0

-----------------------------------------------------------------------------
(* Pure parts *)

(* A selection mode that names a provider leaves the other one out. *)
Uses(p) == p \in EnabledProviders /\ SelectionMode \notin Providers \ {p}

(* _providers_for_selection_mode, preferred provider first. *)
ProvidersForSelectionMode ==
    (IF Uses("betano") THEN <<"betano">> ELSE <<>>) \o
    (IF Uses("betclic") THEN <<"betclic">> ELSE <<>>)

(* evaluate_admission: the refusals in the code's order, then the verdict.  *)
(* A bundle with quotes and no native market is the legacy projection:      *)
(* counted as complete, and never published when partial.                   *)
EvaluateAdmission(b) ==
    LET legacy == ~b.markets /\ b.quotes
        partial == b.unresolved \/ ~(b.complete \/ legacy)
        Refuse(outcome) == [outcome |-> outcome, publish |-> FALSE, replace |-> FALSE]
    IN  IF ~b.verified \/ (~b.critical /\ ~b.events) THEN Refuse("unavailable")
        ELSE IF b.critical \/ b.drift THEN Refuse("drift-detected")
        ELSE IF ~(b.priced \/ legacy) THEN Refuse("unavailable")
        ELSE [outcome |-> IF partial THEN "partial" ELSE "admitted",
              publish |-> ~(partial /\ legacy),
              replace |-> ~partial]

Complete(b) == EvaluateAdmission(b).replace

(* _outcome_from_result for a run that is replayed: the row's status decides. *)
OutcomeOfRun(row) ==
    CASE row.status = "succeeded" -> "success"
      [] row.status = "blocked"   -> "blocked"
      [] OTHER                    -> "permanent"

(* resolve_provider_fallback: preferred, then comparison, then the cached   *)
(* snapshot (never current), then nothing.                                  *)
ResolveProviderFallback(out, cached) ==
    CASE out["betano"] = "success" ->
           [selected |-> "betano", cached |-> NULL,
            reason |-> IF out["betclic"] = "success" THEN "both_retained" ELSE "preferred_only"]
      [] out["betano"] # "success" /\ out["betclic"] = "success" ->
           [selected |-> "betclic", cached |-> NULL, reason |-> "comparison_fallback"]
      [] OTHER ->
           [selected |-> NULL, cached |-> cached,
            reason |-> IF cached # NULL THEN "cached_stale_preserved"
                       ELSE "provider_unavailable"]

-----------------------------------------------------------------------------
(* Updates made by the repository *)

Provider(e) == Head(exec[e].todo)
Row(e) == runs[exec[e].cycle][Provider(e)]
Move(e, pc) == exec' = [exec EXCEPT ![e].pc = pc]

(* The provider is dealt with: its outcome is noted and the next one is due. *)
Advanced(x, outcome) ==
    [x EXCEPT !.pc = IF Len(x.todo) > 1 THEN "next" ELSE "finish",
              !.todo = Tail(x.todo), !.seen = NULL, !.out[Head(x.todo)] = outcome]

Advance(e, outcome) == exec' = [exec EXCEPT ![e] = Advanced(@, outcome)]

(* _ensure_run and update_acquisition_run_status: the snapshot of an        *)
(* earlier success is kept (COALESCE).                                      *)
SetRun(e, st, snapshot) ==
    runs' = [runs EXCEPT ![exec[e].cycle][Provider(e)] =
        [status |-> st,
         snapshot |-> IF snapshot # NULL \/ @ = NULL THEN snapshot ELSE @.snapshot]]

(* insert_acquisition_attempt *)
AddAttempt(e, outcome) ==
    attempts' = [attempts EXCEPT ![exec[e].cycle][Provider(e)][exec[e].attempt] = outcome]

(* upsert_provider_status with preserve_last_valid_snapshot.  A block or a  *)
(* failure keeps the last valid snapshot; next_eligible is always replaced. *)
SetStatus(e, code, nextEligible) ==
    status' = [status EXCEPT ![Provider(e)] =
        [@ EXCEPT !.code = code, !.nextEligible = nextEligible]]

(* The job ends with st if this execution still holds it; otherwise the     *)
(* queue's fencing discards the result.                                     *)
EndJob(e, st) ==
    job' = IF job[exec[e].cycle] = [status |-> "running", attempts |-> exec[e].attempt]
           THEN [job EXCEPT ![exec[e].cycle].status = st]
           ELSE job

(* retry or recovery of the job: attempts must remain. *)
Requeued(c) == IF job[c].attempts < MaximumAttempts THEN "pending" ELSE "failed"

-----------------------------------------------------------------------------
(* The handler and the orchestrator *)

(* ingest_bookmaker_autonomous_cycle_handler is called with a claimed job. *)
Begin(e, c) ==
    /\ exec[e].pc = "idle" /\ job[c].status = "pending"
    /\ job' = [job EXCEPT ![c] = [status |-> "running", attempts |-> @.attempts + 1]]
    /\ exec' = [exec EXCEPT ![e] = [Idle EXCEPT
           !.pc = IF ProvidersForSelectionMode = <<>> THEN "finish" ELSE "next",
           !.cycle = c, !.attempt = job[c].attempts + 1, !.started = now,
           !.todo = ProvidersForSelectionMode]]
    /\ alone' = (alone /\ \A x \in Executions : exec[x].pc = "idle")
    /\ UNCHANGED <<tables, blocked, now>>

(* _provider_eligible, judged at the time the cycle started. *)
Eligible(e) ==
    LET row == status[Provider(e)]
    IN  row.code = "blocked" => row.nextEligible # NULL /\ row.nextEligible <= exec[e].started

CheckEligible(e) ==
    /\ exec[e].pc = "next"
    /\ IF Eligible(e) THEN Move(e, "lookup") ELSE Advance(e, "cooldown")
    /\ UNCHANGED <<job, tables, history, now>>

(* ingest: a run of this sub-cycle that has ended is returned as it is. *)
Lookup(e) ==
    /\ exec[e].pc = "lookup"
    /\ IF Row(e) # NULL /\ Row(e).status # "retryable"
       THEN Advance(e, OutcomeOfRun(Row(e)))
       ELSE Move(e, "acquire")
    /\ UNCHANGED <<job, tables, history, now>>

(* _acquire and the normalisation that follows: an error, a block or a bundle. *)
Acquire(e) ==
    /\ exec[e].pc = "acquire"
    /\ \E r \in Acquired :
          exec' = [exec EXCEPT
              ![e].seen = r,
              ![e].pc = IF r.kind = "bundle" /\ EvaluateAdmission(r.bundle).publish
                        THEN "publish" ELSE "persist"]
    /\ UNCHANGED <<job, tables, history, now>>

(* publish_bookmaker_snapshot: published, busy, or an integrity error. *)
Publish(e) ==
    /\ exec[e].pc = "publish"
    /\ \/ Move(e, "success")
       \/ \E kind \in {"retryable", "permanent"} :
             exec' = [exec EXCEPT ![e].pc = "persist",
                                  ![e].seen = [kind |-> kind, bundle |-> NULL]]
    /\ UNCHANGED <<job, tables, history, now>>

(* _persist_blocked: the provider is left alone for the cooldown. *)
PersistBlocked(e) ==
    /\ exec[e].pc = "persist" /\ exec[e].seen.kind = "blocked"
    /\ SetRun(e, "blocked", NULL) /\ AddAttempt(e, "blocked")
    /\ SetStatus(e, "blocked", now + BlockedCooldown)
    /\ blocked' = [blocked EXCEPT ![Provider(e)] = now + BlockedCooldown]
    /\ Advance(e, "blocked")
    /\ UNCHANGED <<job, registered, decisions, alone, now>>

(* _persist_rejected: admission refused the bundle. *)
PersistRejected(e) ==
    /\ exec[e].pc = "persist" /\ exec[e].seen.kind = "bundle"
    /\ SetRun(e, "failed", NULL) /\ AddAttempt(e, "failed")
    /\ SetStatus(e, EvaluateAdmission(exec[e].seen.bundle).outcome, NULL)
    /\ Advance(e, "permanent")
    /\ UNCHANGED <<job, registered, decisions, history, now>>

(* _persist_failure: a permanent source, normalisation or publication error. *)
PersistFailure(e) ==
    /\ exec[e].pc = "persist" /\ exec[e].seen.kind = "permanent"
    /\ SetRun(e, "failed", NULL) /\ AddAttempt(e, "failed")
    /\ SetStatus(e, "unavailable", NULL)
    /\ Advance(e, "permanent")
    /\ UNCHANGED <<job, registered, decisions, history, now>>

(* _persist_retryable; on the last attempt a second transaction follows. *)
PersistRetryable(e) ==
    /\ exec[e].pc = "persist" /\ exec[e].seen.kind = "retryable"
    /\ SetRun(e, "retryable", NULL) /\ AddAttempt(e, "retryable")
    /\ SetStatus(e, "unavailable", NULL)
    /\ IF exec[e].attempt < MaximumAttempts
       THEN Advance(e, "retryable") ELSE Move(e, "exhausted")
    /\ UNCHANGED <<job, registered, decisions, history, now>>

(* Faulty variant of FinalizeTerminalFailure: the run is left as it is. *)
FinalizeNothing(e) ==
    /\ exec[e].pc = "exhausted"
    /\ Advance(e, "permanent")
    /\ UNCHANGED <<job, tables, history, now>>

(* _finalize_terminal_failure, and PermanentJobError for the provider. *)
FinalizeTerminalFailure(e) ==
    /\ exec[e].pc = "exhausted"
    /\ SetRun(e, "failed", NULL)
    /\ SetStatus(e, "unavailable", NULL)
    /\ Advance(e, "permanent")
    /\ UNCHANGED <<job, attempts, registered, decisions, history, now>>

SnapshotOf(e) == [cycle |-> exec[e].cycle, provider |-> Provider(e), bundle |-> exec[e].seen.bundle]

(* register_snapshot: another snapshot of this provider and cycle conflicts. *)
Conflict(e) ==
    LET row == registered[exec[e].cycle][Provider(e)]
    IN  row # NULL /\ row.snapshot # SnapshotOf(e)

(* Faulty variant of PersistSuccess: every published snapshot becomes the   *)
(* last valid one, partial or not.                                          *)
PersistSuccessReplacing(e) ==
    /\ exec[e].pc = "success" /\ ~Conflict(e)
    /\ SetRun(e, "succeeded", SnapshotOf(e)) /\ AddAttempt(e, "succeeded")
    /\ registered' = [registered EXCEPT ![exec[e].cycle][Provider(e)] =
           IF @ = NULL THEN [snapshot |-> SnapshotOf(e), observed |-> exec[e].started] ELSE @]
    /\ status' = [status EXCEPT ![Provider(e)] =
           [code |-> "operational", lastValid |-> SnapshotOf(e), nextEligible |-> now + AcquisitionInterval]]
    /\ Advance(e, IF Complete(exec[e].seen.bundle) THEN "success" ELSE "permanent")
    /\ UNCHANGED <<job, decisions, history, now>>

(* _persist_success: run, attempt, registration and status in one           *)
(* transaction; only a complete capture becomes the last valid snapshot,    *)
(* and a partial one counts as a failed outcome.                            *)
PersistSuccess(e) ==
    /\ exec[e].pc = "success" /\ ~Conflict(e)
    /\ SetRun(e, "succeeded", SnapshotOf(e)) /\ AddAttempt(e, "succeeded")
    /\ registered' = [registered EXCEPT ![exec[e].cycle][Provider(e)] =
           IF @ = NULL THEN [snapshot |-> SnapshotOf(e), observed |-> exec[e].started] ELSE @]
    /\ status' = [status EXCEPT ![Provider(e)] =
           [code |-> IF Complete(exec[e].seen.bundle) THEN "operational" ELSE "partial",
            lastValid |-> IF Complete(exec[e].seen.bundle) THEN SnapshotOf(e) ELSE @.lastValid,
            nextEligible |-> now + AcquisitionInterval]]
    /\ Advance(e, IF Complete(exec[e].seen.bundle) THEN "success" ELSE "permanent")
    /\ UNCHANGED <<job, decisions, history, now>>

(* The conflict rolls the transaction back and ends the execution; the      *)
(* worker treats an unexpected error as retryable.                          *)
PersistConflict(e) ==
    /\ exec[e].pc = "success" /\ Conflict(e)
    /\ EndJob(e, Requeued(exec[e].cycle))
    /\ exec' = [exec EXCEPT ![e] = Idle]
    /\ UNCHANGED <<tables, history, now>>

(* After the loop: RetryableJobError while a provider asks for a retry. *)
AskForRetry(e) ==
    /\ exec[e].pc = "finish"
    /\ \E p \in Providers : exec[e].out[p] = "retryable"
    /\ EndJob(e, "pending")
    /\ exec' = [exec EXCEPT ![e] = Idle]
    /\ UNCHANGED <<tables, history, now>>

(* _select_verified_cached_snapshot_reference: the most recently observed   *)
(* of the last valid snapshots; at equal times max() keeps the first.       *)
SelectCached(e) ==
    LET Of(p) == status[p].lastValid
        Seen(p) == registered[Of(p).cycle][p].observed
        Have == {p \in Providers : Of(p) # NULL}
    IN  IF Have = {} THEN NULL
        ELSE IF Have = Providers
             THEN IF Seen("betclic") > Seen("betano") THEN Of("betclic") ELSE Of("betano")
             ELSE Of(CHOOSE p \in Have : TRUE)

ReadCached(e) ==
    /\ exec[e].pc = "finish"
    /\ \A p \in Providers : exec[e].out[p] # "retryable"
    /\ exec' = [exec EXCEPT ![e].pc = "decide", ![e].cached = SelectCached(e)]
    /\ UNCHANGED <<job, tables, history, now>>

(* load_bookmaker_snapshot raises for a damaged cached snapshot, which is   *)
(* verified even when it is not needed: the execution fails.                *)
CachedUnreadable(e) ==
    /\ exec[e].pc = "finish"
    /\ \A p \in Providers : exec[e].out[p] # "retryable"
    /\ \E p \in Providers : status[p].lastValid # NULL
    /\ EndJob(e, Requeued(exec[e].cycle))
    /\ exec' = [exec EXCEPT ![e] = Idle]
    /\ UNCHANGED <<tables, history, now>>

(* _persist_fallback, and the job succeeds whatever the decision is. *)
PersistFallback(e) ==
    /\ exec[e].pc = "decide"
    /\ LET d == ResolveProviderFallback(exec[e].out, exec[e].cached)
       IN  decisions' = decisions \cup
             {[cycle |-> exec[e].cycle, attempt |-> exec[e].attempt,
               selected |-> d.selected, cached |-> d.cached, reason |-> d.reason,
               out |-> exec[e].out]}
    /\ EndJob(e, "succeeded")
    /\ exec' = [exec EXCEPT ![e] = Idle]
    /\ UNCHANGED <<runs, attempts, status, registered, history, now>>

-----------------------------------------------------------------------------
(* What the queue and the machine do *)

(* The worker process dies; its job is recovered when the lease expires. *)
Crash(e) ==
    /\ exec[e].pc # "idle"
    /\ EndJob(e, Requeued(exec[e].cycle))
    /\ exec' = [exec EXCEPT ![e] = Idle]
    /\ UNCHANGED <<tables, history, now>>

(* recover_expired_leases takes the job from an execution that goes on. *)
LoseLease(c) ==
    /\ job[c].status = "running"
    /\ job' = [job EXCEPT ![c].status = Requeued(c)]
    /\ UNCHANGED <<tables, exec, history, now>>

Tick ==
    /\ now < MaxNow
    /\ now' = now + 1
    /\ UNCHANGED <<job, tables, exec, history>>

Step(e) ==
    \/ CheckEligible(e) \/ Lookup(e) \/ Acquire(e) \/ Publish(e)
    \/ PersistBlocked(e) \/ PersistRejected(e) \/ PersistFailure(e)
    \/ PersistRetryable(e) \/ FinalizeTerminalFailure(e)
    \/ PersistSuccess(e) \/ PersistConflict(e)
    \/ AskForRetry(e) \/ ReadCached(e) \/ CachedUnreadable(e) \/ PersistFallback(e)

Next ==
    \/ \E e \in Executions : Step(e) \/ Crash(e)
    \/ \E e \in Executions, c \in Cycles : Begin(e, c)
    \/ \E c \in Cycles : LoseLease(c)
    \/ Tick

Spec == Init /\ [][Next]_vars

-----------------------------------------------------------------------------
(* Properties *)

Pc == {"idle", "next", "lookup", "acquire", "publish", "persist", "exhausted",
       "success", "finish", "decide"}

(* The tables and the executions have the shapes the schema and the code give them. *)
TypeOK ==
    /\ job \in [Cycles -> [status : {"pending", "running", "succeeded", "failed"},
                           attempts : 0..MaximumAttempts]]
    /\ \A c \in Cycles, p \in Providers :
          /\ runs[c][p] \in {NULL} \cup Run
          /\ attempts[c][p] \in [1..MaximumAttempts -> {NULL} \cup RunStatus]
          /\ registered[c][p] \in {NULL} \cup Registration
    /\ \A p \in Providers : status[p].lastValid \in {NULL} \cup Snapshot
    /\ \A e \in Executions :
          /\ exec[e].pc \in Pc /\ exec[e].out \in [Providers -> Outcome]
          /\ exec[e].attempt \in 0..MaximumAttempts
          /\ exec[e].seen \in {NULL} \cup Acquired
          /\ exec[e].cached \in {NULL} \cup Snapshot

(* Whatever fails, overlaps or comes late, a provider's last valid snapshot *)
(* is one that is registered and was admitted as complete, never a partial  *)
(* one (may_replace_last_valid).                                            *)
LastValidAdmitted ==
    \A p \in Providers : status[p].lastValid # NULL =>
        LET s == status[p].lastValid
        IN  /\ registered[s.cycle][p] # NULL /\ registered[s.cycle][p].snapshot = s
            /\ Complete(s.bundle)

(* The snapshot registered for a provider and a cycle is the one its run    *)
(* names, also after later attempts of the same cycle failed.               *)
RegistrationMatchesRun ==
    \A c \in Cycles, p \in Providers : registered[c][p] # NULL =>
        runs[c][p] # NULL /\ runs[c][p].snapshot = registered[c][p].snapshot

(* "Successful provider sub-cycles are idempotent on replay": as long as    *)
(* executions have not overlapped, a run that has succeeded stays as it is, *)
(* through retries and crashes.  (An execution that outlived its lease does *)
(* overwrite it.)                                                           *)
SucceededIsFinal ==
    [][alone => \A c \in Cycles, p \in Providers :
          runs[c][p] # NULL /\ runs[c][p].status = "succeeded"
             => runs'[c][p] = runs[c][p]]_vars

(* When a cycle is decided, no provider is left "retryable" with nobody to  *)
(* retry it, unless it was skipped for its cooldown or executions have      *)
(* overlapped.                                                              *)
SettledOrSkipped ==
    [][alone => \A d \in decisions' \ decisions, p \in Providers :
          runs[d.cycle][p] # NULL /\ runs[d.cycle][p].status = "retryable"
             => d.out[p] = "cooldown"]_vars

(* "Blocked providers cool down": a provider is found eligible only when    *)
(* the time that its last persisted block named has come, unless executions *)
(* have overlapped: the last to persist overwrites the block of another.    *)
CoolsDown ==
    [][alone => \A e \in Executions :
          exec[e].pc = "next" /\ exec'[e].pc = "lookup" => blocked[Provider(e)] <= now]_vars

(* A provider is selected as current only with a capture that was admitted  *)
(* as complete: a replay decides as the first execution would have.         *)
SelectedIsComplete ==
    \A d \in decisions : d.selected # NULL =>
        Complete(registered[d.cycle][d.selected].snapshot.bundle)

(* The provider status, the registrations and the runs are three tables     *)
(* that tell one story.                                                     *)
TablesAgree == TypeOK /\ LastValidAdmitted /\ RegistrationMatchesRun

(* While executions do not overlap, retries and crashes neither redo, lose  *)
(* nor hurry what a cycle has to do.                                        *)
CyclesSettle == SucceededIsFinal /\ SettledOrSkipped /\ CoolsDown
=============================================================================
