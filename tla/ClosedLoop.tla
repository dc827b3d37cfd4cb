----------------------------- MODULE ClosedLoop -----------------------------
(***************************************************************************)
(* Results, analytical settlement and the retraining loop (results/,       *)
(* settlement/, operations/, learning/): registration of result snapshots, *)
(* settlement of every position of one analysis artifact by operator and   *)
(* worker jobs that run concurrently, and the audit of what is rejected.   *)
(* Identities are content: a snapshot or a settlement is its record.       *)
(***************************************************************************)
EXTENDS Integers, Sequences, FiniteSets, FiniteSetsExt, Monitoring

CONSTANTS
    Events,
    Positions,     \* the opportunities and combinations of the analysis
    LegsOf,        \* [Positions -> sets of <<event, outcome key, odds>>]
    Published,     \* verified result snapshots on disk
    Jobs,          \* settlement jobs that may run at the same time
    SettlementTimes,         \* as_of_utc values of settlement and monitoring requests
    EvidenceSets   \* evidence lists of monitoring requests

ASSUME ClosedLoopAssumption ==
    /\ SettlementTimes \subseteq Nat
    /\ IsFiniteSet(Positions) /\ \A p \in Positions : IsFiniteSet(LegsOf[p])
    /\ \A p \in Positions : LegsOf[p] # {} /\ \A l \in LegsOf[p] : l[1] \in Events /\ l[3] \in Nat /\ l[3] > 1

VARIABLES
    results,      \* result_snapshots
    current,      \* current_analytical_settlements, None before the first
    settlements,  \* analytical_settlements
    sruns,        \* settlement_runs
    audits,       \* rejections in settlement_audit_events: kind and position
    monitored,    \* a monitoring run, being persisted or stored in monitoring_runs
    job           \* [Jobs -> the report a job published and is persisting]

clvars == <<results, current, settlements, sruns, audits, monitored, job>>

Final == {"win", "loss", "push", "void"}
Outcomes == {"home", "draw", "away"}

CLInit ==
    /\ results = {}
    /\ current = [p \in Positions |-> None]
    /\ settlements = {} /\ sruns = {} /\ audits = {}
    /\ monitored = None /\ job = [j \in Jobs |-> None]

-----------------------------------------------------------------------------
(***************************************************************************)
(* Canonical results                                                       *)
(***************************************************************************)

\* build_football_full_match_1x2_result: the outcome is a function of the
\* scores and a claimed outcome that differs is refused.
WinnerOf(score) ==
    CASE score[1] > score[2] -> "home"
      [] score[1] < score[2] -> "away"
      [] OTHER -> "draw"

\* CanonicalResult.__post_init__
ValidResult(r) ==
    /\ r.status = "completed" =>
          /\ r.observed >= r.scheduled
          /\ r.score # None /\ r.at # None /\ r.at <= r.observed
          /\ r.score[1] >= 0 /\ r.score[2] >= 0
          /\ r.claimed \in {None, WinnerOf(r.score)}
    /\ r.status # "completed" => r.score = None /\ r.at = None

\* CanonicalResult.outcome_for over the three outcomes of the market.
OutcomeFor(r, key) == IF WinnerOf(r.score) = key THEN "win" ELSE "loss"

\* load_result_snapshot admits exactly the valid published snapshots.
LoadResultSnapshots == {r \in Published : ValidResult(r)}

-----------------------------------------------------------------------------
(***************************************************************************)
(* Settlement of one position                                              *)
(***************************************************************************)

SingleStatus(r, key) ==
    CASE r.status \in {"scheduled", "in_progress", "postponed"} -> "pending"
      [] r.status \in {"cancelled", "abandoned"} -> "void"
      [] r.status = "incomplete" -> "unresolved"
      [] OTHER -> OutcomeFor(r, key)

SingleReturn(odds, status) ==
    CASE status = "win" -> odds
      [] status = "loss" -> 0
      [] OTHER -> 1

\* The snapshot a report uses for an event, None without one.
ResultFor(refs, e) ==
    IF \E r \in refs : r.event = e THEN CHOOSE r \in refs : r.event = e ELSE None

LegStatus(refs, l) ==
    IF ResultFor(refs, l[1]) = None THEN "pending" ELSE SingleStatus(ResultFor(refs, l[1]), l[2])

LegStatuses(refs, p) == {LegStatus(refs, l) : l \in LegsOf[p]}

\* Mutant: an open leg is looked at before a lost one.
CombinationOpenFirst(values) ==
    IF "unresolved" \in values THEN "unresolved"
    ELSE IF "pending" \in values THEN "pending"
    ELSE IF "loss" \in values THEN "loss"
    ELSE IF values \subseteq {"void", "push"}
         THEN IF "void" \in values THEN "void" ELSE "push"
    ELSE "win"

\* settle_combination's order of precedence.
CombinationStatus(values) ==
    IF "loss" \in values THEN "loss"
    ELSE IF "unresolved" \in values THEN "unresolved"
    ELSE IF "pending" \in values THEN "pending"
    ELSE IF values \subseteq {"void", "push"}
         THEN IF "void" \in values THEN "void" ELSE "push"
    ELSE "win"

CombinationReturn(refs, p, status) ==
    CASE status = "win" -> MapThenFoldSet(LAMBDA x, y : x * y, 1, LAMBDA l : l[3],
                               LAMBDA S : CHOOSE l \in S : TRUE,
                               {l \in LegsOf[p] : LegStatus(refs, l) = "win"})
      [] status = "loss" -> 0
      [] OTHER -> 1

\* settle_single or settle_combination, with _build's profit of one unit.
Settle(p, refs, asOf) ==
    LET values == LegStatuses(refs, p)
        single == Cardinality(LegsOf[p]) = 1
        status == IF single THEN CHOOSE s \in values : TRUE ELSE CombinationStatus(values)
        units  == IF single THEN SingleReturn((CHOOSE l \in LegsOf[p] : TRUE)[3], status)
                  ELSE CombinationReturn(refs, p, status)
    IN  [position |-> p, asOf |-> asOf, status |-> status,
         returned |-> units, profit |-> units - 1,
         evidence |-> {r \in refs : \E l \in LegsOf[p] : l[1] = r.event}]

\* settle_analysis_artifact refuses two snapshots of one event and evidence
\* observed after the as-of time.
Settleable(refs, asOf) ==
    /\ \A r, s \in refs : r.event = s.event => r = s
    /\ \A r \in refs : (\E p \in Positions : \E l \in LegsOf[p] : l[1] = r.event)
                          => r.observed <= asOf

SettleAnalysisArtifact(refs, asOf) == {Settle(p, refs, asOf) : p \in Positions}

ASSUME NoneAssumption ==
    \A refs \in SUBSET LoadResultSnapshots, asOf \in SettlementTimes :
        None \notin SettleAnalysisArtifact(refs, asOf)

\* The reports a job may publish, each computed once.
Reports == [refs \in SUBSET LoadResultSnapshots |-> [asOf \in SettlementTimes |->
                SettleAnalysisArtifact(refs, asOf)]]

-----------------------------------------------------------------------------
(***************************************************************************)
(* Registration of results                                                 *)
(***************************************************************************)

\* engine --register-result-snapshot: idempotent by snapshot identity.
RegisterResult(r) ==
    /\ r \in LoadResultSnapshots \ results
    /\ results' = results \cup {r}
    /\ UNCHANGED <<current, settlements, sruns, audits, monitored, job>>

\* register_completed_results_from_snapshot: finished events only, all of a
\* source snapshot in one transaction; other final evidence of an event aborts.
RegisterCompletedResults(batch) ==
    /\ \A r \in batch : r.status = "completed"
    /\ \A r, s \in batch : r.event = s.event => r = s
    /\ ~(batch \subseteq results)
    /\ \A r \in batch, s \in results :
          s.event = r.event /\ s.status = "completed" => s = r
    /\ results' = results \cup batch
    /\ UNCHANGED <<current, settlements, sruns, audits, monitored, job>>

-----------------------------------------------------------------------------
(***************************************************************************)
(* Settlement jobs                                                         *)
(***************************************************************************)

\* The report is published, immutably and repeatably, before the database is
\* touched.
PublishReport(j, kind, refs, asOf) ==
    /\ job[j] = None
    /\ Settleable(refs, asOf)
    /\ job' = [job EXCEPT ![j] = [kind |-> kind, refs |-> refs, asOf |-> asOf,
                                  stage |-> "publish",
                                  settlements |-> Reports[refs][asOf]]]
    /\ UNCHANGED <<results, current, settlements, sruns, audits, monitored>>

\* settle_analysis_handler and the command line read snapshots from disk and
\* register them with their report.
SettleAnalysis(j, refs, asOf) ==
    refs \subseteq LoadResultSnapshots /\ PublishReport(j, "operator", refs, asOf)

\* settle_new_results_handler: at least one reference, all of them registered.
SettleNewResults(j, refs, asOf) ==
    refs # {} /\ refs \subseteq results /\ PublishReport(j, "worker", refs, asOf)

AllowedCurrentTransition(from, to) ==
    \/ from = "pending" /\ to \in {"pending", "unresolved"} \cup Final
    \/ from = "unresolved" /\ to \in {"unresolved"} \cup Final

\* Mutant: only the status decides, not the as-of order.
SupersedesAnyTime(s) ==
    current[s.position] \notin {None, s} =>
        AllowedCurrentTransition(current[s.position].status, s.status)

\* The candidate replaces, starts or repeats the position's current settlement.
Supersedes(s) ==
    current[s.position] \notin {None, s} =>
        /\ current[s.position].status \notin Final
        /\ s.asOf > current[s.position].asOf
        /\ AllowedCurrentTransition(current[s.position].status, s.status)

RunOf(jb) == [asOf |-> jb.asOf, settlements |-> jb.settlements]

\* UNIQUE(source artifact, policy, as_of_utc) of settlement_runs.
RunSlotFree(jb) == \A r \in sruns : r.asOf # jb.asOf

\* Mutant: positions that conflict are skipped and the rest is stored.
PersistPartially(j) ==
    /\ job[j] # None /\ job[j].stage = "publish"
    /\ RunSlotFree(job[j])
    /\ LET new == {s \in job[j].settlements : Supersedes(s)}
       IN  /\ settlements' = settlements \cup new
           /\ current' = [p \in Positions |->
                   IF \E s \in new : s.position = p
                   THEN CHOOSE s \in new : s.position = p ELSE current[p]]
    /\ sruns' = sruns \cup {RunOf(job[j])}
    /\ job' = [job EXCEPT ![j] = None]
    /\ UNCHANGED <<results, audits, monitored>>

\* The handler's transaction: registrations and persist_report together.
PersistReport(j) ==
    /\ job[j] # None /\ job[j].stage = "publish"
    /\ RunSlotFree(job[j])
    /\ \A s \in job[j].settlements : Supersedes(s)
    /\ results' = results \cup (IF job[j].kind = "operator" THEN job[j].refs ELSE {})
    /\ settlements' = settlements \cup job[j].settlements
    /\ current' = [p \in Positions |-> CHOOSE s \in job[j].settlements : s.position = p]
    /\ sruns' = sruns \cup {RunOf(job[j])}
    /\ job' = [job EXCEPT ![j] = None]
    /\ UNCHANGED <<audits, monitored>>

\* A stored run is returned unchanged; registrations are still committed.
ReplayReport(j) ==
    /\ job[j] # None /\ job[j].stage = "publish"
    /\ RunOf(job[j]) \in sruns
    /\ results' = results \cup (IF job[j].kind = "operator" THEN job[j].refs ELSE {})
    /\ job' = [job EXCEPT ![j] = None]
    /\ UNCHANGED <<current, settlements, sruns, audits, monitored>>

\* The transaction rolls back: a conflict with a position, or another run of
\* the same as-of time, which breaks the unique index. A worker's job ends.
RejectReport(j) ==
    /\ job[j] # None /\ job[j].stage = "publish"
    /\ RunOf(job[j]) \notin sruns
    /\ ~RunSlotFree(job[j]) \/ \E s \in job[j].settlements : ~Supersedes(s)
    /\ job' = [job EXCEPT ![j] = IF RunSlotFree(@) /\ @.kind = "operator"
                                 THEN [@ EXCEPT !.stage = "audit"] ELSE None]
    /\ UNCHANGED <<results, current, settlements, sruns, audits, monitored>>

\* record_conflicts: a second transaction, over what is current by then.
RecordConflicts(j) ==
    LET conflicting(s) == /\ current[s.position] # None
                          /\ current[s.position] # s
                          /\ \/ s.asOf <= current[s.position].asOf
                             \/ ~AllowedCurrentTransition(current[s.position].status, s.status)
        kind(s) == IF current[s.position].status \in Final THEN "contradictory" ELSE "stale"
    IN  /\ job[j] # None /\ job[j].stage = "audit"
        /\ audits' = audits \cup
                {<<kind(s), s.position>> : s \in {x \in job[j].settlements : conflicting(x)}}
        /\ job' = [job EXCEPT ![j].stage = "audited"]
        /\ UNCHANGED <<results, current, settlements, sruns, monitored>>

\* The job has failed, or its worker died between two of its steps.
EndJob(j) ==
    /\ job[j] # None
    /\ job' = [job EXCEPT ![j] = None]
    /\ UNCHANGED <<results, current, settlements, sruns, audits, monitored>>

-----------------------------------------------------------------------------
(***************************************************************************)
(* Monitoring jobs over the same tables                                    *)
(***************************************************************************)

\* _settlement_states_as_of: a position's status in the stored history up to
\* the as-of time; two settlements at its last instant are an error.
HistoryAsOf(p, asOf) ==
    LET past == {s \in settlements : s.position = p /\ s.asOf <= asOf}
    IN  {s \in past : \A t \in past : t.asOf <= s.asOf}

\* Registered completed results a report at asOf may use.
VerifiedAsOf(asOf) == {r \in results : r.observed <= asOf /\ r.status = "completed"}

\* _settlement_ready_completion_utc: the last completion of all its events.
ReadyCompletion(p, asOf) ==
    LET of(e) == {r \in VerifiedAsOf(asOf) : r.event = e}
    IN  IF \A l \in LegsOf[p] : of(l[1]) # {}
        THEN Max({r.at : r \in UNION {of(l[1]) : l \in LegsOf[p]}}) ELSE None

\* build_monitoring_inputs refuses contradictory settlements and two completed
\* results of one event.
Monitorable(asOf) ==
    /\ \A p \in Positions : Cardinality(HistoryAsOf(p, asOf)) <= 1
    /\ \A r, s \in VerifiedAsOf(asOf) : r.event = s.event => r = s

\* Its result over the analysis, or over no evidence at all.
BuildMonitoringInputs(evidence, asOf) ==
    LET ps      == IF evidence = {} THEN {} ELSE Positions
        events  == UNION {{l[1] : l \in LegsOf[p]} : p \in ps}
        final   == {p \in ps : \E s \in HistoryAsOf(p, asOf) : s.status \in Final}
        ready   == {ReadyCompletion(p, asOf) : p \in ps \ final} \ {None}
        found   == Cardinality({r \in results : r.observed <= asOf})
    IN  [latest |-> IF ps = {} THEN None ELSE 0, failures |-> 0,
         expectedSnapshots |-> found, validSnapshots |-> found,
         unresolved |-> None, incomplete |-> None, duplicates |-> 0,
         expectedResults |-> Cardinality(events),
         availableResults |-> Cardinality({e \in events : \E r \in VerifiedAsOf(asOf) : r.event = e}),
         candidates |-> Cardinality(ps), settled |-> Cardinality(final),
         oldestUnsettled |-> IF ready = {} THEN None ELSE Min(ready),
         predictions |-> Cardinality(events), complete |-> Cardinality(events), flagged |-> 0,
         performance |-> {}, aggregate |-> None]

\* The inputs are read on a connection of their own and the report published.
PublishMonitoring(reload, evidence, asOf) ==
    /\ monitored = None
    /\ Monitorable(asOf)
    /\ LET inputs == BuildMonitoringInputs(evidence, asOf)
       IN  /\ MonitoringAdmits(inputs, asOf, 0, 1)
           /\ monitored' = [asOf |-> asOf, inputs |-> inputs, stage |->
                  IF reload /\ ~ReportReloads(EvaluateMonitoring(inputs, DefaultMonitoringPolicy, asOf))
                  THEN "unverified" ELSE "publish"]
    /\ UNCHANGED <<results, current, settlements, sruns, audits, job>>

\* refresh_monitoring_handler: evidence with an event window is required.
RefreshMonitoring(asOf) == PublishMonitoring(FALSE, {"analysis"}, asOf)

\* run_monitoring_handler reloads what it published, the command line does not.
RunMonitoring(evidence, asOf) == PublishMonitoring(TRUE, evidence, asOf)
MonitorCommand(evidence, asOf) == PublishMonitoring(FALSE, evidence, asOf)

\* MonitoringRepository.persist, in the job's only transaction.
PersistMonitoring ==
    /\ monitored # None /\ monitored.stage = "publish"
    /\ monitored' = [monitored EXCEPT !.stage = "stored"]
    /\ UNCHANGED <<results, current, settlements, sruns, audits, job>>

\* The job failed, its process died, or the next one begins.
EndMonitoring ==
    /\ monitored # None /\ monitored' = None
    /\ UNCHANGED <<results, current, settlements, sruns, audits, job>>

CLNext ==
    \/ \E r \in Published : RegisterResult(r)
    \/ \E batch \in SUBSET LoadResultSnapshots : RegisterCompletedResults(batch)
    \/ \E j \in Jobs, asOf \in SettlementTimes :
          \/ \E refs \in SUBSET LoadResultSnapshots :
                SettleAnalysis(j, refs, asOf) \/ SettleNewResults(j, refs, asOf)
    \/ \E j \in Jobs :
          \/ PersistReport(j) \/ ReplayReport(j) \/ RejectReport(j)
          \/ RecordConflicts(j) \/ EndJob(j)
    \/ \E asOf \in SettlementTimes :
          \/ RefreshMonitoring(asOf)
          \/ \E evidence \in EvidenceSets :
                RunMonitoring(evidence, asOf) \/ MonitorCommand(evidence, asOf)
    \/ PersistMonitoring \/ EndMonitoring

CLSpec == CLInit /\ [][CLNext]_clvars

-----------------------------------------------------------------------------
(***************************************************************************)
(* Training eligibility and the retraining trigger                         *)
(***************************************************************************)

\* build_training_eligibility_ledger over snapshots in the given order: only
\* the first snapshot of an event is classified, later ones are conflicts.
EligibilityState(seq, i, competition, features, allowed, trained, cutoff) ==
    LET r == seq[i]
    IN  IF \E k \in 1..(i - 1) : seq[k].event = r.event /\ seq[k] # r THEN "duplicate-conflict"
        ELSE IF competition[r.event] = None THEN "event-identity-unresolved"
        ELSE IF competition[r.event] \notin allowed THEN "excluded-competition"
        ELSE IF r.event \in trained THEN "already-in-training-snapshot"
        ELSE IF r.at = None THEN "result-unverified"
        ELSE IF r.at > cutoff THEN "result-unverified"
        ELSE IF r.event \notin features THEN "missing-required-feature-history"
        ELSE "eligible"

\* evaluate_retraining_trigger with ages in days and coverage in percent.
RetrainingDue(policy, matches, championAge, tournamentAge, season, failedAge, coverage, competitions, active) ==
    /\ \/ matches >= policy.matches
       \/ championAge >= policy.championAge
       \/ tournamentAge >= policy.tournamentAge
       \/ season
    /\ coverage >= policy.coverage
    /\ competitions >= policy.competitions
    /\ active < 1
    /\ failedAge # None => failedAge >= policy.cooldown

\* evaluate_retraining_trigger_handler passes the cutoff for every age.
RetrainingDueByHandler(policy, eligible, scoped, competitions, active) ==
    RetrainingDue(policy, eligible, 0, 0, FALSE, None,
                  IF scoped = 0 THEN 0 ELSE (100 * eligible) \div scoped,
                  competitions, active)

\* promote_challenger and rollback_champion append a revision.
PromoteChallenger(history, m, gates) ==
    IF \A g \in gates : g
    THEN Append(history, [model |-> m, previous |-> history[Len(history)].model,
                          action |-> "manual-promotion"])
    ELSE history

RollbackChampion(history, target) ==
    IF /\ \E i \in DOMAIN history : history[i].model = target
       /\ history[Len(history)].model # target
    THEN Append(history, [model |-> target, previous |-> history[Len(history)].model,
                          action |-> "rollback"])
    ELSE history

-----------------------------------------------------------------------------
(***************************************************************************)
(* Properties                                                              *)
(***************************************************************************)

\* What a position is worth, without the order of the code's tests: any lost
\* leg loses; else one leg without an outcome leaves it open; else it wins
\* exactly when some leg did, at the product of the winning odds.
FairStatus(refs, p) ==
    LET values == LegStatuses(refs, p)
    IN  CASE "loss" \in values -> {"loss"}
          [] "loss" \notin values /\ values \cap {"pending", "unresolved"} # {} ->
                values \cap {"pending", "unresolved"}
          [] OTHER -> IF "win" \in values THEN {"win"} ELSE values

\* Every settlement on record follows from the evidence it names, that
\* evidence was registered and observable at its as-of time, and the units
\* agree (settlement/contracts.py:203, operations/handlers.py:114).
EvidenceDecides(s) ==
    /\ s.status \in FairStatus(s.evidence, s.position)
    /\ s.evidence \subseteq results
    /\ \A r \in s.evidence : r.observed <= s.asOf

SettledFromEvidence ==
    \A s \in settlements : EvidenceDecides(s) /\ (s.returned > 1 <=> s.status = "win")

\* Whatever reports race, a run and all its positions are stored together or
\* not at all, the current row is the latest one of its position, and a report
\* an operator saw rejected left an audit of the position that did it
\* (data/repositories/operations.py:155-290, 294-365).
ReportsAreWhole ==
    /\ \A r \in sruns : r.settlements \subseteq settlements
    /\ settlements \subseteq UNION {r.settlements : r \in sruns}
    /\ \A p \in Positions : \A s \in settlements :
          s.position = p => current[p] # None /\ s.asOf <= current[p].asOf
    /\ \A j \in Jobs : job[j] # None /\ job[j].stage = "audited" =>
          \E s \in job[j].settlements, kind \in {"contradictory", "stale"} :
              <<kind, s.position>> \in audits

\* A position that was won, lost, pushed or voided keeps that settlement; an
\* open one only moves forward in time (data/repositories/operations.py:199).
FinalIsFinal ==
    [][\A p \in Positions : current[p] # None /\ current'[p] # current[p] =>
          /\ current[p].status \notin Final
          /\ current'[p].asOf > current[p].asOf]_clvars

\* What a monitoring run counted as settled stays settled at its as-of time
\* whatever is stored later, and the history it reads never contradicts itself
\* (monitoring/builders.py:334-373, data/repositories/operations.py:199).
MonitoringHolds ==
    /\ \A p \in Positions, asOf \in SettlementTimes : Cardinality(HistoryAsOf(p, asOf)) <= 1
    /\ monitored # None =>
          monitored.inputs.settled <= Cardinality({p \in Positions :
              \E s \in HistoryAsOf(p, monitored.asOf) : s.status \in Final})

\* Reports and what monitoring read of them stay whole whatever is stored between and after them.
HistoryIsWhole == ReportsAreWhole /\ MonitoringHolds
=============================================================================
