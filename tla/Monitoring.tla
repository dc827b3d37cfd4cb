----------------------------- MODULE Monitoring -----------------------------
(***************************************************************************)
(* Monitoring reports (monitoring/): metrics with their thresholds,        *)
(* findings and summary, the strict reload of a published report, and the  *)
(* performance evidence of several backtests.  A value is a fraction       *)
(* <<n, d>>, a threshold a number of hundredths.                           *)
(***************************************************************************)
EXTENDS Integers, FiniteSets, FiniteSetsExt

CONSTANT None

HealthStatuses == {"healthy", "warning", "critical", "unknown"}

\* MetricThreshold.__post_init__
ValidThreshold(t) ==
    IF t.direction = "higher-is-worse" THEN t.warning <= t.critical ELSE t.warning >= t.critical

\* MetricThreshold.status
ThresholdStatus(t, v) ==
    LET beyond(limit) == IF t.direction = "higher-is-worse"
                         THEN v[1] * 100 >= limit * v[2] ELSE v[1] * 100 <= limit * v[2]
    IN  IF beyond(t.critical) THEN "critical"
        ELSE IF beyond(t.warning) THEN "warning" ELSE "healthy"

Worse(w, c) == [direction |-> "higher-is-worse", warning |-> w, critical |-> c]
Better(w, c) == [direction |-> "lower-is-worse", warning |-> w, critical |-> c]

DefaultMonitoringPolicy ==
    [artifact_failure_count |-> Worse(100, 200), missing_snapshot_count |-> Worse(100, 200),
     source_observation_age_hours |-> Worse(2400, 7200),
     unresolved_mapping_count |-> Worse(100, 500), missing_result_count |-> Worse(100, 1000),
     settlement_backlog_count |-> Worse(100, 1000), settlement_lag_hours |-> Worse(1200, 4800),
     result_coverage |-> Better(95, 80), settlement_coverage |-> Better(95, 80),
     probability_completeness |-> Better(100, 95), log_loss |-> Worse(90, 120),
     multiclass_brier_score |-> Worse(70, 90), calibration_error |-> Worse(10, 20)]

\* parse_monitoring_policy and MonitoringPolicy.__post_init__: a threshold per
\* name, so a function; every threshold well formed.
ValidMonitoringPolicy(policy) == \A n \in DOMAIN policy : ValidThreshold(policy[n])

ThresholdFor(policy, n) == IF n \in DOMAIN policy THEN policy[n] ELSE None

UnthresholdedFailures == {"artifact_failure_count", "incomplete_market_count",
                          "duplicate_identity_count", "quality_flag_failure_count"}

\* _metric: no value is unknown, and so is a failure nobody set a limit for.
MetricStatus(threshold, n, v) ==
    IF v = None THEN "unknown"
    ELSE IF threshold = None
         THEN IF n \in UnthresholdedFailures /\ v[1] > 0 THEN "unknown" ELSE "healthy"
         ELSE ThresholdStatus(threshold, v)

Metric(policy, n, v) ==
    [name |-> n, value |-> v.value, num |-> v.num, den |-> v.den, sample |-> v.sample,
     threshold |-> ThresholdFor(policy, n), status |-> MetricStatus(ThresholdFor(policy, n), n, v.value)]

-----------------------------------------------------------------------------
\* Values with their numerator, denominator and sample.
Missing == [value |-> None, num |-> None, den |-> None, sample |-> 0]

CountOf(n) == IF n = None THEN Missing
              ELSE [value |-> <<n, 1>>, num |-> n, den |-> 1, sample |-> n]

Ratio(n, d) ==
    IF n = None \/ d = None THEN [Missing EXCEPT !.num = n, !.den = d]
    ELSE IF d = 0 THEN [Missing EXCEPT !.num = n, !.den = 0]
    ELSE [value |-> <<n, d>>, num |-> n, den |-> d, sample |-> d]

\* Hours between two instants; one observation.
Age(asOf, t) == IF t = None THEN Missing
                ELSE [value |-> <<asOf - t, 1>>, num |-> None, den |-> None, sample |-> 1]

Shortfall(expected, actual) ==
    IF expected = None \/ actual = None THEN None
    ELSE IF expected > actual THEN expected - actual ELSE 0

\* A number of hundredths over a sample.
Scored(v, sample) == IF v = None THEN Missing
                     ELSE [value |-> <<v, 100>>, num |-> None, den |-> None, sample |-> sample]

\* MonitoringInputs.__post_init__
ValidInputs(i) ==
    LET within(a, b) == a # None /\ b # None => a <= b
    IN  /\ within(i.validSnapshots, i.expectedSnapshots)
        /\ within(i.availableResults, i.expectedResults)
        /\ within(i.settled, i.candidates)
        /\ within(i.complete, i.predictions)
        /\ ~(i.performance # {} /\ i.aggregate # None)
        /\ \A o \in i.performance : o.settled <=> o.won # None

Settled(i) == {o \in i.performance : o.settled}

\* evaluate_monitoring: every metric by name, the performance from the
\* observations, else from the aggregate, else missing.
MetricValues(i, asOf) ==
    LET observed == i.performance # {}
        size     == Cardinality(i.performance)
        bets     == Cardinality(Settled(i))
        score(sum(_), agg) ==
            IF observed THEN [Scored(0, size) EXCEPT
                                 !.value = <<MapThenSumSet(sum, i.performance), 100 * size>>]
            ELSE IF i.aggregate # None THEN Scored(agg, i.aggregate.sample) ELSE Missing
        return(sum(_), agg) ==
            IF observed THEN Ratio(MapThenSumSet(sum, Settled(i)), bets)
            ELSE IF i.aggregate # None THEN Scored(agg, i.aggregate.bets) ELSE Missing
        aggregate(f) == IF i.aggregate = None THEN None ELSE i.aggregate[f]
    IN  [source_observation_age_hours |-> Age(asOf, i.latest),
         artifact_failure_count |-> CountOf(i.failures),
         missing_snapshot_count |-> CountOf(Shortfall(i.expectedSnapshots, i.validSnapshots)),
         unresolved_mapping_count |-> CountOf(i.unresolved),
         incomplete_market_count |-> CountOf(i.incomplete),
         duplicate_identity_count |-> CountOf(i.duplicates),
         missing_result_count |-> CountOf(Shortfall(i.expectedResults, i.availableResults)),
         result_coverage |-> Ratio(i.availableResults, i.expectedResults),
         settlement_backlog_count |-> CountOf(Shortfall(i.candidates, i.settled)),
         settlement_lag_hours |-> Age(asOf, i.oldestUnsettled),
         settlement_coverage |-> Ratio(i.settled, i.candidates),
         prediction_count |-> CountOf(i.predictions),
         quality_flag_failure_count |-> CountOf(i.flagged),
         probability_completeness |-> Ratio(i.complete, i.predictions),
         log_loss |-> score(LAMBDA o : o.loss, aggregate("loss")),
         multiclass_brier_score |-> score(LAMBDA o : o.brier, aggregate("brier")),
         hit_rate |-> return(LAMBDA o : IF o.won THEN 1 ELSE 0, aggregate("hitRate")),
         roi |-> return(LAMBDA o : o.profit, aggregate("roi")),
         calibration_error |-> Scored(aggregate("calibration"),
                                      IF i.aggregate = None THEN 0 ELSE i.aggregate.sample)]

\* _summary: the worst status present.
Summary(statuses) ==
    CASE "critical" \in statuses -> "critical"
      [] "critical" \notin statuses /\ "warning" \in statuses -> "warning"
      [] statuses \cap {"critical", "warning"} = {} /\ "healthy" \in statuses
            /\ "unknown" \notin statuses -> "healthy"
      [] OTHER -> "unknown"

\* _finding
FindingOf(m) == [metric |-> m.name, status |-> m.status,
                 reason |-> IF m.status = "unknown" THEN "missing-evidence" ELSE "threshold"]

\* evaluate_monitoring refuses a window that is not over and a source time or
\* completion after the as-of time.
MonitoringAdmits(i, asOf, start, end) ==
    /\ start < end /\ end <= asOf
    /\ i.latest # None => i.latest <= asOf
    /\ i.oldestUnsettled # None => i.oldestUnsettled <= asOf

EvaluateMonitoring(i, policy, asOf) ==
    LET values  == MetricValues(i, asOf)
        metrics == {Metric(policy, n, values[n]) : n \in DOMAIN values}
    IN  [asOf |-> asOf, metrics |-> metrics,
         findings |-> {FindingOf(m) : m \in {x \in metrics : x.status # "healthy"}},
         summary |-> Summary({m.status : m \in metrics}),
         warnings |-> {m.name : m \in {x \in metrics : x.status = "unknown"}}]

-----------------------------------------------------------------------------
\* _metric_from_json: a denominator demands the fraction it belongs to, and the
\* status is derived again.
MetricReloads(m) ==
    /\ m.num # None /\ m.name # "roi" => m.num >= 0
    /\ m.den # None => m.den > 0 /\ m.num # None /\ m.value = <<m.num, m.den>>
    /\ m.threshold # None => ValidThreshold(m.threshold)
    /\ m.status = MetricStatus(m.threshold, m.name, m.value)

\* _verify_report_payload and _finding_from_json: all that is derived from the
\* metrics is derived again and must match.
ReportReloads(r) ==
    /\ \A m \in r.metrics : MetricReloads(m)
    /\ \A m, n \in r.metrics : m.name = n.name => m = n
    /\ r.findings = {FindingOf(m) : m \in {x \in r.metrics : x.status # "healthy"}}
    /\ r.summary = Summary({m.status : m \in r.metrics})
    /\ r.warnings = {m.name : m \in {x \in r.metrics : x.status = "unknown"}}

\* verify_monitoring_report_trust
ReportTrust(checksum) == IF checksum = None THEN "internally-consistent" ELSE "externally-verified"

-----------------------------------------------------------------------------
\* _observations_from_backtest: a prediction of an event with a verified
\* completed result and one winner among its selections is an observation,
\* settled when one of its opportunities was.
ObservationsFromBacktest(b, verified) ==
    {[id |-> <<b.id, p.id>>, loss |-> p.loss, brier |-> p.brier,
      settled |-> p.settlements # {},
      won |-> IF p.settlements = {} THEN None ELSE \E s \in p.settlements : s.result = "win",
      profit |-> MapThenSumSet(LAMBDA s : s.profit, p.settlements)] :
     p \in {x \in b.predictions : x.event \in verified /\ x.decided}}

Population(b) == {p.event : p \in b.predictions}

\* _combine_verified_aggregates: sums, and means weighted by the sample; an
\* error when the metrics present differ or a weight is zero.
CombineVerifiedAggregates(bs) ==
    LET present(b, f) == b.aggregate[f] # None
        weighted(f, w) ==
            IF \E b \in bs : ~present(b, f) THEN None
            ELSE MapThenSumSet(LAMBDA b : b.aggregate[f] * b.aggregate[w], bs)
                   \div MapThenSumSet(LAMBDA b : b.aggregate[w], bs)
    IN  IF Cardinality(bs) = 1
        THEN [kind |-> "aggregate", aggregate |-> (CHOOSE b \in bs : TRUE).aggregate]
        ELSE IF \/ \E b, c \in bs, f \in {"loss", "brier", "calibration", "hitRate", "roi"} :
                      present(b, f) # present(c, f)
                \/ \E b \in bs : b.aggregate.sample <= 0 /\ present(b, "loss")
                \/ \E b \in bs : b.aggregate.bets <= 0 /\ present(b, "hitRate")
             THEN [kind |-> "error"]
        ELSE [kind |-> "aggregate", aggregate |->
              [sample |-> MapThenSumSet(LAMBDA b : b.aggregate.sample, bs),
               bets |-> MapThenSumSet(LAMBDA b : b.aggregate.bets, bs),
               loss |-> weighted("loss", "sample"), brier |-> weighted("brier", "sample"),
               calibration |-> weighted("calibration", "sample"),
               hitRate |-> weighted("hitRate", "bets"), roi |-> weighted("roi", "bets")]]

\* _derive_performance: per-event observations or aggregates, never both, and
\* never two backtests over one event.
DerivePerformance(backtests, verified) ==
    LET perEvent  == {b \in backtests : ObservationsFromBacktest(b, verified) # {}}
        aggregate == backtests \ perEvent
        overlap   == \E b, c \in backtests : b # c /\ Population(b) \cap Population(c) # {}
    IN  IF backtests = {} THEN [kind |-> "none"]
        ELSE IF (perEvent # {} /\ aggregate # {}) \/ overlap THEN [kind |-> "error"]
        ELSE IF perEvent # {}
             THEN [kind |-> "events", observations |->
                      UNION {ObservationsFromBacktest(b, verified) : b \in perEvent}]
        ELSE IF Cardinality(aggregate) > 1 /\ \E b \in aggregate : Population(b) = {}
             THEN [kind |-> "error"]
        ELSE CombineVerifiedAggregates(aggregate)
=============================================================================
