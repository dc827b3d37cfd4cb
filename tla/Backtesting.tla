----------------------------- MODULE Backtesting -----------------------------
(***************************************************************************)
(* Rolling-origin backtests: backtesting/engine.py selects and settles, and *)
(* backtesting/football.py feeds it the folds of a feature artifact priced  *)
(* at the closing market average.  A settled candidate is an opportunity    *)
(* with its result.  Profits are integers of the unit of MaximumScaledLegs  *)
(* legs.  An average is a pair of a sum and a count: the code's averages    *)
(* are floating-point sums in the order of the input, which this model does *)
(* not tell apart.                                                          *)
(***************************************************************************)
EXTENDS Combinations

ProfitUnit == OddsUnit ^ MaximumScaledLegs
OddsScale(legs) == OddsUnit ^ (MaximumScaledLegs - legs)

-----------------------------------------------------------------------------
(* Settlement of a flat unit. *)

settle_single_flat_unit(odds, result) ==
  CASE result = "win" -> odds * OddsScale(1) - ProfitUnit
    [] result = "loss" -> -ProfitUnit
    [] OTHER -> None

settle_combination_flat_unit(legs) ==
  IF \E l \in ToSet(legs) : l.result \notin {"win", "loss"} THEN None
  ELSE IF \E l \in ToSet(legs) : l.result = "loss" THEN [result |-> "loss", odds |-> 0, profit |-> -ProfitUnit]
  ELSE LET odds == ProductOf(legs, LAMBDA l : l.odds) * OddsScale(Len(legs))
       IN [result |-> "win", odds |-> odds, profit |-> odds - ProfitUnit]

-----------------------------------------------------------------------------
(* Folds and strategies. *)

BacktestFold(f) ==
  /\ f.train_start <= f.train_end /\ f.train_end < f.calibration_start
  /\ f.calibration_start <= f.calibration_end /\ f.calibration_end < f.test_start
  /\ f.test_start <= f.test_end

StrategyConfiguration(s) ==
  /\ s.include_singles \/ s.include_combinations
  /\ s.include_combinations => s.rules # None
  /\ s.mode = "closing" => ~s.include_combinations

_validate_mode(o, mode) ==
  IF mode = "closing" THEN o.mode = "closing" ELSE o.mode = "live-safe" /\ o.quoted # None

ValidCandidate(o, f, mode) ==
  /\ f.test_start <= DateOf(o.start) /\ DateOf(o.start) <= f.test_end
  /\ o.trained < f.test_start
  /\ o.calibrated < f.test_start
  /\ _validate_mode(o, mode)

Events(input) == {c.opportunity.event : c \in ToSet(input.candidates)}
_validate_non_overlapping_test_events(inputs) ==
  \A i, j \in DOMAIN inputs : i # j => Events(inputs[i]) \cap Events(inputs[j]) = {}

-----------------------------------------------------------------------------
(* Metrics. *)

SumOf(s, f(_)) == FoldSet(LAMBDA i, sum : sum + f(s[i]), 0, DOMAIN s)
_average(values) == <<SumOf(values, LAMBDA v : v), Len(values)>>
CountOf(s, test(_)) == Len(SelectSeq(s, test))

BetBefore(a, b) == a.start < b.start \/ (a.start = b.start /\ IdBefore(a.id, b.id))
Chronological(bets) == SortSeq(bets, BetBefore)
Cumulative(bets) == [n \in DOMAIN bets |-> SumOf(SubSeq(bets, 1, n), LAMBDA b : b.profit)]

\* Mutant: the peak starts at the first equity instead of zero.
DrawdownFromFirstBet(equity) ==
  LET peak(n) == Max({equity[i] : i \in 1..n})
  IN Max({0} \cup {peak(n) - equity[n] : n \in DOMAIN equity})
maximum_drawdown(equity) ==
  LET peak(n) == Max({0} \cup {equity[i] : i \in 1..n})
  IN Max({0} \cup {peak(n) - equity[n] : n \in DOMAIN equity})

\* The predictions whose candidates are complete and settled: one winner and probabilities that sum to one.
ScoredPredictions(candidates, selected) ==
  {p \in {c.opportunity.prediction : c \in ToSet(candidates)} :
     LET rows == SelectSeq(candidates, LAMBDA c : c.opportunity.prediction = p)
     IN /\ selected # None => \E c \in ToSet(rows) : c.opportunity.id \in selected
        /\ CountOf(rows, LAMBDA c : c.result = "win") = 1
        /\ Len(rows) >= 2
        /\ SumOf(rows, LAMBDA c : c.opportunity.probability) = ProbabilityUnit
        /\ \A c \in ToSet(rows) : c.result \in {"win", "loss"}}

\* Scores of the predictions; the logarithmic loss is the bag of the winners' probabilities it averages.
_prediction_scores(candidates, selected) ==
  LET scored == ScoredPredictions(candidates, selected)
      rows == SelectSeq(candidates, LAMBDA c : c.opportunity.prediction \in scored)
      error(c) == LET d == c.opportunity.probability - (IF c.result = "win" THEN ProbabilityUnit ELSE 0) IN d * d
  IN [count |-> Cardinality(scored),
      winners |-> [x \in 0..ProbabilityUnit |-> CountOf(rows, LAMBDA c : c.result = "win" /\ c.opportunity.probability = x)],
      brier |-> IF scored = {} THEN None ELSE <<SumOf(rows, error), Cardinality(scored)>>]

_ev_bucket(value) ==
  LET unit == ValueUnit ^ MaximumScaledLegs
  IN IF value < 0 THEN "negative"
     ELSE IF 20 * value < unit THEN "0.00-0.05"
     ELSE IF 10 * value < unit THEN "0.05-0.10"
     ELSE "0.10+"

_single_or_multiple(values) == IF Cardinality(values) = 1 THEN CHOOSE v \in values : TRUE ELSE "multiple"

GroupsOf(b) ==
  {<<"fold", b.fold>>, <<"sport", b.sport>>, <<"market", b.market>>, <<"provider", b.provider>>,
   <<"ev_bucket", _ev_bucket(b.expected_value)>>}

_metric_aggregations(bets) ==
  {LET rows == SelectSeq(bets, LAMBDA b : g \in GroupsOf(b))
   IN [group |-> g, sample_size |-> Len(rows), singles |-> CountOf(rows, LAMBDA b : b.kind = "single"),
       combinations |-> CountOf(rows, LAMBDA b : b.kind = "combination"),
       net_profit |-> SumOf(rows, LAMBDA b : b.profit),
       expected_value |-> _average([i \in DOMAIN rows |-> rows[i].expected_value])] :
     g \in UNION {GroupsOf(b) : b \in ToSet(bets)}}

_combination_rejection_code(reason) ==
  CASE reason[1] = "unknown" -> "unknown-dependency"
    [] reason[1] = "conflict" -> "combination-conflict"
    [] reason[1] \in {"selection-odds", "combined-odds"} -> "combination-odds-rules"
    [] reason[1] \in {"horizon", "closing-line"} -> "combination-timing"
    [] OTHER -> "combination-rules"

_rejection_counts_by_reason(opportunities, combinations) ==
  LET codes == UNION {r.codes : r \in ToSet(opportunities)}
               \cup {_combination_rejection_code(r.reason) : r \in ToSet(combinations)}
  IN [code \in codes |-> CountOf(opportunities, LAMBDA r : code \in r.codes)
                         + CountOf(combinations, LAMBDA r : _combination_rejection_code(r.reason) = code)]

calculate_backtest_metrics(given, candidates, selected, rejections, combination_rejections) ==
  LET bets == Chronological(given)
      chosen == SelectSeq(candidates, LAMBDA c : c.opportunity.id \in selected)
      net == SumOf(bets, LAMBDA b : b.profit)
      wins == CountOf(bets, LAMBDA b : b.result = "win")
      losses == CountOf(bets, LAMBDA b : b.result = "loss")
  IN [bet_count |-> Len(bets), win_count |-> wins, loss_count |-> losses, staked |-> Len(bets) * ProfitUnit,
      returned |-> Len(bets) * ProfitUnit + net, net_profit |-> net, roi |-> <<net, Len(bets)>>,
      hit_rate |-> <<wins, wins + losses>>, average_odds |-> _average([i \in DOMAIN bets |-> bets[i].odds]),
      maximum_drawdown |-> maximum_drawdown(Cumulative(bets)), candidate_count |-> Len(candidates),
      rejection_count |-> Len(rejections), singles |-> CountOf(bets, LAMBDA b : b.kind = "single"),
      combinations |-> CountOf(bets, LAMBDA b : b.kind = "combination"), cumulative |-> Cumulative(bets),
      average_probability |-> _average([i \in DOMAIN chosen |-> chosen[i].opportunity.probability]),
      average_expected_value |-> _average([i \in DOMAIN chosen |-> chosen[i].opportunity.expected_value]),
      all_scores |-> _prediction_scores(candidates, None), selected_scores |-> _prediction_scores(candidates, selected),
      aggregations |-> _metric_aggregations(bets),
      rejections |-> _rejection_counts_by_reason(rejections, combination_rejections)]

-----------------------------------------------------------------------------
(* The run of a strategy. *)

ResultOf(input, id) == (CHOOSE c \in ToSet(input.candidates) : c.opportunity.id = id).result

SingleBet(input, o) ==
  [id |-> <<input.fold.fold_id, 1>> \o o.id, fold |-> input.fold.fold_id, kind |-> "single", opportunities |-> <<o.id>>,
   odds |-> o.odds * OddsScale(1), result |-> ResultOf(input, o.id), start |-> o.start, sport |-> o.selection.sport,
   profit |-> settle_single_flat_unit(o.odds, ResultOf(input, o.id)), market |-> o.selection.market,
   provider |-> o.provider, expected_value |-> o.expected_value * ValueScale(1)]

CombinationBet(input, c) ==
  LET settled == settle_combination_flat_unit([i \in DOMAIN c.legs |->
                   [odds |-> c.legs[i].odds, result |-> ResultOf(input, c.legs[i].id)]])
  IN [id |-> <<input.fold.fold_id, 2>> \o c.id, fold |-> input.fold.fold_id, kind |-> "combination",
      opportunities |-> [i \in DOMAIN c.legs |-> c.legs[i].id], odds |-> settled.odds, result |-> settled.result,
      start |-> c.earliest, sport |-> _single_or_multiple({l.selection.sport : l \in ToSet(c.legs)}),
      profit |-> settled.profit, market |-> _single_or_multiple({l.selection.market : l \in ToSet(c.legs)}),
      provider |-> _single_or_multiple({l.provider : l \in ToSet(c.legs)}), expected_value |-> c.expected_value]

\* One fold: its search and the combinations of what was accepted.
FoldRun(input, s, bounds) ==
  LET search == filter_and_rank_opportunities([i \in DOMAIN input.candidates |-> input.candidates[i].opportunity], s.filter)
      build == IF s.include_combinations THEN build_combinations(search.accepted, s.rules, bounds, "synthetic-contract")
               ELSE [combinations |-> <<>>, rejections |-> <<>>]
  IN [search |-> search, build |-> build, singles |-> IF s.include_singles THEN search.accepted ELSE <<>>]

FoldBets(run, input) ==
  [i \in DOMAIN run.singles |-> SingleBet(input, run.singles[i])]
  \o [i \in DOMAIN run.build.combinations |-> CombinationBet(input, run.build.combinations[i])]

\* A push or void that was bet on cannot be settled.
Unsettled(run, input) ==
  \E o \in ToSet(run.singles) \cup UNION {ToSet(c.legs) : c \in ToSet(run.build.combinations)} :
    ResultOf(input, o.id) \notin {"win", "loss"}

\* The identities: what is hashed, rows of one identity each as a set and everything else in order.
_fold_payload(inputs) == [i \in DOMAIN inputs |-> inputs[i].fold]
_derive_decision_run_id(inputs, s, candidates, decisions, rejections, unbuilt) ==
  [strategy |-> s, folds |-> _fold_payload(inputs), candidates |-> {c.opportunity.id : c \in ToSet(candidates)},
   decisions |-> ToSet(decisions), rejections |-> {[id |-> r.opportunity.id, codes |-> r.codes] : r \in ToSet(rejections)},
   combination_rejections |-> unbuilt]
_metrics_identity_payload(metrics) == metrics
_derive_backtest_result_id(decision_run, candidates, bets, metrics) ==
  [decision_run |-> decision_run, candidate_settlements |-> ToSet(candidates), settlements |-> bets,
   metrics |-> _metrics_identity_payload(metrics)]

\* The result of folds that have been run.
BacktestResult(inputs, s, runs, candidates) ==
  LET all(f(_)) == FlattenSeq([i \in DOMAIN runs |-> f(runs[i])])
      bets == Chronological(FlattenSeq([i \in DOMAIN runs |-> FoldBets(runs[i], inputs[i])]))
      decisions == all(LAMBDA x : x.search.decisions)
      rejections == all(LAMBDA x : x.search.rejected)
      unbuilt == all(LAMBDA x : x.build.rejections)
      selected == {o.id : o \in ToSet(all(LAMBDA x : x.search.accepted))}
      metrics == calculate_backtest_metrics(bets, candidates, selected, rejections, unbuilt)
      decision_run == _derive_decision_run_id(inputs, s, candidates, decisions, rejections, unbuilt)
  IN [decision_run_id |-> decision_run,
      backtest_result_id |-> _derive_backtest_result_id(decision_run, candidates, bets, metrics),
      folds |-> _fold_payload(inputs), candidates |-> candidates, decisions |-> decisions, rejections |-> rejections,
      combination_rejections |-> unbuilt, bets |-> bets, metrics |-> metrics,
      combinations |-> all(LAMBDA x : x.build.combinations)]

\* The folds are run when they are in order, apart, and hold no candidate twice or out of its time.
RunFolds(inputs, candidates, runs, s) ==
  IF inputs = <<>> \/ ~Distinct([i \in DOMAIN inputs |-> inputs[i].fold.fold_id]) THEN None
  ELSE IF \E i \in 2..Len(inputs) : inputs[i].fold.test_start <= inputs[i - 1].fold.test_start THEN None
  ELSE IF ~_validate_non_overlapping_test_events(inputs) THEN None
  ELSE IF ~Distinct([i \in DOMAIN candidates |-> candidates[i].opportunity.id]) THEN None
  ELSE IF \E i \in DOMAIN inputs : \E c \in ToSet(inputs[i].candidates) :
            ~ValidCandidate(c.opportunity, inputs[i].fold, s.mode) THEN None
  ELSE IF \E i \in DOMAIN inputs : Unsettled(runs[i], inputs[i]) THEN None
  ELSE BacktestResult(inputs, s, runs, candidates)

run_backtest(given, s, bounds) ==
  LET inputs == SortSeq(given, LAMBDA a, b : \/ a.fold.test_start < b.fold.test_start
                                             \/ a.fold.test_start = b.fold.test_start /\ a.fold.fold_id < b.fold.fold_id)
  IN RunFolds(inputs, FlattenSeq([i \in DOMAIN inputs |-> inputs[i].candidates]),
              [i \in DOMAIN inputs |-> FoldRun(inputs[i], s, bounds)], s)

-----------------------------------------------------------------------------
(* The football 1X2 closing benchmark. *)

Outcomes1x2 == <<"home", "draw", "away">>
Selection1x2(i) == [id |-> i, sport |-> "football", market |-> "1x2", outcome |-> Outcomes1x2[i]]

\* The prediction of a fold's model for an event, made one instant before its start.
ReplayPrediction(fold, event, probabilities) ==
  [id |-> fold.fold_id * 100 + event.id, event |-> event.id, row |-> event.id, start |-> event.start,
   predicted |-> event.start - 1, available |-> event.start - 1, trained |-> fold.train.end_date,
   calibrated |-> fold.calibration.end_date, snapshots |-> <<>>, provenance |-> "historical-replay",
   quality |-> {"calibrated", "model_artifact_verified", "sufficient_history"},
   outcomes |-> [i \in 1..3 |-> [selection |-> Selection1x2(i), probability |-> probabilities[i]]]]

_complete_quote(triple) ==
  [event |-> triple.event, provider |-> "market-average", phase |-> "closing", observed |-> triple.observed,
   quoted |-> None, precision |-> "snapshot-observation-only", valid_from |-> None, valid_to |-> None,
   prices |-> [i \in 1..3 |-> [selection |-> Selection1x2(i), odds |-> triple.odds[i],
                               observation |-> triple.event * 10 + i]]]

BacktestFoldOf(f) ==
  [fold_id |-> f.fold_id, train_start |-> f.train.start_date, train_end |-> f.train.end_date,
   calibration_start |-> f.calibration.start_date, calibration_end |-> f.calibration.end_date,
   test_start |-> f.test.start_date, test_end |-> f.test.end_date]

\* The evaluation of one test event: none when it has no precise start, no quote or no valid market.
ClosingEvaluation(fold, event, triples, probabilities) ==
  LET triple == CHOOSE t \in ToSet(triples) : t.event = event.id
  IN IF event.start = None \/ (\A t \in ToSet(triples) : t.event # event.id) THEN None
     ELSE evaluate_complete_market(ReplayPrediction(fold, event, probabilities), _complete_quote(triple), "closing")

SettledEvent(event, evaluation) ==
  LET opportunities == opportunities_from_evaluation(evaluation, <<>>)
  IN IF evaluation = None THEN <<>>
     ELSE [i \in DOMAIN opportunities |->
             [opportunity |-> opportunities[i],
              result |-> IF opportunities[i].selection.outcome = event.result THEN "win" ELSE "loss"]]

run_football_1x2_closing_benchmark(vectors, triples, folds, filter, probabilities) ==
  LET test(f) == [i \in DOMAIN f.test.event_ids |-> CHOOSE v \in ToSet(vectors) : v.id = f.test.event_ids[i]]
      evaluated(f) == [k \in DOMAIN test(f) |-> ClosingEvaluation(f, test(f)[k], triples, probabilities)]
      inputs == [i \in DOMAIN folds |->
                   [fold |-> BacktestFoldOf(folds[i]),
                    candidates |-> FlattenSeq([k \in DOMAIN test(folds[i]) |->
                                      SettledEvent(test(folds[i])[k], evaluated(folds[i])[k])])]]
      strategy == [mode |-> "closing", filter |-> filter, include_singles |-> TRUE, include_combinations |-> FALSE, rules |-> None]
      quoted(f) == {v.id : v \in {v \in ToSet(test(f)) : v.start # None /\ \E t \in ToSet(triples) : t.event = v.id}}
      tested == SumOf(folds, LAMBDA f : Len(f.test.event_ids))
      covered == SumOf(folds, LAMBDA f : Cardinality(quoted(f)))
      result == run_backtest(inputs, strategy, None)
  IN IF ~Distinct([i \in DOMAIN triples |-> triples[i].event]) THEN None
     ELSE IF \E f \in ToSet(folds) : \E l \in ToSet(Outcomes1x2) : f.train.class_counts[l] = 0 THEN None
     ELSE IF covered = 0 \/ result = None THEN None
     ELSE [result |-> result,
           evaluations |-> SelectSeq(FlattenSeq([i \in DOMAIN folds |-> evaluated(folds[i])]), LAMBDA e : e # None),
           test_event_count |-> tested, complete_quote_event_count |-> covered]

=============================================================================
