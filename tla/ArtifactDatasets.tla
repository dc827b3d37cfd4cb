-------------------------- MODULE ArtifactDatasets ---------------------------
(***************************************************************************)
(* The datasets of an analysis or backtest artifact: artifact_serializers.py *)
(* makes the rows of what was computed, artifact_schemas.py and artifacts.py *)
(* validate them before and after they are written, and services/analysis.py *)
(* puts the two together.  A row is the record of the fields a validation    *)
(* looks at.  A canonical dataset is sorted by its row identities, which are *)
(* distinct, so it is a set of rows.  None stands for a raised error.        *)
(***************************************************************************)
EXTENDS Backtesting

-----------------------------------------------------------------------------
(* Rows. *)

serialize_prediction_row(p, provenance) == [row_id |-> p.id, prediction |-> p, provenance |-> provenance]

serialize_market_evaluation_row(e, v) ==
  [row_id |-> <<e.prediction.id, v.observation, v.selection.id>>, prediction |-> e.prediction.id, observation |-> v.observation,
   selection |-> v.selection, provider |-> e.quote.provider, mode |-> e.mode, odds |-> v.odds, probability |-> v.probability,
   raw_total |-> RawUnit + e.overround, overround |-> e.overround, edge |-> v.edge, expected_value |-> v.expected_value]

serialize_opportunity_row(o) == [row_id |-> o.id, opportunity |-> o]

serialize_opportunity_decision_row(d, filter) ==
  [row_id |-> d.id, filter |-> filter, decision |-> d.decision, eligible |-> d.eligible, codes |-> d.codes, rank |-> d.rank]

serialize_combination_row(c) ==
  [row_id |-> c.id, ids |-> [i \in DOMAIN c.legs |-> c.legs[i].id], odds |-> c.odds, joint_probability |-> c.joint_probability,
   expected_value |-> c.expected_value, information |-> c.information, earliest |-> c.earliest, latest |-> c.latest,
   dependencies |-> {[left |-> c.legs[p[1]].id, right |-> c.legs[p[2]].id,
                      class |-> _classify_dependency_pair(c.legs[p[1]], c.legs[p[2]])] :
                       p \in {x \in (DOMAIN c.legs) \X (DOMAIN c.legs) : x[1] < x[2]}}]

serialize_opportunity_filter_rejection_row(r, filter) ==
  [row_id |-> [kind |-> "opportunity-filter", ids |-> <<r.opportunity.id>>, filter |-> filter, codes |-> r.codes]]

serialize_combination_builder_rejection_row(r, policy) ==
  [row_id |-> [kind |-> "combination-builder", ids |-> r.ids, reason |-> r.reason, policy |-> policy]]

\* Mutant: the amount returned leaves the stake out.
SettlementWithoutStake(b) ==
  [row_id |-> b.id, fold |-> b.fold, kind |-> b.kind, ids |-> b.opportunities, odds |-> b.odds, result |-> b.result,
   profit |-> b.profit, returned |-> b.profit,
   combination |-> IF b.kind = "combination" THEN SubSeq(b.id, 3, Len(b.id)) ELSE None]

serialize_settlement_row(b) ==
  [row_id |-> b.id, fold |-> b.fold, kind |-> b.kind, ids |-> b.opportunities, odds |-> b.odds, result |-> b.result,
   profit |-> b.profit, returned |-> b.profit + ProfitUnit,
   combination |-> IF b.kind = "combination" THEN SubSeq(b.id, 3, Len(b.id)) ELSE None]

serialize_fold_metrics_row(f, metrics) ==
  LET mine == {a \in metrics.aggregations : a.group = <<"fold", f.fold_id>>}
  IN [row_id |-> f.fold_id, sample_size |-> IF mine = {} THEN 0 ELSE (CHOOSE a \in mine : TRUE).sample_size]

Rows(s, row(_)) == [i \in DOMAIN s |-> row(s[i])]
EvaluationRows(evaluations) ==
  FlattenSeq([i \in DOMAIN evaluations |-> Rows(evaluations[i].values, LAMBDA v : serialize_market_evaluation_row(evaluations[i], v))])

\* The rows of an analysis; there is a prediction row for every market that was evaluated.
build_analysis_datasets(evaluations, opportunities, search, build, filter, policy, provenance) ==
  [predictions |-> Rows(evaluations, LAMBDA e : serialize_prediction_row(e.prediction, provenance)),
   market_evaluations |-> EvaluationRows(evaluations),
   opportunities |-> Rows(opportunities, serialize_opportunity_row),
   opportunity_decisions |-> Rows(search.decisions, LAMBDA d : serialize_opportunity_decision_row(d, filter)),
   combinations |-> Rows(build.combinations, serialize_combination_row),
   rejections |-> Rows(search.rejected, LAMBDA r : serialize_opportunity_filter_rejection_row(r, filter))
                  \o Rows(build.rejections, LAMBDA r : serialize_combination_builder_rejection_row(r, policy)),
   settlements |-> <<>>, fold_metrics |-> <<>>]

\* The rows of a backtest: a prediction that was evaluated more than once has one row.
build_backtest_datasets(result, evaluations, filter, provenance) ==
  LET first == SelectSeq([i \in DOMAIN evaluations |-> i],
                         LAMBDA i : \A j \in 1..(i - 1) : evaluations[j].prediction.id # evaluations[i].prediction.id)
  IN [predictions |-> Rows(first, LAMBDA i : serialize_prediction_row(evaluations[i].prediction, provenance)),
      market_evaluations |-> EvaluationRows(evaluations),
      opportunities |-> Rows(result.candidates, LAMBDA c : serialize_opportunity_row(c.opportunity)),
      opportunity_decisions |-> Rows(result.decisions, LAMBDA d : serialize_opportunity_decision_row(d, filter)),
      combinations |-> Rows(result.combinations, serialize_combination_row),
      rejections |-> Rows(result.rejections, LAMBDA r : serialize_opportunity_filter_rejection_row(r, filter))
                     \o Rows(result.combination_rejections,
                             LAMBDA r : serialize_combination_builder_rejection_row(r, "strategy")),
      settlements |-> Rows(result.bets, serialize_settlement_row),
      fold_metrics |-> Rows(result.folds, LAMBDA f : serialize_fold_metrics_row(f, result.metrics))]

-----------------------------------------------------------------------------
(* Validation of a row. *)

derive_historical_replay_cutoff_utc(start) == start - 1

_validate_prediction_chronology(row) ==
  LET p == row.prediction
  IN /\ p.trained <= p.calibrated
     /\ p.calibrated < DateOf(p.start)
     /\ p.available <= p.predicted
     /\ p.predicted < p.start
     /\ row.provenance = "historical-replay" =>
          p.predicted = derive_historical_replay_cutoff_utc(p.start) /\ p.available = p.predicted

_validate_prediction_row(row) ==
  /\ row.row_id = row.prediction.id /\ row.provenance = row.prediction.provenance
  /\ Total(row.prediction.outcomes) = ProbabilityUnit
  /\ row.provenance \in {"historical-replay", "synthetic-contract"}
  /\ row.prediction.row = row.prediction.event
  /\ _validate_prediction_chronology(row)

_validate_market_evaluation_row(row) ==
  /\ row.row_id = <<row.prediction, row.observation, row.selection.id>>
  /\ row.raw_total = RawUnit + row.overround
  /\ verify_selection_value_calculations(row)

_validate_opportunity_timing_semantics(o) ==
  IF o.mode = "live-safe"
  THEN /\ o.quoted # None
       /\ o.decision = Max({o.predicted, o.quoted, o.observed})
       /\ o.decision < o.start
  ELSE o.decision = o.start

_validate_opportunity_row(row) ==
  /\ row.row_id = opportunity_identity(row.opportunity)
  /\ verify_selection_value_calculations(row.opportunity)
  /\ _validate_opportunity_timing_semantics(row.opportunity)

_validate_opportunity_decision_row(row) ==
  /\ row.eligible => row.rank # None
  /\ ~row.eligible => row.rank = None
  /\ row.rank # None => row.rank >= 1

\* The legs of a row are listed in the order of their identities.
OrderedIds(row) == \A i, j \in DOMAIN row.ids : i < j => IdBefore(row.ids[i], row.ids[j])
EveryPairOnce(row) ==
  /\ \A d \in row.dependencies : {d.left, d.right} \subseteq ToSet(row.ids)
  /\ Cardinality(row.dependencies) = (Len(row.ids) * (Len(row.ids) - 1)) \div 2

_validate_combination_row(row) ==
  /\ row.expected_value = (row.joint_probability * row.odds - ValueUnit ^ Len(row.ids)) * ValueScale(Len(row.ids))
  /\ OrderedIds(row)
  /\ EveryPairOnce(row)
  /\ row.information < row.earliest
  /\ row.row_id = FlattenSeq(row.ids)

_validate_rejection_row(row) == row.row_id.kind = "opportunity-filter" => row.row_id.codes # {}

_recompute_settlement_bet_id(row) ==
  IF row.kind = "single" THEN <<row.fold, 1>> \o row.ids[1] ELSE <<row.fold, 2>> \o row.combination

_validate_settlement_row(row) ==
  /\ row.result \in {"win", "loss"}
  /\ row.returned = IF row.result = "win" THEN row.odds ELSE 0
  /\ row.returned = row.profit + ProfitUnit
  /\ row.kind = "single" => Len(row.ids) = 1
  /\ row.row_id = _recompute_settlement_bet_id(row)

validate_dataset_row_schema(name, row) ==
  CASE name = "predictions" -> _validate_prediction_row(row)
    [] name = "market_evaluations" -> _validate_market_evaluation_row(row)
    [] name = "opportunities" -> _validate_opportunity_row(row)
    [] name = "opportunity_decisions" -> _validate_opportunity_decision_row(row)
    [] name = "combinations" -> _validate_combination_row(row)
    [] name = "rejections" -> _validate_rejection_row(row)
    [] name = "settlements" -> _validate_settlement_row(row)
    [] name = "fold_metrics" -> TRUE

_validate_decision_timing(name, row) ==
  /\ name = "opportunities" => row.opportunity.decision <= row.opportunity.start
  /\ name = "combinations" => row.information < row.earliest

_validate_typed_row(name, row) == validate_dataset_row_schema(name, row) /\ _validate_decision_timing(name, row)

_canonical_dataset_rows(name, rows) ==
  IF Distinct(Rows(rows, LAMBDA r : r.row_id)) /\ \A r \in ToSet(rows) : _validate_typed_row(name, r)
  THEN ToSet(rows) ELSE None

-----------------------------------------------------------------------------
(* Validation across datasets. *)

Ids(rows) == {r.row_id : r \in rows}
RowOf(rows, id) == CHOOSE r \in rows : r.row_id = id

_prediction_quality_passed_from_row(row) == production_eligible(row.prediction.quality)
_prediction_probability_for_selection(row, id) ==
  (CHOOSE o \in ToSet(row.prediction.outcomes) : o.selection.id = id).probability

_validate_opportunity_semantic_linkage(o, prediction, evaluation) ==
  LET p == prediction.prediction
  IN /\ _validate_opportunity_timing_semantics(o)
     /\ o.selection = evaluation.selection
     /\ \E x \in ToSet(p.outcomes) : x.selection.id = o.selection.id
     /\ _prediction_probability_for_selection(prediction, o.selection.id) = o.probability
     /\ <<o.event, o.start, o.predicted, o.trained, o.calibrated>> = <<p.event, p.start, p.predicted, p.trained, p.calibrated>>
     /\ \A f \in {"prediction", "observation", "provider", "mode", "odds", "probability", "overround", "edge", "expected_value"} :
          o[f] = evaluation[f]
     /\ evaluation.raw_total = RawUnit + evaluation.overround
     /\ o.quality = _prediction_quality_passed_from_row(prediction)

_validate_decision_ranks(decisions) ==
  LET eligible == {d \in decisions : d.eligible}
  IN {d.rank : d \in eligible} = 1..Cardinality(eligible)

_validate_combination_dependencies(row, legs) ==
  \A d \in row.dependencies :
    LET class == _classify_dependency_pair(legs[d.left], legs[d.right])
    IN class[1] = "separate" /\ d.class = class /\ IdBefore(d.left, d.right)

_validate_combination_against_opportunities(row, legs) ==
  LET listed == [i \in DOMAIN row.ids |-> legs[row.ids[i]]]
  IN /\ Max({o.decision : o \in ToSet(listed)}) < Min(Starts(listed))
     /\ row.odds = CombinedOdds(listed)
     /\ row.joint_probability = JointProbability(listed)
     /\ row.expected_value = CombinedValue(listed)
     /\ <<row.earliest, row.latest>> = <<Min(Starts(listed)), Max(Starts(listed))>>
     /\ row.information = Max({o.decision : o \in ToSet(listed)})
     /\ _validate_combination_dependencies(row, legs)

ValidSettlement(row, opportunities, eligible, combinations) ==
  /\ ToSet(row.ids) \subseteq opportunities
  /\ row.kind = "single" => Len(row.ids) = 1 /\ row.ids[1] \in eligible
  /\ row.kind = "combination" =>
       /\ row.combination \in Ids(combinations)
       /\ row.ids = RowOf(combinations, row.combination).ids

validate_cross_dataset_integrity(d) ==
  LET opportunities == Ids(d.opportunities)
      legs == [id \in opportunities |-> RowOf(d.opportunities, id).opportunity]
      eligible == {r.row_id : r \in {x \in d.opportunity_decisions : x.eligible}}
  IN /\ Ids(d.opportunity_decisions) = opportunities
     /\ Cardinality({r.filter : r \in d.opportunity_decisions}) = 1
     /\ \A r \in d.market_evaluations : r.prediction \in Ids(d.predictions)
     /\ \A id \in opportunities :
          /\ legs[id].prediction \in Ids(d.predictions)
          /\ id \in Ids(d.market_evaluations)
          /\ _validate_opportunity_semantic_linkage(legs[id], RowOf(d.predictions, legs[id].prediction), RowOf(d.market_evaluations, id))
     /\ \A r \in d.opportunity_decisions : r.eligible <=> r.codes = {}
     /\ _validate_decision_ranks(d.opportunity_decisions)
     /\ \A r \in d.combinations :
          /\ ToSet(r.ids) \subseteq eligible
          /\ _validate_combination_against_opportunities(r, legs)
     /\ \A r \in d.rejections : ToSet(r.row_id.ids) \subseteq opportunities
     /\ \A r \in d.settlements : ValidSettlement(r, opportunities, eligible, d.combinations)

\* The datasets pass every check of the writer and of the loader.
Publishable(datasets) ==
  LET canonical == [name \in DOMAIN datasets |-> _canonical_dataset_rows(name, datasets[name])]
  IN (\A name \in DOMAIN datasets : canonical[name] # None) /\ validate_cross_dataset_integrity(canonical)

-----------------------------------------------------------------------------
(* An analysis. *)

_combination_evidence_mode(provenance) ==
  IF provenance = "synthetic-contract" THEN "synthetic-contract" ELSE "trusted-verified"

_canonicalize_analysis_markets(markets) ==
  SortSeq(markets, LAMBDA a, b : IdBefore(<<a.prediction.id, a.quote.prices[1].observation>>,
                                          <<b.prediction.id, b.quote.prices[1].observation>>))

\* The combinations of the accepted opportunities, and the datasets of all of it.
CombineFound(evaluations, opportunities, search, filter, rules, bounds, provenance) ==
  LET build == IF rules = None THEN [combinations |-> <<>>, rejections |-> <<>>]
               ELSE build_combinations(search.accepted, rules, bounds, _combination_evidence_mode(provenance))
  IN IF search = None THEN None
     ELSE build_analysis_datasets(evaluations, opportunities, search, build, filter, "policy", provenance)

\* The search over evaluated markets; one that cannot be evaluated fails them all.
SearchEvaluated(markets, evaluations, filter, rules, bounds, provenance) ==
  LET found == FlattenSeq([i \in DOMAIN markets |-> opportunities_from_evaluation(evaluations[i], markets[i].metadata)])
  IN IF (\E i \in DOMAIN evaluations : evaluations[i] = None) THEN None
     ELSE CombineFound(evaluations, found, filter_and_rank_opportunities(found, filter), filter, rules, bounds, provenance)

\* A market is a prediction, a quote and what is known of the dependencies of its selections.
AnalysisDatasets(given, mode, filter, rules, bounds, provenance) ==
  LET markets == _canonicalize_analysis_markets(given)
      evaluations == [i \in DOMAIN markets |-> evaluate_complete_market(markets[i].prediction, markets[i].quote, mode)]
  IN IF given = <<>> THEN None
     ELSE IF provenance = "historical-replay" /\ (\E m \in ToSet(given) : m.prediction.provenance # provenance) THEN None
     ELSE \* The search over evaluated markets; one that cannot be evaluated fails them all.
SearchEvaluated(markets, evaluations, filter, rules, bounds, provenance)

=============================================================================
