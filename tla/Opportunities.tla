---------------------------- MODULE Opportunities ----------------------------
(***************************************************************************)
(* From a prediction and a complete market quote to ranked opportunities:   *)
(* predictions/contracts.py, value/contracts.py, value/timing.py and        *)
(* opportunities/.  Times are integers of DayLength to the date.            *)
(* Probabilities are tenths and decimal odds are halves, so an implied      *)
(* probability is an integer number of 1/60 and an expected value one of    *)
(* 1/20; an edge is a fraction.  A content-addressed identity is the tuple  *)
(* of the integers that determine it, and the order of hashes is the order  *)
(* of these tuples.  None stands for an absent value or a raised error.     *)
(***************************************************************************)
EXTENDS Integers, Sequences, FiniteSets, SequencesExt, FiniteSetsExt, Sorting

CONSTANT None

ProbabilityUnit == 10
OddsUnit == 2
RawUnit == 60
DayLength == 24

DateOf(time) == time \div DayLength
MarketOf(selection) == [selection EXCEPT !.id = 0, !.outcome = None]
Distinct(s) == IsInjective(s)

\* The order of two identities.
IdBefore(a, b) ==
  \E i \in 1..Len(b) : /\ \A j \in 1..(i - 1) : j <= Len(a) /\ a[j] = b[j]
                       /\ IF i > Len(a) THEN TRUE ELSE a[i] < b[i]

LessFraction(a, b) == a[1] * b[2] < b[1] * a[2]

-----------------------------------------------------------------------------
(* Predictions. *)

QualityFlags == {"calibrated", "model_artifact_verified", "feature_artifact_verified",
                 "sufficient_history", "data_quality_passed"}
production_eligible(quality) == quality = QualityFlags

validate_live_prediction_timing(p) ==
  /\ p.available <= p.predicted
  /\ p.predicted < p.start
  /\ p.trained < DateOf(p.start)
  /\ p.calibrated < DateOf(p.start)

PredictionLineage(p) == p.trained <= p.calibrated /\ Distinct(p.snapshots) /\ p.row = p.event

Total(outcomes) == FoldSet(LAMBDA i, sum : sum + outcomes[i].probability, 0, DOMAIN outcomes)

MarketPrediction(p) ==
  /\ PredictionLineage(p)
  /\ production_eligible(p.quality) => validate_live_prediction_timing(p)
  /\ Len(p.outcomes) \in 2..4
  /\ Distinct([i \in DOMAIN p.outcomes |-> p.outcomes[i].selection.id])
  /\ Cardinality({MarketOf(o.selection) : o \in ToSet(p.outcomes)}) = 1
  /\ \A o \in ToSet(p.outcomes) : o.probability \in 0..ProbabilityUnit
  /\ Total(p.outcomes) = ProbabilityUnit

\* The outcomes in the order of the declared space, or of their identities.
build_market_prediction(p, declared) ==
  LET ids == {o.selection.id : o \in ToSet(p.outcomes)}
      order == IF declared = None THEN SortedBy(ids, LAMBDA a, b : a < b) ELSE declared
      normalized == [i \in DOMAIN order |-> CHOOSE o \in ToSet(p.outcomes) : o.selection.id = order[i]]
  IN IF ToSet(order) # ids \/ Cardinality(ids) # Len(p.outcomes) THEN None
     ELSE IF MarketPrediction([p EXCEPT !.outcomes = normalized]) THEN [p EXCEPT !.outcomes = normalized]
     ELSE None

-----------------------------------------------------------------------------
(* Quotes and value. *)

KnownPrecision == {"exact", "minute"}

CompleteMarketQuote(q) ==
  /\ q.precision \in KnownPrecision => q.quoted # None
  /\ q.precision = "snapshot-observation-only" => q.quoted = None
  /\ q.prices # <<>>
  /\ \A s \in ToSet(q.prices) : s.odds > OddsUnit
  /\ Distinct([i \in DOMAIN q.prices |-> q.prices[i].selection.id])
  /\ Cardinality({MarketOf(s.selection) : s \in ToSet(q.prices)}) = 1
  /\ (q.valid_from # None /\ q.valid_to # None) => q.valid_from <= q.valid_to

\* Rows of one event, source, provider and time, as one quote; mixed rows are refused.
complete_market_quote_from_odds_quotes(rows) ==
  LET shared(r) == [f \in DOMAIN r \ {"selection", "odds", "observation"} |-> r[f]]
      quote == shared(rows[1]) @@
        [prices |-> SortSeq([i \in DOMAIN rows |-> [selection |-> rows[i].selection, odds |-> rows[i].odds,
                                                    observation |-> rows[i].observation]],
                            LAMBDA a, b : a.selection.id < b.selection.id)]
  IN IF rows = <<>> THEN None
     ELSE IF \E r \in ToSet(rows) : shared(r) # shared(rows[1]) THEN None
     ELSE IF CompleteMarketQuote(quote) THEN quote ELSE None

compute_decision_as_of(p, q, mode) ==
  IF mode = "closing" THEN p.start ELSE Max({p.predicted, q.observed} \cup ({q.quoted} \ {None}))

validate_live_decision_timing(p, q, mode) ==
  LET at == compute_decision_as_of(p, q, mode)
  IN /\ at < p.start
     /\ q.valid_from # None => q.valid_from <= at
     /\ q.valid_to # None => at <= q.valid_to

_validate_quote_timing(p, q, mode) ==
  IF mode = "closing" THEN q.phase = "closing"
  ELSE /\ q.phase # "closing"
       /\ q.precision \in KnownPrecision
       /\ q.quoted # None
       /\ validate_live_decision_timing(p, q, mode)

RawImplied(odds) == (RawUnit * OddsUnit) \div odds
RawTotal(q) == FoldSet(LAMBDA i, sum : sum + RawImplied(q.prices[i].odds), 0, DOMAIN q.prices)
ExpectedValue(probability, odds) == probability * odds - ProbabilityUnit * OddsUnit
Edge(probability, odds, total) == <<probability * total - ProbabilityUnit * RawImplied(odds), ProbabilityUnit * total>>

SelectionValue(p, q, o) ==
  LET s == CHOOSE x \in ToSet(q.prices) : x.selection.id = o.selection.id
  IN [selection |-> o.selection, probability |-> o.probability, odds |-> s.odds, observation |-> s.observation,
      edge |-> Edge(o.probability, s.odds, RawTotal(q)), expected_value |-> ExpectedValue(o.probability, s.odds)]

evaluate_complete_market(p, q, mode) ==
  IF /\ p.event = q.event
     /\ {o.selection.id : o \in ToSet(p.outcomes)} = {s.selection.id : s \in ToSet(q.prices)}
     /\ _validate_quote_timing(p, q, mode)
     /\ RawTotal(q) >= RawUnit
  THEN [prediction |-> p, quote |-> q, mode |-> mode, overround |-> RawTotal(q) - RawUnit,
        values |-> LET sorted == SortSeq(p.outcomes, LAMBDA a, b : a.selection.id < b.selection.id)
                   IN [i \in DOMAIN sorted |-> SelectionValue(p, q, sorted[i])]]
  ELSE None

-----------------------------------------------------------------------------
(* Opportunities. *)

verify_selection_value_calculations(o) ==
  /\ o.probability \in 0..ProbabilityUnit
  /\ o.overround >= 0
  /\ o.odds > OddsUnit
  /\ o.edge = Edge(o.probability, o.odds, o.overround + RawUnit)
  /\ o.expected_value = ExpectedValue(o.probability, o.odds)

opportunity_identity(o) == <<o.prediction, o.observation, o.selection.id>>

SelectionDependencyMetadata(m) == m.complete => m.keys # {} /\ m.participants # {}

Opportunity(o) ==
  /\ o.decision = IF o.mode = "live-safe" THEN Max({o.predicted, o.quoted, o.observed}) ELSE o.start
  /\ o.id = opportunity_identity(o)
  /\ verify_selection_value_calculations(o)
  /\ o.complete => o.keys # {} /\ o.participants # {}

build_opportunity_from_evaluation(e, v, metadata) ==
  LET p == e.prediction
      q == e.quote
      about == IF metadata = None
               THEN [keys |-> {<<"sport", v.selection.sport>>, <<"event", p.event>>}, participants |-> {}, complete |-> FALSE]
               ELSE metadata
  IN [id |-> <<p.id, v.observation, v.selection.id>>, event |-> p.event, start |-> p.start, selection |-> v.selection,
      prediction |-> p.id, predicted |-> p.predicted, trained |-> p.trained, calibrated |-> p.calibrated,
      observation |-> v.observation, quoted |-> q.quoted, observed |-> q.observed, provider |-> q.provider,
      mode |-> e.mode, odds |-> v.odds, probability |-> v.probability, overround |-> e.overround, edge |-> v.edge,
      expected_value |-> v.expected_value, decision |-> compute_decision_as_of(p, q, e.mode), keys |-> about.keys,
      participants |-> about.participants, complete |-> about.complete, quality |-> production_eligible(p.quality)]

opportunities_from_evaluation(e, metadata) ==
  [i \in DOMAIN e.values |->
     LET id == e.values[i].selection.id
     IN build_opportunity_from_evaluation(e, e.values[i], IF id \in DOMAIN metadata THEN metadata[id] ELSE None)]

OpportunityFilter(f) ==
  /\ f.minimum_probability \in 0..ProbabilityUnit
  /\ OddsUnit < f.minimum_odds /\ f.minimum_odds <= f.maximum_odds
  /\ f.max_accepted_count # None => f.max_accepted_count >= 1
  /\ (f.starts_at_or_after # None /\ f.starts_before # None) => f.starts_at_or_after < f.starts_before

_rejection_codes(o, f) ==
  {code \in {"historical-benchmark", "sport", "market", "provider", "event-start", "probability", "edge",
             "expected-value", "selection-odds", "prediction-quality"} :
     CASE code = "historical-benchmark" -> o.mode = "closing" /\ ~f.include_historical_benchmarks
       [] code = "sport" -> f.sports # {} /\ o.selection.sport \notin f.sports
       [] code = "market" -> f.markets # {} /\ o.selection.market \notin f.markets
       [] code = "provider" -> f.providers # {} /\ o.provider \notin f.providers
       [] code = "event-start" -> \/ f.starts_at_or_after # None /\ o.start < f.starts_at_or_after
                                  \/ f.starts_before # None /\ o.start >= f.starts_before
       [] code = "probability" -> o.probability < f.minimum_probability
       [] code = "edge" -> LessFraction(o.edge, f.minimum_edge)
       [] code = "expected-value" -> o.expected_value < f.minimum_expected_value
       [] code = "selection-odds" -> o.odds \notin f.minimum_odds..f.maximum_odds
       [] code = "prediction-quality" -> ~o.quality /\ ~(o.mode = "closing" /\ f.include_historical_benchmarks)}

\* The numbers a ranking mode compares, largest first.
Scores(o, mode) ==
  CASE mode = "expected-value-v1" -> <<<<o.expected_value, 1>>, <<o.probability, 1>>>>
    [] mode = "model-probability-v1" -> <<<<o.probability, 1>>, <<o.expected_value, 1>>>>
    [] mode = "edge-v1" -> <<o.edge, <<o.expected_value, 1>>>>

\* The larger scores come first; equal ones are in the order of their identities.
ScoresBefore(x, y, tie) ==
  LET equal(i) == ~LessFraction(x[i], y[i]) /\ ~LessFraction(y[i], x[i])
  IN \/ LessFraction(y[1], x[1])
     \/ equal(1) /\ (LessFraction(y[2], x[2]) \/ (equal(2) /\ tie))

opportunity_rank_before(a, b, mode) ==
  ScoresBefore(Scores(a, mode), Scores(b, mode), IdBefore(<<a.event, a.selection.id>>, <<b.event, b.selection.id>>))

\* A stable sort: equal ranks keep the order of the given sequence.
RankedFrom(opportunities, mode) ==
  LET before(i, j) ==
        \/ opportunity_rank_before(opportunities[i], opportunities[j], mode)
        \/ ~opportunity_rank_before(opportunities[j], opportunities[i], mode) /\ i < j
      order == SortedBy(DOMAIN opportunities, before)
  IN [k \in DOMAIN order |-> opportunities[order[k]]]

ById(opportunities) == SortSeq(opportunities, LAMBDA a, b : IdBefore(a.id, b.id))

\* What becomes of every opportunity: the first ranks are accepted, up to the cap.
Decided(sorted, ranked, cap, f) ==
  LET accepted == SubSeq(ranked, 1, cap)
      overflow == {ranked[i].id : i \in (cap + 1)..Len(ranked)}
      codes(o) == IF o.id \in overflow THEN {"rank-cap"} ELSE _rejection_codes(o, f)
      rank(o) == CHOOSE i \in DOMAIN accepted : accepted[i].id = o.id
      lost == SelectSeq(sorted, LAMBDA o : codes(o) # {})
  IN [accepted |-> accepted,
      rejected |-> [i \in DOMAIN lost |-> [opportunity |-> lost[i], codes |-> codes(lost[i])]],
      decisions |-> [i \in DOMAIN sorted |->
        [id |-> sorted[i].id, decision |-> sorted[i].decision, eligible |-> codes(sorted[i]) = {},
         codes |-> codes(sorted[i]), rank |-> IF codes(sorted[i]) = {} THEN rank(sorted[i]) ELSE None]]]

filter_and_rank_opportunities(opportunities, f) ==
  LET eligible == SelectSeq(ById(opportunities), LAMBDA o : _rejection_codes(o, f) = {})
      cap == IF f.max_accepted_count = None THEN Len(eligible) ELSE Min({f.max_accepted_count, Len(eligible)})
  IN IF ~Distinct([i \in DOMAIN opportunities |-> opportunities[i].id]) THEN None
     ELSE Decided(ById(opportunities), RankedFrom(eligible, f.ranking_mode), cap, f)

=============================================================================
