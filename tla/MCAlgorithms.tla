---------------------------- MODULE MCAlgorithms -----------------------------
(***************************************************************************)
(* The pure algorithms of the system, each run once on every input of a     *)
(* small set: a behaviour picks an algorithm and an input, then computes.   *)
(***************************************************************************)
EXTENDS Integers, Sequences, FiniteSets, SequencesExt, FiniteSetsExt, TLC, Sorting

CONSTANTS
  None, Pending,
  Kinds            \* the algorithms to run

VARIABLES kind, inp, out

vars == <<kind, inp, out>>

W == INSTANCE AcquisitionWindow
N == INSTANCE QuoteNormalization
S == INSTANCE QuoteSelection
F == INSTANCE PrematchFeatures
B == INSTANCE ArtifactDatasets
Q == INSTANCE OperatorQuotes
O == INSTANCE BrowserContracts

-----------------------------------------------------------------------------
(* Inputs. *)

Window(maximum) == [W!RollingWindow(2, 4, maximum, 48) EXCEPT !.requested_market_depth = W!AllObservedMarkets]

WindowEvents == {[id |-> i, start |-> s, state |-> st, completeness |-> "unknown-completeness"] :
                   i \in {1}, s \in {1, 2, 5, 6}, st \in {"pre-match", "unknown"}}
WindowInputs ==
  {<<events, m>> : m \in {1, 2},
     events \in {<<[a EXCEPT !.id = p[1]], [b EXCEPT !.id = p[2]], [c EXCEPT !.id = p[3]]>> :
                   a, b, c \in WindowEvents, p \in {<<1, 2, 3>>, <<3, 1, 2>>}}}

\* Two providers' events between the same two clubs.
Name(n) == [text |-> n, clean |-> TRUE]
ProviderEvent(id, start, competition, home, away) ==
  [id |-> id, start |-> start, state |-> "pre-match",
   competition_name |-> [letters |-> competition # 0, text |-> competition],
   competition_source |-> [safe |-> TRUE, text |-> id],
   participants |-> <<[id |-> 10 * id, role |-> "home", name |-> Name(home)],
                      [id |-> 10 * id + 1, role |-> "away", name |-> Name(away)]>>,
   markets |-> <<>>, native_markets |-> <<>>, captures |-> {}, completeness |-> None]
ProviderBundle(provider, events) ==
  [provider |-> provider, sport |-> "football", events |-> events, observed |-> 0, warnings |-> {}, drift_codes |-> {}]
Starts == {1, 3, 4, 30}
Tolerance == 2
ReconcileInputs ==
  {<<ProviderBundle("betano", <<ProviderEvent(1, s1, c1, 1, 2)>> \o two),
     ProviderBundle("betclic", <<ProviderEvent(1, s2, c2, h, 2)>>)>> :
     s1, s2 \in Starts, c1, c2 \in {0, 1}, h \in {1, 2},
     two \in {<<>>} \cup {<<ProviderEvent(2, s, 1, 1, 2)>> : s \in Starts}
                    \cup {<<ProviderEvent(2, s, 1, 3, 4)>> : s \in {1}}}

\* One provider's event with two markets, parsed from two responses.
Selection(id, outcome, odds, status, capture) ==
  [id |-> id, outcome |-> outcome, odds |-> odds, price_state |-> IF odds = None THEN "unpriced" ELSE "priced",
   status |-> status, line |-> None, capture |-> capture, order |-> None]
Market(id, definition, status, line, rules, capture, selections) ==
  [id |-> id, definition |-> definition, status |-> status, line |-> line, period |-> None, overtime |-> None,
   rules |-> rules, capture |-> capture, order |-> None, selections |-> selections]
Evidence(parsed, selections, state) ==
  [f \in N!CountFields |-> CASE f \in {"markets_observed", "markets_parsed", "markets_with_valid_price"} -> parsed
                             [] f \in {"selections_observed", "selections_parsed"} -> selections [] OTHER -> 0]
  @@ [declared |-> IF state = "complete-by-provider-reference" THEN parsed ELSE None,
      event_detail_surface_visited |-> TRUE, event_detail_readiness_reached |-> TRUE,
      reviewed_payload_completeness_permitted |-> FALSE, completeness_state |-> state]
Captures == <<[checksum |-> 7, path |-> "p7", bytes |-> 1], [checksum |-> 8, path |-> "p8", bytes |-> 1]>>
CaptureFiles == "p7" :> <<7, 1>> @@ "p8" :> <<8, 1>>
MarketPairs ==
  {<<Market(1, d1, st, 5, r, c1, <<Selection(1, "home", o1, s1, 7), Selection(2, "away", 300, "active", c2)>>),
     Market(2, d2, "open", l2, r, 8, <<Selection(1, o2, 150, "active", 8)>>)>> :
     d1 \in {"football_1x2", None}, st \in {"open", "suspended"}, r \in {None, "regulation"}, c1 \in {7, None},
     o1 \in {None, 210}, s1 \in {"active", "suspended"}, c2 \in {8, 9},
     d2 \in {"football_1x2", "football_totals", "other"}, l2 \in {None, 5}, o2 \in {"home", "over", None}}
NormalizeInputs ==
  {<<pair, home, state>> : pair \in MarketPairs, home \in {1, 2}, state \in {"unknown-completeness"}}
  \cup {<<pair, 1, "complete-by-provider-reference">> : pair \in {p \in MarketPairs : p[1].definition # None}}
BundleOf(i) ==
  ProviderBundle("betano", <<[ProviderEvent(1, 3, 1, i[2], 2) EXCEPT !.native_markets = i[1],
                                 !.completeness = Evidence(2, 3, i[3])]>>)

\* Quotes of both bookmakers for one bet, and for a multiple of two bets.
Verified(id, provider, odds, observed, bet) ==
  [id |-> id, provider |-> provider, odds |-> odds, observed |-> observed, bet |-> bet, market_status |-> "open",
   selection_status |-> "active", snapshot |-> provider]
Policies == {[mode |-> m, preferred |-> S!Betano, comparison |-> S!Betclic, maximum_age |-> 2] : m \in S!SelectionModes}
At == 5
QuotesOf(provider) == {None} \cup {Verified(1, provider, odds, observed, b) : odds \in {150, 200, 250}, observed \in {2, 3, 5, 6}, b \in {1, 2}}
Catalogue(provider, quotes) == [provider |-> provider, snapshot |-> provider, quotes |-> quotes]
SelectInputs == {<<p, a, b>> : p \in Policies, a \in QuotesOf(S!Betano), b \in QuotesOf(S!Betclic)}
Legs == <<[key |-> "x", bet |-> 1], [key |-> "y", bet |-> 2]>>
LegQuotes(provider) ==
  UNION {[ks -> {Verified(i, provider, odds, observed, b) : i \in {1}, odds \in {150, 200}, observed \in {2, 4}, b \in {1, 2}}] :
         ks \in SUBSET {"x", "y"}}
MultipleInputs == {<<a, b>> : a \in LegQuotes(S!Betano), b \in LegQuotes(S!Betclic)}

\* Finished matches on consecutive dates, and the same matches with other results from a date on.
Labels == <<"home", "draw", "away">>
Split(train, test, step, maximum) ==
  [min_train_rows |-> train, min_calibration_rows |-> 1, min_test_rows |-> test, step_rows |-> step, maximum_folds |-> maximum]
Example(id, date, label) == [id |-> id, date |-> date, label |-> label]
\* "rows" matches on each date; the labels go round from the given one.
Examples(rows, first, classes) ==
  LET dates == FlattenSeq([d \in DOMAIN rows |-> [i \in 1..rows[d] |-> d]])
  IN [i \in DOMAIN dates |-> Example(i, dates[i], Labels[((i + first) % classes) + 1])]
FoldInputs ==
  {<<Examples(rows, first, 2), {"home", "draw"}, Split(train, test, step, maximum)>> :
     rows \in [1..6 -> {1, 2}], first \in {0, 1}, train \in {1, 2}, test \in {1, 2}, step \in {1, 2}, maximum \in {1, 3}}

Match(id, date, home, away, result) ==
  [id |-> id, sport |-> "football", competition |-> "league", date |-> date, start |-> None, home |-> home, away |-> away,
   home_score |-> IF result = "home" THEN 1 ELSE 0, away_score |-> IF result = "away" THEN 1 ELSE 0, result |-> result,
   status |-> "finished"]
Season(dates, results) ==
  <<Match(1, dates[1], 1, 2, results[1]), Match(2, dates[2], 2, 3, results[2]),
    Match(3, dates[3], 3, 1, results[3]), Match(4, dates[4], 1, 2, results[4])>>
SeasonDates == {<<1, 1, 2, 3>>, <<1, 2, 2, 3>>, <<1, 2, 3, 3>>, <<3, 1, 2, 2>>}
FeatureInputs ==
  {<<Season(d, r), Season(d, [i \in 1..4 |-> IF d[i] >= from THEN t[i] ELSE r[i]]), from>> :
     d \in SeasonDates, from \in 1..3, r \in [1..4 -> {"home", "draw"}], t \in [1..4 -> {"home", "away"}]}

\* A prediction and a quote of one two-way market, and the filters.
Side(id, market) == [id |-> id, sport |-> "football", market |-> market, outcome |-> id]
Prediction(id, event, start) ==
  [id |-> id, event |-> event, row |-> event, start |-> start, predicted |-> 50, available |-> 49, trained |-> 1, calibrated |-> 1,
   snapshots |-> <<>>, provenance |-> "synthetic-contract", quality |-> B!QualityFlags,
   outcomes |-> <<[selection |-> Side(1, "m"), probability |-> 6], [selection |-> Side(2, "m"), probability |-> 4]>>]
QuoteOf(event, odds) ==
  [event |-> event, provider |-> "betano", phase |-> "current", observed |-> 55, quoted |-> 52, precision |-> "exact",
   valid_from |-> None, valid_to |-> None,
   prices |-> <<[selection |-> Side(1, "m"), odds |-> odds[1], observation |-> 10 * event],
                [selection |-> Side(2, "m"), odds |-> odds[2], observation |-> 10 * event + 1]>>]
Filters ==
  [minimum_probability |-> 0, minimum_edge |-> <<-1, 1>>, minimum_expected_value |-> -20, minimum_odds |-> 3,
   maximum_odds |-> 20, sports |-> {}, markets |-> {}, providers |-> {}, starts_at_or_after |-> None, starts_before |-> None,
   include_historical_benchmarks |-> FALSE, ranking_mode |-> "expected-value-v1", max_accepted_count |-> None]
SearchInputs ==
  {<<[Prediction(1, 1, 60) EXCEPT !.predicted = at, !.calibrated = c, !.quality = flags],
     [QuoteOf(1, odds) EXCEPT !.phase = phase, !.observed = observed, !.quoted = quoted, !.precision = precision, !.valid_to = to],
     mode, [Filters EXCEPT !.include_historical_benchmarks = history, !.max_accepted_count = cap]>> :
     at \in {48, 50, 60}, c \in {1, 2}, flags \in {B!QualityFlags, B!QualityFlags \ {"calibrated"}},
     odds \in {<<4, 4>>, <<3, 6>>, <<5, 5>>}, phase \in {"current", "closing"}, observed \in {40, 55, 61}, quoted \in {None, 52, 60},
     precision \in {"exact", "snapshot-observation-only"}, to \in {None, 53}, mode \in {"live-safe", "closing"},
     history \in BOOLEAN, cap \in {None, 1}}

\* Three legs and the rules of a combination.
Leg(i, event, start, odds) ==
  [id |-> <<i, i, 1>>, event |-> event, start |-> start, selection |-> Side(1, "m"), prediction |-> i, predicted |-> 50, trained |-> 1,
   calibrated |-> 1, observation |-> i, quoted |-> 50, observed |-> 50, provider |-> "betano", mode |-> "live-safe", odds |-> odds,
   probability |-> 5, overround |-> 0, edge |-> <<0, 1>>, expected_value |-> B!ExpectedValue(5, odds), decision |-> 50,
   keys |-> {<<"event", i>>}, participants |-> {i}, complete |-> TRUE, quality |-> TRUE]
Rules ==
  [minimum_legs |-> 2, maximum_legs |-> 3, selection_minimum |-> 3, selection_maximum |-> 20, combined_minimum |-> 2,
   combined_maximum |-> 8, allowed_sports |-> {}, allowed_markets |-> {}, minimum_joint |-> 0, minimum_expected_value |-> -20,
   maximum_candidates |-> 10, maximum_evaluated |-> 10, maximum_outputs |-> 10, maximum_event_horizon |-> 30,
   allow_multiple_sports |-> TRUE, allow_multiple_dates |-> TRUE]
Bounds == [maximum_candidates |-> 10, maximum_evaluated |-> 10, maximum_results |-> 10]
LegTriples ==
  {<<[Leg(1, 1, 60, odds) EXCEPT !.quality = quality, !.participants = people, !.keys = keys],
     [Leg(2, event, 60, 4) EXCEPT !.complete = complete, !.keys = {<<"exclusive", "cup", 2>>}],
     [Leg(3, 3, start, 5) EXCEPT !.decision = decision]>> :
     odds \in {3, 4}, quality \in BOOLEAN, people \in {{1}, {3}}, keys \in {{<<"event", 1>>}, {<<"exclusive", "cup", 1>>}},
     event \in {1, 2}, complete \in BOOLEAN, start \in {60, 70, 100}, decision \in {50, 65}}
BuildInputs ==
  {<<legs, [Rules EXCEPT !.maximum_legs = most, !.combined_maximum = top, !.maximum_evaluated = evaluated, !.minimum_expected_value = value],
     mode>> : legs \in LegTriples, most \in {2, 3}, top \in {4, 10}, evaluated \in {2, 10}, value \in {-20, 0},
              mode \in {"trusted-verified", "synthetic-contract"}}

\* Two test folds of settled two-way markets, listed in either order.
BacktestFold(id, day) ==
  [fold_id |-> id, train_start |-> 0, train_end |-> 0, calibration_start |-> 1, calibration_end |-> 1, test_start |-> day, test_end |-> day]
SettledMarket(event, day, odds, winner) ==
  LET e == B!evaluate_complete_market(Prediction(event, event, 24 * day + event + 8), QuoteOf(event, odds), "live-safe")
      about == [i \in {1, 2} |-> [keys |-> {<<"event", event>>}, participants |-> {event}, complete |-> TRUE]]
      opportunities == B!opportunities_from_evaluation(e, about)
  IN [i \in DOMAIN opportunities |->
        [opportunity |-> opportunities[i],
         result |-> IF winner = 0 THEN "void" ELSE IF opportunities[i].selection.id = winner THEN "win" ELSE "loss"]]
FoldInputsOf(day1, day2, odds, w) ==
  <<[fold |-> BacktestFold(1, day1), candidates |-> SettledMarket(1, day1, <<3, 6>>, w[1]) \o SettledMarket(2, day1, odds, w[2])],
    [fold |-> BacktestFold(2, day2), candidates |-> SettledMarket(3, day2, odds, w[3])]>>
Strategy(singles, combinations, cap, value) ==
  [mode |-> "timestamped-synthetic", filter |-> [Filters EXCEPT !.max_accepted_count = cap, !.minimum_expected_value = value],
   include_singles |-> singles, include_combinations |-> combinations, rules |-> [Rules EXCEPT !.maximum_legs = 2]]
BacktestInputs ==
  {<<FoldInputsOf(2, day2, odds, w), Strategy(k[1], k[2], cap, value)>> :
     day2 \in {2, 3}, odds \in {<<4, 4>>, <<6, 3>>}, w \in [1..3 -> 0..2], k \in {<<TRUE, FALSE>>, <<TRUE, TRUE>>, <<FALSE, TRUE>>},
     cap \in {None, 2}, value \in {-20, 1}}
\* The same candidates listed backwards, in folds listed backwards.
Backwards(inputs) == Reverse([i \in DOMAIN inputs |-> [inputs[i] EXCEPT !.candidates = Reverse(inputs[i].candidates)]])

\* A published feature artifact with a closing price for every event; as in the default split, a fold is meant
\* to advance by as many rows as a test region has.
BenchmarkInputs ==
  {<<Examples(rows, 0, 3), Split(3, 2, 2, maximum)>> : rows \in [1..7 -> {1}] \cup [1..5 -> {1, 2}], maximum \in {1, 2, 8}}
BenchmarkFolds(i) == F!build_rolling_origin_folds(i[1], ToSet(Labels), i[2])
BenchmarkVectors(i) ==
  [k \in DOMAIN i[1] |-> i[1][k] @@ [start |-> 24 * i[1][k].date + 12, result |-> i[1][k].label]]
Triples(i) == [k \in DOMAIN i[1] |-> [event |-> i[1][k].id, observed |-> 0, odds |-> <<5, 6, 6>>]]
BenchmarkFilters == [Filters EXCEPT !.include_historical_benchmarks = TRUE]

\* An analysis of two markets: other prices, models that ran late, and two bookmakers' prices of one prediction.
AnalysisMarket(prediction, quote, complete) ==
  [prediction |-> prediction, quote |-> quote,
   metadata |-> IF complete THEN [i \in {1, 2} |-> [keys |-> {<<"event", quote.event>>}, participants |-> {quote.event}, complete |-> TRUE]]
                ELSE <<>>]
PredictedAt(p, at, provenance) ==
  LET replay == p.start - 1
  IN IF provenance = "historical-replay" THEN [p EXCEPT !.predicted = replay, !.available = replay, !.provenance = provenance]
     ELSE [p EXCEPT !.predicted = at]
AnalysisInputs ==
  {<<<<AnalysisMarket(PredictedAt([Prediction(2, 2, 70) EXCEPT !.quality = flags], at, provenance), QuoteOf(2, odds), complete),
       AnalysisMarket(PredictedAt(Prediction(i, i, 60), 50, provenance), [QuoteOf(i, <<4, 4>>) EXCEPT !.provider = "betclic"], TRUE)>>,
     [Filters EXCEPT !.max_accepted_count = cap, !.minimum_expected_value = value],
     rules, declared>> :
     flags \in {B!QualityFlags, B!QualityFlags \ {"calibrated"}}, at \in {50, 69, 71}, odds \in {<<4, 4>>, <<3, 6>>}, complete \in BOOLEAN,
     i \in {1, 2}, cap \in {None, 1, 3}, value \in {-20, 3, 40}, rules \in {None, Rules},
     provenance, declared \in {"synthetic-contract", "historical-replay"}}
AnalysisOf(i) == B!AnalysisDatasets(i[1], "live-safe", i[2], i[3], Bounds, i[4])

\* Two rows an operator entered, and whether their hashes are in the order of the file.
OperatorRow(family, outcome, line, scope, odds, observed) ==
  [provider |-> 1, event |-> 1, sport |-> "football", family |-> family, outcome |-> outcome, line |-> line,
   scope |-> scope, participant |-> IF scope = "event" THEN None ELSE 7, period |-> "full-match", rules |-> "regulation",
   odds |-> odds, observed |-> observed, valid_until |-> None, source_kind |-> "manual", note |-> None]
OperatorRows ==
  {OperatorRow("draw_no_bet", outcome, None, "event", odds, observed) :
     outcome \in {"home", "away"}, odds \in {100, 200}, observed \in {3, 8, 11}}
  \cup {OperatorRow("team_total_goals", outcome, line, scope, 200, 8) :
     outcome \in {"over", "under"}, line \in {2, 5}, scope \in {"home", "away", "event"}}
OperatorInputs == {<<a, b, backwards>> : a, b \in OperatorRows, backwards \in BOOLEAN}
OperatorEvents == {[id |-> 1, reconciled |-> TRUE, sport |-> "football", start |-> 20]}
OperatorCatalogue(rows, backwards) ==
  LET file == [fields |-> Q!Fields, rows |-> rows]
      parsed == Q!parse_operator_quotes(file, "manual")
      hashed == [n \in DOMAIN rows |-> IF backwards THEN Len(rows) + 1 - n ELSE n]
  IN IF parsed = None THEN None
     ELSE Q!validate_operator_quotes(parsed, {1}, OperatorEvents, 10, [maximum_age |-> 5, future_skew |-> 0], hashed)

\* Responses the browser may meet, up to what the readers tell apart, and the bytes already captured.
Responses ==
  [public : BOOLEAN, hostApproved : BOOLEAN, approved : BOOLEAN, media : {"json", "grpc-web"}, resource : {"xhr"},
   payload : {"topevents", "frames", "malformed", "unsupported"}, status : {200}, declared : {None, 1, 4},
   size : {1, 2}, readable : BOOLEAN, metadataOnly : {FALSE}, storable : BOOLEAN]
ResponseInputs ==
  {<<provider, r, held, directory>> :
     provider \in {"betano-pt", "betclic-pt"}, r \in Responses, held \in {0, 2, 3}, directory \in {TRUE}}
ResponseLimits == [response |-> 2, total |-> 3]

-----------------------------------------------------------------------------

Inputs(k) ==
  CASE k = "window" -> WindowInputs
    [] k = "reconcile" -> ReconcileInputs
    [] k = "normalize" -> NormalizeInputs
    [] k = "select" -> SelectInputs
    [] k = "multiple" -> MultipleInputs
    [] k = "folds" -> FoldInputs
    [] k = "features" -> FeatureInputs
    [] k = "search" -> SearchInputs
    [] k = "build" -> BuildInputs
    [] k = "backtest" -> BacktestInputs
    [] k = "analysis" -> AnalysisInputs
    [] k = "operator" -> OperatorInputs
    [] k = "observe" -> ResponseInputs
    [] k = "benchmark" -> {i \in BenchmarkInputs : BenchmarkFolds(i) # None}

Init ==
  /\ out = Pending
  /\ \E k \in Kinds : kind = k /\ inp \in Inputs(k)

Compute(k, result) == kind = k /\ out = Pending /\ out' = result /\ UNCHANGED <<kind, inp>>

AdmitWindow == Compute("window", W!ApplyAcquisitionWindow(inp[1], {}, Window(inp[2])))
Reconcile == Compute("reconcile", N!reconcile_bookmaker_bundles(inp, Tolerance))
Normalize ==
  LET attached == N!attach_capture_references(BundleOf(inp), Captures)
  IN Compute("normalize", IF attached = None THEN None ELSE N!normalize_bookmaker_bundles(attached, Tolerance, 7))
SelectPair ==
  Compute("select", S!select_quote_pair(inp[2], inp[3], inp[1], At, Catalogue(S!Betano, {inp[2]}), Catalogue(S!Betclic, {inp[3]})))
CompareMultiples ==
  LET rows(q) == {q[k] : k \in DOMAIN q}
  IN Compute("multiple", S!compare_provider_multiples(Legs, inp[1], inp[2], At, 2, FALSE,
                             Catalogue(S!Betano, rows(inp[1])), Catalogue(S!Betclic, rows(inp[2]))))

BuildFolds == Compute("folds", F!build_rolling_origin_folds(inp[1], inp[2], inp[3]))
GenerateFeatures == Compute("features", <<F!generate_prematch_features(inp[1]), F!generate_prematch_features(inp[2])>>)
SearchOpportunities ==
  LET prediction == B!build_market_prediction(inp[1], None)
      evaluation == B!evaluate_complete_market(prediction, inp[2], inp[3])
  IN Compute("search", IF prediction = None \/ ~B!CompleteMarketQuote(inp[2]) THEN None
                       ELSE IF evaluation = None THEN None
                       ELSE B!filter_and_rank_opportunities(B!opportunities_from_evaluation(evaluation, <<>>), inp[4]))
BuildCombinations == Compute("build", B!build_combinations(inp[1], inp[2], Bounds, inp[3]))
RunBacktest ==
  Compute("backtest", <<B!run_backtest(inp[1], inp[2], Bounds), B!run_backtest(Backwards(inp[1]), inp[2], Bounds)>>)
RunBenchmark ==
  Compute("benchmark", B!run_football_1x2_closing_benchmark(BenchmarkVectors(inp), Triples(inp), BenchmarkFolds(inp),
                                                           BenchmarkFilters, <<5, 3, 2>>))
AnalyseMarkets == Compute("analysis", AnalysisOf(inp))
EnterQuotes ==
  Compute("operator", <<OperatorCatalogue(<<inp[1], inp[2]>>, inp[3]), OperatorCatalogue(<<inp[2], inp[1]>>, FALSE)>>)
ObserveResponse == Compute("observe", O!ProcessedMetadata(inp[1], inp[2], ResponseLimits, inp[3], inp[4]))

Next ==
  \/ AdmitWindow \/ Reconcile \/ Normalize \/ SelectPair \/ CompareMultiples
  \/ BuildFolds \/ GenerateFeatures \/ SearchOpportunities \/ BuildCombinations \/ RunBacktest \/ RunBenchmark \/ AnalyseMarkets
  \/ EnterQuotes \/ ObserveResponse

Spec == Init /\ [][Next]_vars

Done(k) == kind = k /\ out \notin {Pending, None}

-----------------------------------------------------------------------------
(* Properties. *)

\* What a cycle admits does not depend on the order the provider lists its events in: it is the earliest
\* events of the window, at most the maximum, and every event is either admitted or counted as excluded.
WindowAdmission ==
  Done("window") =>
    LET admitted == {e.id : e \in ToSet(out.events)}
        eligible == {e \in ToSet(inp[1]) : e.state = "pre-match" /\ W!ContainsStart(Window(inp[2]), e.start)}
    IN /\ admitted \subseteq {e.id : e \in eligible}
       /\ Cardinality(admitted) = IF Cardinality(eligible) < inp[2] THEN Cardinality(eligible) ELSE inp[2]
       /\ \A e, f \in eligible : (e.id \in admitted /\ f.id \notin admitted) =>
            e.start < f.start \/ (e.start = f.start /\ e.id < f.id)
       /\ out.counts.non_pre_match_excluded + out.counts.before_window_excluded
            + out.counts.at_or_after_window_end_excluded + out.counts.admitted_events
            + out.counts.event_limit_truncated = Len(inp[1])

\* Two source events that end up as one canonical event are of two providers, of one competition and the
\* same clubs, and start within the tolerance.
ExactMatchesAreCompatible ==
  Done("reconcile") =>
    \A r, t \in out.events : (r # t /\ r.canonical # None /\ r.canonical = t.canonical) =>
      LET start(x) == (CHOOSE c \in ToSet(out.candidates) : c.source = x.source /\ c.id = x.id).start
      IN r.source # t.source /\ start(r) - start(t) \in -Tolerance..Tolerance

\* No two open markets of an event are the same bet twice.
DistinctBets(d) ==
  \A q, r \in d.quotes : q # r =>
    LET e(x) == CHOOSE y \in d.eligibility : y.quote = x.id
    IN N!quote_semantic_identity_key(q, e(q)) # N!quote_semantic_identity_key(r, e(r))

LoadableAsPublished ==
  N!Loadable(out, N!build_capture_manifest("betano", "cycle", Captures), CaptureFiles, "betano", "cycle", 7)

\* Every snapshot normalization publishes passes every check of the strict loader, as long as the provider
\* does not list one bet twice.
PublishedIsLoadable == (Done("normalize") /\ DistinctBets(out)) => LoadableAsPublished

\* The chosen quote is fresh and no fresh quote of the other bookmaker pays more; a tie goes to Betano.  A
\* chosen multiple is priced by one bookmaker on every requested leg and is not beaten by the other's.
BestFreshPrice ==
  /\ (Done("select") /\ out.selected # None) =>
       LET fresh(q) == q # None /\ q.observed <= At /\ At - q.observed <= 2
       IN /\ \E q \in {inp[2], inp[3]} : fresh(q) /\ q.provider = out.provider /\ q.odds = out.selected.odds
          /\ inp[1].mode \in {"best", "preferred-unless-better"} =>
               \A q \in {inp[2], inp[3]} : fresh(q) => q.odds <= out.selected.odds
          /\ (inp[1].mode \in {"best", "preferred-unless-better"} /\ fresh(inp[2]) /\ inp[2].odds = out.selected.odds) =>
               out.provider = S!Betano
  /\ (Done("multiple") /\ out.selected # None) =>
       /\ S!BookmakerMultiple(out.selected)
       /\ {l.key : l \in ToSet(out.selected.legs)} = {"x", "y"}
       /\ \A m \in {out.betano, out.betclic} \ {None} : m.total <= out.selected.total

\* The folds a feature artifact stores are the folds its loader rebuilds from the rows, and no date is in two
\* regions of a fold: nothing of a test date is seen in training or calibration.
FoldsReload ==
  Done("folds") =>
    /\ F!reconstruct_folds_from_table(F!assign_fold_rows(inp[1], out), inp[1], inp[2], inp[3], F!fold_summaries(out)) = out
    /\ \A f \in ToSet(out) : \A e, g \in ToSet(inp[1]) :
         (e.id \in ToSet(f.test.event_ids) /\ g.id \in ToSet(f.train.event_ids) \cup ToSet(f.calibration.event_ids)) => g.date < e.date

\* The features of a match only look back: other results on a date or later change no feature up to that date.
FeaturesLookBack ==
  Done("features") =>
    LET until(vectors) == {[id |-> v.id, features |-> v.features] : v \in {x \in ToSet(vectors) : x.date <= inp[3]}}
    IN until(out[1]) = until(out[2])

\* An accepted live opportunity uses only what was known before the event: its prediction, its quote and the
\* observation of the quote all precede its decision time, which precedes the start; its model never saw the
\* event's date and its price was still valid.  A closing price is accepted only as a declared benchmark.
NoLookAhead ==
  Done("search") =>
    /\ \A o \in ToSet(out.accepted) :
         IF o.mode = "closing" THEN inp[4].include_historical_benchmarks
         ELSE /\ {o.predicted, o.quoted, o.observed} \subseteq 0..o.decision
              /\ o.decision < o.start
              /\ o.trained < B!DateOf(o.start) /\ o.calibrated < B!DateOf(o.start)
              /\ inp[2].valid_to # None => o.decision <= inp[2].valid_to
    /\ Len(out.accepted) + Len(out.rejected) = 2
    /\ \A d \in ToSet(out.decisions) : d.eligible <=> \E o \in ToSet(out.accepted) : o.id = d.id

LegSets == {s \in SUBSET (1..Len(inp[1])) : Cardinality(s) \in inp[2].minimum_legs..inp[2].maximum_legs}
LegsOf(s) == LET order == SortedBy(s, LAMBDA a, b : a < b) IN [i \in DOMAIN order |-> inp[1][order[i]]]
Eligible(s) == B!validate_combination_manual(LegsOf(s), inp[2]).eligible
BuiltSets == {{i \in 1..Len(inp[1]) : inp[1][i].id \in {l.id : l \in ToSet(c.legs)}} : c \in ToSet(out.combinations)}

\* Unless it says it was truncated, the builder returns exactly the leg sets that manual validation accepts (of
\* trusted legs only, in the trusted mode); it never returns a set that manual validation refuses.
BuilderIsExhaustive ==
  Done("build") =>
    LET trusted(s) == inp[3] = "trusted-verified" => \A i \in s : inp[1][i].quality
    IN /\ BuiltSets \subseteq {s \in LegSets : Eligible(s) /\ trusted(s)}
       /\ ~out.truncated => BuiltSets = {s \in LegSets : Eligible(s) /\ trusted(s)}

\* A backtest does not depend on the order of its inputs, and its drawdown is the deepest loss over any run of
\* consecutive bets.
BacktestReproducible ==
  Done("backtest") =>
    /\ out[1] = None <=> out[2] = None
    /\ out[1] # None =>
         /\ out[1].backtest_result_id = out[2].backtest_result_id
         /\ LET bets == out[1].bets
                loss(i, j) == -B!SumOf(SubSeq(bets, i, j), LAMBDA b : b.profit)
            IN out[1].metrics.maximum_drawdown = Max({0} \cup {loss(i, j) : <<i, j>> \in {x \in (1..Len(bets)) \X (1..Len(bets)) : x[1] <= x[2]}})

\* The folds of a benchmark in which something was accepted.
FoldsWithBets == {b.fold : b \in ToSet(out.result.bets)}
BacktestDatasets == B!build_backtest_datasets(out.result, out.evaluations, BenchmarkFilters, "historical-replay")

\* What was computed can be published: the datasets of an analysis of verified predictions, each priced once, and
\* those of a closing benchmark that bets in one fold only pass every check the artifact writer and loader make
\* of rows and across datasets.
EvidencePublishes ==
  /\ (/\ Done("analysis")
      /\ Cardinality({m.prediction.id : m \in ToSet(inp[1])}) = Len(inp[1])
      /\ \A m \in ToSet(inp[1]) : m.prediction.provenance = inp[4] /\ B!_validate_prediction_chronology([prediction |-> m.prediction, provenance |-> inp[4]]))
     => B!Publishable(out)
  /\ (Done("benchmark") /\ Cardinality(FoldsWithBets) <= 1) => B!Publishable(BacktestDatasets)

\* A benchmark that ran over its folds is published, however many of them bet.
BenchmarkPublishes == Done("benchmark") => B!Publishable(BacktestDatasets)

\* The record of a response is never one its own checks refuse: the observation would be dropped without a trace.
ObservationsAreRecorded == Done("observe") => O!ValidNetworkMetadata(out)

\* Acquisition: what is observed is recorded, what is admitted is what lies in the window, and what is published
\* of it can be loaded.
AcquiredIsLoadable == ObservationsAreRecorded /\ WindowAdmission /\ PublishedIsLoadable

\* Selection: prices are compared only between events that are the same, and the best fresh one is taken.
SelectedIsComparable == ExactMatchesAreCompatible /\ BestFreshPrice

\* Evidence only looks back, from the features of a model to the decision on a price.
EvidenceLooksBack == FeaturesLookBack /\ NoLookAhead

\* Prices an operator entered are the same batch in whatever order the file lists them, and are read again as they
\* were stored, unless two rows differ by scope, participant or time only.
OperatorQuotesReload ==
  (Done("operator") /\ (Q!SortsBefore(inp[1], inp[2]) \/ Q!SortsBefore(inp[2], inp[1]))) =>
    /\ out[1] = None <=> out[2] = None
    /\ out[1] # None => /\ out[1].batch = out[2].batch /\ out[1].complete = out[2].complete
                        /\ Q!load_operator_quote_artifact(Q!operator_catalogue_payload(out[1]))

\* What was computed is what can be stored and read again.
ReloadsAsComputed == FoldsReload /\ EvidencePublishes /\ OperatorQuotesReload
=============================================================================
