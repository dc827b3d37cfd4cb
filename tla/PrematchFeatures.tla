-------------------------- MODULE PrematchFeatures ---------------------------
(***************************************************************************)
(* Rolling-origin folds: evaluation/temporal.py builds them, the feature    *)
(* artifact of features/football/datasets.py stores them as one row per     *)
(* event and region, and the loader rebuilds and verifies them.  An example *)
(* is an event with its date and its label; dates and ids are integers.     *)
(* None stands for a raised error or an absent fold.                        *)
(*                                                                         *)
(* Team-level features before a match, features/football/prematch.py, and   *)
(* the finished events and closing quotes datasets.py reads for them.  A    *)
(* rating is kept as the term that computes it (which ratings and which     *)
(* result went in), and a rolling mean as its sum and its sample, so that   *)
(* two features are equal exactly when the code computes them from the same *)
(* numbers.                                                                 *)
(***************************************************************************)
EXTENDS Integers, Sequences, FiniteSets, SequencesExt, FiniteSetsExt, Sorting

CONSTANT None

Regions == <<"train", "calibration", "test">>

ValidSplit(c) ==
  \A f \in {"min_train_rows", "min_calibration_rows", "min_test_rows", "step_rows", "maximum_folds"} : c[f] >= 1

Chronological(a, b) == a.date < b.date \/ (a.date = b.date /\ a.id < b.id)
SortedExamples(set) == SortedBy(set, Chronological)
DatesOf(examples) == SortedBy({e.date : e \in ToSet(examples)}, LAMBDA a, b : a < b)
RowsOn(ordered, dates, first, last) == SelectSeq(ordered, LAMBDA e : e.date \in {dates[i] : i \in first..last})
Ids(examples) == [i \in DOMAIN examples |-> examples[i].id]

_region_from_indices(events, labels) ==
  [start_date |-> events[1].date, end_date |-> Last(events).date, event_ids |-> Ids(events),
   class_counts |-> [l \in labels |-> Cardinality({e \in ToSet(events) : e.label = l})]]

\* The first date of the shortest run of whole dates that ends at "end" and holds the minimum of rows.
_grow_region_backward(ordered, dates, end, minimum) ==
  LET enough == {s \in 1..end : Len(RowsOn(ordered, dates, s, end)) >= minimum}
  IN IF enough = {} THEN None ELSE Max(enough)

_try_build_fold(ordered, dates, end, c, labels) ==
  LET test == _grow_region_backward(ordered, dates, end, c.min_test_rows)
      calibration == IF test \in {None, 1} THEN None
                     ELSE _grow_region_backward(ordered, dates, test - 1, c.min_calibration_rows)
      region(first, last) == _region_from_indices(RowsOn(ordered, dates, first, last), labels)
  IN IF calibration \in {None, 1} THEN None
     ELSE IF Len(RowsOn(ordered, dates, 1, calibration - 1)) < c.min_train_rows THEN None
     ELSE LET fold == [train |-> region(1, calibration - 1), calibration |-> region(calibration, test - 1),
                       test |-> region(test, end)]
          IN IF \A l \in labels : fold.train.class_counts[l] >= 1 THEN fold ELSE None

\* The next end date to try: at least step_rows rows further on.
NextEnd(ordered, dates, end, c) ==
  LET enough == {n \in (end + 1)..Len(dates) : Len(RowsOn(ordered, dates, end + 1, n)) >= c.step_rows}
  IN IF enough = {} THEN Len(dates) + 1 ELSE Min(enough) + 1

Retained(folds, c) ==
  LET kept == SubSeq(folds, (IF Len(folds) > c.maximum_folds THEN Len(folds) - c.maximum_folds ELSE 0) + 1, Len(folds))
  IN [i \in DOMAIN kept |-> kept[i] @@ [fold_id |-> i]]

build_rolling_origin_folds(examples, labels, c) ==
  LET ordered == SortedExamples(ToSet(examples))
      dates == DatesOf(ordered)
      total == c.min_train_rows + c.min_calibration_rows + c.min_test_rows
      fold(end) == _try_build_fold(ordered, dates, end, c, labels)
      first == Min({n \in 1..Len(dates) : Len(RowsOn(ordered, dates, 1, n)) >= total})
      from[n \in 1..(Len(dates) + 1)] ==
        IF n > Len(dates) THEN <<>>
        ELSE IF fold(n) = None THEN from[n + 1]
        ELSE <<fold(n)>> \o from[NextEnd(ordered, dates, n, c)]
      final == fold(Len(dates))
      candidates == IF final = None \/ final \in ToSet(from[first]) THEN from[first] ELSE Append(from[first], final)
  IN IF examples = <<>> \/ Len(ordered) < total THEN None
     ELSE IF candidates = <<>> THEN None
     ELSE Retained(candidates, c)

-----------------------------------------------------------------------------
(* The stored form. *)

DateOf(examples, id) == (CHOOSE e \in ToSet(examples) : e.id = id).date
LabelOf(examples, id) == (CHOOSE e \in ToSet(examples) : e.id = id).label

assign_fold_rows(examples, folds) ==
  {[fold_id |-> f.fold_id, region |-> r, id |-> id, date |-> DateOf(examples, id)] :
     <<f, r, id>> \in UNION {{<<f, r, id>> : id \in ToSet(f[r].event_ids)} : f \in ToSet(folds), r \in ToSet(Regions)}}

fold_summaries(folds) ==
  [i \in DOMAIN folds |-> [fold_id |-> folds[i].fold_id] @@
     [r \in ToSet(Regions) |-> [start_date |-> folds[i][r].start_date, end_date |-> folds[i][r].end_date,
                                event_count |-> Len(folds[i][r].event_ids), class_counts |-> folds[i][r].class_counts]]]

\* A rebuilt fold: regions of whole dates in order, each of its minimum, every label in the training region.
ValidStoredFold(f, c, labels) ==
  /\ f.train.end_date < f.calibration.start_date
  /\ f.calibration.end_date < f.test.start_date
  /\ Len(f.train.event_ids) >= c.min_train_rows
  /\ Len(f.calibration.event_ids) >= c.min_calibration_rows
  /\ Len(f.test.event_ids) >= c.min_test_rows
  /\ \A l \in labels : f.train.class_counts[l] >= 1

reconstruct_folds_from_table(rows, examples, labels, c, summaries) ==
  LET ids == SortedBy({r.fold_id : r \in rows}, LAMBDA a, b : a < b)
      known == \A r \in rows :
                 /\ r.region \in ToSet(Regions)
                 /\ \E e \in ToSet(examples) : e.id = r.id /\ e.date = r.date /\ e.label \in labels
      of(f, region) == {e \in ToSet(examples) : \E r \in rows : r.fold_id = f /\ r.region = region /\ r.id = e.id}
      complete == \A f \in ToSet(ids), region \in ToSet(Regions) : of(f, region) # {}
      folds == [i \in DOMAIN ids |-> [fold_id |-> ids[i]] @@
                  [r \in ToSet(Regions) |-> _region_from_indices(SortedExamples(of(ids[i], r)), labels)]]
  IN IF ~known \/ ~complete \/ ids = <<>> THEN None
     ELSE IF /\ \A i \in DOMAIN folds : ValidStoredFold(folds[i], c, labels)
             /\ \A i \in 2..Len(folds) : folds[i - 1].test.end_date <= folds[i].test.end_date
             /\ Last(folds).test.end_date = Max({e.date : e \in ToSet(examples)})
             /\ fold_summaries(folds) = summaries
          THEN folds ELSE None

-----------------------------------------------------------------------------
(* Features before a match. *)

Outcomes == {"home", "draw", "away"}
ColdStartRestDays == 7
InitialRating == <<>>

\* Finished rows only, each with scores and a result.
training_event_from_row(row) ==
  IF row.status = "finished" /\ row.result \in Outcomes /\ row.home_score # None /\ row.away_score # None THEN row ELSE None

validate_training_events(events) ==
  LET set == ToSet(events)
  IN IF /\ set # {}
        /\ {e.sport : e \in set} = {"football"}
        /\ Cardinality({e.competition : e \in set}) = 1
        /\ \A e \in set : e.result \in Outcomes /\ e.home_score >= 0 /\ e.away_score >= 0
        /\ \A e, f \in set : e.id = f.id => e = f
     THEN SortedExamples(set) ELSE None

NewTeam == [elo |-> InitialRating, history |-> <<>>, last |-> None]
WithTeams(states, batch) ==
  LET teams == UNION {{e.home, e.away} : e \in ToSet(batch)}
  IN [t \in DOMAIN states \cup teams |-> IF t \in DOMAIN states THEN states[t] ELSE NewTeam]

Rating(own, other, score, side) == <<own, other, score, side>>
Points(score) == CASE score = 2 -> 3 [] score = 1 -> 1 [] score = 0 -> 0

\* The home side's actual score is counted in halves.
_apply_result(states, e) ==
  LET actual == CASE e.result = "home" -> 2 [] e.result = "draw" -> 1 [] e.result = "away" -> 0
      after(t, other, score, side, gf, ga) ==
        [elo |-> Rating(states[t].elo, states[other].elo, score, side), last |-> e.date,
         history |-> Append(states[t].history, [home |-> side = "home", gf |-> gf, ga |-> ga, points |-> Points(score)])]
  IN [states EXCEPT ![e.home] = after(e.home, e.away, actual, "home", e.home_score, e.away_score),
                    ![e.away] = after(e.away, e.home, 2 - actual, "away", e.away_score, e.home_score)]

_days_since_previous(last, date) == IF last = None THEN <<ColdStartRestDays, 0>> ELSE <<date - last, 1>>

\* The sum and the number of the last values.
RollingMean(values, window) ==
  LET sample == SubSeq(values, (IF Len(values) > window THEN Len(values) - window ELSE 0) + 1, Len(values))
  IN <<FoldLeft(LAMBDA a, x : a + x, 0, sample), Len(sample)>>

TeamFeatures(state, date, athome) ==
  LET history == state.history
      venue == SelectSeq(history, LAMBDA x : x.home = athome)
      last(w, f(_)) == RollingMean([i \in DOMAIN history |-> f(history[i])], w)
  IN [elo |-> state.elo, played |-> Len(history), rest |-> _days_since_previous(state.last, date),
      points |-> [w \in {5, 10} |-> last(w, LAMBDA x : x.points)],
      goals_for |-> [w \in {5, 10} |-> last(w, LAMBDA x : x.gf)],
      goals_against |-> [w \in {5, 10} |-> last(w, LAMBDA x : x.ga)],
      goal_difference |-> [w \in {5, 10} |-> last(w, LAMBDA x : x.gf - x.ga)],
      form |-> RollingMean([i \in DOMAIN venue |-> venue[i].points], 5)]

_build_features(states, e) ==
  [home |-> TeamFeatures(states[e.home], e.date, TRUE), away |-> TeamFeatures(states[e.away], e.date, FALSE)]

Vectors(states, batch) ==
  [i \in DOMAIN batch |-> [id |-> batch[i].id, date |-> batch[i].date, cutoff |-> batch[i].date, label |-> batch[i].result,
                           start |-> batch[i].start, features |-> _build_features(states, batch[i])]]

\* Mutant: every event updates the ratings before the next event of the date is looked at.
OneDateUnbatched(acc, batch) ==
  FoldLeft(LAMBDA a, e : LET known == WithTeams(a.states, <<e>>)
                         IN [states |-> _apply_result(known, e), vectors |-> a.vectors \o Vectors(known, <<e>>)],
           acc, batch)

\* All features of a date come from the state before that date; then its results are applied.
OneDate(acc, batch) ==
  LET known == WithTeams(acc.states, batch)
  IN [states |-> FoldLeft(_apply_result, known, batch), vectors |-> acc.vectors \o Vectors(known, batch)]

generate_prematch_features(events) ==
  LET ordered == validate_training_events(events)
      dates == DatesOf(ordered)
      on(d) == SelectSeq(ordered, LAMBDA e : e.date = d)
  IN IF ordered = None THEN None
     ELSE FoldLeft(LAMBDA acc, d : OneDate(acc, on(d)), [states |-> <<>>, vectors |-> <<>>], dates).vectors

-----------------------------------------------------------------------------
(* The closing market-average price of an event: all three outcomes, from one observation. *)

_extract_closing_market_averages(rows) ==
  LET usable == {r \in rows : /\ r.market = "1x2" /\ r.provider = "market-average" /\ r.phase = "closing"
                              /\ r.outcome \in Outcomes /\ r.odds > 1}
      of(event) == {r \in usable : r.event = event}
      shared(r) == <<r.source, r.observed, r.quoted, r.precision>>
  IN {[event |-> e, odds |-> [o \in Outcomes |-> (CHOOSE r \in of(e) : r.outcome = o).odds]] :
        e \in {e \in {r.event : r \in usable} :
                 /\ {r.outcome : r \in of(e)} = Outcomes
                 /\ Cardinality({shared(r) : r \in of(e)}) = 1}}

\* A later snapshot's price of an event replaces an earlier one's.
Replaced(old, new) == {q \in old : \A n \in new : n.event # q.event} \cup new

load_finished_events_from_snapshots(snapshots) ==
  LET given == ToSet(snapshots)
      finished == UNION {{training_event_from_row(r) : r \in {x \in s.events : x.status = "finished"}} : s \in given}
      valid == validate_training_events(SetToSeq(finished))
  IN IF \/ given = {} \/ Cardinality({s.competition : s \in given}) # 1
        \/ Cardinality({s.fingerprint : s \in given}) # 1
        \/ None \in finished \/ valid = None
     THEN None
     ELSE [events |-> valid,
           quotes |-> FoldLeft(LAMBDA q, s : Replaced(q, _extract_closing_market_averages(s.quotes)), {}, snapshots)]

\* The published artifact: features and targets apart, the fold rows, the summaries and the quotes.
build_feature_artifact(snapshots, c, minimum_events) ==
  LET loaded == load_finished_events_from_snapshots(snapshots)
      vectors == generate_prematch_features(loaded.events)
      folds == build_rolling_origin_folds(vectors, Outcomes, c)
  IN IF loaded = None THEN None
     ELSE IF Len(loaded.events) < minimum_events \/ folds = None THEN None
     ELSE [features |-> {[id |-> v.id, date |-> v.date, start |-> v.start, features |-> v.features] : v \in ToSet(vectors)},
           targets |-> {[id |-> v.id, label |-> v.label] : v \in ToSet(vectors)},
           folds |-> assign_fold_rows(vectors, folds), configuration |-> c, summaries |-> fold_summaries(folds),
           quotes |-> loaded.quotes]

load_feature_artifact(a) ==
  LET ids(rows) == {r.id : r \in rows}
      label(id) == (CHOOSE t \in a.targets : t.id = id).label
      vectors == SortedExamples({[id |-> f.id, date |-> f.date, cutoff |-> f.date, label |-> label(f.id), start |-> f.start,
                                  features |-> f.features] : f \in a.features})
      folds == reconstruct_folds_from_table(a.folds, vectors, Outcomes, a.configuration, a.summaries)
  IN IF \/ Cardinality(ids(a.features)) # Cardinality(a.features)
        \/ ids(a.features) # ids(a.targets)
        \/ ~ValidSplit(a.configuration) \/ folds = None
     THEN None ELSE [vectors |-> vectors, folds |-> folds, quotes |-> a.quotes]

=============================================================================
