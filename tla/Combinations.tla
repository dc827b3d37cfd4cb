---------------------------- MODULE Combinations -----------------------------
(***************************************************************************)
(* Multi-event combinations: combinations/contracts.py validates exact legs *)
(* and combinations/builder.py enumerates leg sets within hard bounds.      *)
(* Odds and probabilities of n legs are integers of the n-th power of the   *)
(* units of Opportunities; ValueScale brings an expected value of n legs to *)
(* the unit of MaximumScaledLegs legs.  A dependency key is a pair of a     *)
(* scope and a value, or one of an exclusive claim.                         *)
(***************************************************************************)
EXTENDS Opportunities

MaximumScaledLegs == 3
ValueUnit == ProbabilityUnit * OddsUnit
ValueScale(legs) == ValueUnit ^ (MaximumScaledLegs - legs)

CombinationRules(r) ==
  /\ 2 <= r.minimum_legs /\ r.minimum_legs <= r.maximum_legs
  /\ OddsUnit < r.selection_minimum /\ r.selection_minimum <= r.selection_maximum
  /\ 1 < r.combined_minimum /\ r.combined_minimum <= r.combined_maximum
  /\ r.maximum_candidates >= 1 /\ r.maximum_evaluated >= 1 /\ r.maximum_outputs >= 1
  /\ r.maximum_event_horizon >= 0

-----------------------------------------------------------------------------
(* Dependencies. *)

Claims(keys) == {k \in keys : k[1] = "exclusive"}
_contradictory_dependency_keys(left, right) ==
  \E a \in Claims(left), b \in Claims(right) : a[2] = b[2] /\ a[3] # b[3]

\* The class of a pair of legs and the reason given for it.
_classify_dependency_pair(a, b) ==
  IF a.id = b.id \/ (a.event = b.event /\ a.selection = b.selection) THEN <<"conflict", "duplicate">>
  ELSE IF a.event = b.event /\ MarketOf(a.selection) = MarketOf(b.selection) THEN <<"conflict", "same-market">>
  ELSE IF a.event = b.event THEN <<"unknown", "same-event">>
  ELSE IF ~a.complete \/ ~b.complete THEN <<"unknown", "incomplete-metadata">>
  ELSE IF _contradictory_dependency_keys(a.keys, b.keys) THEN <<"conflict", "exclusive-claims">>
  ELSE IF a.keys \cap b.keys # {} THEN <<"unknown", "shared-keys">>
  ELSE IF a.participants \cap b.participants # {} THEN <<"unknown", "shared-participants">>
  ELSE <<"separate", "distinct">>

\* The pairs that are not structurally separate, and the class and reason of the first of them.
Entangled(legs) ==
  {p \in (DOMAIN legs) \X (DOMAIN legs) :
     p[1] < p[2] /\ _classify_dependency_pair(legs[p[1]], legs[p[2]])[1] # "separate"}
FirstEntanglement(legs) ==
  LET p == CHOOSE x \in Entangled(legs) : \A y \in Entangled(legs) : x = y \/ IdBefore(x, y)
  IN _classify_dependency_pair(legs[p[1]], legs[p[2]])

-----------------------------------------------------------------------------
(* Validation.  The result is a combination or the reason of its rejection. *)

ProductOf(legs, f(_)) == FoldSet(LAMBDA i, product : product * f(legs[i]), 1, DOMAIN legs)
CombinedOdds(legs) == ProductOf(legs, LAMBDA o : o.odds)
JointProbability(legs) == ProductOf(legs, LAMBDA o : o.probability)
CombinedValue(legs) ==
  (JointProbability(legs) * CombinedOdds(legs) - ValueUnit ^ Len(legs)) * ValueScale(Len(legs))

Starts(legs) == {o.start : o \in ToSet(legs)}
\* A bound on decimal odds in the unit of n legs.
InOdds(bound, n) == bound * OddsUnit ^ n

\* What is wrong with one leg, or None.
LegReason(o, r) ==
  IF o.mode # "live-safe" THEN <<"closing-line">>
  ELSE IF o.odds \notin r.selection_minimum..r.selection_maximum THEN <<"selection-odds">>
  ELSE IF o.quoted = None THEN <<"quote-timestamp">>
  ELSE IF r.allowed_sports # {} /\ o.selection.sport \notin r.allowed_sports THEN <<"sport">>
  ELSE IF r.allowed_markets # {} /\ o.selection.market \notin r.allowed_markets THEN <<"market">>
  ELSE None
\* The first reason of a sequence of reasons.
FirstReason(reasons) == reasons[Min({i \in DOMAIN reasons : reasons[i] # None})]

validate_combination(given, r) ==
  LET legs == ById(given)
      information == Max({o.decision : o \in ToSet(legs)})
      n == Len(legs)
      combination ==
        [id |-> FlattenSeq([i \in DOMAIN legs |-> legs[i].id]), legs |-> legs, odds |-> CombinedOdds(legs),
         earliest |-> Min(Starts(legs)), information |-> information, joint_probability |-> JointProbability(legs),
         expected_value |-> CombinedValue(legs), latest |-> Max(Starts(legs)), rejection |-> None]
      reject(reason) == [rejection |-> <<reason>>]
  IN IF n \notin r.minimum_legs..r.maximum_legs THEN reject("leg-count")
     ELSE IF ~Distinct([i \in DOMAIN legs |-> legs[i].id]) THEN reject("duplicate-ids")
     ELSE IF \E o \in ToSet(legs) : LegReason(o, r) # None
          THEN [rejection |-> FirstReason([i \in DOMAIN legs |-> LegReason(legs[i], r)])]
     ELSE IF Entangled(legs) # {} THEN [rejection |-> FirstEntanglement(legs)]
     ELSE IF information >= Min(Starts(legs)) THEN reject("information-time")
     ELSE IF CombinedOdds(legs) \notin InOdds(r.combined_minimum, n)..InOdds(r.combined_maximum, n)
          THEN reject("combined-odds")
     ELSE IF ~r.allow_multiple_sports /\ Cardinality({o.selection.sport : o \in ToSet(legs)}) > 1 THEN reject("sports")
     ELSE IF ~r.allow_multiple_dates /\ Cardinality({DateOf(s) : s \in Starts(legs)}) > 1 THEN reject("dates")
     ELSE IF Max(Starts(legs)) - Min(Starts(legs)) > r.maximum_event_horizon THEN reject("horizon")
     ELSE IF JointProbability(legs) < r.minimum_joint * ProbabilityUnit ^ (n - 1) THEN reject("joint-probability")
     ELSE IF CombinedValue(legs) < r.minimum_expected_value * ValueUnit ^ (MaximumScaledLegs - 1)
          THEN reject("expected-value")
     ELSE combination

\* A manual validation reports every entangled pair before the other rules.
validate_combination_manual(given, r) ==
  LET legs == ById(given)
      result == validate_combination(given, r)
  IN IF Entangled(legs) # {}
     THEN [eligible |-> FALSE, combination |-> None,
           reasons |-> {_classify_dependency_pair(legs[p[1]], legs[p[2]]) : p \in Entangled(legs)}]
     ELSE IF result.rejection # None THEN [eligible |-> FALSE, combination |-> None, reasons |-> {result.rejection}]
     ELSE [eligible |-> TRUE, combination |-> result, reasons |-> {}]

-----------------------------------------------------------------------------
(* The builder. *)

BuilderBounds(b) == b.maximum_candidates >= 1 /\ b.maximum_evaluated >= 1 /\ b.maximum_results >= 1

\* Mutant: the running product may not reach the combined maximum.
ExceedsEarly(legs, n, r) == CombinedOdds(SubSeq(legs, 1, n)) >= InOdds(r.combined_maximum, n)
\* The product of the odds of the first n legs is above the combined maximum.
ExceedsCombinedMaximum(legs, n, r) == CombinedOdds(SubSeq(legs, 1, n)) > InOdds(r.combined_maximum, n)

EarlyLegReason(legs, n, r, mode) ==
  IF mode = "trusted-verified" /\ ~legs[n].quality THEN <<"quality">>
  ELSE IF legs[n].mode # "live-safe" THEN <<"closing-line">>
  ELSE IF legs[n].odds \notin r.selection_minimum..r.selection_maximum THEN <<"selection-odds">>
  ELSE IF ExceedsCombinedMaximum(legs, n, r) THEN <<"combined-odds">>
  ELSE None

_early_rejection_reason(legs, r, mode) ==
  IF \E n \in DOMAIN legs : EarlyLegReason(legs, n, r, mode) # None
  THEN FirstReason([n \in DOMAIN legs |-> EarlyLegReason(legs, n, r, mode)])
  ELSE IF Max(Starts(legs)) - Min(Starts(legs)) > r.maximum_event_horizon THEN <<"horizon">>
  ELSE IF Entangled(legs) # {} THEN FirstEntanglement(legs)
  ELSE None

\* The leg tuples in the order the builder tries them: by size, then by the ranks of the candidates.
LegTuples(candidates, r) ==
  LET sets == {s \in SUBSET DOMAIN candidates : Cardinality(s) \in r.minimum_legs..r.maximum_legs}
      ranks(s) == SortedBy(s, LAMBDA a, b : a < b)
      before(s, t) == Cardinality(s) < Cardinality(t) \/ (Cardinality(s) = Cardinality(t) /\ IdBefore(ranks(s), ranks(t)))
      tuples == SortedBy(sets, before)
  IN [i \in DOMAIN tuples |-> LET t == ranks(tuples[i]) IN [k \in DOMAIN t |-> candidates[t[k]]]]

combination_rank_before(a, b) ==
  a.expected_value > b.expected_value \/ (a.expected_value = b.expected_value /\ IdBefore(a.id, b.id))

\* The combination of some legs, or the reason it is none: cheap tests first.
OutcomeOf(legs, early, r) == IF early # None THEN [rejection |-> early] ELSE validate_combination(legs, r)

\* The result of the leg tuples tried: outcomes[i] is that of tuples[i], the others were beyond the limit.
BuildResult(tuples, outcomes, built, limit, truncated) ==
  LET lost == SelectSeq([i \in DOMAIN outcomes |-> i], LAMBDA i : outcomes[i].rejection # None)
      ids(legs) == LET sorted == ById(legs) IN [j \in DOMAIN legs |-> sorted[j].id]
  IN [combinations |-> SubSeq(built, 1, Min({Len(built), limit})),
      rejections |-> [k \in DOMAIN lost |-> [ids |-> ids(tuples[lost[k]]), reason |-> outcomes[lost[k]].rejection]],
      combinations_evaluated |-> Len(outcomes),
      truncated |-> truncated \/ Len(outcomes) < Len(tuples) \/ limit < Len(built)]

\* The candidates in the order they are tried, up to the limits of evaluations and results.
BuildFrom(tuples, r, bounds, mode, truncated) ==
  LET evaluated == Min({Len(tuples), bounds.maximum_evaluated, r.maximum_evaluated})
      outcomes == [i \in 1..evaluated |-> OutcomeOf(tuples[i], _early_rejection_reason(tuples[i], r, mode), r)]
  IN BuildResult(tuples, outcomes, SortedBy({o \in ToSet(outcomes) : o.rejection = None}, combination_rank_before),
                 Min({bounds.maximum_results, r.maximum_outputs}), truncated)

build_combinations(opportunities, r, bounds, mode) ==
  LET considered == Min({Len(opportunities), bounds.maximum_candidates, r.maximum_candidates})
  IN IF ~Distinct([i \in DOMAIN opportunities |-> opportunities[i].id]) THEN None
     ELSE BuildFrom(LegTuples(SubSeq(RankedFrom(opportunities, "expected-value-v1"), 1, considered), r),
                    r, bounds, mode, considered < Len(opportunities))

=============================================================================
