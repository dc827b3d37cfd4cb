--------------------------- MODULE OperatorQuotes ----------------------------
(***************************************************************************)
(* Prices an operator types in or imports (bookmakers/operator_quotes.py):  *)
(* parsing, admission, complete markets and the artifact that is written    *)
(* and read back; with markets/capabilities.py and the shared market        *)
(* contracts (markets/contracts.py).  A row has one field per column of the *)
(* canonical file; odds are hundredths, lines are half goals, times are     *)
(* seconds.  Texts that are ordered (provider, event, family, outcome) are  *)
(* numbers; an identifier built by hashing is the tuple it hashes.          *)
(***************************************************************************)
EXTENDS Integers, Sequences, FiniteSets, FiniteSetsExt, SequencesExt

CONSTANT None

MaximumQuotes == 5000
OddsBounds == 101..100000000

\* Families by number, so that the order of their names is the order of the numbers.
Families == [both_teams_to_score |-> 1, correct_score |-> 2, double_chance |-> 3, draw_no_bet |-> 4, match_result |-> 5,
             team_total_goals |-> 6, total_goals |-> 7, total_goals_odd_even |-> 8, winning_margin |-> 9]
LineFamilies == {"team_total_goals", "total_goals"}
Margins == {"away_by_1", "away_by_2", "away_by_3_plus", "draw", "home_by_1", "home_by_2", "home_by_3_plus"}
Outcomes == [away |-> 1, away_by_1 |-> 2, away_by_2 |-> 3, away_by_3_plus |-> 4, draw |-> 5, draw_or_away |-> 6,
             even |-> 7, home |-> 8, home_by_1 |-> 9, home_by_2 |-> 10, home_by_3_plus |-> 11, home_or_away |-> 12,
             home_or_draw |-> 13, no |-> 14, odd |-> 15, over |-> 16, under |-> 17, yes |-> 18]

_complete_outcomes(family) ==
  CASE family = "match_result" -> {"home", "draw", "away"}
    [] family = "double_chance" -> {"home_or_draw", "home_or_away", "draw_or_away"}
    [] family = "draw_no_bet" -> {"home", "away"}
    [] family \in {"total_goals", "team_total_goals"} -> {"over", "under"}
    [] family = "both_teams_to_score" -> {"yes", "no"}
    [] family = "total_goals_odd_even" -> {"odd", "even"}
    [] family = "winning_margin" -> Margins
    [] OTHER -> None

\* Offered prices are supported for every registered row, even where no model exists.
capability_for(sport, family) ==
  IF sport = "football" /\ family \in DOMAIN Families
  THEN [probability |-> "supported", offered |-> "supported", opportunity |-> "supported"]
  ELSE IF sport \in {"basketball", "tennis"}
       THEN [probability |-> "model-unavailable", offered |-> "supported", opportunity |-> "model-unavailable"]
       ELSE [probability |-> "unsupported", offered |-> "supported", opportunity |-> "unsupported"]

MarketDefinition(d) ==
  /\ d.scope \in {"event", "home", "away", "team", "player"}
  /\ d.line_type \in {"none", "total", "handicap", "spread"}
  /\ (d.line_type = "none") = (d.line = None)
  /\ d.scope \in {"team", "player"} => d.participant # None
  /\ d.scope = "event" => d.participant = None

OddsQuote(q) ==
  /\ MarketDefinition(q.definition)
  /\ q.odds \in OddsBounds
  /\ q.quoted = None => q.precision \notin {"exact", "minute"}
  /\ q.quoted # None => q.precision # "snapshot-observation-only"
  /\ (q.valid_from # None /\ q.valid_to # None) => q.valid_from <= q.valid_to

-----------------------------------------------------------------------------
(* Parsing: a file is [fields, rows], a row is the function of its columns.  *)

Fields == {"provider", "event", "sport", "family", "outcome", "line", "scope", "participant", "period",
           "rules", "odds", "observed", "valid_until", "source_kind", "note"}
OptionalFields == {"line", "participant", "valid_until", "note"}

\* An empty cell of an optional column is absent; anywhere else it is refused.
_input_from_mapping(row, source) ==
  IF row.source_kind = source /\ \A f \in Fields \ OptionalFields : row[f] # None THEN row ELSE None

parse_operator_quotes(file, source) ==
  IF /\ file.fields = Fields /\ Len(file.rows) \in 1..MaximumQuotes
     /\ \A i \in DOMAIN file.rows : DOMAIN file.rows[i] = Fields /\ _input_from_mapping(file.rows[i], source) # None
  THEN file.rows ELSE None

-----------------------------------------------------------------------------
(* Admission. *)

ValidPolicy(p) == p.maximum_age > 0 /\ p.future_skew >= 0

_validate_input(item, registered, events, at, policy) ==
  /\ item.provider \in registered
  /\ \E e \in events : /\ e.id = item.event /\ e.reconciled /\ e.sport = item.sport
                       /\ at < e.start
  /\ item.observed <= at + policy.future_skew
  /\ at - item.observed <= policy.maximum_age
  /\ item.valid_until # None => item.observed <= item.valid_until /\ at <= item.valid_until
  /\ capability_for(item.sport, item.family).offered = "supported"
  /\ item.period = "full-match" /\ item.rules = "regulation"
  /\ item.scope \in {"event", "home", "away"}
  /\ (item.scope = "event") = (item.participant = None)
  /\ (item.family \in LineFamilies) = (item.line # None)
  /\ item.line # None => item.line >= 0 /\ item.line % 2 = 1
  /\ item.odds \in OddsBounds

_odds_quote(item) ==
  LET definition == [family |-> item.family, scope |-> item.scope, participant |-> item.participant, line |-> item.line,
                     line_type |-> IF item.line = None THEN "none" ELSE "total"]
  IN [id |-> <<"quote-observation", item>>, definition |-> definition, outcome |-> item.outcome, odds |-> item.odds,
      quoted |-> item.observed, precision |-> "exact", valid_from |-> item.observed, valid_to |-> item.valid_until]

_market_group_key(item) ==
  <<item.provider, item.event, item.sport, item.family, item.period, item.scope, item.participant, item.line,
    item.rules, item.observed>>

\* The order under which the rows are hashed: scope and participant are not part of it.
SortsBefore(a, b) ==
  LET key(x) == <<x.provider, x.event, Families[x.family], Outcomes[x.outcome], IF x.line = None THEN 0 ELSE x.line>>
  IN \E n \in 1..5 : key(a)[n] < key(b)[n] /\ \A k \in 1..(n - 1) : key(a)[k] = key(b)[k]

\* A stable sort: rows that tie keep the order they had.
StablySorted(rows) ==
  LET rank(i) == Cardinality({j \in DOMAIN rows : SortsBefore(rows[j], rows[i])
                                \/ (~SortsBefore(rows[i], rows[j]) /\ j <= i)})
  IN [n \in DOMAIN rows |-> rows[CHOOSE i \in DOMAIN rows : rank(i) = n]]

QuoteBatchId(at, rows) == <<at, StablySorted(rows)>>

\* Reciprocal odds of a complete market, in millionths before they are normalized.
RawProbability(item) == 100000000 \div item.odds

\* None is the ValueEvaluationError; hashed is the permutation that sorts the rows by their observation ids.
validate_operator_quotes(inputs, registered, events, at, policy, hashed) ==
  LET keys == {_market_group_key(i) : i \in ToSet(inputs)}
      rows(k) == {i \in ToSet(inputs) : _market_group_key(i) = k}
      complete == {k \in keys : LET expected == _complete_outcomes((CHOOSE r \in rows(k) : TRUE).family)
                                IN expected # None /\ {r.outcome : r \in rows(k)} = expected}
      total(k) == MapThenSumSet(RawProbability, rows(k))
  IN IF /\ Len(inputs) \in 1..MaximumQuotes
        /\ \A e, f \in events : e.id = f.id => e = f
        /\ \A i \in ToSet(inputs) : _validate_input(i, registered, events, at, policy)
        /\ \A i, j \in DOMAIN inputs : i # j =>
             <<_market_group_key(inputs[i]), inputs[i].outcome>> # <<_market_group_key(inputs[j]), inputs[j].outcome>>
        /\ \A i \in ToSet(inputs) : OddsQuote(_odds_quote(i))
     THEN [batch |-> QuoteBatchId(at, inputs), at |-> at, quotes |-> [n \in DOMAIN inputs |-> inputs[hashed[n]]],
           complete |-> complete, incomplete |-> keys \ complete,
           probability |-> [i \in ToSet(inputs) |->
              IF _market_group_key(i) \in complete
              THEN <<RawProbability(i), total(_market_group_key(i))>> ELSE None]]
     ELSE None

\* The whole offered market of one quote, when every outcome is priced.
complete_operator_market_quote(catalogue, item) ==
  IF item \in ToSet(catalogue.quotes) /\ _market_group_key(item) \in catalogue.complete
  THEN {i \in ToSet(catalogue.quotes) : _market_group_key(i) = _market_group_key(item)} ELSE None

operator_catalogue_payload(catalogue) ==
  [quote_batch_id |-> catalogue.batch, observed_as_of |-> catalogue.at, quotes |-> catalogue.quotes,
   complete_market_count |-> Cardinality(catalogue.complete),
   incomplete_market_count |-> Cardinality(catalogue.incomplete)]

\* The reader sorts the stored rows again and compares the hash.
load_operator_quote_artifact(payload) ==
  payload.quotes # <<>> /\ payload.quote_batch_id = QuoteBatchId(payload.observed_as_of, payload.quotes)
=============================================================================
