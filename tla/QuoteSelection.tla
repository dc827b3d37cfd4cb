--------------------------- MODULE QuoteSelection ----------------------------
(***************************************************************************)
(* Choosing between the two bookmakers: single quotes                       *)
(* (bookmakers/selection.py, priced_quote.py, verified_evidence.py) and     *)
(* same-bookmaker multiples (bookmakers/multiples.py).  A verified quote is *)
(* [id, provider, odds, observed, bet, market_status, selection_status,     *)
(* snapshot]; bet is the tuple of its comparison dimensions.  Odds are      *)
(* hundredths, times are seconds.                                           *)
(***************************************************************************)
EXTENDS Integers, Sequences, FiniteSets, FiniteSetsExt, SequencesExt

CONSTANT None

Betano == "betano-pt"
Betclic == "betclic-pt"
SelectionModes == {"preferred-unless-better", "best", "betano", "betclic", "both"}
MaximumOdds == 1000000
MinimumLegs == 2

ValidPolicy(p) == p.preferred = Betano /\ p.comparison = Betclic /\ p.maximum_age >= 0

\* A quote from the future is never fresh.
quote_is_fresh_at(q, at, maximumAge) == q.observed <= at /\ at - q.observed <= maximumAge

\* Only an open market and an active selection can be priced; None is the PermanentSourceError.
to_priced_quote(q, at, maximumAge) ==
  IF q.market_status = "open" /\ q.selection_status = "active"
  THEN [provider |-> q.provider, odds |-> q.odds, observed |-> q.observed, bet |-> q.bet,
        fresh |-> quote_is_fresh_at(q, at, maximumAge), snapshot |-> q.snapshot]
  ELSE None

\* A quote counts only as the catalogue's own entry.
require_catalogue_quote(q, catalogue) == q \in catalogue.quotes /\ q.snapshot = catalogue.snapshot

_validated_verified_side(q, expected, catalogue) ==
  q # None => /\ q.provider = expected /\ require_catalogue_quote(q, catalogue)
              /\ q.provider = catalogue.provider

quotes_are_equivalent(left, right) == left.bet = right.bet

\* Percentages are in hundredths of a percent of the Betano odds.
_comparison(selected, betano, betclic, reason) ==
  LET both == betano # None /\ betclic # None
      absolute == IF betano.odds > betclic.odds THEN betano.odds - betclic.odds ELSE betclic.odds - betano.odds
  IN [selected |-> selected, provider |-> IF selected = None THEN None ELSE selected.provider, reason |-> reason,
      absolute |-> IF both THEN absolute ELSE None,
      percentage |-> IF both THEN (absolute * 10000) \div betano.odds ELSE None]

\* Mutant: the freshness of the comparison side is not checked.
UsableAnyAge(priced) == priced

Usable(priced) == IF priced # None /\ priced.fresh THEN priced ELSE None

\* None is the PermanentSourceError that leaves the caller without a comparison.
select_quote_pair(betanoQuote, betclicQuote, policy, at, betanoCatalogue, betclicCatalogue) ==
  LET priced(q) == IF q = None THEN None ELSE to_priced_quote(q, at, policy.maximum_age)
      betano == priced(betanoQuote)
      betclic == priced(betclicQuote)
      a == Usable(betano)
      b == Usable(betclic)
      better == IF policy.mode = "best" THEN "best-selected" ELSE "higher-odds"
      forced(x, reason) == _comparison(x, betano, betclic, IF x # None THEN reason ELSE "neither-available")
  IN IF \/ ~_validated_verified_side(betanoQuote, Betano, betanoCatalogue)
        \/ ~_validated_verified_side(betclicQuote, Betclic, betclicCatalogue)
        \/ (betanoQuote # None /\ betano = None) \/ (betclicQuote # None /\ betclic = None)
        \/ (betano # None /\ betclic # None /\ ~quotes_are_equivalent(betano, betclic))
     THEN None
     ELSE CASE policy.mode = "both" -> _comparison(None, betano, betclic, "both-retained")
            [] policy.mode = "betano" -> forced(a, "mode-forced-preferred")
            [] policy.mode = "betclic" -> forced(b, "mode-forced-comparison")
            [] OTHER ->
                 IF a = None /\ b = None THEN _comparison(None, betano, betclic, "neither-available")
                 ELSE IF b = None THEN _comparison(a, betano, betclic, IF betclic # None
                                                   THEN "preferred-retained-stale-comparison" ELSE "preferred-only")
                 ELSE IF a = None THEN _comparison(b, betano, betclic, "comparison-fallback")
                 ELSE IF b.odds > a.odds THEN _comparison(b, betano, betclic, better)
                 ELSE IF a.odds > b.odds THEN _comparison(a, betano, betclic, better)
                 ELSE _comparison(a, betano, betclic, "equal-odds-preferred")

-----------------------------------------------------------------------------
(* Multiples.  A spec is [key, bet]; a provider's quotes are a function from *)
(* leg keys.                                                                 *)

_product(odds) == FoldLeft(LAMBDA acc, o : acc * o, 1, odds)

\* The product is itself an odds value, within the shared bounds.
InOddsBounds(total, legs) == total <= MaximumOdds * 100^(legs - 1)

BookmakerMultiple(m) ==
  /\ Len(m.legs) >= MinimumLegs
  /\ {l.provider : l \in ToSet(m.legs)} = {m.provider}
  /\ m.total = _product([i \in DOMAIN m.legs |-> m.legs[i].odds])

build_same_bookmaker_multiple(legs) ==
  LET total == _product([i \in DOMAIN legs |-> legs[i].odds])
  IN IF Len(legs) >= MinimumLegs /\ Cardinality({l.provider : l \in ToSet(legs)}) = 1 /\ InOddsBounds(total, Len(legs))
     THEN [provider |-> legs[1].provider, legs |-> legs, total |-> total] ELSE None

quote_matches_requested_leg(spec, q) == q.bet = spec.bet

Covers(provider, specs, quotes, at, maximumAge) ==
  \A i \in DOMAIN specs :
    /\ specs[i].key \in DOMAIN quotes
    /\ LET q == quotes[specs[i].key] IN q.provider = provider /\ quote_matches_requested_leg(specs[i], q)
                                        /\ to_priced_quote(q, at, maximumAge).fresh

\* One missing, mismatched or stale leg makes the provider ineligible.
_build_provider_multiple(provider, specs, quotes, at, maximumAge) ==
  LET priced == SelectSeq(specs, LAMBDA s : s.key \in DOMAIN quotes)
  IN IF Covers(provider, specs, quotes, at, maximumAge)
     THEN build_same_bookmaker_multiple([i \in DOMAIN priced |->
            [provider |-> quotes[priced[i].key].provider, key |-> priced[i].key, odds |-> quotes[priced[i].key].odds,
             observed |-> quotes[priced[i].key].observed, snapshot |-> quotes[priced[i].key].snapshot]])
     ELSE None

_reject_duplicate_canonical_identities(specs) ==
  Cardinality({s.bet : s \in ToSet(specs)}) = Len(specs)

\* All the quotes of one provider come from one observation and, unless allowed, one snapshot.
_reject_mixed_observation_windows(quotes, at, maximumAge, allowMixed) ==
  LET rows == {quotes[k] : k \in DOMAIN quotes}
  IN /\ Cardinality({q.observed : q \in rows}) <= 1
     /\ allowMixed \/ Cardinality({q.snapshot : q \in {x \in rows : quote_is_fresh_at(x, at, maximumAge)}}) <= 1

compare_provider_multiples(specs, betanoQuotes, betclicQuotes, at, maximumAge, allowMixed, betanoCatalogue, betclicCatalogue) ==
  LET a == _build_provider_multiple(Betano, specs, betanoQuotes, at, maximumAge)
      b == _build_provider_multiple(Betclic, specs, betclicQuotes, at, maximumAge)
      result(selected, reason) == [selected |-> selected, betano |-> a, betclic |-> b, reason |-> reason]
  IN IF \/ \E k \in DOMAIN betanoQuotes : ~require_catalogue_quote(betanoQuotes[k], betanoCatalogue)
        \/ \E k \in DOMAIN betclicQuotes : ~require_catalogue_quote(betclicQuotes[k], betclicCatalogue)
        \/ Len(specs) < MinimumLegs
        \/ Cardinality({s.key : s \in ToSet(specs)}) # Len(specs)
        \/ ~_reject_duplicate_canonical_identities(specs)
        \/ ~_reject_mixed_observation_windows(betanoQuotes, at, maximumAge, allowMixed)
        \/ ~_reject_mixed_observation_windows(betclicQuotes, at, maximumAge, allowMixed)
        \* A complete multiple whose product is no odds value raises.
        \/ a = None /\ Covers(Betano, specs, betanoQuotes, at, maximumAge)
        \/ b = None /\ Covers(Betclic, specs, betclicQuotes, at, maximumAge)
     THEN None
     ELSE IF a = None /\ b = None THEN result(None, "incomplete-multiple")
     ELSE IF b = None THEN result(a, "preferred-only")
     ELSE IF a = None THEN result(b, "comparison-fallback")
     ELSE IF b.total > a.total THEN result(b, "higher-odds")
     ELSE IF a.total > b.total THEN result(a, "higher-odds")
     ELSE result(a, "equal-odds-preferred")

\* Separate singles of both providers, never a multiple.
build_cross_bookmaker_singles_comparison(keys, betanoQuotes, betclicQuotes) ==
  [i \in DOMAIN keys |->
     <<keys[i], IF keys[i] \in DOMAIN betanoQuotes THEN betanoQuotes[keys[i]] ELSE None,
       IF keys[i] \in DOMAIN betclicQuotes THEN betclicQuotes[keys[i]] ELSE None>>]
=============================================================================
