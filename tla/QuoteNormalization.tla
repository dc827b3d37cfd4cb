------------------------- MODULE QuoteNormalization --------------------------
(***************************************************************************)
(* From a provider bundle to the datasets of a bookmaker snapshot: the      *)
(* observation contracts (sources/bookmaker_contracts.py), the capture      *)
(* references and manifest (sources/bookmaker_capture.py), the exact market *)
(* mapping (bookmakers/markets.py, canonical_mapping.py), the quotes        *)
(* (normalization.py) and the native inventory (native_inventory.py).       *)
(* Ids and capture checksums are numbers; odds are hundredths.  An          *)
(* identifier built by hashing is the tuple it hashes.                      *)
(***************************************************************************)
EXTENDS EventReconciliation, TLC

MaximumCount == 1000000
MaximumEvidenceReferences == 256

CompleteStates == {"complete-by-provider-reference", "complete-by-reviewed-event-payload"}

CountFields == {"market_groups_observed", "markets_observed", "markets_parsed", "markets_rejected",
                "selections_observed", "selections_parsed", "selections_rejected", "markets_with_valid_price",
                "source_responses_contributing", "truncated_response_count", "bounded_response_rejection_count",
                "missing_chunk_count", "event_limit_truncated_count"}

\* A complete event has been seen whole, on its own page, and nothing of it was rejected.
CleanDetail(e) ==
  /\ e.event_detail_surface_visited /\ e.event_detail_readiness_reached
  /\ \A f \in {"truncated_response_count", "bounded_response_rejection_count", "missing_chunk_count",
               "event_limit_truncated_count", "markets_rejected", "selections_rejected"} : e[f] = 0
  /\ e.markets_parsed = e.markets_observed
  /\ e.selections_parsed = e.selections_observed

EventCompletenessEvidence(e) ==
  /\ \A f \in CountFields : e[f] \in 0..MaximumCount
  /\ e.declared # None => e.declared \in 0..MaximumCount
  /\ e.markets_parsed + e.markets_rejected <= e.markets_observed
  /\ e.selections_parsed + e.selections_rejected <= e.selections_observed
  /\ e.markets_with_valid_price <= e.markets_parsed
  /\ e.event_detail_readiness_reached => e.event_detail_surface_visited
  /\ e.completeness_state \in CompleteStates => CleanDetail(e)
  /\ e.completeness_state = "complete-by-provider-reference" =>
       e.declared = e.markets_observed /\ e.declared = e.markets_parsed
  /\ e.completeness_state = "complete-by-reviewed-event-payload" => e.reviewed_payload_completeness_permitted

Unique(seq, f(_)) == Cardinality({f(x) : x \in ToSet(seq)}) = Len(seq)

ProviderSelectionObservation(s) ==
  IF s.price_state = "priced" THEN s.odds \notin {None} /\ s.odds > 100 ELSE s.odds = None

ProviderMarketObservation(m) ==
  /\ m.selections # <<>>
  /\ Unique(m.selections, LAMBDA s : s.id)
  /\ \A s \in ToSet(m.selections) : ProviderSelectionObservation(s)

ProviderEventObservation(e) ==
  LET roles(r) == {p \in ToSet(e.participants) : p.role = r}
      ids(ms) == {m.id : m \in ToSet(ms)}
  IN /\ e.state # "live"
     /\ Len(e.participants) >= 2 /\ Unique(e.participants, LAMBDA p : p.id)
     /\ (roles("home") # {} /\ roles("away") # {}) =>
          Cardinality(roles("home")) = 1 /\ Cardinality(roles("away")) = 1
     /\ Unique(e.markets, LAMBDA m : m.id) /\ Unique(e.native_markets, LAMBDA m : m.id)
     /\ e.native_markets # <<>> => ids(e.markets) \subseteq ids(e.native_markets)
     /\ Cardinality(e.captures) <= MaximumEvidenceReferences
     /\ \A m \in ToSet(e.markets) \cup ToSet(e.native_markets) : ProviderMarketObservation(m)
     /\ EventCompletenessEvidence(e.completeness)

ProviderAcquisitionBundle(b) ==
  /\ Unique(b.events, LAMBDA e : e.id)
  /\ \A e \in ToSet(b.events) : ProviderEventObservation(e)

provider_native_markets(e) == IF e.native_markets # <<>> THEN e.native_markets ELSE e.markets

-----------------------------------------------------------------------------
(* Capture references and the capture manifest.  A capture is [checksum, path, bytes]. *)

attach_capture_references(bundle, captures) ==
  LET known == {c.checksum : c \in ToSet(captures)}
      sole == IF Cardinality(known) = 1 THEN CHOOSE c \in known : TRUE ELSE None
      ref(x) == IF x.capture # None THEN x.capture ELSE sole
      referenced(e) == UNION {{ref(m)} \cup {ref(s) : s \in ToSet(m.selections)} : m \in ToSet(provider_native_markets(e))}
      market(m) == [m EXCEPT !.capture = ref(m),
                             !.selections = [i \in DOMAIN @ |-> [m.selections[i] EXCEPT !.capture = ref(m.selections[i])]]]
      counted(e, ms) ==
        LET c == e.completeness
            selections == Len(FlattenSeq([i \in DOMAIN ms |-> ms[i].selections]))
        IN [c EXCEPT !.markets_observed = IF Len(ms) + c.markets_rejected > @ THEN Len(ms) + c.markets_rejected ELSE @,
                     !.markets_parsed = Len(ms),
                     !.selections_observed = IF selections + c.selections_rejected > @
                                             THEN selections + c.selections_rejected ELSE @,
                     !.selections_parsed = selections,
                     !.markets_with_valid_price =
                        Cardinality({i \in DOMAIN ms : \E s \in ToSet(ms[i].selections) : s.odds # None}),
                     !.source_responses_contributing = Cardinality(referenced(e))]
      event(e) ==
        LET native == provider_native_markets(e)
            ms == [i \in DOMAIN native |-> market(native[i])]
        IN [e EXCEPT !.markets = SelectSeq(ms, LAMBDA m : m.definition # None), !.native_markets = ms,
                     !.captures = referenced(e), !.completeness = counted(e, ms)]
      attached == [bundle EXCEPT !.events = [i \in DOMAIN @ |-> event(@[i])]]
  IN IF \A e \in ToSet(bundle.events) : referenced(e) \subseteq known
     THEN IF ProviderAcquisitionBundle(attached) THEN attached ELSE None
     ELSE None

\* One entry per stored response, in the order they were stored.
build_capture_manifest(provider, cycle, captures) ==
  [provider |-> provider, cycle |-> cycle, entries |-> captures]

\* The file of every entry is there with the bytes and the checksum the entry states.
verify_capture_entry(files, entry) == entry.path \in DOMAIN files /\ files[entry.path] = <<entry.checksum, entry.bytes>>

verify_capture_manifest(files, manifest) ==
  manifest.entries # <<>> /\ \A e \in ToSet(manifest.entries) : verify_capture_entry(files, e)

\* What a reader of the published manifest accepts.
parse_capture_manifest_from_bytes(manifest, provider, cycle) ==
  /\ manifest.provider = provider /\ manifest.cycle = cycle
  /\ manifest.entries # <<>>
  /\ Unique(manifest.entries, LAMBDA e : e.path)
  /\ \A e \in ToSet(manifest.entries) : e.bytes >= 1

-----------------------------------------------------------------------------
(* Markets. *)

Definitions ==
  [football_1x2        |-> [sport |-> "football", family |-> "match-result", line_type |-> "none", overtime |-> FALSE],
   football_totals     |-> [sport |-> "football", family |-> "totals", line_type |-> "total", overtime |-> FALSE],
   football_btts       |-> [sport |-> "football", family |-> "both-teams-to-score", line_type |-> "none", overtime |-> FALSE],
   basketball_winner   |-> [sport |-> "basketball", family |-> "match-result", line_type |-> "none", overtime |-> TRUE],
   basketball_totals   |-> [sport |-> "basketball", family |-> "totals", line_type |-> "total", overtime |-> TRUE],
   basketball_spread   |-> [sport |-> "basketball", family |-> "spread", line_type |-> "spread", overtime |-> TRUE],
   tennis_winner       |-> [sport |-> "tennis", family |-> "match-result", line_type |-> "none", overtime |-> FALSE]]

_require_overtime_included(scope) == scope \in {"included", "with-ot", "ot-included"}

\* The tennis rules carry "best-of", which is 3 or 5 when it is there.
RulesAccepted(definition, rules) == (definition = "tennis_winner" /\ rules \notin {None, "standard"}) => rules \in {"best-of:3", "best-of:5"}

\* None is the refusal; a market without a line never gets the line its provider sent.
_build_definition(m) ==
  LET d == Definitions[m.definition]
  IN IF /\ m.period \in {None, "full-match"}
        /\ d.line_type # "none" => m.line # None
        /\ d.overtime => _require_overtime_included(m.overtime)
        /\ RulesAccepted(m.definition, m.rules)
     THEN [sport |-> d.sport, family |-> d.family, period |-> "full-match", scope |-> "event",
           line_type |-> d.line_type, line |-> IF d.line_type = "none" THEN None ELSE m.line]
     ELSE None

\* None is an unknown market: it is recorded, never guessed from its label.
map_provider_market_to_canonical(m) ==
  IF m.definition \notin DOMAIN Definitions THEN None ELSE _build_definition(m)

\* The definition a reader recovers from the dimensions of a quote row.
canonical_market_definition_id_from_quote_dimensions(row) ==
  LET matches == {d \in DOMAIN Definitions : Definitions[d].sport = row.sport /\ Definitions[d].family = row.family}
      d == CHOOSE x \in matches : TRUE
  IN IF /\ row.period = "full-match" /\ matches # {}
        /\ row.line_type = Definitions[d].line_type
        /\ (row.line = None) = (row.line_type = "none")
     THEN d ELSE None

quote_is_comparable(definition, overtime, rules) ==
  rules # None /\ (Definitions[definition].overtime => overtime # None)

-----------------------------------------------------------------------------
(* The datasets. *)

quote_identity(canonical, provider, eventId, market, selection, mapped) ==
  <<canonical, provider, eventId, mapped, selection.outcome, market.id, selection.id, selection.capture>>

\* Mutant: a suspended selection enters the current-odds catalogue.
QuotableSuspended(s) == s.outcome # None /\ s.price_state = "priced" /\ s.odds # None

Quotable(s) == s.outcome # None /\ s.price_state = "priced" /\ s.odds # None /\ s.status = "active"

QuoteOf(bundle, event, recon, m, s, fallbackCapture) ==
  LET mapped == map_provider_market_to_canonical(m)
      id == quote_identity(recon.canonical, bundle.provider, event.id, m, s, mapped)
      comparable == quote_is_comparable(m.definition, m.overtime, m.rules)
  IN [quote |-> [id |-> id, canonical |-> recon.canonical, source |-> bundle.provider, event |-> event.id,
                 market |-> m.id, selection |-> s.id, outcome |-> s.outcome, odds |-> s.odds,
                 sport |-> mapped.sport, family |-> mapped.family, period |-> mapped.period,
                 line_type |-> mapped.line_type, line |-> mapped.line,
                 market_status |-> m.status, selection_status |-> s.status, observed |-> bundle.observed,
                 file |-> IF s.capture # None THEN s.capture ELSE fallbackCapture],
      eligibility |-> [quote |-> id, canonical |-> recon.canonical, definition |-> m.definition, outcome |-> s.outcome,
                       provider |-> bundle.provider, line_type |-> mapped.line_type, line |-> mapped.line,
                       overtime |-> m.overtime, rules |-> m.rules, comparable |-> comparable, eligible |-> comparable,
                       reason |-> IF comparable THEN None ELSE "unknown-rules-or-overtime-scope"]]

\* Only an exactly reconciled event, an open and known market and a priced active selection give a quote.
_build_quotes(bundle, recon, fallbackCapture) ==
  UNION {UNION {{QuoteOf(bundle, e, recon[e.id], m, s, fallbackCapture) : s \in {x \in ToSet(m.selections) : Quotable(x)}} :
                m \in {x \in ToSet(e.markets) : x.status = "open" /\ map_provider_market_to_canonical(x) # None}} :
         e \in {x \in ToSet(bundle.events) : recon[x.id].state = "exact"}}

UnknownMarkets(bundle, recon) ==
  UNION {{m \in ToSet(e.markets) : m.status = "open" /\ map_provider_market_to_canonical(m) = None} :
         e \in {x \in ToSet(bundle.events) : recon[x.id].state = "exact"}}

_build_participants(bundle, recon) ==
  {[source |-> bundle.provider, id |-> c.id, canonical |-> recon[c.id].canonical, key |-> c.name,
    state |-> recon[c.id].state, reason |-> recon[c.id].reason] : c \in ToSet(ParticipantCandidates(bundle))}

_build_source_events(bundle, recon, participants) ==
  {LET pair == home_away_participants(e.participants)
       row(p) == CHOOSE r \in participants : r.id = p.id
   IN [source |-> bundle.provider, id |-> e.id, canonical |-> recon[e.id].canonical, state |-> recon[e.id].state,
       competition |-> competition_id_for_event(e, bundle.provider), date |-> EventDate(e.start), start |-> e.start,
       occurrence |-> occurrence_key_for_event(e.start), status |-> "scheduled", score |-> None,
       home |-> pair[1].id, away |-> pair[2].id, home_canonical |-> row(pair[1]).canonical,
       away_canonical |-> row(pair[2]).canonical, observed |-> bundle.observed] : e \in ToSet(bundle.events)}

\* Every warning and every drift code becomes a finding.
_build_drift_findings(bundle) ==
  {[provider |-> bundle.provider, code |-> w, severity |-> "recorded"] : w \in bundle.warnings}
  \cup {[provider |-> bundle.provider, code |-> c, severity |-> "warning"] : c \in bundle.drift_codes}

provider_native_rows(bundle) ==
  LET order(x, i) == IF x.order = None THEN i - 1 ELSE x.order
      markets(e) == LET ms == provider_native_markets(e)
                    IN {[event |-> e.id, market |-> ms[i].id, status |-> ms[i].status, line |-> ms[i].line,
                         overtime |-> ms[i].overtime, rules |-> ms[i].rules, period |-> ms[i].period,
                         order |-> order(ms[i], i), capture |-> ms[i].capture] : i \in DOMAIN ms}
      selections(e) ==
        UNION {{[event |-> e.id, market |-> m.id, selection |-> m.selections[i].id, outcome |-> m.selections[i].outcome,
                 odds |-> m.selections[i].odds, price_state |-> m.selections[i].price_state,
                 status |-> m.selections[i].status, order |-> order(m.selections[i], i),
                 capture |-> m.selections[i].capture] : i \in DOMAIN m.selections} :
               m \in ToSet(provider_native_markets(e))}
  IN [events |-> {[event |-> e.id, start |-> e.start, state |-> e.state, captures |-> e.captures,
                   participants |-> {p.id : p \in ToSet(e.participants)}, completeness |-> e.completeness] :
                  e \in ToSet(bundle.events)},
      markets |-> UNION {markets(e) : e \in ToSet(bundle.events)},
      selections |-> UNION {selections(e) : e \in ToSet(bundle.events)}]

\* One provider's bundle with its reconciliation, as the datasets that are published.
\* None is the SourceIntegrityError of the reconciliation.
normalize_bookmaker_bundles(bundle, tolerance, fallbackCapture) ==
  LET clean == sanitize_competition_events(<<bundle>>)[1]
      recon == reconcile_bookmaker_bundles(<<bundle>>, tolerance)
      byId(rows) == [i \in {r.id : r \in rows} |-> CHOOSE r \in rows : r.id = i]
      participants == _build_participants(clean, byId(recon.participants))
      sources == _build_source_events(clean, byId(recon.events), participants)
      quotes == _build_quotes(clean, byId(recon.events), fallbackCapture)
      safe == {s \in sources : s.state = "exact"}
  IN IF recon = None THEN None
     ELSE [participants |-> participants, source_events |-> sources,
           events |-> {[canonical |-> s.canonical, start |-> s.start, date |-> s.date, home |-> s.home_canonical,
                        away |-> s.away_canonical] : s \in safe},
           quotes |-> {q.quote : q \in quotes}, eligibility |-> {q.eligibility : q \in quotes},
           unknown |-> UnknownMarkets(clean, byId(recon.events)),
           drift |-> _build_drift_findings(clean), native |-> provider_native_rows(clean),
           metadata |-> [provider |-> bundle.provider, event_count |-> Len(clean.events),
                         quote_count |-> Cardinality(quotes)]]

-----------------------------------------------------------------------------
(* What the strict loader accepts as the content of a bookmaker snapshot    *)
(* (bookmakers/loader.py, verified_evidence.py) when it re-reads the        *)
(* datasets normalization wrote: every check raises, so a snapshot is       *)
(* either verified whole or unusable.                                       *)

UniqueBy(rows, f(_)) == Cardinality({f(r) : r \in rows}) = Cardinality(rows)

\* The typed completeness contract again, and the counts of the rows that are really there.
_verify_native_completeness_row(row, marketCount, selectionCount) ==
  /\ EventCompletenessEvidence(row.completeness)
  /\ row.completeness.markets_parsed = marketCount
  /\ row.completeness.selections_parsed = selectionCount

_verify_native_inventory(native, captures) ==
  /\ native.events # {} /\ native.markets # {} /\ native.selections # {}
  /\ UniqueBy(native.events, LAMBDA r : r.event)
  /\ UniqueBy(native.markets, LAMBDA r : <<r.event, r.market>>)
  /\ \A r \in native.markets : \E e \in native.events : e.event = r.event
  /\ UniqueBy(native.selections, LAMBDA r : <<r.event, r.market, r.selection>>)
  /\ \A r \in native.selections : \E m \in native.markets : m.event = r.event /\ m.market = r.market
  /\ \A e \in native.events :
       /\ e.captures # {} /\ e.captures \subseteq captures
       /\ _verify_native_completeness_row(e, Cardinality({m \in native.markets : m.event = e.event}),
                                             Cardinality({s \in native.selections : s.event = e.event}))
  /\ \A r \in native.markets \cup native.selections : r.capture \in captures
  /\ \A s \in native.selections : IF s.price_state = "priced" THEN s.odds # None /\ s.odds > 100 ELSE s.odds = None

_verify_source_participant_graph(participants, provider) ==
  /\ UniqueBy(participants, LAMBDA r : r.id)
  /\ \A r \in participants : r.source = provider /\ ((r.state = "unresolved") = (r.canonical = None))

\* The canonical ids of the source events that are resolved, or None.
_verify_source_event_graph(sources, participants, events, provider, captures, file) ==
  LET canonical(id) == (CHOOSE p \in participants : p.id = id).canonical
      resolved == {s \in sources : s.state # "unresolved"}
      known(id) == \E p \in participants : p.id = id
  IN IF /\ UniqueBy(sources, LAMBDA r : r.id)
        /\ \A s \in sources : s.source = provider /\ file \in captures /\ known(s.home) /\ known(s.away)
        /\ \A s \in sources \ resolved : s.canonical = None
        /\ \A s \in resolved :
             /\ s.canonical # None /\ s.home_canonical # None /\ s.away_canonical # None
             /\ canonical(s.home) = s.home_canonical /\ canonical(s.away) = s.away_canonical
             /\ \E e \in events : e.canonical = s.canonical /\ e.home = s.home_canonical /\ e.away = s.away_canonical
     THEN {s.canonical : s \in resolved} ELSE None

\* A quote points at one open market and one active, priced selection with its odds and capture.
_verify_quote_native_link(q, native, captures) ==
  \E m \in native.markets, s \in native.selections :
    /\ m.event = q.event /\ m.market = q.market
    /\ s.event = q.event /\ s.market = q.market /\ s.selection = q.selection
    /\ m.status = "open" /\ q.market_status = "open"
    /\ s.status = "active" /\ q.selection_status = "active" /\ s.price_state = "priced"
    /\ s.odds = q.odds
    /\ s.capture \in captures /\ q.file = s.capture
    /\ s.outcome = q.outcome

quote_semantic_identity_key(q, e) ==
  <<q.canonical, q.source, q.sport, q.family, q.period, q.line_type, q.line, q.outcome, e.overtime, e.rules>>

\* The identities are sorted: two that agree up to an absent field against a text raise.
Sortable(a, b) ==
  \E n \in DOMAIN a : a[n] # b[n] /\ None \notin {a[n], b[n]} /\ \A m \in 1..(n - 1) : a[m] = b[m]

_validate_eligibility_matches_quote(e, q) ==
  LET definition == canonical_market_definition_id_from_quote_dimensions(q)
  IN /\ definition # None
     /\ e.provider = q.source /\ e.canonical = q.canonical /\ e.definition = definition
     /\ e.outcome = q.outcome /\ e.line_type = q.line_type /\ e.line = q.line
     /\ e.comparable = quote_is_comparable(definition, e.overtime, e.rules)

_verify_semantic_datasets(d, provider, captures, file) ==
  LET resolved == _verify_source_event_graph(d.source_events, d.participants, d.events, provider, captures, file)
      eligibility(q) == CHOOSE e \in d.eligibility : e.quote = q.id
  IN /\ d.metadata.provider = provider
     /\ d.metadata.event_count = Cardinality(d.native.events)
     /\ d.metadata.quote_count = Cardinality(d.quotes)
     /\ _verify_source_participant_graph(d.participants, provider)
     /\ resolved # None
     /\ UniqueBy(d.events, LAMBDA e : e.canonical)
     /\ \A e \in d.events : e.home # None /\ e.away # None
     /\ UniqueBy(d.eligibility, LAMBDA e : e.quote)
     /\ {e.quote : e \in d.eligibility} = {q.id : q \in d.quotes}
     /\ UniqueBy(d.quotes, LAMBDA q : q.id)
     /\ \A q \in d.quotes :
          /\ q.source = provider
          /\ q.canonical \in {e.canonical : e \in d.events} \cap resolved
          /\ q.file \in captures
          /\ \E s \in d.source_events : s.id = q.event /\ s.canonical = q.canonical
          /\ _verify_quote_native_link(q, d.native, captures)
          /\ _validate_eligibility_matches_quote(eligibility(q), q)
     /\ UniqueBy(d.quotes, LAMBDA q : quote_semantic_identity_key(q, eligibility(q)))
     /\ \A q, p \in d.quotes : q # p =>
          Sortable(quote_semantic_identity_key(q, eligibility(q)), quote_semantic_identity_key(p, eligibility(p)))
     /\ \A f \in d.drift : f.provider = provider

\* What load_bookmaker_snapshot returns as verified.
Loadable(d, manifest, files, provider, cycle, file) ==
  LET captures == {e.checksum : e \in ToSet(manifest.entries)}
  IN /\ parse_capture_manifest_from_bytes(manifest, provider, cycle)
     /\ verify_capture_manifest(files, manifest)
     /\ _verify_native_inventory(d.native, captures)
     /\ _verify_semantic_datasets(d, provider, captures, file)
=============================================================================
