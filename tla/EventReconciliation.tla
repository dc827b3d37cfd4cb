------------------------- MODULE EventReconciliation -------------------------
(***************************************************************************)
(* Reconciliation of provider events into canonical events:                 *)
(* bookmakers/reconciliation.py (candidates of one or more bundles, the     *)
(* tolerance guard), sports/reconciliation.py (exact matching with explicit *)
(* unresolved states) and sports/event_metadata.py (which source populates  *)
(* a canonical event).  An identifier built by hashing is the tuple it      *)
(* hashes.  Times are hours; a date is a day number.                        *)
(***************************************************************************)
EXTENDS Integers, Sequences, FiniteSets, SequencesExt

CONSTANT None

Sports == {"football", "basketball", "tennis"}
HoursPerDay == 24
EventDate(start) == start \div HoursPerDay

participant_type_for_sport ==
  [s \in Sports |-> CASE s = "football" -> "club" [] s = "basketball" -> "team" [] s = "tennis" -> "player"]
participant_identity_scope_for_sport ==
  [s \in Sports |-> CASE s = "football" -> "club:portugal" [] s = "basketball" -> "team:portugal"
                      [] s = "tennis" -> "player:international"]

\* A name is [text, clean]: text stands for the collapsed, case-folded name (0: nothing is left),
\* clean for a name without control characters.  None is the NormalizationError.
normalize_participant_name(name) == IF name.clean /\ name.text # 0 THEN name.text ELSE None

competitions_compatible(left, right) == left = right

\* A display name without a letter or a digit falls back to the id of the provider's own
\* competition, which never matches another provider's.
competition_id_for_event(event, provider) ==
  IF event.competition_name.letters THEN <<"competition", event.competition_name.text>>
  ELSE IF event.competition_source.safe THEN <<"provider-competition", provider, event.competition_source.text>>
  ELSE None

occurrence_key_for_event(start) == <<"prematch", EventDate(start)>>

\* Home and away, the two tennis players, or the first two by (role, id).
home_away_participants(participants) ==
  LET withRole(r) == CHOOSE p \in ToSet(participants) : p.role = r
      roles == {p.role : p \in ToSet(participants)}
      rank(p) == IF p.role = "away" THEN 1 ELSE IF p.role = "home" THEN 2
                 ELSE IF p.role = "player-1" THEN 3 ELSE 4
      ordered == SortSeq(participants, LAMBDA p, q : rank(p) < rank(q) \/ (rank(p) = rank(q) /\ p.id < q.id))
  IN IF {"home", "away"} \subseteq roles THEN <<withRole("home"), withRole("away")>>
     ELSE IF {"player-1", "player-2"} \subseteq roles THEN <<withRole("player-1"), withRole("player-2")>>
     ELSE <<ordered[1], ordered[2]>>

-----------------------------------------------------------------------------
(* Participants. *)

SourceParticipantKey(provider, sport, competition, name) == <<provider, sport, competition, name>>

\* normalized_name of the observation, when it is there, replaces the display name.
_participant_candidate(bundle, event, participant) ==
  LET competition == competition_id_for_event(event, bundle.provider)
      name == normalize_participant_name(participant.name)
  IN [source |-> bundle.provider, id |-> participant.id,
      key |-> SourceParticipantKey(bundle.provider, bundle.sport, competition, name),
      sport |-> bundle.sport, scope |-> participant_identity_scope_for_sport[bundle.sport],
      type |-> participant_type_for_sport[bundle.sport], name |-> name, observed |-> bundle.observed]

\* A participant keeps the candidate of the first event that names it.
build_participant_candidates_from_bundle(bundle) ==
  LET all == FlattenSeq([i \in DOMAIN bundle.events |->
               [j \in DOMAIN bundle.events[i].participants |->
                  _participant_candidate(bundle, bundle.events[i], bundle.events[i].participants[j])]])
      first == {i \in DOMAIN all : \A k \in 1..(i - 1) : all[k].id # all[i].id}
  IN SortSeq(SelectSeq([i \in DOMAIN all |-> [c |-> all[i], first |-> i \in first]], LAMBDA r : r.first),
             LAMBDA a, b : a.c.id < b.c.id)

ParticipantCandidates(bundle) ==
  LET rows == build_participant_candidates_from_bundle(bundle) IN [i \in DOMAIN rows |-> rows[i].c]

\* Two candidates of one identity that differ are a SourceIntegrityError.
_reject_duplicate_participant_identities(candidates) ==
  \A i, j \in DOMAIN candidates :
    (candidates[i].source = candidates[j].source /\ candidates[i].id = candidates[j].id) =>
      <<candidates[i].key, candidates[i].scope, candidates[i].name>> =
      <<candidates[j].key, candidates[j].scope, candidates[j].name>>

CanonicalParticipantKey(c) == <<c.sport, c.scope, c.type, c.name>>

Ambiguous(candidates, matchKey(_), complete(_), key) ==
  \E i, j \in DOMAIN candidates :
    /\ i # j /\ complete(candidates[i]) /\ complete(candidates[j])
    /\ matchKey(candidates[i]) = key /\ matchKey(candidates[j]) = key
    /\ candidates[i].source = candidates[j].source

_incomplete_participant_reason(c) == IF c.name = None THEN "missing normalized participant name" ELSE None

_conflicting_participant_match_keys(candidates) ==
  LET complete(c) == _incomplete_participant_reason(c) = None
  IN {k \in {CanonicalParticipantKey(c) : c \in ToSet(candidates)} :
        Ambiguous(candidates, CanonicalParticipantKey, complete, k)}

_unresolved(c, reason) ==
  [source |-> c.source, id |-> c.id, canonical |-> None, state |-> "unresolved", reason |-> reason]

ExactMatch(c, key) ==
  [source |-> c.source, id |-> c.id, canonical |-> key, state |-> "exact", reason |-> None]

reconcile_participant_candidates(candidates) ==
  {LET c == candidates[i]
       incomplete == _incomplete_participant_reason(c)
   IN IF incomplete # None THEN _unresolved(c, incomplete)
      ELSE IF CanonicalParticipantKey(c) \in _conflicting_participant_match_keys(candidates)
           THEN _unresolved(c, "ambiguous duplicate source participants")
      ELSE ExactMatch(c, CanonicalParticipantKey(c)) : i \in DOMAIN candidates}

-----------------------------------------------------------------------------
(* Events. *)

build_event_candidates_from_bundle(bundle, participants) ==
  LET canonical(p) ==
        IF \E r \in participants : r.source = bundle.provider /\ r.id = p.id /\ r.state = "exact"
        THEN (CHOOSE r \in participants : r.source = bundle.provider /\ r.id = p.id /\ r.state = "exact").canonical
        ELSE None
      candidate(e) ==
        LET pair == home_away_participants(e.participants)
            competition == competition_id_for_event(e, bundle.provider)
            key(p) == SourceParticipantKey(bundle.provider, bundle.sport, competition,
                                           normalize_participant_name(p.name))
        IN [source |-> bundle.provider, id |-> e.id, sport |-> bundle.sport, competition |-> competition,
            occurrence |-> occurrence_key_for_event(e.start), start |-> e.start,
            home |-> canonical(pair[1]), away |-> canonical(pair[2]),
            key |-> <<bundle.provider, competition, EventDate(e.start), key(pair[1]), key(pair[2])>>,
            observed |-> bundle.observed]
  IN SortSeq([i \in DOMAIN bundle.events |-> candidate(bundle.events[i])], LAMBDA a, b : a.id < b.id)

_incomplete_event_reason(c) ==
  CASE c.occurrence = None -> "missing event occurrence key"
    [] c.occurrence # None /\ c.home = None -> "missing canonical home participant"
    [] c.occurrence # None /\ c.home # None /\ c.away = None -> "missing canonical away participant"
    [] c.occurrence # None /\ c.home # None /\ c.away # None /\ c.home = c.away -> "identical canonical participants"
    [] OTHER -> None

CanonicalEventKey(c) == <<c.sport, c.competition, c.home, c.away, c.occurrence>>

\* Two providers' candidates for the same participants on the same day that cannot be one meeting.
IncompatiblePair(left, right, tolerance) ==
  \/ ~competitions_compatible(left.competition, right.competition)
  \/ left.start = None \/ right.start = None
  \/ left.start - right.start \notin (-tolerance)..tolerance

\* The candidates of an incompatible pair lose their occurrence key, so they stay unresolved.
_reject_incompatible_cross_provider_pairs(candidates, tolerance) ==
  LET grouped(c) == c.home # None /\ c.away # None /\ c.occurrence # None
      together(l, r) == /\ grouped(l) /\ grouped(r) /\ l.source # r.source
                        /\ <<l.sport, l.home, l.away, l.occurrence>> = <<r.sport, r.home, r.away, r.occurrence>>
      blocked(c) == \E i \in DOMAIN candidates :
                      together(c, candidates[i]) /\ IncompatiblePair(c, candidates[i], tolerance)
  IN [i \in DOMAIN candidates |->
        IF blocked(candidates[i]) THEN [candidates[i] EXCEPT !.occurrence = None] ELSE candidates[i]]

_reject_duplicate_event_identities(candidates) ==
  \A i, j \in DOMAIN candidates :
    (candidates[i].source = candidates[j].source /\ candidates[i].id = candidates[j].id) =>
      <<candidates[i].key, candidates[i].occurrence, EventDate(candidates[i].start), candidates[i].home, candidates[i].away>> =
      <<candidates[j].key, candidates[j].occurrence, EventDate(candidates[j].start), candidates[j].home, candidates[j].away>>

_conflicting_event_match_keys(candidates) ==
  LET complete(c) == _incomplete_event_reason(c) = None
  IN {k \in {CanonicalEventKey(c) : c \in ToSet(candidates)} : Ambiguous(candidates, CanonicalEventKey, complete, k)}

reconcile_candidates(candidates) ==
  {LET c == candidates[i]
       incomplete == _incomplete_event_reason(c)
   IN IF incomplete # None THEN _unresolved(c, incomplete)
      ELSE IF CanonicalEventKey(c) \in _conflicting_event_match_keys(candidates)
           THEN _unresolved(c, "ambiguous duplicate source events")
      ELSE ExactMatch(c, CanonicalEventKey(c)) : i \in DOMAIN candidates}

\* An event without a usable competition identity is dropped with a warning.
sanitize_competition_events(bundles) ==
  [b \in DOMAIN bundles |->
     LET usable(e) == competition_id_for_event(e, bundles[b].provider) # None
         kept == SelectSeq(bundles[b].events, usable)
     IN [bundles[b] EXCEPT !.events = kept,
                           !.drift_codes = @ \cup IF Len(kept) < Len(bundles[b].events)
                                                  THEN {"competition-identity-rejected"} ELSE {}]]

\* None is the NormalizationError or SourceIntegrityError that aborts the whole call.
reconcile_bookmaker_bundles(input, tolerance) ==
  LET bundles == sanitize_competition_events(input)
      participants == FlattenSeq([b \in DOMAIN bundles |-> ParticipantCandidates(bundles[b])])
      reconciled == reconcile_participant_candidates(participants)
      events == FlattenSeq([b \in DOMAIN bundles |-> build_event_candidates_from_bundle(bundles[b], reconciled)])
      filtered == _reject_incompatible_cross_provider_pairs(events, tolerance)
      results == reconcile_candidates(filtered)
  IN IF \/ \E b \in DOMAIN bundles : \E i \in DOMAIN bundles[b].events :
              \E p \in ToSet(bundles[b].events[i].participants) : normalize_participant_name(p.name) = None
        \/ ~_reject_duplicate_participant_identities(participants)
        \/ ~_reject_duplicate_event_identities(filtered)
     THEN None
     ELSE [participants |-> reconciled, candidates |-> filtered, events |-> results,
           unresolved |-> {r \in results : r.state = "unresolved"}]

-----------------------------------------------------------------------------
(* Canonical events from the resolved source events.  A source event is      *)
(* [source, id, canonical, state, identity, status, score, observed], with   *)
(* identity the tuple of its immutable dimensions; a source is the number of *)
(* its name in sorted order.                                                 *)

source_authority(authority, source) == IF source \in DOMAIN authority THEN authority[source] ELSE 0

_is_preferred_metadata_source(authority, candidate, current) ==
  LET a == source_authority(authority, candidate.source)
      b == source_authority(authority, current.source)
  IN IF candidate.observed # current.observed THEN candidate.observed > current.observed
     ELSE IF a # b THEN a > b ELSE candidate.source < current.source

select_current_source_event(authority, group) ==
  FoldLeft(LAMBDA selected, candidate :
             IF _is_preferred_metadata_source(authority, candidate, selected) THEN candidate ELSE selected,
           group[1], Tail(group))

_validate_immutable_identity_agreement(group) == Cardinality({e.identity : e \in ToSet(group)}) = 1

_reject_conflicting_finished_outcomes(group) ==
  Cardinality({e.score : e \in {x \in ToSet(group) : x.status = "finished"}}) <= 1

canonical_event_from_source(e) ==
  [canonical |-> e.canonical, identity |-> e.identity, start |-> e.start, status |-> e.status, score |-> e.score]

CurrentOf(authority, group) ==
  LET finished == SelectSeq(group, LAMBDA e : e.status = "finished")
  IN select_current_source_event(authority, IF finished # <<>> THEN finished ELSE group)

\* None is the SourceIntegrityError of a group that disagrees.
resolve_canonical_events_from_sources(authority, sources) ==
  LET safe == SelectSeq(sources, LAMBDA e : e.state = "exact" /\ e.canonical # None)
      group(k) == SelectSeq(safe, LAMBDA e : e.canonical = k)
      keys == {e.canonical : e \in ToSet(safe)}
  IN IF \E k \in keys : ~_validate_immutable_identity_agreement(group(k))
                        \/ ~_reject_conflicting_finished_outcomes(group(k))
     THEN None
     ELSE {canonical_event_from_source(CurrentOf(authority, group(k))) : k \in keys}
=============================================================================
