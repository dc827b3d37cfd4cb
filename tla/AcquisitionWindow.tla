-------------------------- MODULE AcquisitionWindow --------------------------
(***************************************************************************)
(* The acquisition window of a bookmaker cycle (bookmakers/window.py): the  *)
(* half-open horizon, its job payload, and the admission of the events of a *)
(* provider bundle with exact counts.  Times are hours.                     *)
(***************************************************************************)
EXTENDS Integers, Sequences, FiniteSets, SequencesExt, TLC

CONSTANT None

AllObservedMarkets == "all-observed-markets"
HardMaximumEvents == 500
MaximumWindowHours == 168

PayloadKeys == {"window_start_utc", "window_end_utc", "maximum_events", "requested_market_depth",
                "include_live", "evaluated_at_utc", "policy_id"}
RequiredKeys == PayloadKeys \ {"evaluated_at_utc"}

ValidWindow(w) ==
  /\ w.maximum_events \in 1..HardMaximumEvents
  /\ w.maximum_hours \in 1..MaximumWindowHours
  /\ w.window_start_utc < w.window_end_utc
  /\ w.window_end_utc - w.window_start_utc <= w.maximum_hours
  /\ w.requested_market_depth = AllObservedMarkets
  /\ ~w.include_live

ContainsStart(w, start) == w.window_start_utc <= start /\ start < w.window_end_utc

\* The payload leaves out the maximum horizon: the reader brings its own.
AsPayload(w) == [k \in PayloadKeys |-> w[k]]

\* A payload is a function from the keys it has; None stands for PermanentJobError.
FromPayload(payload, maximumHours) ==
  LET get(k) == IF k \in DOMAIN payload THEN payload[k] ELSE None
      w == [k \in PayloadKeys |-> get(k)] @@ [maximum_hours |-> maximumHours]
  IN IF DOMAIN payload \subseteq PayloadKeys /\ RequiredKeys \subseteq DOMAIN payload /\ ValidWindow(w)
     THEN w ELSE None

RollingWindow(evaluated, hours, maximumEvents, maximumHours) ==
  [window_start_utc |-> evaluated, window_end_utc |-> evaluated + hours,
   maximum_events |-> maximumEvents, requested_market_depth |-> AllObservedMarkets,
   include_live |-> FALSE, evaluated_at_utc |-> evaluated, policy_id |-> "bookmaker-acquisition-window-v1",
   maximum_hours |-> maximumHours]

-----------------------------------------------------------------------------
(* Admission.  An event is [id, start, state, completeness]. *)

StartsBefore(a, b) == a.start < b.start \/ (a.start = b.start /\ a.id < b.id)
Ordered(events) == SortSeq(events, StartsBefore)

FirstAdmitted(eligible, maximumEvents) ==
  SubSeq(Ordered(eligible), 1, IF Len(eligible) < maximumEvents THEN Len(eligible) ELSE maximumEvents)

\* An event that is kept while others are cut can no longer claim completeness.
MarkedTruncated(event, truncated) ==
  [event EXCEPT !.completeness = [state |-> "partial-event-limit", truncated |-> truncated]]

ApplyAcquisitionWindow(events, driftCodes, w) ==
  LET nonPreMatch == SelectSeq(events, LAMBDA e : e.state # "pre-match")
      preMatch    == SelectSeq(events, LAMBDA e : e.state = "pre-match")
      before      == SelectSeq(preMatch, LAMBDA e : e.start < w.window_start_utc)
      after       == SelectSeq(preMatch, LAMBDA e : e.start >= w.window_end_utc)
      eligible    == SelectSeq(preMatch, LAMBDA e : ContainsStart(w, e.start))
      kept        == FirstAdmitted(eligible, w.maximum_events)
      truncated   == Len(eligible) - Len(kept)
      admitted    == IF truncated > 0 THEN [i \in DOMAIN kept |-> MarkedTruncated(kept[i], truncated)] ELSE kept
      reason(count, code) == IF count > 0 THEN {code} ELSE {}
  IN [events |-> admitted,
      drift_codes |-> driftCodes \cup reason(Len(nonPreMatch), "non-prematch-event-excluded")
                                 \cup reason(Len(before), "event-before-window")
                                 \cup reason(Len(after), "event-at-or-after-window")
                                 \cup reason(truncated, "event-limit-truncated"),
      counts |-> [non_pre_match_excluded |-> Len(nonPreMatch), before_window_excluded |-> Len(before),
                  at_or_after_window_end_excluded |-> Len(after), eligible_events |-> Len(eligible),
                  admitted_events |-> Len(admitted), event_limit_truncated |-> truncated]]
=============================================================================
