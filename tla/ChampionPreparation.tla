------------------------- MODULE ChampionPreparation -------------------------
(***************************************************************************)
(* The "Prepare system" action of the UI: one governed champion per        *)
(* competition, from a verified historical tournament                      *)
(* (mvp/champion_preparation.py), and the resolution of the active         *)
(* champion a product run uses (services/champion_resolution.py).          *)
(* Tournament, model and calibration artifacts are immutable once          *)
(* published; what the files hold is a choice made when they are written.  *)
(***************************************************************************)
EXTENDS Governance

CONSTANTS
    Histories,           \* competitions with verified snapshots, in order
    CandidatesOf,        \* [competition -> its two score-model identities]
    ProductScope,        \* ("football", match_result_1x2)
    TournamentEvidence,  \* [score model -> evidence from its test folds]
    DefaultPolicy,       \* PromotionPolicy()
    Callers              \* UI sessions that may run a preparation

Competitions == Range(Histories)
Candidates == UNION {CandidatesOf[c] : c \in Competitions}

\* A model's identity is that of its content, so no two competitions share one;
\* a call that finds no verified history returns at once and is left out.
ASSUME PreparationAssumption ==
    /\ Histories \in Seq(Competitions) /\ Histories # <<>>
    /\ \A c \in Competitions : IsFiniteSet(CandidatesOf[c]) /\ Cardinality(CandidatesOf[c]) = 2
    /\ \A c \in Competitions : CandidatesOf[c] \subseteq Models \ CliModels
    /\ \A c, e \in Competitions : c # e => CandidatesOf[c] \cap CandidatesOf[e] = {}
    /\ "engine-cli" \notin Competitions
    /\ ValidPolicy(DefaultPolicy)

\* Rows of the registry, recorded decisions and audited transitions.
Entries ==
    [role : Roles, status : ModelStatuses, version : Nat, superseded : Models \cup {NULL},
     provenance : Competitions \cup {"engine-cli"}]

EvidenceRecords ==
    (UNION {BuildModelEvaluationEvidence(m) : m \in Models})
    \cup {TournamentEvidence[m] : m \in Candidates}

Decisions ==
    [champion : Models, challenger : Models, championVersion : Nat, challengerVersion : Nat,
     evidence : EvidenceRecords \X EvidenceRecords, policy : Policies \cup {DefaultPolicy},
     asOf : AsOfs \cup {TournamentEvidence[m].window[2] : m \in Candidates},
     decision : {"reject", "hold", "retain", "promote"}]

ASSUME AbsentAssumption == NULL \notin Entries /\ NULL \notin Decisions

Transitions ==
    [type : {"promotion", "rollback"}, decision : Decisions \cup {NULL}, of : Nat,
     previous : Models, new : Models]

VARIABLES
    tournament,   \* [competition -> published outcome, NULL before]
    prep          \* [caller -> progress of its prepare_score_champions call]

pvars == <<registry, decisions, transitions, draft, tournament, prep>>

Idle == [stage |-> "idle", todo |-> <<>>, winner |-> NULL, prepared |-> {}, blocked |-> {}]

PreparationInit ==
    /\ GInit
    /\ tournament = [c \in Competitions |-> NULL]
    /\ prep = [k \in Callers |-> Idle]

Current(k) == Head(prep[k].todo)

-----------------------------------------------------------------------------
(***************************************************************************)
(* resolve_active_score_champion                                           *)
(***************************************************************************)

\* _matches_requested_scope raises on provenance without the exact fields.
ExactProvenance(m) == registry[m].provenance \in Competitions

ActiveFor(c) == {m \in Champions(ProductScope) : /\ registry[m].status = "promoted"
                                                 /\ registry[m].provenance = c}

ResolveActiveScoreChampion(c) ==
    CASE \E m \in Champions(ProductScope) : ~ExactProvenance(m) -> "error"
      [] /\ \A m \in Champions(ProductScope) : ExactProvenance(m)
         /\ Cardinality(ActiveFor(c)) > 1 -> "error"
      [] /\ \A m \in Champions(ProductScope) : ExactProvenance(m)
         /\ Cardinality(ActiveFor(c)) = 1 -> "found"
      [] OTHER -> "none"

\* _active_transition_id: the latest transition that crowned the model.
ActiveTransitionId(m) ==
    LET crowned == {i \in DOMAIN transitions : transitions[i].new = m}
    IN  IF crowned = {} THEN 0 ELSE Max(crowned)

-----------------------------------------------------------------------------
(***************************************************************************)
(* One prepare_score_champions call                                        *)
(***************************************************************************)

\* _load_competition_histories fails as a whole on contradictory evidence.
PrepareStart(k) ==
    /\ prep[k].stage = "idle"
    /\ prep' = [prep EXCEPT ![k] = [Idle EXCEPT !.stage = "check", !.todo = Histories]]
    /\ UNCHANGED <<gvars, tournament>>

\* The loop of prepare_score_champions moves on; its end is the report.
Advance(p) ==
    IF Len(p.todo) = 1 THEN [p EXCEPT !.stage = "idle", !.todo = <<>>, !.winner = NULL]
    ELSE [p EXCEPT !.stage = "check", !.todo = Tail(@), !.winner = NULL]

Prepared(k) ==
    prep' = [prep EXCEPT ![k] = Advance([prep[k] EXCEPT !.prepared = @ \cup {Current(k)}])]
Blocked(k) ==
    prep' = [prep EXCEPT ![k] = Advance([prep[k] EXCEPT !.blocked = @ \cup {Current(k)}])]

\* A compatible active champion is reused; unreadable provenance is a blocker.
CheckActive(k) ==
    /\ prep[k].stage = "check"
    /\ CASE ResolveActiveScoreChampion(Current(k)) = "error" -> Blocked(k)
         [] ResolveActiveScoreChampion(Current(k)) = "found" -> Prepared(k)
         [] OTHER -> prep' = [prep EXCEPT ![k].stage = "tournament"]
    /\ UNCHANGED <<gvars, tournament>>

\* _load_existing_tournament, else run_score_tournament and _publish_tournament:
\* a concurrent caller's tournament over the same evidence is the same one.
\* Too little history, or an artifact that conflicts, is a blocker.
RunTournament(k) ==
    /\ prep[k].stage = "tournament"
    /\ \/ /\ tournament[Current(k)] # NULL
          /\ prep' = [prep EXCEPT ![k].stage = "gates"]
          /\ UNCHANGED tournament
       \/ /\ tournament[Current(k)] = NULL
          /\ \E o \in CandidatesOf[Current(k)] \cup {"ineligible"} :
                 tournament' = [tournament EXCEPT ![Current(k)] = o]
          /\ prep' = [prep EXCEPT ![k].stage = "gates"]
       \/ Blocked(k) /\ UNCHANGED tournament
    /\ UNCHANGED gvars

\* The production gates, then _publish_candidate for incumbent and winner: the
\* model and calibration artifacts are written once and strictly reloaded.
PublishCandidates(k) ==
    /\ prep[k].stage = "gates"
    /\ IF tournament[Current(k)] \in CandidatesOf[Current(k)]
       THEN prep' = [prep EXCEPT ![k].stage = "commit", ![k].winner = tournament[Current(k)]]
       ELSE Blocked(k)
    /\ UNCHANGED <<gvars, tournament>>

Incumbent(c, winner) == CHOOSE m \in CandidatesOf[c] : m # winner

\* Registry after both candidates are registered as challengers.
WithCandidates(c) ==
    LET a == Incumbent(c, tournament[c])
    IN  RegisterVerifiedIdentity(
            RegisterVerifiedIdentity(registry, a, "challenger", c),
            tournament[c], "challenger", c)

\* _governance_evidence of both and evaluate_challenger over the rows of the
\* transaction; as_of is the end of the winner's test window.
PreparationDecision(reg, incumbent, winner) ==
    LET e == TournamentEvidence[incumbent]
        f == TournamentEvidence[winner]
    IN  [champion |-> incumbent, challenger |-> winner,
         championVersion |-> reg[incumbent].version,
         challengerVersion |-> reg[winner].version,
         evidence |-> <<e, f>>, policy |-> DefaultPolicy, asOf |-> f.window[2],
         decision |-> DecisionKind(incumbent, winner, e, f, DefaultPolicy)]

\* The immediate transaction of _prepare_competition.  Any champion of the
\* product scope aborts it, whatever its competition; a decision that does not
\* promote is recorded and then reported as a blocker.
CommitPreparation(k) ==
    LET c   == Current(k)
        reg == WithCandidates(c)
        d   == PreparationDecision(reg, Incumbent(c, prep[k].winner), prep[k].winner)
    IN  /\ prep[k].stage = "commit"
        /\ \/ /\ Champions(ProductScope) # {}
              /\ Blocked(k)
              /\ UNCHANGED gvars
           \/ /\ Champions(ProductScope) = {}
              /\ ~Recordable(d) \/ (d.decision = "promote" /\ ~Applied(d) /\ ~InitialIsCurrent(reg, d))
              /\ Blocked(k)
              /\ UNCHANGED gvars
           \/ /\ Champions(ProductScope) = {}
              /\ Recordable(d)
              /\ decisions' = decisions \cup {d}
              /\ IF d.decision # "promote" \/ Applied(d)
                 THEN /\ registry' = reg
                      /\ UNCHANGED transitions
                      /\ Blocked(k)
                 ELSE /\ ApplyInitialPromotion(reg, d)
                      /\ prep' = [prep EXCEPT ![k].stage = "resolve"]
              /\ UNCHANGED draft
        /\ UNCHANGED tournament

\* The promotion must resolve to the winner, else the run is blocked.
ResolvePrepared(k) ==
    /\ prep[k].stage = "resolve"
    /\ IF /\ ResolveActiveScoreChampion(Current(k)) = "found"
          /\ ActiveFor(Current(k)) = {prep[k].winner}
       THEN Prepared(k) ELSE Blocked(k)
    /\ UNCHANGED <<gvars, tournament>>

Prepare(k) ==
    \/ PrepareStart(k) \/ CheckActive(k) \/ RunTournament(k)
    \/ PublishCandidates(k) \/ CommitPreparation(k) \/ ResolvePrepared(k)

PreparationNext ==
    \/ CliNext /\ UNCHANGED <<tournament, prep>>
    \/ \E k \in Callers : Prepare(k)

\* A UI call that started runs to its end.
PreparationFairness == \A k \in Callers : WF_pvars(prep[k].stage # "idle" /\ Prepare(k))

PreparationSpec == PreparationInit /\ [][PreparationNext]_pvars /\ PreparationFairness

-----------------------------------------------------------------------------
\* The champion a product run can resolve for a competition is one of that
\* competition's two candidates, crowned by an audited transition between them,
\* whatever promotions, rollbacks and registrations the two command lines made
\* meanwhile (champion_preparation.py:300, champion_resolution.py:122).
ResolvedIsGoverned ==
    \A c \in Competitions : ResolveActiveScoreChampion(c) = "found" =>
        \E m \in ActiveFor(c) :
            /\ m \in CandidatesOf[c]
            /\ ActiveTransitionId(m) # 0
            /\ LET t == transitions[ActiveTransitionId(m)]
               IN  {t.previous, t.new} = CandidatesOf[c]

\* README.md:77 "For a competition without a champion it uses only verified
\* historical snapshots [...] and applies an atomic promotion only when that
\* persisted decision is `promote'": a competition whose tournament has a winner
\* that the policy promotes is not blocked by another competition's champion.
EveryCompetitionServed ==
    \A k \in Callers : \A c \in prep[k].blocked :
        ~(/\ tournament[c] \in CandidatesOf[c]
          /\ PreparationDecision(WithCandidates(c), Incumbent(c, tournament[c]),
                                 tournament[c]).decision = "promote"
          /\ \A m \in Champions(ProductScope) : registry[m].provenance \in Competitions \ {c})

\* The registry is what the audit trail says, and what is served from it was governed.
GovernedRegistry == AuditExplainsRegistry /\ ResolvedIsGoverned
=============================================================================
