----------------------------- MODULE MCLearning -----------------------------
(* Governance of the models with the preparation of champions, and the       *)
(* closed loop of results, settlements and monitoring, for TLC: each         *)
(* behaviour is one of the two.                                              *)
EXTENDS ChampionPreparation, ClosedLoop, TLC

\* Two competitions with two score-model candidates each, and two models of
\* the engine CLI in the same scope.
CONSTANTS a1, a2, b1, b2, x, y

MCModels == {a1, a2, b1, b2, x, y}
MCScopeOf == [m \in MCModels |-> "football/match-result-1x2"]
MCHistories == <<"A", "B">>
MCOneHistory == <<"A">>
MCCandidatesOf == [A |-> {a1, a2}, B |-> {b1, b2}]

Ev(m, loss) == [model |-> m, scope |-> "football/match-result-1x2", window |-> <<1, 2>>,
                population |-> 1, sample |-> 100, completed |-> 100,
                logLoss |-> loss, brier |-> loss, calibration |-> loss]
MCBacktests == {Ev(x, 50), Ev(y, 48), Ev(y, 52)}
MCTournamentEvidence ==
    [m \in {a1, a2, b1, b2} |-> Ev(m, IF m \in {a1, b1} THEN 50 ELSE 47)]
MCDefaultPolicy == [id |-> "default", sample |-> 100, coverage |-> 95, logLoss |-> 1,
                    brier |-> 1, calibration |-> 0, requireCalibration |-> TRUE]
MCPolicies == {[MCDefaultPolicy EXCEPT !.id = "cli", !.requireCalibration = FALSE]}

\* Results of two events, one of them reported twice, and positions on them.
R(e, st, sc, o) == [event |-> e, status |-> st, scheduled |-> 1, observed |-> o,
                    at |-> IF st = "completed" THEN o ELSE None, score |-> sc, claimed |-> None]
MCPublished == {R("e", "completed", <<1, 0>>, 1), R("f", "incomplete", None, 1),
                R("f", "completed", <<0, 0>>, 2)}
MCLegsOf == [single |-> {<<"e", "home", 2>>},
             double |-> {<<"e", "home", 2>>, <<"f", "draw", 3>>},
             lost |-> {<<"e", "away", 2>>, <<"f", "draw", 3>>}]
JobSymmetry == Permutations(Jobs)

VARIABLE part

LearningInit == part \in {"governance", "closed loop"} /\ PreparationInit /\ CLInit

LearningNext ==
    /\ UNCHANGED part
    /\ \/ part = "governance" /\ PreparationNext /\ UNCHANGED clvars
       \/ part = "closed loop" /\ CLNext /\ UNCHANGED pvars

LearningSpec == LearningInit /\ [][LearningNext]_<<part, pvars, clvars>>
=============================================================================
