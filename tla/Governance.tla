----------------------------- MODULE Governance -----------------------------
(***************************************************************************)
(* The model registry: registration, champion-challenger evaluation, the   *)
(* audited promotion and its rollback (governance/), as the engine CLI and *)
(* the lifecycle CLI call them.  Each repository method runs inside one    *)
(* immediate transaction of its caller, so it is one action; evaluation    *)
(* reads the registry before that transaction and is a step of its own.    *)
(* A transition's identity is its place in `transitions'.                  *)
(***************************************************************************)
EXTENDS Integers, Sequences, FiniteSets, SequencesExt

CONSTANTS
    Models,          \* content identities of model artifacts
    ScopeOf,         \* [Models -> (sport, market) scopes]
    CliModels,       \* the models in the ModelArtifact format the CLI verifies
    Backtests,       \* evidence records of the published backtest artifacts
    Policies,        \* promotion policies an operator passes
    AsOfs,           \* as_of_utc values of evaluation requests
    NULL,
    MaxDecisions,    \* bound: decisions recorded before an evaluation
    MaxTransitions   \* bound: audited role transitions

ASSUME GovernanceAssumption ==
    /\ CliModels \subseteq Models
    /\ NULL \notin Models
    /\ MaxTransitions \in Nat /\ MaxDecisions \in Nat

VARIABLES
    registry,      \* model_registry_entries, NULL where a model is absent
    decisions,     \* promotion_decisions
    transitions,   \* model_role_transitions, in order of insertion
    draft          \* the decision one CLI process evaluated and has not recorded

gvars == <<registry, decisions, transitions, draft>>

Roles == {"champion", "challenger"}
ModelStatuses == {"eligible", "promoted", "demoted"}

GInit ==
    /\ registry = [m \in Models |-> NULL]
    /\ decisions = {}
    /\ transitions = <<>>
    /\ draft = NULL

Registered(m) == registry[m] # NULL

Champions(s) == {m \in Models : /\ Registered(m)
                                /\ ScopeOf[m] = s
                                /\ registry[m].role = "champion"}

-----------------------------------------------------------------------------
(***************************************************************************)
(* Evidence and the promotion policy.                                      *)
(***************************************************************************)

\* ModelEvaluationEvidence.__post_init__; coverage is completed / sample.
ValidEvidence(e) ==
    /\ e.window[1] < e.window[2]
    /\ 0 <= e.sample
    /\ 0 <= e.completed /\ e.completed <= e.sample

\* PromotionPolicy.__post_init__, with the minimum coverage in percent.
ValidPolicy(p) ==
    /\ p.sample >= 1
    /\ p.coverage \in 0..100
    /\ p.logLoss >= 0 /\ p.brier >= 0 /\ p.calibration >= 0

\* build_model_evaluation_evidence: strictly reloads the backtest and the
\* registered model, and never supplies a calibration error.
BuildModelEvaluationEvidence(m) ==
    {[b EXCEPT !.completed = b.sample, !.calibration = NULL] :
        b \in {x \in Backtests : /\ m \in CliModels
                                 /\ x.model = m
                                 /\ x.scope = ScopeOf[m]}}

\* One lower-is-better metric with the improvement the policy requires.
ComparedMetric(champion, challenger, required) ==
    [improvement |-> champion - challenger, required |-> required]

ComparedMetrics(e, f, p) ==
    {ComparedMetric(e.logLoss, f.logLoss, p.logLoss),
     ComparedMetric(e.brier, f.brier, p.brier)}
    \cup IF e.calibration # NULL /\ f.calibration # NULL
         THEN {ComparedMetric(e.calibration, f.calibration, p.calibration)}
         ELSE {}

\* The same window, population and counts; the mode is part of the population.
Equivalent(e, f) ==
    /\ e.window = f.window
    /\ e.population = f.population
    /\ e.sample = f.sample
    /\ e.completed = f.completed

Sufficient(e, p) ==
    /\ e.sample >= p.sample
    /\ 100 * e.completed >= p.coverage * e.sample

Compatible(m, n, e, f) ==
    /\ ScopeOf[m] = ScopeOf[n]
    /\ ScopeOf[m] = e.scope /\ ScopeOf[n] = f.scope
    /\ e.model = m /\ f.model = n

DecisionKind(m, n, e, f, p) ==
    LET metrics == ComparedMetrics(e, f, p)
    IN  IF ~Compatible(m, n, e, f) \/ ~Equivalent(e, f) THEN "reject"
        ELSE IF \/ p.requireCalibration /\ NULL \in {e.calibration, f.calibration}
                \/ ~Sufficient(e, p) \/ ~Sufficient(f, p)
             THEN "hold"
        ELSE IF /\ \A x \in metrics : x.improvement >= 0 /\ x.improvement >= x.required
                /\ \E x \in metrics : x.improvement > 0
             THEN "promote"
        ELSE "retain"

\* evaluate_challenger: the whole record is the decision's content identity.
EvaluateChallenger(m, n, e, f, p, asOf) ==
    [champion |-> m, challenger |-> n,
     championVersion |-> registry[m].version,
     challengerVersion |-> registry[n].version,
     evidence |-> <<e, f>>, policy |-> p, asOf |-> asOf,
     decision |-> DecisionKind(m, n, e, f, p)]

-----------------------------------------------------------------------------
(***************************************************************************)
(* Repository methods, as relations between a registry and its successor.  *)
(***************************************************************************)

NewEntry(role, provenance) ==
    [role |-> role,
     status |-> IF role = "champion" THEN "promoted" ELSE "eligible",
     version |-> 1, superseded |-> NULL, provenance |-> provenance]

\* _register_verified_identity: an existing identity is returned unchanged; a
\* second champion of a scope breaks the unique index and is refused.
RegisterVerifiedIdentity(reg, m, role, provenance) ==
    IF reg[m] # NULL THEN reg
    ELSE [reg EXCEPT ![m] = NewEntry(role, provenance)]

\* The columns of UNIQUE(policy, champion, challenger, evidence, as_of).
DecisionKey(d) == <<d.policy.id, d.champion, d.challenger, d.evidence, d.asOf>>

\* record_decision succeeds: a replay, or no other decision with that key.
Recordable(d) ==
    d \in decisions \/ \A x \in decisions : DecisionKey(x) # DecisionKey(d)

Applied(d) == \E i \in DOMAIN transitions : transitions[i].decision = d

Demote(entry, by) ==
    [entry EXCEPT !.role = "challenger", !.status = "demoted",
                  !.superseded = by, !.version = @ + 1]

Crown(entry, over) ==
    [entry EXCEPT !.role = "champion", !.status = "promoted",
                  !.superseded = over, !.version = @ + 1]

SwapRoles(reg, old, new) ==
    [reg EXCEPT ![old] = Demote(@, new), ![new] = Crown(@, old)]

\* Mutant: the versions of the decision are not compared.
PromotionRolesCurrent(reg, d) ==
    /\ reg[d.champion].role = "champion"
    /\ reg[d.challenger].role = "challenger"
    /\ ScopeOf[d.champion] = ScopeOf[d.challenger]

PromotionIsCurrent(reg, d) ==
    /\ reg[d.champion].version = d.championVersion
    /\ reg[d.challenger].version = d.challengerVersion
    /\ reg[d.champion].role = "champion"
    /\ reg[d.challenger].role = "challenger"
    /\ ScopeOf[d.champion] = ScopeOf[d.challenger]

\* apply_promotion beyond its replay branch.
Promote(reg, d) ==
    /\ d.decision = "promote"
    /\ PromotionIsCurrent(reg, d)
    /\ Len(transitions) < MaxTransitions
    /\ registry' = SwapRoles(reg, d.champion, d.challenger)
    /\ transitions' = Append(transitions,
            [type |-> "promotion", decision |-> d, of |-> 0,
             previous |-> d.champion, new |-> d.challenger])

\* apply_initial_promotion: stages the incumbent without a version step.
InitialIsCurrent(reg, d) ==
    /\ reg[d.champion].version = d.championVersion
    /\ reg[d.challenger].version = d.challengerVersion
    /\ \A m \in {d.champion, d.challenger} :
           reg[m].role = "challenger" /\ reg[m].status = "eligible"
    /\ ScopeOf[d.champion] = ScopeOf[d.challenger]
    /\ ~\E m \in Models : /\ reg[m] # NULL
                          /\ ScopeOf[m] = ScopeOf[d.champion]
                          /\ reg[m].role = "champion"

ApplyInitialPromotion(reg, d) ==
    /\ d.decision = "promote"
    /\ InitialIsCurrent(reg, d)
    /\ Promote([reg EXCEPT ![d.champion].role = "champion",
                           ![d.champion].status = "promoted"], d)

-----------------------------------------------------------------------------
(***************************************************************************)
(* Operations of the two command lines.                                    *)
(***************************************************************************)

\* engine --register-model; a row that exists is returned as it is.
RegisterModel(m, role) ==
    /\ m \in CliModels
    /\ ~Registered(m)
    /\ role = "champion" => Champions(ScopeOf[m]) = {}
    /\ registry' = RegisterVerifiedIdentity(registry, m, role, "engine-cli")
    /\ UNCHANGED <<decisions, transitions, draft>>

\* engine --evaluate-challenger up to its transaction.
Evaluate(m, n, p, asOf) ==
    /\ draft = NULL
    /\ Cardinality(decisions) < MaxDecisions
    /\ Registered(m) /\ Registered(n)
    /\ ValidPolicy(p)
    /\ \E e \in BuildModelEvaluationEvidence(m), f \in BuildModelEvaluationEvidence(n) :
          /\ ValidEvidence(e) /\ ValidEvidence(f)
          /\ draft' = EvaluateChallenger(m, n, e, f, p, asOf)
    /\ UNCHANGED <<registry, decisions, transitions>>

RecordDecision ==
    /\ draft # NULL
    /\ decisions' = IF Recordable(draft) THEN decisions \cup {draft} ELSE decisions
    /\ draft' = NULL
    /\ UNCHANGED <<registry, transitions>>

\* engine --apply-promotion and lifecycle --apply-explicit-promotion; the
\* replay of an applied decision returns its transition and changes nothing.
ApplyPromotion(d) ==
    /\ d \in decisions
    /\ ~Applied(d)
    /\ Promote(registry, d)
    /\ UNCHANGED <<decisions, draft>>

\* Mutant: a rollback does not look at the current roles.
RollbackUnchecked(i) ==
    LET t == transitions[i]
    IN  /\ i \in DOMAIN transitions
        /\ t.type = "promotion"
        /\ \A j \in DOMAIN transitions : transitions[j].of # i
        /\ Len(transitions) < MaxTransitions
        /\ registry' = SwapRoles(registry, t.new, t.previous)
        /\ transitions' = Append(transitions,
                [type |-> "rollback", decision |-> NULL, of |-> i,
                 previous |-> t.new, new |-> t.previous])
        /\ UNCHANGED <<decisions, draft>>

\* rollback_transition: the roles must still be those the promotion left; the
\* versions are not compared.
RollbackTransition(i) ==
    LET t == transitions[i]
    IN  /\ i \in DOMAIN transitions
        /\ t.type = "promotion"
        /\ \A j \in DOMAIN transitions : transitions[j].of # i
        /\ registry[t.previous].role = "challenger"
        /\ registry[t.new].role = "champion"
        /\ Len(transitions) < MaxTransitions
        /\ registry' = SwapRoles(registry, t.new, t.previous)
        /\ transitions' = Append(transitions,
                [type |-> "rollback", decision |-> NULL, of |-> i,
                 previous |-> t.new, new |-> t.previous])
        /\ UNCHANGED <<decisions, draft>>

CliNext ==
    \/ \E m \in Models, role \in Roles : RegisterModel(m, role)
    \/ \E m, n \in Models, p \in Policies, asOf \in AsOfs : Evaluate(m, n, p, asOf)
    \/ RecordDecision
    \/ \E d \in decisions : ApplyPromotion(d)
    \/ \E i \in DOMAIN transitions : RollbackTransition(i)

-----------------------------------------------------------------------------
(***************************************************************************)
(* Properties.                                                             *)
(***************************************************************************)

Touching(m, n) ==
    {i \in 1..n : m \in {transitions[i].previous, transitions[i].new}}

SameScope(i, j) == ScopeOf[transitions[i].new] = ScopeOf[transitions[j].new]

\* No transition of the scope of i lies between i and j.
Adjacent(i, j) == i < j /\ \A k \in (i + 1)..(j - 1) : ~SameScope(i, k)

\* The audit trail explains the registry: in each scope the transitions form a
\* chain from champion to champion, the champion is where the chain ends, and a
\* model's version counts the transitions it took part in (repository.py:301
\* and :452 update two rows and insert one audit row in one transaction).
ChainOfChampions ==
    /\ \A i, j \in DOMAIN transitions : SameScope(i, j) /\ Adjacent(i, j) =>
           transitions[j].previous = transitions[i].new
    /\ \A i \in DOMAIN transitions : Adjacent(i, Len(transitions) + 1) =>
           Champions(ScopeOf[transitions[i].new]) = {transitions[i].new}

AuditExplainsRegistry ==
    /\ ChainOfChampions
    /\ \A s \in {ScopeOf[m] : m \in Models} : Cardinality(Champions(s)) <= 1
    /\ \A m \in Models : Registered(m) =>
          registry[m].version = 1 + Cardinality(Touching(m, Len(transitions)))

\* No promotion outlives its evidence: every applied decision compared the two
\* models at the versions they had when it was applied, so neither had changed
\* role in between (repository.py:292).
NoStalePromotion ==
    \A i \in DOMAIN transitions :
        LET d == transitions[i].decision
        IN  transitions[i].type = "promotion" =>
                /\ d.championVersion = 1 + Cardinality(Touching(d.champion, i - 1))
                /\ d.challengerVersion = 1 + Cardinality(Touching(d.challenger, i - 1))
                /\ d.decision = "promote"
                /\ ~\E j \in DOMAIN transitions : j # i /\ transitions[j].decision = d


=============================================================================
