--------------------------- MODULE LearningProofs ---------------------------
(***************************************************************************)
(* Proofs about learning.                                                  *)
(*                                                                         *)
(* First, model governance with the preparation of champions, for every    *)
(* set of models, competitions, callers and policies.                      *)
(*                                                                         *)
(* Second, the closed loop of results, settlements and monitoring, for any *)
(* positions, snapshots and number of concurrent jobs.                     *)
(***************************************************************************)
EXTENDS ChampionPreparation, ClosedLoop, FiniteSetTheorems, SequenceTheorems, WellFoundedInduction, TLAPS

-----------------------------------------------------------------------------
(* A registry and an audit trail that explains it.  Both are parameters:   *)
(* one transaction takes the registry through several of them.             *)

ChampionsIn(reg, s) == {m \in Models : /\ reg[m] # NULL
                                       /\ ScopeOf[m] = s
                                       /\ reg[m].role = "champion"}

TouchingIn(t, m, n) == {i \in 1..n : m \in {t[i].previous, t[i].new}}

AdjacentIn(t, i, j) ==
    i < j /\ \A k \in (i + 1)..(j - 1) : ScopeOf[t[i].new] # ScopeOf[t[k].new]

Typed(reg, t) ==
    /\ reg \in [Models -> {NULL} \cup Entries]
    /\ t \in Seq(Transitions)

(* Who may be registered, and from where. *)
Origin(m, provenance) ==
    IF m \in CliModels THEN provenance = "engine-cli"
    ELSE provenance \in Competitions /\ m \in CandidatesOf[provenance]

Originated(reg) == \A m \in Models : reg[m] # NULL => Origin(m, reg[m].provenance)

(* A decision compares two models of the command line, or the two candidates *)
(* of a competition.                                                       *)
Paired(m, n) ==
    \/ m \in CliModels /\ n \in CliModels
    \/ \E c \in Competitions : {m, n} = CandidatesOf[c]

SoundTransition(reg, x) ==
    /\ reg[x.previous] # NULL /\ reg[x.new] # NULL
    /\ x.previous # x.new
    /\ ScopeOf[x.previous] = ScopeOf[x.new]
    /\ Paired(x.previous, x.new)

SoundTrail(reg, t) == \A i \in 1..Len(t) : SoundTransition(reg, t[i])

OneChampion(reg) ==
    \A s \in {ScopeOf[m] : m \in Models} : \A m, n \in ChampionsIn(reg, s) : m = n

(* A scope that ever had a transition has a champion. *)
KeptChampion(reg, t) == \A i \in 1..Len(t) : ChampionsIn(reg, ScopeOf[t[i].new]) # {}

Chained(t) ==
    \A i, j \in 1..Len(t) :
        ScopeOf[t[i].new] = ScopeOf[t[j].new] /\ AdjacentIn(t, i, j) =>
            t[j].previous = t[i].new

EndsAtChampion(reg, t) ==
    \A i \in 1..Len(t) : AdjacentIn(t, i, Len(t) + 1) =>
        t[i].new \in ChampionsIn(reg, ScopeOf[t[i].new])

Versioned(reg, t) ==
    \A m \in Models : reg[m] # NULL =>
        reg[m].version = 1 + Cardinality(TouchingIn(t, m, Len(t)))

Explained(reg, t) ==
    /\ Typed(reg, t)
    /\ Originated(reg)
    /\ SoundTrail(reg, t)
    /\ OneChampion(reg)
    /\ KeptChampion(reg, t)
    /\ Chained(t)
    /\ EndsAtChampion(reg, t)
    /\ Versioned(reg, t)

(* The promotions of a trail, each on the versions its models had then.    *)
Fresh(t) ==
    \A i \in 1..Len(t) : t[i].type = "promotion" =>
        /\ t[i].decision \in Decisions
        /\ t[i].decision.championVersion = 1 + Cardinality(TouchingIn(t, t[i].decision.champion, i - 1))
        /\ t[i].decision.challengerVersion = 1 + Cardinality(TouchingIn(t, t[i].decision.challenger, i - 1))
        /\ t[i].decision.decision = "promote"
        /\ \A j \in 1..Len(t) : j # i => t[j].decision # t[i].decision

-----------------------------------------------------------------------------
(* Lemmas about trails *)

LEMMA TrailFacts ==
    ASSUME NEW t \in Seq(Transitions)
    PROVE  /\ Len(t) \in Nat /\ DOMAIN t = 1..Len(t)
           /\ \A i \in 1..Len(t) : t[i].previous \in Models /\ t[i].new \in Models
<1>1. \A i \in 1..Len(t) : t[i] \in Transitions
    BY ElementOfSeq
<1> QED
    BY <1>1 DEF Transitions

LEMMA AppendedTrail ==
    ASSUME NEW t \in Seq(Transitions), NEW x \in Transitions
    PROVE  /\ Append(t, x) \in Seq(Transitions)
           /\ Len(Append(t, x)) = Len(t) + 1
           /\ \A i \in 1..Len(t) : Append(t, x)[i] = t[i]
           /\ Append(t, x)[Len(t) + 1] = x
BY AppendProperties

LEMMA TouchingFinite ==
    ASSUME NEW t, NEW m, NEW n \in Nat
    PROVE  IsFiniteSet(TouchingIn(t, m, n)) /\ Cardinality(TouchingIn(t, m, n)) \in Nat
<1>1. IsFiniteSet(1..n)
    BY FS_Interval
<1>2. TouchingIn(t, m, n) \in SUBSET (1..n)
    BY DEF TouchingIn
<1>3. IsFiniteSet(TouchingIn(t, m, n))
    BY <1>1, <1>2, FS_Subset
<1> QED
    BY <1>3, FS_CardinalityType

(* A transition counts once for each of the two models it moves. *)
LEMMA TouchingAppended ==
    ASSUME NEW t \in Seq(Transitions), NEW x \in Transitions, NEW m \in Models
    PROVE  /\ \A n \in 0..Len(t) : TouchingIn(Append(t, x), m, n) = TouchingIn(t, m, n)
           /\ Cardinality(TouchingIn(Append(t, x), m, Len(t) + 1)) =
                  Cardinality(TouchingIn(t, m, Len(t)))
                  + (IF m \in {x.previous, x.new} THEN 1 ELSE 0)
<1> DEFINE u == Append(t, x)
<1>1. /\ Len(t) \in Nat
      /\ \A i \in 1..Len(t) : u[i] = t[i]
      /\ u[Len(t) + 1] = x
    BY AppendedTrail
<1> HIDE DEF u
<1>2. \A n \in 0..Len(t) : TouchingIn(u, m, n) = TouchingIn(t, m, n)
    BY <1>1 DEF TouchingIn
<1>3. CASE m \in {x.previous, x.new}
    <2>1. TouchingIn(u, m, Len(t) + 1) = TouchingIn(t, m, Len(t)) \cup {Len(t) + 1}
        BY <1>1, <1>3 DEF TouchingIn
    <2>2. Len(t) + 1 \notin TouchingIn(t, m, Len(t)) /\ IsFiniteSet(TouchingIn(t, m, Len(t)))
        <3>1. Len(t) + 1 \notin TouchingIn(t, m, Len(t))
            BY <1>1 DEF TouchingIn
        <3> QED
            BY <1>1, <3>1, TouchingFinite
    <2> QED
        BY <1>2, <1>3, <2>1, <2>2, FS_AddElement DEF u
<1>4. CASE m \notin {x.previous, x.new}
    <2>1. TouchingIn(u, m, Len(t) + 1) = TouchingIn(t, m, Len(t))
        BY <1>1, <1>4 DEF TouchingIn
    <2>2. Cardinality(TouchingIn(t, m, Len(t))) \in Nat
        BY <1>1, TouchingFinite
    <2> QED
        BY <1>2, <1>4, <2>1, <2>2 DEF u
<1> QED
    BY <1>3, <1>4

-----------------------------------------------------------------------------
(* Registration *)

LEMMA RegisterKeeps ==
    ASSUME NEW reg, NEW t, Explained(reg, t),
           NEW m \in Models, NEW role \in Roles, NEW provenance \in Competitions \cup {"engine-cli"},
           Origin(m, provenance),
           role = "champion" => ChampionsIn(reg, ScopeOf[m]) = {}
    PROVE  LET new == RegisterVerifiedIdentity(reg, m, role, provenance)
           IN  /\ Explained(new, t)
               /\ new[m] # NULL
               /\ \A n \in Models : reg[n] # NULL => new[n] = reg[n]
               /\ reg[m] = NULL => new[m].role = role
               /\ \A n \in Models \ {m} : new[n] = reg[n]
<1> DEFINE new == RegisterVerifiedIdentity(reg, m, role, provenance)
           entry == NewEntry(role, provenance)
<1>1. CASE reg[m] # NULL
    BY <1>1 DEF RegisterVerifiedIdentity
<1>2. CASE reg[m] = NULL
    <2>1. new = [reg EXCEPT ![m] = entry]
        BY <1>2 DEF RegisterVerifiedIdentity
    <2>2. /\ entry \in Entries /\ entry # NULL
          /\ entry.role = role /\ entry.version = 1 /\ entry.provenance = provenance
        BY AbsentAssumption DEF NewEntry, Entries, ModelStatuses
    <2>3. /\ new \in [Models -> {NULL} \cup Entries]
          /\ new[m] = entry
          /\ \A n \in Models \ {m} : new[n] = reg[n]
        BY <2>1, <2>2 DEF Explained, Typed
    <2> HIDE DEF new, entry
    <2>4. t \in Seq(Transitions)
        BY DEF Explained, Typed
    <2>5. \A i \in 1..Len(t) : t[i].previous # m /\ t[i].new # m
        BY <1>2 DEF Explained, SoundTrail, SoundTransition
    <2>6. Typed(new, t) /\ Originated(new) /\ SoundTrail(new, t)
        BY <2>2, <2>3, <2>4, <2>5, TrailFacts DEF Explained, Typed, Originated, SoundTrail, SoundTransition
    <2>7. \A s \in {ScopeOf[n] : n \in Models} :
              ChampionsIn(new, s) = ChampionsIn(reg, s)
                                    \cup (IF role = "champion" /\ s = ScopeOf[m] THEN {m} ELSE {})
        BY <1>2, <2>2, <2>3 DEF ChampionsIn
    <2>8. OneChampion(new)
        BY <2>7 DEF Explained, OneChampion
    <2>9. KeptChampion(new, t) /\ EndsAtChampion(new, t)
        BY <2>4, <2>7, TrailFacts DEF Explained, KeptChampion, EndsAtChampion
    <2>10. Versioned(new, t)
        <3>1. TouchingIn(t, m, Len(t)) = {}
            BY <2>5 DEF TouchingIn
        <3>2. Cardinality(TouchingIn(t, m, Len(t))) = 0
            BY <3>1, FS_EmptySet
        <3> QED
            BY <2>2, <2>3, <3>2 DEF Explained, Versioned
    <2>11. Explained(new, t)
        BY <2>6, <2>8, <2>9, <2>10 DEF Explained
    <2> QED
        BY <1>2, <2>2, <2>3, <2>11 DEF new
<1> QED
    BY <1>1, <1>2

(* An incumbent is made champion of a scope that has none, before the      *)
(* transition of the same transaction that takes it away again.            *)
Staged(reg, m) == [reg EXCEPT ![m].role = "champion", ![m].status = "promoted"]

LEMMA StageKeeps ==
    ASSUME NEW reg, NEW t, Explained(reg, t), NEW m \in Models,
           reg[m] # NULL, ChampionsIn(reg, ScopeOf[m]) = {}
    PROVE  LET new == Staged(reg, m)
           IN  /\ Explained(new, t)
               /\ new[m] # NULL /\ new[m].role = "champion" /\ new[m].version = reg[m].version
               /\ \A n \in Models \ {m} : new[n] = reg[n]
<1> DEFINE entry == [reg[m] EXCEPT !.role = "champion", !.status = "promoted"]
           new == Staged(reg, m)
<1>1. reg \in [Models -> {NULL} \cup Entries] /\ reg[m] \in Entries /\ t \in Seq(Transitions)
    BY DEF Explained, Typed
<1>2. new = [reg EXCEPT ![m] = entry]
    BY <1>1 DEF Staged
<1>3. /\ entry \in Entries /\ entry # NULL /\ entry.role = "champion"
      /\ entry.version = reg[m].version /\ entry.provenance = reg[m].provenance
    BY <1>1, AbsentAssumption DEF Entries, Roles, ModelStatuses
<1>4. /\ new \in [Models -> {NULL} \cup Entries]
      /\ new[m] = entry
      /\ \A n \in Models \ {m} : new[n] = reg[n]
    BY <1>1, <1>2, <1>3
<1> HIDE DEF new, entry
<1>5. Typed(new, t) /\ Originated(new) /\ SoundTrail(new, t)
    BY <1>1, <1>3, <1>4, TrailFacts DEF Explained, Typed, Originated, SoundTrail, SoundTransition
<1>6. \A s \in {ScopeOf[n] : n \in Models} :
          ChampionsIn(new, s) = ChampionsIn(reg, s) \cup (IF s = ScopeOf[m] THEN {m} ELSE {})
    BY <1>1, <1>3, <1>4 DEF ChampionsIn
<1>7. OneChampion(new)
    BY <1>6 DEF Explained, OneChampion
<1>8. KeptChampion(new, t) /\ EndsAtChampion(new, t)
    BY <1>1, <1>6, TrailFacts DEF Explained, KeptChampion, EndsAtChampion
<1>9. Versioned(new, t)
    BY <1>3, <1>4 DEF Explained, Versioned
<1>10. Explained(new, t)
    BY <1>5, <1>7, <1>8, <1>9 DEF Explained
<1> QED
    BY <1>3, <1>4, <1>10 DEF new

-----------------------------------------------------------------------------
(* Transitions *)

(* What Demote and Crown make of a row. *)
Updated(e, role, status, m) ==
    [e EXCEPT !.role = role, !.status = status, !.superseded = m, !.version = @ + 1]

LEMMA UpdatedEntry ==
    ASSUME NEW e \in Entries, NEW role \in Roles, NEW status \in ModelStatuses, NEW m \in Models
    PROVE  /\ Updated(e, role, status, m) \in Entries
           /\ Updated(e, role, status, m) # NULL
           /\ Updated(e, role, status, m).role = role
           /\ Updated(e, role, status, m).version = e.version + 1
           /\ Updated(e, role, status, m).provenance = e.provenance
<1> DEFINE v == e.version + 1
           e1 == [e EXCEPT !.role = role]
           e2 == [e1 EXCEPT !.status = status]
           e3 == [e2 EXCEPT !.superseded = m]
           e4 == [e3 EXCEPT !.version = v]
<1>1. e.version \in Nat /\ v \in Nat
    BY DEF Entries
<1> HIDE DEF v
<1>2. e1 \in Entries /\ e1.role = role /\ e1.version = e.version /\ e1.provenance = e.provenance
    BY DEF Entries
<1> HIDE DEF e1
<1>3. e2 \in Entries /\ e2.role = role /\ e2.version = e.version /\ e2.provenance = e.provenance
    BY <1>2 DEF Entries
<1> HIDE DEF e2
<1>4. e3 \in Entries /\ e3.role = role /\ e3.version = e.version /\ e3.provenance = e.provenance
    BY <1>3 DEF Entries
<1> HIDE DEF e3
<1>5. e4 \in Entries /\ e4.role = role /\ e4.version = v /\ e4.provenance = e.provenance
    BY <1>1, <1>4 DEF Entries
<1>6. e4 = Updated(e, role, status, m)
    BY DEF v, e1, e2, e3, Entries, Updated
<1> HIDE DEF e4
<1> QED
    BY <1>5, <1>6, AbsentAssumption DEF v

LEMMA SwappedEntries ==
    ASSUME NEW e \in Entries, NEW m \in Models
    PROVE  /\ Demote(e, m) \in Entries /\ Demote(e, m) # NULL /\ Demote(e, m).role = "challenger"
           /\ Demote(e, m).version = e.version + 1 /\ Demote(e, m).provenance = e.provenance
           /\ Crown(e, m) \in Entries /\ Crown(e, m) # NULL /\ Crown(e, m).role = "champion"
           /\ Crown(e, m).version = e.version + 1 /\ Crown(e, m).provenance = e.provenance
<1>1. "champion" \in Roles /\ "challenger" \in Roles
      /\ "promoted" \in ModelStatuses /\ "demoted" \in ModelStatuses
    BY DEF Roles, ModelStatuses
<1>2. Demote(e, m) = Updated(e, "challenger", "demoted", m)
    BY DEF Demote, Updated
<1>3. Crown(e, m) = Updated(e, "champion", "promoted", m)
    BY DEF Crown, Updated
<1> QED
    BY <1>1, <1>2, <1>3, UpdatedEntry

LEMMA SwapKeeps ==
    ASSUME NEW reg, NEW t, Explained(reg, t), NEW x \in Transitions,
           SoundTransition(reg, x), reg[x.previous].role = "champion"
    PROVE  LET new == SwapRoles(reg, x.previous, x.new)
           IN  /\ Explained(new, Append(t, x))
               /\ \A n \in Models : reg[n] # NULL => new[n] # NULL
               /\ \A n \in Models : new[n] # NULL /\ new[n].role = "champion" =>
                      n = x.new \/ (n # x.previous /\ new[n] = reg[n])
<1> DEFINE old == x.previous
           crowned == x.new
           u == Append(t, x)
           lost == Demote(reg[old], crowned)
           won == Crown(reg[crowned], old)
           new == SwapRoles(reg, old, crowned)
           scope == ScopeOf[crowned]
<1>1. /\ old \in Models /\ crowned \in Models /\ old # crowned
      /\ reg \in [Models -> {NULL} \cup Entries] /\ t \in Seq(Transitions)
      /\ reg[old] \in Entries /\ reg[crowned] \in Entries
      /\ ScopeOf[old] = scope
    BY DEF Explained, Typed, SoundTransition, Transitions
<1>2. /\ lost \in Entries /\ lost # NULL /\ lost.role = "challenger"
      /\ lost.version = reg[old].version + 1 /\ lost.provenance = reg[old].provenance
    BY <1>1, SwappedEntries
<1>3. /\ won \in Entries /\ won # NULL /\ won.role = "champion"
      /\ won.version = reg[crowned].version + 1 /\ won.provenance = reg[crowned].provenance
    BY <1>1, SwappedEntries
<1>4. new = [reg EXCEPT ![old] = lost, ![crowned] = won]
    BY <1>1 DEF SwapRoles
<1>5. /\ Len(t) \in Nat /\ u \in Seq(Transitions) /\ Len(u) = Len(t) + 1
      /\ \A i \in 1..Len(t) : u[i] = t[i]
      /\ u[Len(t) + 1] = x
    BY <1>1, AppendedTrail
<1>6. /\ new \in [Models -> {NULL} \cup Entries]
      /\ new[old] = lost /\ new[crowned] = won
      /\ \A n \in Models \ {old, crowned} : new[n] = reg[n]
    BY <1>1, <1>2, <1>3, <1>4
<1>7. \A n \in Models : reg[n] # NULL => new[n] # NULL
    BY <1>2, <1>3, <1>6
<1>8. ChampionsIn(reg, scope) = {old}
    BY <1>1 DEF Explained, OneChampion, ChampionsIn, SoundTransition
<1> HIDE DEF lost, won, new, u
<1>9. ChampionsIn(new, scope) = {crowned}
    BY <1>1, <1>2, <1>3, <1>6, <1>8 DEF ChampionsIn
<1>10. \A s \in {ScopeOf[n] : n \in Models} : s # scope => ChampionsIn(new, s) = ChampionsIn(reg, s)
    BY <1>1, <1>6 DEF ChampionsIn
<1>11. Typed(new, u) /\ Originated(new)
    <2>1. reg[old] # NULL /\ reg[crowned] # NULL /\ Originated(reg)
        BY DEF Explained, SoundTransition
    <2> QED
        BY <1>1, <1>2, <1>3, <1>5, <1>6, <2>1 DEF Typed, Originated
<1>12. SoundTrail(new, u)
    <2> SUFFICES ASSUME NEW i \in 1..(Len(t) + 1) PROVE SoundTransition(new, u[i])
        BY <1>5 DEF SoundTrail
    <2>1. SoundTransition(reg, u[i])
        BY <1>5 DEF Explained, SoundTrail
    <2>2. u[i].previous \in Models /\ u[i].new \in Models
        BY <1>5, TrailFacts
    <2> QED
        BY <1>7, <2>1, <2>2 DEF SoundTransition
<1>13. OneChampion(new)
    BY <1>9, <1>10 DEF Explained, OneChampion
<1>14. KeptChampion(new, u)
    <2> SUFFICES ASSUME NEW i \in 1..(Len(t) + 1) PROVE ChampionsIn(new, ScopeOf[u[i].new]) # {}
        BY <1>5 DEF KeptChampion
    <2>1. u[i].new \in Models
        BY <1>5, TrailFacts
    <2>2. CASE ScopeOf[u[i].new] = scope
        BY <1>9, <2>2
    <2>3. CASE ScopeOf[u[i].new] # scope
        <3>1. i \in 1..Len(t)
            BY <1>5, <2>3
        <3> QED
            BY <1>5, <1>10, <2>1, <2>3, <3>1 DEF Explained, KeptChampion
    <2> QED
        BY <2>2, <2>3
<1>15. ASSUME NEW i \in 1..Len(t), NEW j \in 1..(Len(t) + 1)
       PROVE  AdjacentIn(u, i, j) <=> AdjacentIn(t, i, j)
    BY <1>5 DEF AdjacentIn
<1>16. Chained(u)
    <2> SUFFICES ASSUME NEW i \in 1..(Len(t) + 1), NEW j \in 1..(Len(t) + 1),
                        ScopeOf[u[i].new] = ScopeOf[u[j].new], AdjacentIn(u, i, j)
                 PROVE  u[j].previous = u[i].new
        BY <1>5 DEF Chained
    <2>1. i \in 1..Len(t)
        BY <1>5 DEF AdjacentIn
    <2>2. AdjacentIn(t, i, j)
        BY <1>15, <2>1
    <2>3. CASE j \in 1..Len(t)
        BY <1>5, <2>1, <2>2, <2>3 DEF Explained, Chained
    <2>4. CASE j = Len(t) + 1
        <3>1. t[i].new \in ChampionsIn(reg, ScopeOf[t[i].new])
            BY <2>1, <2>2, <2>4 DEF Explained, EndsAtChampion
        <3> QED
            BY <1>5, <1>8, <2>1, <2>4, <3>1
    <2> QED
        BY <1>5, <2>3, <2>4
<1>17. EndsAtChampion(new, u)
    <2> SUFFICES ASSUME NEW i \in 1..(Len(t) + 1), AdjacentIn(u, i, Len(t) + 2)
                 PROVE  u[i].new \in ChampionsIn(new, ScopeOf[u[i].new])
        BY <1>5 DEF EndsAtChampion
    <2>1. CASE i = Len(t) + 1
        BY <1>5, <1>9, <2>1
    <2>2. CASE i \in 1..Len(t)
        <3>1. ScopeOf[u[i].new] # scope
            BY <1>5, <2>2 DEF AdjacentIn
        <3>2. AdjacentIn(u, i, Len(t) + 1)
            BY <1>5, <2>2 DEF AdjacentIn
        <3>3. AdjacentIn(t, i, Len(t) + 1)
            BY <1>5, <1>15, <2>2, <3>2
        <3>4. u[i].new \in ChampionsIn(reg, ScopeOf[u[i].new])
            BY <1>5, <2>2, <3>3 DEF Explained, EndsAtChampion
        <3>5. u[i].new \in Models
            BY <1>5, TrailFacts
        <3> QED
            BY <1>10, <3>1, <3>4, <3>5
    <2> QED
        BY <1>5, <2>1, <2>2
<1>18. Versioned(new, u)
    <2> SUFFICES ASSUME NEW m \in Models, new[m] # NULL
                 PROVE  new[m].version = 1 + Cardinality(TouchingIn(u, m, Len(t) + 1))
        BY <1>5 DEF Versioned
    <2>1. Cardinality(TouchingIn(u, m, Len(t) + 1)) =
              Cardinality(TouchingIn(t, m, Len(t))) + (IF m \in {old, crowned} THEN 1 ELSE 0)
        BY <1>1, TouchingAppended DEF u
    <2>2. Cardinality(TouchingIn(t, m, Len(t))) \in Nat
        BY <1>5, TouchingFinite
    <2>3. reg[m] # NULL => reg[m].version = 1 + Cardinality(TouchingIn(t, m, Len(t)))
        BY DEF Explained, Versioned
    <2>4. CASE m \in {old, crowned}
        <3>1. reg[m] # NULL
            BY <2>4 DEF SoundTransition
        <3> QED
            BY <1>2, <1>3, <1>6, <2>1, <2>2, <2>3, <2>4, <3>1
    <2>5. CASE m \notin {old, crowned}
        BY <1>6, <2>1, <2>2, <2>3, <2>5
    <2> QED
        BY <2>4, <2>5
<1>19. Explained(new, u)
    BY <1>11, <1>12, <1>13, <1>14, <1>16, <1>17, <1>18 DEF Explained
<1>20. \A n \in Models : new[n] # NULL /\ new[n].role = "champion" =>
           n = crowned \/ (n # old /\ new[n] = reg[n])
    BY <1>2, <1>6
<1> QED
    BY <1>7, <1>19, <1>20 DEF new, u

LEMMA FreshAppended ==
    ASSUME NEW t \in Seq(Transitions), Fresh(t), NEW x \in Transitions,
           x.type = "promotion" =>
               /\ x.decision \in Decisions
               /\ x.decision.championVersion = 1 + Cardinality(TouchingIn(t, x.decision.champion, Len(t)))
               /\ x.decision.challengerVersion = 1 + Cardinality(TouchingIn(t, x.decision.challenger, Len(t)))
               /\ x.decision.decision = "promote"
               /\ \A j \in 1..Len(t) : t[j].decision # x.decision,
           x.type = "rollback" => x.decision = NULL
    PROVE  Fresh(Append(t, x))
<1> DEFINE u == Append(t, x)
<1>1. /\ Len(t) \in Nat /\ Len(u) = Len(t) + 1
      /\ \A i \in 1..Len(t) : u[i] = t[i]
      /\ u[Len(t) + 1] = x
    BY AppendedTrail
<1>2. \A m \in Models, n \in 0..Len(t) : TouchingIn(u, m, n) = TouchingIn(t, m, n)
    BY TouchingAppended
<1> HIDE DEF u
<1>3. x.type \in {"promotion", "rollback"}
    BY DEF Transitions
<1> SUFFICES ASSUME NEW i \in 1..(Len(t) + 1), u[i].type = "promotion"
             PROVE  /\ u[i].decision \in Decisions
                    /\ u[i].decision.championVersion = 1 + Cardinality(TouchingIn(u, u[i].decision.champion, i - 1))
                    /\ u[i].decision.challengerVersion = 1 + Cardinality(TouchingIn(u, u[i].decision.challenger, i - 1))
                    /\ u[i].decision.decision = "promote"
                    /\ \A j \in 1..(Len(t) + 1) : j # i => u[j].decision # u[i].decision
    BY <1>1 DEF Fresh, u
<1>4. i - 1 \in 0..Len(t)
    BY <1>1
<1>5. u[i].decision \in Decisions
    BY <1>1 DEF Fresh
<1>6. u[i].decision.champion \in Models /\ u[i].decision.challenger \in Models
    BY <1>5 DEF Decisions
<1>7. CASE i \in 1..Len(t)
    <2>1. \A j \in 1..Len(t) : j # i => u[j].decision # u[i].decision
        BY <1>1, <1>7 DEF Fresh
    <2>2. u[Len(t) + 1].decision # u[i].decision
        BY <1>1, <1>3, <1>5, <1>7, AbsentAssumption
    <2> QED
        BY <1>1, <1>2, <1>4, <1>5, <1>6, <1>7, <2>1, <2>2 DEF Fresh
<1>8. CASE i = Len(t) + 1
    BY <1>1, <1>2, <1>4, <1>6, <1>8
<1> QED
    BY <1>1, <1>7, <1>8

-----------------------------------------------------------------------------
(* The inductive invariant of governance *)

Comparable(d) ==
    /\ registry[d.champion] # NULL /\ registry[d.challenger] # NULL
    /\ Paired(d.champion, d.challenger)

(* A candidate of the preparation is never registered as a champion, so a  *)
(* transition crowned it; and there is a last one that did.                *)
CrownedBy(t, m) == {i \in 1..Len(t) : t[i].new = m}

CrownedExcept(reg, t, except) ==
    \A m \in Models \ CliModels :
        reg[m] # NULL /\ reg[m].role = "champion" /\ m # except => CrownedBy(t, m) # {}

LastCrowning(t) ==
    \A m \in Models : CrownedBy(t, m) # {} =>
        \E i \in CrownedBy(t, m) : \A j \in CrownedBy(t, m) : i >= j

Trailed(reg, t) ==
    /\ Explained(reg, t) /\ Fresh(t) /\ LastCrowning(t)

GovInv ==
    /\ Trailed(registry, transitions)
    /\ CrownedExcept(registry, transitions, NULL)
    /\ decisions \subseteq Decisions /\ \A d \in decisions : Comparable(d)
    /\ draft \in Decisions \cup {NULL} /\ (draft # NULL => Comparable(draft))

LEMMA GovInvImplies ==
    GovInv => NoStalePromotion /\ AuditExplainsRegistry
<1> SUFFICES ASSUME GovInv PROVE NoStalePromotion /\ AuditExplainsRegistry
    OBVIOUS
<1> USE DEF GovInv, Trailed
<1>1. transitions \in Seq(Transitions) /\ Len(transitions) \in Nat /\ DOMAIN transitions = 1..Len(transitions)
    BY TrailFacts DEF Explained, Typed
<1>2. \A m, n : Touching(m, n) = TouchingIn(transitions, m, n)
    BY DEF Touching, TouchingIn
<1>3. NoStalePromotion
    BY <1>1, <1>2 DEF Fresh, NoStalePromotion
<1>4. \A s : Champions(s) = ChampionsIn(registry, s)
    BY DEF Champions, ChampionsIn, Registered
<1>5. ChainOfChampions
    <2>1. \A i, j : Adjacent(i, j) <=> AdjacentIn(transitions, i, j)
        BY DEF Adjacent, AdjacentIn, SameScope
    <2>2. ASSUME NEW i \in 1..Len(transitions), NEW j \in 1..Len(transitions), SameScope(i, j), Adjacent(i, j)
          PROVE  transitions[j].previous = transitions[i].new
        BY <2>1, <2>2 DEF Explained, Chained, SameScope
    <2>3. ASSUME NEW i \in 1..Len(transitions), Adjacent(i, Len(transitions) + 1)
          PROVE  Champions(ScopeOf[transitions[i].new]) = {transitions[i].new}
        <3>1. transitions[i].new \in Models
            BY <1>1, TrailFacts
        <3>2. transitions[i].new \in ChampionsIn(registry, ScopeOf[transitions[i].new])
            BY <2>1, <2>3 DEF Explained, EndsAtChampion
        <3> QED
            BY <1>4, <3>1, <3>2 DEF Explained, OneChampion
    <2> QED
        BY <1>1, <2>2, <2>3 DEF ChainOfChampions
<1>6. ASSUME NEW s \in {ScopeOf[m] : m \in Models} PROVE Cardinality(Champions(s)) <= 1
    <2>1. \A m, n \in Champions(s) : m = n
        BY <1>4 DEF Explained, OneChampion
    <2>2. CASE Champions(s) = {}
        BY <2>2, FS_EmptySet
    <2>3. CASE Champions(s) # {}
        <3>1. PICK m : Champions(s) = {m}
            BY <2>1, <2>3
        <3>2. Cardinality({m}) = 1
            BY FS_Singleton
        <3> HIDE DEF Champions
        <3> QED
            BY <3>1, <3>2
    <2> QED
        BY <2>2, <2>3
<1>7. \A m \in Models : Registered(m) =>
          registry[m].version = 1 + Cardinality(Touching(m, Len(transitions)))
    BY <1>2 DEF Explained, Versioned, Registered
<1> QED
    BY <1>3, <1>5, <1>6, <1>7 DEF AuditExplainsRegistry

LEMMA GInitInvariant ==
    GInit => GovInv
<1> SUFFICES ASSUME GInit PROVE GovInv
    OBVIOUS
<1>1. transitions = <<>> /\ Len(transitions) = 0 /\ transitions \in Seq(Transitions)
      /\ registry = [m \in Models |-> NULL] /\ decisions = {} /\ draft = NULL
    BY DEF GInit
<1>2. Explained(registry, transitions)
    BY <1>1 DEF Explained, Typed, Originated, SoundTrail, OneChampion, KeptChampion, Chained,
                EndsAtChampion, Versioned, ChampionsIn
<1>3. Fresh(transitions) /\ LastCrowning(transitions) /\ CrownedExcept(registry, transitions, NULL)
    BY <1>1 DEF Fresh, LastCrowning, CrownedBy, CrownedExcept
<1> QED
    BY <1>1, <1>2, <1>3 DEF GovInv, Trailed

-----------------------------------------------------------------------------
(* The operations of the command lines *)

LEMMA LastCrowningAppended ==
    ASSUME NEW t \in Seq(Transitions), LastCrowning(t), NEW x \in Transitions
    PROVE  LastCrowning(Append(t, x))
<1> DEFINE u == Append(t, x)
<1>1. /\ Len(t) \in Nat /\ Len(u) = Len(t) + 1
      /\ \A i \in 1..Len(t) : u[i] = t[i]
      /\ u[Len(t) + 1] = x
    BY AppendedTrail
<1> HIDE DEF u
<1> SUFFICES ASSUME NEW m \in Models, CrownedBy(u, m) # {}
             PROVE  \E i \in CrownedBy(u, m) : \A j \in CrownedBy(u, m) : i >= j
    BY DEF LastCrowning, u
<1>2. CASE x.new = m
    <2>1. Len(t) + 1 \in CrownedBy(u, m) /\ \A j \in CrownedBy(u, m) : Len(t) + 1 >= j
        BY <1>1, <1>2 DEF CrownedBy
    <2> QED
        BY <2>1
<1>3. CASE x.new # m
    <2>1. CrownedBy(u, m) = CrownedBy(t, m)
        BY <1>1, <1>3 DEF CrownedBy
    <2> QED
        BY <2>1 DEF LastCrowning
<1> QED
    BY <1>2, <1>3

(* One audited transition, from a registry that may be staged. *)
LEMMA TransitionStep ==
    ASSUME NEW reg, NEW t, Trailed(reg, t), NEW x \in Transitions,
           CrownedExcept(reg, t, x.previous),
           SoundTransition(reg, x), reg[x.previous].role = "champion",
           x.type = "promotion" =>
               /\ x.decision \in Decisions
               /\ x.decision.champion = x.previous /\ x.decision.challenger = x.new
               /\ x.decision.championVersion = reg[x.previous].version
               /\ x.decision.challengerVersion = reg[x.new].version
               /\ x.decision.decision = "promote"
               /\ \A j \in 1..Len(t) : t[j].decision # x.decision,
           x.type = "rollback" => x.decision = NULL
    PROVE  LET new == SwapRoles(reg, x.previous, x.new)
           IN  /\ Trailed(new, Append(t, x))
               /\ CrownedExcept(new, Append(t, x), NULL)
               /\ \A n \in Models : reg[n] # NULL => new[n] # NULL
<1> DEFINE new == SwapRoles(reg, x.previous, x.new)
           u == Append(t, x)
<1>1. Explained(reg, t) /\ Fresh(t) /\ LastCrowning(t) /\ t \in Seq(Transitions)
      /\ x.previous \in Models /\ x.new \in Models
    BY DEF Trailed, Explained, Typed, Transitions
<1>2. /\ Explained(new, u)
      /\ \A n \in Models : reg[n] # NULL => new[n] # NULL
      /\ \A n \in Models : new[n] # NULL /\ new[n].role = "champion" =>
             n = x.new \/ (n # x.previous /\ new[n] = reg[n])
    BY <1>1, SwapKeeps
<1>3. x.type = "promotion" =>
          /\ x.decision \in Decisions
          /\ x.decision.championVersion = 1 + Cardinality(TouchingIn(t, x.decision.champion, Len(t)))
          /\ x.decision.challengerVersion = 1 + Cardinality(TouchingIn(t, x.decision.challenger, Len(t)))
          /\ x.decision.decision = "promote"
          /\ \A j \in 1..Len(t) : t[j].decision # x.decision
    BY <1>1 DEF Explained, Versioned, SoundTransition
<1>4. Fresh(u) /\ LastCrowning(u)
    BY <1>1, <1>3, FreshAppended, LastCrowningAppended
<1>5. /\ Len(t) \in Nat /\ Len(u) = Len(t) + 1
      /\ \A i \in 1..Len(t) : u[i] = t[i]
      /\ u[Len(t) + 1] = x
    BY <1>1, AppendedTrail
<1> HIDE DEF new, u
<1>6. \A m : CrownedBy(t, m) \subseteq CrownedBy(u, m)
    BY <1>5 DEF CrownedBy
<1>7. Len(t) + 1 \in CrownedBy(u, x.new)
    BY <1>5 DEF CrownedBy
<1>8. CrownedExcept(new, u, NULL)
    BY <1>2, <1>6, <1>7 DEF CrownedExcept
<1> QED
    BY <1>2, <1>4, <1>8 DEF Trailed, new, u

LEMMA RegisterModelInvariant ==
    ASSUME GovInv, NEW m \in Models, NEW role \in Roles, RegisterModel(m, role)
    PROVE  GovInv'
<1>1. /\ UNCHANGED <<decisions, transitions, draft>>
      /\ registry' = RegisterVerifiedIdentity(registry, m, role, "engine-cli")
      /\ m \in CliModels
      /\ role = "champion" => ChampionsIn(registry, ScopeOf[m]) = {}
      /\ Explained(registry, transitions) /\ Origin(m, "engine-cli")
    BY DEF RegisterModel, Champions, Registered, ChampionsIn, GovInv, Trailed, Origin
<1>2. /\ Explained(registry', transitions)
      /\ \A n \in Models : registry[n] # NULL => registry'[n] = registry[n]
      /\ \A n \in Models \ {m} : registry'[n] = registry[n]
    BY <1>1, RegisterKeeps
<1>3. Trailed(registry', transitions') /\ CrownedExcept(registry', transitions', NULL)
    BY <1>1, <1>2 DEF GovInv, Trailed, CrownedExcept
<1>4. \A d \in Decisions : Comparable(d) => Comparable(d)'
    BY <1>1, <1>2 DEF Comparable, Decisions
<1> QED
    BY <1>1, <1>3, <1>4 DEF GovInv

LEMMA DecisionKinds ==
    ASSUME NEW m, NEW n, NEW e, NEW f, NEW p
    PROVE  DecisionKind(m, n, e, f, p) \in {"reject", "hold", "retain", "promote"}
BY DEF DecisionKind

LEMMA EvaluateInvariant ==
    ASSUME GovInv, NEW m \in Models, NEW n \in Models, NEW p \in Policies, NEW asOf \in AsOfs,
           Evaluate(m, n, p, asOf)
    PROVE  GovInv'
<1>1. PICK e \in BuildModelEvaluationEvidence(m), f \in BuildModelEvaluationEvidence(n) :
          draft' = EvaluateChallenger(m, n, e, f, p, asOf)
    BY DEF Evaluate
<1>2. /\ UNCHANGED <<registry, decisions, transitions>>
      /\ registry[m] # NULL /\ registry[n] # NULL
    BY DEF Evaluate, Registered
<1>3. m \in CliModels /\ n \in CliModels
    BY <1>1 DEF BuildModelEvaluationEvidence
<1>4. e \in EvidenceRecords /\ f \in EvidenceRecords
    BY <1>1 DEF EvidenceRecords
<1>5. registry[m].version \in Nat /\ registry[n].version \in Nat
    BY <1>2 DEF GovInv, Trailed, Explained, Typed, Entries
<1> DEFINE kind == DecisionKind(m, n, e, f, p)
<1>6. kind \in {"reject", "hold", "retain", "promote"}
    BY DecisionKinds
<1> HIDE DEF kind
<1>7. draft' \in Decisions /\ draft'.champion = m /\ draft'.challenger = n
    BY <1>1, <1>4, <1>5, <1>6 DEF EvaluateChallenger, Decisions, kind
<1>8. Comparable(draft)'
    BY <1>2, <1>3, <1>7 DEF Comparable, Paired
<1> QED
    BY <1>2, <1>7, <1>8 DEF GovInv, Comparable

LEMMA RecordDecisionInvariant ==
    ASSUME GovInv, RecordDecision
    PROVE  GovInv'
BY DEF GovInv, RecordDecision, Comparable

LEMMA ApplyPromotionInvariant ==
    ASSUME GovInv, NEW d \in decisions, ApplyPromotion(d)
    PROVE  GovInv'
<1> DEFINE x == [type |-> "promotion", decision |-> d, of |-> 0,
                 previous |-> d.champion, new |-> d.challenger]
<1>1. /\ Trailed(registry, transitions) /\ d \in Decisions /\ Comparable(d)
      /\ d.champion \in Models /\ d.challenger \in Models
      /\ transitions \in Seq(Transitions)
    BY DEF GovInv, Decisions, Trailed, Explained, Typed
<1>2. /\ registry' = SwapRoles(registry, d.champion, d.challenger)
      /\ transitions' = Append(transitions, x)
      /\ PromotionIsCurrent(registry, d) /\ d.decision = "promote"
      /\ UNCHANGED <<decisions, draft>>
      /\ ~Applied(d)
    BY DEF ApplyPromotion, Promote
<1>3. \A j \in 1..Len(transitions) : transitions[j].decision # d
    BY <1>1, <1>2, TrailFacts DEF Applied
<1>4. /\ x \in Transitions /\ x.type = "promotion" /\ x.decision = d
      /\ x.previous = d.champion /\ x.new = d.challenger
    BY <1>1 DEF Transitions
<1> HIDE DEF x
<1>5. SoundTransition(registry, x) /\ registry[x.previous].role = "champion"
    BY <1>1, <1>2, <1>4 DEF SoundTransition, Comparable, PromotionIsCurrent
<1>6. CrownedExcept(registry, transitions, x.previous)
    BY GovernanceAssumption DEF GovInv, CrownedExcept
<1>7. /\ Trailed(registry', transitions')
      /\ CrownedExcept(registry', transitions', NULL)
      /\ \A n \in Models : registry[n] # NULL => registry'[n] # NULL
    <2>1. /\ x.decision.championVersion = registry[x.previous].version
          /\ x.decision.challengerVersion = registry[x.new].version
        BY <1>2, <1>4 DEF PromotionIsCurrent
    <2> QED
        BY <1>1, <1>2, <1>3, <1>4, <1>5, <1>6, <2>1, TransitionStep
<1>8. \A e \in Decisions : Comparable(e) => Comparable(e)'
    BY <1>7 DEF Comparable, Decisions
<1> QED
    BY <1>2, <1>7, <1>8 DEF GovInv

LEMMA RollbackInvariant ==
    ASSUME GovInv, NEW i \in DOMAIN transitions, RollbackTransition(i)
    PROVE  GovInv'
<1> DEFINE t == transitions[i]
           x == [type |-> "rollback", decision |-> NULL, of |-> i,
                 previous |-> t.new, new |-> t.previous]
<1>1. /\ Trailed(registry, transitions) /\ transitions \in Seq(Transitions)
      /\ i \in 1..Len(transitions) /\ i \in Nat
      /\ t.new \in Models /\ t.previous \in Models
      /\ SoundTransition(registry, t)
    <2>1. Trailed(registry, transitions) /\ transitions \in Seq(Transitions)
        BY DEF GovInv, Trailed, Explained, Typed
    <2>2. i \in 1..Len(transitions) /\ i \in Nat
        BY <2>1, TrailFacts
    <2> QED
        BY <2>1, <2>2, TrailFacts DEF Trailed, Explained, SoundTrail
<1>2. /\ registry' = SwapRoles(registry, t.new, t.previous)
      /\ transitions' = Append(transitions, x)
      /\ registry[t.new].role = "champion"
      /\ UNCHANGED <<decisions, draft>>
    BY DEF RollbackTransition
<1>3. /\ x \in Transitions /\ x.type = "rollback" /\ x.decision = NULL
      /\ x.previous = t.new /\ x.new = t.previous
    BY <1>1 DEF Transitions
<1> HIDE DEF x, t
<1>4. SoundTransition(registry, x) /\ registry[x.previous].role = "champion"
    BY <1>1, <1>2, <1>3 DEF SoundTransition, Paired
<1>5. CrownedExcept(registry, transitions, x.previous)
    BY GovernanceAssumption DEF GovInv, CrownedExcept
<1>6. /\ Trailed(registry', transitions')
      /\ CrownedExcept(registry', transitions', NULL)
      /\ \A n \in Models : registry[n] # NULL => registry'[n] # NULL
    BY <1>1, <1>2, <1>3, <1>4, <1>5, TransitionStep
<1>7. \A e \in Decisions : Comparable(e) => Comparable(e)'
    BY <1>6 DEF Comparable, Decisions
<1> QED
    BY <1>2, <1>6, <1>7 DEF GovInv

LEMMA CliInvariant ==
    GovInv /\ CliNext => GovInv'
BY RegisterModelInvariant, EvaluateInvariant, RecordDecisionInvariant, ApplyPromotionInvariant,
   RollbackInvariant DEF CliNext

-----------------------------------------------------------------------------
(* The progress of a prepare_score_champions call *)

Progress ==
    [stage : {"idle", "check", "tournament", "gates", "commit", "resolve"},
     todo : Seq(Competitions), winner : Candidates \cup {NULL},
     prepared : SUBSET Competitions, blocked : SUBSET Competitions]

(* A call at work has a competition in hand; once its candidates are        *)
(* published its winner is that of the competition's tournament.           *)
SoundCall(p, outcomes) ==
    /\ p \in Progress
    /\ p.stage # "idle" => p.todo # <<>>
    /\ p.stage = "commit" => /\ p.winner = outcomes[Head(p.todo)]
                             /\ p.winner \in CandidatesOf[Head(p.todo)]

PrepInv ==
    /\ tournament \in [Competitions -> Candidates \cup {"ineligible", NULL}]
    /\ DOMAIN prep = Callers
    /\ \A k \in Callers : SoundCall(prep[k], tournament)

LEMMA MovedCall ==
    ASSUME NEW p \in Progress, NEW stage \in {"idle", "check"}, NEW todo \in Seq(Competitions)
    PROVE  LET q == [p EXCEPT !.stage = stage, !.todo = todo, !.winner = NULL]
           IN  q \in Progress /\ q.stage = stage /\ q.todo = todo
<1> DEFINE q1 == [p EXCEPT !.stage = stage]
           q2 == [q1 EXCEPT !.todo = todo]
           q3 == [q2 EXCEPT !.winner = NULL]
<1>1. q1 \in Progress /\ q1.stage = stage
    BY DEF Progress
<1> HIDE DEF q1
<1>2. q2 \in Progress /\ q2.stage = stage /\ q2.todo = todo
    BY <1>1 DEF Progress
<1> HIDE DEF q2
<1>3. q3 \in Progress /\ q3.stage = stage /\ q3.todo = todo
    BY <1>2 DEF Progress
<1> QED
    BY <1>3 DEF q1, q2

LEMMA AdvanceSound ==
    ASSUME NEW p \in Progress, p.todo # <<>>, NEW outcomes
    PROVE  SoundCall(Advance(p), outcomes)
<1>1. /\ p.todo \in Seq(Competitions) /\ p.todo # <<>>
      /\ Len(p.todo) \in Nat /\ Len(p.todo) # 0
    BY EmptySeq DEF Progress
<1>2. /\ Tail(p.todo) \in Seq(Competitions)
      /\ Len(Tail(p.todo)) = Len(p.todo) - 1
    BY <1>1, HeadTailProperties
<1>3. Len(p.todo) # 1 => Tail(p.todo) # <<>>
    <2>1. Len(p.todo) # 1 => Len(Tail(p.todo)) # 0
        BY <1>1, <1>2
    <2> QED
        BY <1>2, <2>1, EmptySeq
<1>4. <<>> \in Seq(Competitions)
    OBVIOUS
<1>5. CASE Len(p.todo) = 1
    <2> DEFINE q == [p EXCEPT !.stage = "idle", !.todo = <<>>, !.winner = NULL]
    <2>1. q \in Progress /\ q.stage = "idle"
        BY <1>4, MovedCall
    <2>2. Advance(p) = q
        BY <1>5 DEF Advance
    <2> HIDE DEF q
    <2> QED
        BY <2>1, <2>2 DEF SoundCall
<1>6. CASE Len(p.todo) # 1
    <2> DEFINE q == [p EXCEPT !.stage = "check", !.todo = Tail(@), !.winner = NULL]
    <2>1. q \in Progress /\ q.stage = "check" /\ q.todo = Tail(p.todo)
        BY <1>2, MovedCall
    <2>2. Advance(p) = q
        BY <1>6 DEF Advance
    <2> HIDE DEF q
    <2> QED
        BY <1>3, <1>6, <2>1, <2>2 DEF SoundCall
<1> QED
    BY <1>5, <1>6

LEMMA CurrentCompetition ==
    ASSUME PrepInv, NEW k \in Callers, prep[k].stage # "idle"
    PROVE  Current(k) \in Competitions /\ prep[k] \in Progress /\ prep[k].todo # <<>>
<1>1. prep[k] \in Progress /\ prep[k].todo # <<>>
    BY DEF PrepInv, SoundCall
<1>2. prep[k].todo \in Seq(Competitions)
    BY <1>1 DEF Progress
<1> QED
    BY <1>1, <1>2, HeadTailProperties DEF Current

(* Both ways a competition is finished leave a sound call. *)
LEMMA FinishedKeeps ==
    ASSUME PrepInv, NEW k \in Callers, prep[k].stage # "idle",
           Prepared(k) \/ Blocked(k), tournament' = tournament
    PROVE  PrepInv'
<1>1. Current(k) \in Competitions /\ prep[k] \in Progress /\ prep[k].todo # <<>>
    BY CurrentCompetition
<1> DEFINE done == [prep[k] EXCEPT !.prepared = @ \cup {Current(k)}]
           stopped == [prep[k] EXCEPT !.blocked = @ \cup {Current(k)}]
<1>2. done \in Progress /\ done.todo # <<>>
    BY <1>1 DEF Progress
<1>3. stopped \in Progress /\ stopped.todo # <<>>
    BY <1>1 DEF Progress
<1>4. \/ prep' = [prep EXCEPT ![k] = Advance(done)]
      \/ prep' = [prep EXCEPT ![k] = Advance(stopped)]
    BY DEF Prepared, Blocked
<1> HIDE DEF done, stopped
<1>5. SoundCall(Advance(done), tournament) /\ SoundCall(Advance(stopped), tournament)
    BY <1>2, <1>3, AdvanceSound
<1> QED
    BY <1>4, <1>5 DEF PrepInv

(* A step of one call to another stage. *)
LEMMA StageChangeKeeps ==
    ASSUME PrepInv, NEW k \in Callers, NEW p, SoundCall(p, tournament),
           prep' = [prep EXCEPT ![k] = p], tournament' = tournament
    PROVE  PrepInv'
BY DEF PrepInv

LEMMA GovInvKept ==
    GovInv /\ UNCHANGED gvars => GovInv'
BY DEF GovInv, gvars, Trailed, CrownedExcept, Comparable

LEMMA PrepareStartInvariant ==
    ASSUME PrepInv, NEW k \in Callers, PrepareStart(k)
    PROVE  PrepInv'
<1> DEFINE p1 == [Idle EXCEPT !.stage = "check"]
           p == [p1 EXCEPT !.todo = Histories]
<1>1. Idle \in Progress
    BY DEF Idle, Progress
<1>2. p1 \in Progress /\ p1.stage = "check"
    BY <1>1 DEF Progress
<1>3. prep' = [prep EXCEPT ![k] = [Idle EXCEPT !.stage = "check", !.todo = Histories]]
      /\ tournament' = tournament
    BY DEF PrepareStart
<1>4. prep' = [prep EXCEPT ![k] = p]
    BY <1>3
<1> HIDE DEF p1
<1>5. p \in Progress /\ p.stage = "check" /\ p.todo = Histories
    BY <1>2, PreparationAssumption DEF Progress
<1> HIDE DEF p
<1>6. SoundCall(p, tournament)
    BY <1>5, PreparationAssumption DEF SoundCall
<1> QED
    BY <1>3, <1>4, <1>6, StageChangeKeeps

(* A call that goes on to a later stage of the same competition. *)
LEMMA NextStage ==
    ASSUME PrepInv, NEW k \in Callers, prep[k].stage # "idle",
           NEW stage \in {"tournament", "gates", "resolve"},
           prep' = [prep EXCEPT ![k].stage = stage], tournament' = tournament
    PROVE  PrepInv'
<1> DEFINE p == [prep[k] EXCEPT !.stage = stage]
<1>1. prep[k] \in Progress /\ prep[k].todo # <<>>
    BY CurrentCompetition
<1>2. prep' = [prep EXCEPT ![k] = p]
    OBVIOUS
<1>3. p \in Progress /\ p.stage = stage /\ p.todo # <<>>
    BY <1>1 DEF Progress
<1> HIDE DEF p
<1>4. SoundCall(p, tournament)
    BY <1>3 DEF SoundCall
<1> QED
    BY <1>2, <1>4, StageChangeKeeps

LEMMA CheckActiveInvariant ==
    ASSUME PrepInv, NEW k \in Callers, CheckActive(k)
    PROVE  PrepInv'
<1>1. prep[k].stage = "check" /\ tournament' = tournament
    BY DEF CheckActive
<1>2. Blocked(k) \/ Prepared(k) \/ prep' = [prep EXCEPT ![k].stage = "tournament"]
    BY DEF CheckActive
<1> QED
    BY <1>1, <1>2, FinishedKeeps, NextStage

LEMMA RunTournamentInvariant ==
    ASSUME PrepInv, NEW k \in Callers, RunTournament(k)
    PROVE  PrepInv'
<1>1. prep[k].stage = "tournament" /\ Current(k) \in Competitions
    BY CurrentCompetition DEF RunTournament
<1>2. CASE /\ prep' = [prep EXCEPT ![k].stage = "gates"]
           /\ tournament' = tournament
    BY <1>1, <1>2, NextStage
<1>3. CASE Blocked(k) /\ tournament' = tournament
    BY <1>1, <1>3, FinishedKeeps
<1>4. CASE /\ tournament[Current(k)] = NULL
           /\ \E o \in CandidatesOf[Current(k)] \cup {"ineligible"} :
                  tournament' = [tournament EXCEPT ![Current(k)] = o]
           /\ prep' = [prep EXCEPT ![k].stage = "gates"]
    <2>1. PICK o \in CandidatesOf[Current(k)] \cup {"ineligible"} :
              tournament' = [tournament EXCEPT ![Current(k)] = o]
        BY <1>4
    <2>2. o \in Candidates \cup {"ineligible"}
        BY <1>1, <2>1 DEF Candidates
    <2>3. tournament' \in [Competitions -> Candidates \cup {"ineligible", NULL}]
        BY <2>1, <2>2 DEF PrepInv
    <2>4. \A c \in Competitions : tournament[c] # NULL => tournament'[c] = tournament[c]
        BY <1>4, <2>1 DEF PrepInv
    <2>5. \A j \in Callers : SoundCall(prep[j], tournament')
        <3> SUFFICES ASSUME NEW j \in Callers PROVE SoundCall(prep[j], tournament')
            OBVIOUS
        <3>1. SoundCall(prep[j], tournament)
            BY DEF PrepInv
        <3>2. CASE prep[j].stage = "commit"
            <4>1. /\ Current(j) \in Competitions /\ prep[j].winner \in CandidatesOf[Current(j)]
                  /\ prep[j].winner = tournament[Current(j)]
                BY <3>1, <3>2, CurrentCompetition DEF SoundCall, Current
            <4>2. prep[j].winner # NULL
                BY <4>1, PreparationAssumption, GovernanceAssumption
            <4> QED
                BY <2>4, <3>1, <4>1, <4>2 DEF SoundCall, Current
        <3> QED
            BY <3>1, <3>2 DEF SoundCall
    <2>6. prep[k] \in Progress /\ prep[k].todo # <<>>
        BY <1>1, CurrentCompetition
    <2> DEFINE q == [prep[k] EXCEPT !.stage = "gates"]
    <2>7. q \in Progress /\ q.stage = "gates" /\ q.todo # <<>> /\ prep' = [prep EXCEPT ![k] = q]
        BY <1>4, <2>6 DEF Progress
    <2> HIDE DEF q
    <2>8. SoundCall(q, tournament')
        BY <2>7 DEF SoundCall
    <2> QED
        BY <2>3, <2>5, <2>7, <2>8 DEF PrepInv
<1> QED
    BY <1>2, <1>3, <1>4 DEF RunTournament

LEMMA PublishCandidatesInvariant ==
    ASSUME PrepInv, NEW k \in Callers, PublishCandidates(k)
    PROVE  PrepInv'
<1> DEFINE winner == tournament[Current(k)]
           p1 == [prep[k] EXCEPT !.stage = "commit"]
           p2 == [p1 EXCEPT !.winner = winner]
<1>1. /\ prep[k].stage = "gates" /\ Current(k) \in Competitions /\ tournament' = tournament
      /\ prep[k] \in Progress /\ prep[k].todo # <<>>
    BY CurrentCompetition DEF PublishCandidates
<1>2. CASE winner \notin CandidatesOf[Current(k)]
    BY <1>1, <1>2, FinishedKeeps DEF PublishCandidates
<1>3. CASE winner \in CandidatesOf[Current(k)]
    <2>1. prep' = [prep EXCEPT ![k].stage = "commit", ![k].winner = winner]
        BY <1>3 DEF PublishCandidates
    <2>2. prep' = [prep EXCEPT ![k] = p2]
        BY <2>1 DEF PrepInv
    <2>3. winner \in Candidates
        BY <1>1, <1>3 DEF Candidates
    <2>4. Current(k) = Head(prep[k].todo)
        BY DEF Current
    <2> HIDE DEF winner
    <2>5. p1 \in Progress /\ p1.stage = "commit" /\ p1.todo = prep[k].todo
        BY <1>1 DEF Progress
    <2> HIDE DEF p1
    <2>6. p2 \in Progress /\ p2.stage = "commit" /\ p2.todo = prep[k].todo /\ p2.winner = winner
        BY <2>3, <2>5 DEF Progress
    <2> HIDE DEF p2
    <2>7. SoundCall(p2, tournament)
        BY <1>1, <1>3, <2>4, <2>6 DEF SoundCall, winner
    <2> QED
        BY <1>1, <2>2, <2>7, StageChangeKeeps
<1> QED
    BY <1>2, <1>3

LEMMA ResolvePreparedInvariant ==
    ASSUME PrepInv, NEW k \in Callers, ResolvePrepared(k)
    PROVE  PrepInv'
<1>1. prep[k].stage = "resolve" /\ tournament' = tournament /\ (Prepared(k) \/ Blocked(k))
    BY DEF ResolvePrepared
<1> QED
    BY <1>1, FinishedKeeps

-----------------------------------------------------------------------------
(* The transaction of the preparation *)

LEMMA IncumbentFacts ==
    ASSUME NEW c \in Competitions, NEW winner \in CandidatesOf[c]
    PROVE  /\ Incumbent(c, winner) \in CandidatesOf[c] /\ Incumbent(c, winner) # winner
           /\ {Incumbent(c, winner), winner} = CandidatesOf[c]
<1> DEFINE others == CandidatesOf[c] \ {winner}
<1>1. IsFiniteSet(CandidatesOf[c]) /\ Cardinality(CandidatesOf[c]) = 2
    BY PreparationAssumption
<1>2. IsFiniteSet(others) /\ Cardinality(others) = 1
    BY <1>1, FS_RemoveElement
<1>3. PICK m : others = {m}
    BY <1>2, FS_Singleton
<1>4. m \in CandidatesOf[c] /\ m # winner /\ \A n \in CandidatesOf[c] : n = winner \/ n = m
    BY <1>3
<1>5. Incumbent(c, winner) \in CandidatesOf[c] /\ Incumbent(c, winner) # winner
    BY <1>4 DEF Incumbent
<1> QED
    BY <1>4, <1>5

LEMMA CommitPreparationInvariant ==
    ASSUME GovInv, PrepInv, NEW k \in Callers, CommitPreparation(k)
    PROVE  GovInv' /\ PrepInv'
<1> DEFINE c == Current(k)
           w == prep[k].winner
           a == Incumbent(c, w)
           one == RegisterVerifiedIdentity(registry, a, "challenger", c)
           reg == RegisterVerifiedIdentity(one, w, "challenger", c)
           d == PreparationDecision(reg, a, w)
<1>1. /\ prep[k].stage = "commit" /\ c \in Competitions /\ tournament' = tournament
      /\ w \in CandidatesOf[c] /\ w = tournament[c]
    BY CurrentCompetition DEF CommitPreparation, PrepInv, SoundCall, Current
<1>2. WithCandidates(c) = reg
    BY <1>1 DEF WithCandidates
<1>3. a \in CandidatesOf[c] /\ a # w /\ {a, w} = CandidatesOf[c]
    BY <1>1, IncumbentFacts
<1>4. /\ a \in Models \ CliModels /\ w \in Models \ CliModels
      /\ a \in Candidates /\ w \in Candidates
    BY <1>1, <1>3, PreparationAssumption DEF Candidates
<1>5. \/ Blocked(k) /\ UNCHANGED gvars
      \/ /\ Recordable(d)
         /\ decisions' = decisions \cup {d}
         /\ registry' = reg
         /\ UNCHANGED transitions
         /\ Blocked(k)
         /\ UNCHANGED draft
      \/ /\ decisions' = decisions \cup {d}
         /\ ~Applied(d)
         /\ ApplyInitialPromotion(reg, d)
         /\ prep' = [prep EXCEPT ![k].stage = "resolve"]
         /\ UNCHANGED draft
    BY <1>2 DEF CommitPreparation
<1>6. PrepInv'
    BY <1>1, <1>5, FinishedKeeps, NextStage
<1>7. Explained(registry, transitions) /\ Origin(a, c) /\ Origin(w, c)
      /\ "challenger" \in Roles /\ c \in Competitions \cup {"engine-cli"}
    BY <1>1, <1>3, <1>4 DEF GovInv, Trailed, Origin, Roles
<1> HIDE DEF c, w, a, one, reg, d
<1>8. /\ Explained(one, transitions) /\ one[a] # NULL
      /\ \A n \in Models : registry[n] # NULL => one[n] = registry[n]
      /\ registry[a] = NULL => one[a].role = "challenger"
      /\ \A n \in Models \ {a} : one[n] = registry[n]
    BY <1>4, <1>7, RegisterKeeps DEF one
<1>9. /\ Explained(reg, transitions) /\ reg[w] # NULL
      /\ \A n \in Models : one[n] # NULL => reg[n] = one[n]
      /\ one[w] = NULL => reg[w].role = "challenger"
      /\ \A n \in Models \ {w} : reg[n] = one[n]
    BY <1>4, <1>7, <1>8, RegisterKeeps DEF reg
<1>10. reg[a] # NULL /\ \A n \in Models : registry[n] # NULL => reg[n] # NULL
    BY <1>4, <1>8, <1>9
<1>11. Trailed(reg, transitions) /\ CrownedExcept(reg, transitions, NULL)
    <2>1. \A n \in Models : reg[n] # NULL /\ reg[n].role = "champion" => reg[n] = registry[n]
        BY <1>4, <1>8, <1>9
    <2> QED
        BY <1>9, <2>1 DEF GovInv, Trailed, CrownedExcept
<1>12. d \in Decisions /\ d.champion = a /\ d.challenger = w
    <2> DEFINE e == TournamentEvidence[a]
               f == TournamentEvidence[w]
               kind == DecisionKind(a, w, e, f, DefaultPolicy)
               last == f.window[2]
    <2>1. kind \in {"reject", "hold", "retain", "promote"}
        BY DecisionKinds
    <2>2. e \in EvidenceRecords /\ f \in EvidenceRecords
        <3>1. e \in {TournamentEvidence[m] : m \in Candidates} /\ f \in {TournamentEvidence[m] : m \in Candidates}
            BY <1>4
        <3> HIDE DEF e, f
        <3> QED
            BY <3>1 DEF EvidenceRecords
    <2>3. last \in {TournamentEvidence[m].window[2] : m \in Candidates}
        BY <1>4
    <2>4. reg[a].version \in Nat /\ reg[w].version \in Nat
        BY <1>4, <1>9, <1>10 DEF Explained, Typed, Entries
    <2>5. d = [champion |-> a, challenger |-> w,
               championVersion |-> reg[a].version, challengerVersion |-> reg[w].version,
               evidence |-> <<e, f>>, policy |-> DefaultPolicy, asOf |-> last, decision |-> kind]
        BY DEF d, PreparationDecision
    <2> HIDE DEF e, f, kind, last
    <2> QED
        BY <1>4, <2>1, <2>2, <2>3, <2>4, <2>5 DEF Decisions
<1>13. Paired(a, w)
    BY <1>1, <1>3 DEF Paired
<1> PICK record \in Decisions : record = d
    BY <1>12
<1>14. ASSUME \A n \in Models : registry[n] # NULL => registry'[n] # NULL,
              registry'[a] # NULL, registry'[w] # NULL,
              decisions' = decisions \cup {d}, draft' = draft
       PROVE  /\ decisions' \subseteq Decisions /\ \A e \in decisions' : Comparable(e)'
              /\ draft' \in Decisions \cup {NULL} /\ (draft' # NULL => Comparable(draft)')
    <2>1. \A e \in Decisions : Comparable(e) => Comparable(e)'
        BY <1>14 DEF Comparable, Decisions
    <2>2. Comparable(record)'
        <3>1. /\ record.champion = a /\ record.challenger = w
              /\ registry'[record.champion] # NULL /\ registry'[record.challenger] # NULL
            BY <1>12, <1>14
        <3> QED
            BY <1>13, <3>1 DEF Comparable
    <2>3. decisions' = decisions \cup {record}
        BY <1>14
    <2>4. decisions \subseteq Decisions /\ \A e \in decisions : Comparable(e)'
        BY <2>1 DEF GovInv
    <2>5. draft' \in Decisions \cup {NULL} /\ (draft' # NULL => Comparable(draft)')
        BY <1>14 DEF GovInv, Comparable, Decisions
    <2> QED
        BY <2>2, <2>3, <2>4, <2>5
<1>15. CASE Blocked(k) /\ UNCHANGED gvars
    BY <1>6, <1>15, GovInvKept
<1>16. CASE /\ decisions' = decisions \cup {d}
            /\ registry' = reg
            /\ UNCHANGED transitions
            /\ UNCHANGED draft
    BY <1>6, <1>9, <1>10, <1>11, <1>14, <1>16 DEF GovInv
<1>17. CASE /\ decisions' = decisions \cup {d}
            /\ ~Applied(d)
            /\ ApplyInitialPromotion(reg, d)
            /\ UNCHANGED draft
    <2> DEFINE staged == Staged(reg, a)
               x == [type |-> "promotion", decision |-> d, of |-> 0, previous |-> a, new |-> w]
    <2>1. /\ d.decision = "promote"
          /\ PromotionIsCurrent(staged, d)
          /\ registry' = SwapRoles(staged, a, w)
          /\ transitions' = Append(transitions, x)
          /\ ChampionsIn(reg, ScopeOf[a]) = {}
          /\ ScopeOf[a] = ScopeOf[w]
        BY <1>12, <1>17 DEF ApplyInitialPromotion, Promote, InitialIsCurrent, ChampionsIn, Staged
    <2>2. /\ Explained(staged, transitions)
          /\ staged[a] # NULL /\ staged[a].role = "champion"
          /\ \A n \in Models \ {a} : staged[n] = reg[n]
        BY <1>4, <1>9, <1>10, <2>1, StageKeeps
    <2>3. x \in Transitions /\ x.type = "promotion" /\ x.decision = d /\ x.previous = a /\ x.new = w
        BY <1>4, <1>12 DEF Transitions
    <2> HIDE DEF staged, x
    <2>4. Trailed(staged, transitions)
        BY <1>11, <2>2 DEF Trailed
    <2>5. CrownedExcept(staged, transitions, a)
        BY <1>11, <2>2, GovernanceAssumption DEF CrownedExcept
    <2>6. staged[w] # NULL
        BY <1>3, <1>4, <1>9, <2>2
    <2>7. SoundTransition(staged, x)
        BY <1>3, <1>13, <2>1, <2>2, <2>3, <2>6 DEF SoundTransition
    <2>8. transitions \in Seq(Transitions) /\ \A j \in 1..Len(transitions) : transitions[j].decision # d
        <3>1. transitions \in Seq(Transitions)
            BY DEF GovInv, Trailed, Explained, Typed
        <3> QED
            BY <1>17, <3>1, TrailFacts DEF Applied
    <2>9. x.decision.championVersion = staged[x.previous].version
          /\ x.decision.challengerVersion = staged[x.new].version
        BY <1>12, <2>1, <2>3 DEF PromotionIsCurrent
    <2>10. /\ Trailed(registry', transitions')
           /\ CrownedExcept(registry', transitions', NULL)
           /\ \A n \in Models : staged[n] # NULL => registry'[n] # NULL
        BY <1>12, <2>1, <2>2, <2>3, <2>4, <2>5, <2>7, <2>8, <2>9, TransitionStep
    <2>11. /\ registry'[a] # NULL /\ registry'[w] # NULL
           /\ \A n \in Models : registry[n] # NULL => registry'[n] # NULL
        BY <1>4, <1>10, <2>2, <2>6, <2>10
    <2> QED
        BY <1>6, <1>14, <1>17, <2>10, <2>11 DEF GovInv
<1> QED
    BY <1>5, <1>15, <1>16, <1>17

-----------------------------------------------------------------------------
(* The champion a run resolves *)

LEMMA ResolvedFromInvariant ==
    GovInv => ResolvedIsGoverned
<1> SUFFICES ASSUME GovInv, NEW c \in Competitions, ResolveActiveScoreChampion(c) = "found"
             PROVE  \E m \in ActiveFor(c) :
                        /\ m \in CandidatesOf[c]
                        /\ ActiveTransitionId(m) # 0
                        /\ {transitions[ActiveTransitionId(m)].previous,
                            transitions[ActiveTransitionId(m)].new} = CandidatesOf[c]
    BY DEF ResolvedIsGoverned
<1>1. Cardinality(ActiveFor(c)) = 1
    BY DEF ResolveActiveScoreChampion
<1>2. PICK m \in ActiveFor(c) : TRUE
    BY <1>1, FS_EmptySet
<1>3. /\ m \in Models /\ registry[m] # NULL /\ registry[m].role = "champion"
      /\ registry[m].provenance = c
    BY DEF ActiveFor, Champions, Registered
<1>4. m \notin CliModels /\ m \in CandidatesOf[c]
    BY <1>3, PreparationAssumption DEF GovInv, Trailed, Explained, Originated, Origin
<1>5. CrownedBy(transitions, m) # {}
    BY <1>3, <1>4, GovernanceAssumption DEF GovInv, CrownedExcept
<1> DEFINE last == ActiveTransitionId(m)
<1>6. transitions \in Seq(Transitions) /\ DOMAIN transitions = 1..Len(transitions)
    BY TrailFacts DEF GovInv, Trailed, Explained, Typed
<1>7. last = Max(CrownedBy(transitions, m))
    BY <1>5, <1>6 DEF ActiveTransitionId, CrownedBy
<1>8. \E i \in CrownedBy(transitions, m) : \A j \in CrownedBy(transitions, m) : i >= j
    BY <1>3, <1>5 DEF GovInv, Trailed, LastCrowning
<1>9. last \in CrownedBy(transitions, m)
    BY <1>7, <1>8 DEF Max
<1> HIDE DEF last
<1>10. last \in 1..Len(transitions) /\ last # 0 /\ transitions[last].new = m
    BY <1>6, <1>9, TrailFacts DEF CrownedBy
<1>11. Paired(transitions[last].previous, m)
    BY <1>10 DEF GovInv, Trailed, Explained, SoundTrail, SoundTransition
<1>12. PICK e \in Competitions : {transitions[last].previous, m} = CandidatesOf[e]
    BY <1>4, <1>11 DEF Paired
<1>13. m \in CandidatesOf[e]
    BY <1>12
<1>14. e = c
    BY <1>4, <1>13, PreparationAssumption
<1> QED
    BY <1>2, <1>4, <1>10, <1>12, <1>14 DEF last

-----------------------------------------------------------------------------
(* The theorems *)

LearningInv == GovInv /\ PrepInv

LEMMA PreparationInitInvariant ==
    PreparationInit => LearningInv
<1> SUFFICES ASSUME PreparationInit PROVE PrepInv
    BY GInitInvariant DEF PreparationInit, LearningInv
<1>1. Idle \in Progress /\ Idle.stage = "idle"
    BY DEF Idle, Progress
<1> QED
    BY <1>1 DEF PreparationInit, PrepInv, SoundCall

LEMMA PreparationNextInvariant ==
    LearningInv /\ [PreparationNext]_pvars => LearningInv'
<1> SUFFICES ASSUME GovInv, PrepInv, [PreparationNext]_pvars PROVE GovInv' /\ PrepInv'
    BY DEF LearningInv
<1>1. CASE UNCHANGED <<tournament, prep>> /\ (CliNext \/ UNCHANGED gvars)
    <2>1. GovInv'
        BY <1>1, CliInvariant, GovInvKept
    <2> QED
        BY <1>1, <2>1 DEF PrepInv
<1>2. ASSUME NEW k \in Callers, Prepare(k)
      PROVE  GovInv' /\ PrepInv'
    <2>1. CASE CommitPreparation(k)
        BY <2>1, CommitPreparationInvariant
    <2>2. CASE PrepareStart(k) \/ CheckActive(k) \/ RunTournament(k)
               \/ PublishCandidates(k) \/ ResolvePrepared(k)
        <3>1. UNCHANGED gvars
            BY <2>2 DEF PrepareStart, CheckActive, RunTournament, PublishCandidates, ResolvePrepared
        <3>2. PrepInv'
            BY <2>2, PrepareStartInvariant, CheckActiveInvariant, RunTournamentInvariant,
               PublishCandidatesInvariant, ResolvePreparedInvariant
        <3> QED
            BY <3>1, <3>2, GovInvKept
    <2> QED
        BY <1>2, <2>1, <2>2 DEF Prepare
<1> QED
    BY <1>1, <1>2 DEF PreparationNext, pvars, gvars

(* No promotion outlives its evidence: every promotion in the audit trail   *)
(* compared its two models at the versions they had when it was applied,    *)
(* and no decision was applied twice, whatever the command lines and the    *)
(* preparations of champions did in between (repository.py:292).            *)
THEOREM NoPromotionIsStale == PreparationSpec => []NoStalePromotion
BY PreparationInitInvariant, PreparationNextInvariant, GovInvImplies, PTL
   DEF PreparationSpec, LearningInv

(* The audit trail explains the registry in every scope, and the champion a *)
(* product run resolves is a candidate of its own competition, crowned by   *)
(* an audited transition between that competition's two candidates          *)
(* (champion_preparation.py:300, champion_resolution.py:122).               *)
THEOREM RegistryIsGoverned == PreparationSpec => []GovernedRegistry
<1>1. LearningInv => GovernedRegistry
    BY GovInvImplies, ResolvedFromInvariant DEF LearningInv, GovernedRegistry
<1> QED
    BY <1>1, PreparationInitInvariant, PreparationNextInvariant, PTL DEF PreparationSpec

-----------------------------------------------------------------------------
(***************************************************************************)
(* The closed loop                                                         *)
(***************************************************************************)

(* A report settles every position once, at one time.                       *)
Whole(S, t) ==
    /\ None \notin S
    /\ \A s \in S : s.position \in Positions /\ s.asOf = t
    /\ \A p \in Positions : \E s \in S : s.position = p
    /\ \A s, u \in S : s.position = u.position => s = u

(* A stake earns something exactly when the position was won.                *)
UnitsAgree(s) == s.returned > 1 <=> s.status = "win"

(* A settlement decided by snapshots that were on record at its time.        *)
Founded(s, refs) ==
    /\ s.status \in FairStatus(s.evidence, s.position)
    /\ s.evidence \subseteq refs
    /\ \A r \in s.evidence : r.observed <= s.asOf
    /\ UnitsAgree(s)

Conflicting(s) ==
    /\ current[s.position] # None
    /\ current[s.position] # s
    /\ \/ s.asOf <= current[s.position].asOf
       \/ ~AllowedCurrentTransition(current[s.position].status, s.status)

Audited(s) == \E kind \in {"contradictory", "stale"} : <<kind, s.position>> \in audits

(* What a job holds between its steps.                                       *)
SoundJob(jb) ==
    /\ jb = [kind |-> jb.kind, refs |-> jb.refs, asOf |-> jb.asOf,
             stage |-> jb.stage, settlements |-> jb.settlements]
    /\ jb.asOf \in SettlementTimes
    /\ Whole(jb.settlements, jb.asOf)
    /\ \A s \in jb.settlements : Founded(s, jb.refs)
    /\ jb.kind # "operator" => jb.refs \subseteq results
    /\ jb.stage \in {"publish", "audit", "audited"}
    /\ jb.stage = "audit" => \E s \in jb.settlements : Conflicting(s)
    /\ jb.stage = "audited" => \E s \in jb.settlements : Audited(s)

RunsInv ==
    /\ \A r \in sruns : /\ r.asOf \in SettlementTimes
                        /\ Whole(r.settlements, r.asOf)
                        /\ r.settlements \subseteq settlements
                        /\ \A s \in r.settlements : UnitsAgree(s)
    /\ \A r, q \in sruns : r.asOf = q.asOf => r = q
    /\ \A s \in settlements : \E r \in sruns : s \in r.settlements

(* The current settlement is the latest, and a final one stays current.      *)
CurrentInv ==
    /\ current \in [Positions -> {None} \cup settlements]
    /\ \A p \in Positions : current[p] # None => current[p].position = p
    /\ \A s \in settlements :
          /\ current[s.position] # None
          /\ s.asOf <= current[s.position].asOf
          /\ s.status \in Final => current[s.position] = s

Closed(t) == {p \in Positions : \E s \in HistoryAsOf(p, t) : s.status \in Final}

MonitoredInv ==
    monitored # None =>
        /\ monitored = [asOf |-> monitored.asOf, inputs |-> monitored.inputs,
                        stage |-> monitored.stage]
        /\ monitored.asOf \in SettlementTimes
        /\ monitored.inputs.settled \in Nat
        /\ monitored.inputs.settled <= Cardinality(Closed(monitored.asOf))

JobsInv ==
    /\ job = [j \in Jobs |-> job[j]]
    /\ \A j \in Jobs : job[j] # None => SoundJob(job[j])

ClosedInv ==
    /\ RunsInv /\ CurrentInv /\ MonitoredInv /\ JobsInv
    /\ \A s \in settlements : EvidenceDecides(s)

-----------------------------------------------------------------------------
(* One settlement *)

(* Induction over the naturals, for a set of them. *)
Smaller == {ss \in Nat \X Nat : ss[1] < ss[2]}

LEMMA SmallerWellFounded == IsWellFoundedOn(Smaller, Nat)
BY NatLessThanWellFounded DEF OpToRel, Smaller

LEMMA NaturalInduction ==
    ASSUME NEW T, 0 \in T, \A n \in Nat : n \in T => n + 1 \in T
    PROVE  Nat \subseteq T
<1>1. SUFFICES ASSUME Nat \ T # {} PROVE FALSE
    OBVIOUS
<1>2. PICK n \in Nat \ T : \A m \in Nat \ T : ~ (<<m, n>> \in Smaller)
    BY <1>1, SmallerWellFounded, WFMin
<1>3. n # 0 /\ n - 1 \in Nat /\ n - 1 < n
    OBVIOUS
<1>4. n - 1 \in T
    BY <1>2, <1>3 DEF Smaller
<1> QED
    BY <1>3, <1>4

(* The fold of CombinationReturn: the product of the odds of some legs, as a *)
(* function that MapThenFoldSet chooses among those with this equation.      *)
SomeLeg(W) == CHOOSE l \in W : TRUE
Multiplies(g, D) == \A W \in D : g[W] = IF W = {} THEN 1 ELSE SomeLeg(W)[3] * g[W \ {SomeLeg(W)}]
Product(W) ==
    MapThenFoldSet(LAMBDA x, y : x * y, 1, LAMBDA l : l[3], LAMBDA S : CHOOSE l \in S : TRUE, W)
UpTo(S, n) == {W \in SUBSET S : Cardinality(W) <= n}

LEMMA SmallerSubset ==
    ASSUME NEW S, IsFiniteSet(S), NEW W \in SUBSET S, W # {}
    PROVE  /\ SomeLeg(W) \in W /\ W \ {SomeLeg(W)} \in SUBSET S
           /\ Cardinality(W) \in Nat /\ Cardinality(W) > 0
           /\ Cardinality(W \ {SomeLeg(W)}) = Cardinality(W) - 1
<1>1. SomeLeg(W) \in W
    BY DEF SomeLeg
<1>2. IsFiniteSet(W)
    BY FS_Subset
<1> QED
    BY <1>1, <1>2, FS_RemoveElement, FS_CardinalityType, FS_EmptySet

(* There is such a function, level by level of the number of legs.           *)
LEMMA ProductIsDefined ==
    ASSUME NEW S, IsFiniteSet(S)
    PROVE  \E g : g = [W \in SUBSET S |-> g[W]] /\ Multiplies(g, SUBSET S)
<1> DEFINE T == {n \in Nat : \E g : Multiplies(g, UpTo(S, n))}
<1>1. 0 \in T
  <2> DEFINE g == [W \in UpTo(S, 0) |-> 1]
  <2>1. ASSUME NEW W \in UpTo(S, 0), W # {} PROVE FALSE
    <3>1. W \in SUBSET S /\ Cardinality(W) <= 0
      BY DEF UpTo
    <3>2. Cardinality(W) \in Nat /\ Cardinality(W) > 0
      BY <2>1, <3>1, SmallerSubset
    <3> QED
      BY <3>1, <3>2
  <2>2. Multiplies(g, UpTo(S, 0))
    BY <2>1 DEF Multiplies
  <2> QED
    BY <2>2
<1>2. ASSUME NEW n \in Nat, n \in T PROVE n + 1 \in T
  <2>1. PICK g : Multiplies(g, UpTo(S, n))
    BY <1>2
  <2> DEFINE h == [W \in UpTo(S, n + 1) |->
                      IF W = {} THEN 1 ELSE SomeLeg(W)[3] * g[W \ {SomeLeg(W)}]]
  <2>2. ASSUME NEW W \in UpTo(S, n) PROVE W \in UpTo(S, n + 1) /\ h[W] = g[W]
    <3>1. W \in UpTo(S, n + 1)
      BY FS_Subset, FS_CardinalityType DEF UpTo
    <3> QED
      BY <2>1, <3>1 DEF Multiplies
  <2>3. ASSUME NEW W \in UpTo(S, n + 1), W # {} PROVE W \ {SomeLeg(W)} \in UpTo(S, n)
    BY <2>3, SmallerSubset DEF UpTo
  <2>4. ASSUME NEW W \in UpTo(S, n + 1)
        PROVE  h[W] = IF W = {} THEN 1 ELSE SomeLeg(W)[3] * h[W \ {SomeLeg(W)}]
    <3>1. CASE W = {}
      BY <3>1
    <3>2. CASE W # {}
      <4>1. h[W \ {SomeLeg(W)}] = g[W \ {SomeLeg(W)}]
        BY <3>2, <2>2, <2>3
      <4>2. h[W] = SomeLeg(W)[3] * g[W \ {SomeLeg(W)}]
        BY <3>2
      <4> QED
        BY <3>2, <4>1, <4>2
    <3> QED
      BY <3>1, <3>2
  <2> HIDE DEF h
  <2>5. Multiplies(h, UpTo(S, n + 1))
    BY <2>4 DEF Multiplies
  <2> QED
    BY <2>5
<1>3. Cardinality(S) \in T
  <2> HIDE DEF T
  <2> QED
    BY <1>1, <1>2, NaturalInduction, FS_CardinalityType
<1>4. UpTo(S, Cardinality(S)) = SUBSET S
    BY FS_Subset DEF UpTo
<1>5. PICK g : Multiplies(g, SUBSET S)
    BY <1>3, <1>4
<1> DEFINE h == [W \in SUBSET S |-> g[W]]
<1>6. Multiplies(h, SUBSET S)
    BY <1>5, SmallerSubset DEF Multiplies
<1>7. h = [W \in SUBSET S |-> h[W]]
    OBVIOUS
<1> HIDE DEF h
<1> QED
    BY <1>6, <1>7

(* Winning odds exceed one, and so does their product.                       *)
LEMMA ProductExceedsOne ==
    ASSUME NEW S, IsFiniteSet(S), S # {}, \A l \in S : l[3] \in Nat /\ l[3] > 1
    PROVE  Product(S) \in Nat /\ Product(S) > 1
<1> DEFINE g == CHOOSE f : f = [W \in SUBSET S |->
                     IF W = {} THEN 1 ELSE SomeLeg(W)[3] * f[W \ {SomeLeg(W)}]]
           T == {n \in Nat : \A W \in UpTo(S, n) : g[W] \in Nat /\ g[W] >= 1 /\ (W # {} => g[W] > 1)}
<1>1. Product(S) = g[S]
    BY DEF Product, MapThenFoldSet, SomeLeg
<1>2. PICK f : f = [W \in SUBSET S |-> f[W]] /\ Multiplies(f, SUBSET S)
    BY ProductIsDefined
<1>3. f = [W \in SUBSET S |-> IF W = {} THEN 1 ELSE SomeLeg(W)[3] * f[W \ {SomeLeg(W)}]]
    BY <1>2 DEF Multiplies
<1>4. g = [W \in SUBSET S |-> IF W = {} THEN 1 ELSE SomeLeg(W)[3] * g[W \ {SomeLeg(W)}]]
    BY <1>3
<1> HIDE DEF g
<1>5. 0 \in T
  <2>1. ASSUME NEW W \in UpTo(S, 0), W # {} PROVE FALSE
    <3>1. W \in SUBSET S /\ Cardinality(W) <= 0
      BY DEF UpTo
    <3>2. Cardinality(W) \in Nat /\ Cardinality(W) > 0
      BY <2>1, <3>1, SmallerSubset
    <3> QED
      BY <3>1, <3>2
  <2> QED
    BY <2>1, <1>4
<1>6. ASSUME NEW n \in Nat, n \in T PROVE n + 1 \in T
  <2> SUFFICES ASSUME NEW W \in UpTo(S, n + 1)
               PROVE  g[W] \in Nat /\ g[W] >= 1 /\ (W # {} => g[W] > 1)
    OBVIOUS
  <2>1. CASE W = {}
    BY <2>1, <1>4
  <2>2. CASE W # {}
    <3> DEFINE a == SomeLeg(W)[3]
               b == g[W \ {SomeLeg(W)}]
    <3>1. W \ {SomeLeg(W)} \in UpTo(S, n) /\ SomeLeg(W) \in S
      BY <2>2, SmallerSubset DEF UpTo
    <3>2. a \in Nat /\ a > 1 /\ b \in Nat /\ b >= 1
      BY <3>1, <1>6
    <3>3. g[W] = a * b
      BY <1>4, <2>2 DEF UpTo
    <3> HIDE DEF a, b
    <3>4. a * b \in Nat /\ a * b > 1
      BY <3>2
    <3> QED
      BY <3>3, <3>4
  <2> QED
    BY <2>1, <2>2
<1>7. Cardinality(S) \in T
  <2> HIDE DEF T
  <2> QED
    BY <1>5, <1>6, NaturalInduction, FS_CardinalityType
<1>8. S \in UpTo(S, Cardinality(S))
    BY FS_CardinalityType DEF UpTo
<1> QED
    BY <1>1, <1>7, <1>8

(* Snapshots of other events are no evidence: leaving them out, a leg is     *)
(* decided as before.                                                        *)
LEMMA EvidenceSuffices ==
    ASSUME NEW p \in Positions, NEW refs, NEW asOf, Settleable(refs, asOf)
    PROVE  LET used == {r \in refs : \E l \in LegsOf[p] : l[1] = r.event}
           IN  \A l \in LegsOf[p] : LegStatus(used, l) = LegStatus(refs, l)
<1> DEFINE used == {r \in refs : \E l \in LegsOf[p] : l[1] = r.event}
<1> SUFFICES ASSUME NEW l \in LegsOf[p] PROVE ResultFor(used, l[1]) = ResultFor(refs, l[1])
    BY DEF LegStatus
<1>1. CASE \E r \in refs : r.event = l[1]
  <2>1. PICK r \in refs : r.event = l[1]
    BY <1>1
  <2>2. \A s \in refs : s.event = l[1] => s = r
    BY <2>1 DEF Settleable
  <2>3. r \in used /\ \A s \in used : s \in refs
    BY <2>1
  <2>4. (CHOOSE s \in refs : s.event = l[1]) = r
    BY <2>1, <2>2
  <2>5. (CHOOSE s \in used : s.event = l[1]) = r
    <3> HIDE DEF used
    <3> QED
      BY <2>1, <2>2, <2>3
  <2> QED
    BY <2>1, <2>3, <2>4, <2>5 DEF ResultFor
<1>2. CASE ~ \E r \in refs : r.event = l[1]
    BY <1>2 DEF ResultFor
<1> QED
    BY <1>1, <1>2

LEMMA LegOutcomes ==
    ASSUME NEW refs, NEW l
    PROVE  LegStatus(refs, l) \in {"pending", "void", "unresolved", "win", "loss"}
BY DEF LegStatus, SingleStatus, OutcomeFor

(* The order of the tests in settle_combination is fair.                     *)
LEMMA CombinationIsFair ==
    ASSUME NEW values, values # {},
           values \subseteq {"pending", "void", "unresolved", "win", "loss"}
    PROVE  LET st == CombinationStatus(values)
           IN  /\ "loss" \in values => st = "loss"
               /\ "loss" \notin values /\ values \cap {"pending", "unresolved"} # {} =>
                     st \in values \cap {"pending", "unresolved"}
               /\ "loss" \notin values /\ values \cap {"pending", "unresolved"} = {} =>
                     st \in (IF "win" \in values THEN {"win"} ELSE values)
BY DEF CombinationStatus

(* A combination pays more than its stake exactly when it is won: then at     *)
(* least one leg was won, and the others were void.                          *)
LEMMA CombinationPays ==
    ASSUME NEW p \in Positions, NEW refs
    PROVE  LET st == CombinationStatus(LegStatuses(refs, p))
           IN  CombinationReturn(refs, p, st) > 1 <=> st = "win"
<1> DEFINE values == LegStatuses(refs, p)
           st == CombinationStatus(values)
           won == {l \in LegsOf[p] : LegStatus(refs, l) = "win"}
<1> SUFFICES CombinationReturn(refs, p, st) > 1 <=> st = "win"
    OBVIOUS
<1>1. values \subseteq {"pending", "void", "unresolved", "win", "loss"}
    BY LegOutcomes DEF LegStatuses
<1>2. CASE st = "win"
  <2>1. "win" \in values
    <3> HIDE DEF values
    <3> QED
      BY <1>1, <1>2 DEF CombinationStatus
  <2>2. won # {} /\ IsFiniteSet(won)
    <3>1. won # {}
      BY <2>1 DEF LegStatuses
    <3> QED
      BY <3>1, FS_Subset, ClosedLoopAssumption
  <2>3. \A l \in won : l[3] \in Nat /\ l[3] > 1
    BY ClosedLoopAssumption
  <2>4. CombinationReturn(refs, p, "win") = Product(won)
    BY DEF CombinationReturn, Product
  <2>5. Product(won) > 1
    <3> HIDE DEF won
    <3> QED
      BY <2>2, <2>3, ProductExceedsOne
  <2> HIDE DEF won, st
  <2> QED
    BY <1>2, <2>4, <2>5
<1>3. CASE st # "win"
  <2>1. CombinationReturn(refs, p, st) \in {0, 1}
    <3> HIDE DEF st
    <3> QED
      BY <1>3 DEF CombinationReturn
  <2> HIDE DEF st
  <2> QED
    BY <1>3, <2>1
<1> QED
    BY <1>2, <1>3

LEMMA SettleIsFounded ==
    ASSUME NEW p \in Positions, NEW refs, NEW asOf \in SettlementTimes, Settleable(refs, asOf)
    PROVE  /\ Settle(p, refs, asOf).position = p /\ Settle(p, refs, asOf).asOf = asOf
           /\ Founded(Settle(p, refs, asOf), refs)
<1> DEFINE values == LegStatuses(refs, p)
           single == Cardinality(LegsOf[p]) = 1
           outcome == IF single THEN CHOOSE s \in values : TRUE ELSE CombinationStatus(values)
           units == IF single THEN SingleReturn((CHOOSE l \in LegsOf[p] : TRUE)[3], outcome)
                    ELSE CombinationReturn(refs, p, outcome)
           used == {r \in refs : \E l \in LegsOf[p] : l[1] = r.event}
<1>1. Settle(p, refs, asOf) =
        [position |-> p, asOf |-> asOf, status |-> outcome, returned |-> units,
         profit |-> units - 1, evidence |-> used]
    BY DEF Settle
<1>2. LegStatuses(used, p) = values
    BY EvidenceSuffices DEF LegStatuses
<1>3. values # {} /\ values \subseteq {"pending", "void", "unresolved", "win", "loss"}
    BY ClosedLoopAssumption, LegOutcomes DEF LegStatuses
<1>4. outcome \in FairStatus(used, p)
  <2>1. CASE single
    <3>1. PICK l : LegsOf[p] = {l}
      BY <2>1, FS_Singleton, ClosedLoopAssumption
    <3>2. values = {LegStatus(refs, l)}
      BY <3>1 DEF LegStatuses
    <3>3. outcome \in values /\ \A v \in values : v = outcome
      BY <2>1, <3>2
    <3> HIDE DEF values, outcome, used
    <3> QED
      BY <1>2, <3>3 DEF FairStatus
  <2>2. CASE ~single
    <3>1. outcome = CombinationStatus(values)
      BY <2>2
    <3> HIDE DEF values, outcome, used
    <3> QED
      BY <1>2, <1>3, <3>1, CombinationIsFair DEF FairStatus
  <2> QED
    BY <2>1, <2>2
<1>5. \A r \in used : r \in refs /\ r.observed <= asOf
    BY DEF Settleable
<1>6. units > 1 <=> outcome = "win"
  <2>1. CASE single
    <3>1. PICK l : LegsOf[p] = {l}
      BY <2>1, FS_Singleton, ClosedLoopAssumption
    <3>2. (CHOOSE k \in LegsOf[p] : TRUE) = l /\ l[3] \in Nat /\ l[3] > 1
      BY <3>1, ClosedLoopAssumption
    <3>3. units = SingleReturn(l[3], outcome)
      BY <2>1, <3>2
    <3> HIDE DEF outcome, units
    <3> QED
      BY <3>2, <3>3 DEF SingleReturn
  <2>2. CASE ~single
    <3>1. units = CombinationReturn(refs, p, outcome) /\ outcome = CombinationStatus(values)
      BY <2>2
    <3> HIDE DEF values, outcome, units
    <3> QED
      BY <3>1, CombinationPays DEF values
  <2> QED
    BY <2>1, <2>2
<1> HIDE DEF outcome, units, used
<1>7. /\ Settle(p, refs, asOf).position = p /\ Settle(p, refs, asOf).asOf = asOf
      /\ Settle(p, refs, asOf).status = outcome /\ Settle(p, refs, asOf).evidence = used
      /\ Settle(p, refs, asOf).returned = units
    BY <1>1
<1> QED
    BY <1>4, <1>5, <1>6, <1>7 DEF Founded, UnitsAgree

(* A published report is whole and founded.                                  *)
LEMMA ReportIsSound ==
    ASSUME NEW refs \in SUBSET LoadResultSnapshots, NEW asOf \in SettlementTimes,
           Settleable(refs, asOf)
    PROVE  /\ Whole(Reports[refs][asOf], asOf)
           /\ \A s \in Reports[refs][asOf] : Founded(s, refs)
<1>1. Reports[refs][asOf] = {Settle(p, refs, asOf) : p \in Positions}
    BY DEF Reports, SettleAnalysisArtifact
<1>2. \A p \in Positions : /\ Settle(p, refs, asOf).position = p
                           /\ Settle(p, refs, asOf).asOf = asOf
                           /\ Founded(Settle(p, refs, asOf), refs)
    BY SettleIsFounded
<1>3. None \notin Reports[refs][asOf]
    BY <1>1, NoneAssumption DEF SettleAnalysisArtifact
<1> QED
    BY <1>1, <1>2, <1>3 DEF Whole

-----------------------------------------------------------------------------
(* The tables *)

LEMMA ClosedStarts == CLInit => ClosedInv
<1> SUFFICES ASSUME CLInit PROVE ClosedInv
    OBVIOUS
<1>1. JobsInv /\ MonitoredInv /\ RunsInv
    BY DEF CLInit, JobsInv, MonitoredInv, RunsInv
<1>2. CurrentInv /\ \A s \in settlements : EvidenceDecides(s)
    BY DEF CLInit, CurrentInv
<1> QED
    BY <1>1, <1>2 DEF ClosedInv

(* Results and audits only grow: what was sound stays sound.                 *)
LEMMA TablesKept ==
    ASSUME ClosedInv, results \subseteq results', audits \subseteq audits',
           UNCHANGED <<current, settlements, sruns>>
    PROVE  /\ RunsInv' /\ CurrentInv' /\ \A s \in settlements' : EvidenceDecides(s)'
           /\ \A jb : SoundJob(jb) => SoundJob(jb)'
           /\ monitored' = monitored => MonitoredInv'
           /\ \A t : Closed(t)' = Closed(t)
<1>1. RunsInv' /\ CurrentInv'
    BY DEF ClosedInv, RunsInv, CurrentInv
<1>2. \A s \in settlements' : EvidenceDecides(s)'
    BY DEF ClosedInv, EvidenceDecides
<1>3. ASSUME NEW jb, SoundJob(jb) PROVE SoundJob(jb)'
  <2>1. \A s : Conflicting(s) => Conflicting(s)'
    BY DEF Conflicting
  <2>2. \A s : Audited(s) => Audited(s)'
    BY DEF Audited
  <2>3. jb.kind # "operator" => jb.refs \subseteq results'
    BY <1>3 DEF SoundJob
  <2> QED
    BY <1>3, <2>1, <2>2, <2>3 DEF SoundJob
<1>4. \A t : Closed(t)' = Closed(t)
    BY DEF Closed, HistoryAsOf
<1>5. monitored' = monitored => MonitoredInv'
    BY <1>4 DEF ClosedInv, MonitoredInv
<1> QED
    BY <1>1, <1>2, <1>3, <1>4, <1>5

LEMMA JobChanged ==
    ASSUME JobsInv, NEW j \in Jobs, NEW jb, job' = [job EXCEPT ![j] = jb],
           \A held : SoundJob(held) => SoundJob(held)',
           jb # None => SoundJob(jb)'
    PROVE  JobsInv'
<1>1. /\ job' = [i \in Jobs |-> job'[i]]
      /\ \A i \in Jobs : job'[i] = IF i = j THEN jb ELSE job[i]
    BY DEF JobsInv
<1>2. ASSUME NEW i \in Jobs, job'[i] # None PROVE SoundJob(job[i])'
  <2>1. PICK held : held = job'[i]
    OBVIOUS
  <2>2. SoundJob(held)'
    BY <1>1, <1>2, <2>1 DEF JobsInv
  <2> QED
    BY <2>1, <2>2 DEF SoundJob
<1> QED
    BY <1>1, <1>2 DEF JobsInv

(* A conflict with the current settlement remains one when the current       *)
(* settlement moves on.                                                      *)
LEMMA TransitionsNarrow ==
    ASSUME NEW from, NEW to, NEW other,
           AllowedCurrentTransition(from, to), ~AllowedCurrentTransition(from, other)
    PROVE  ~AllowedCurrentTransition(to, other)
BY DEF AllowedCurrentTransition, Final

-----------------------------------------------------------------------------
(* A report is stored *)

(* The settlements of the report are new, and each supersedes an open one    *)
(* that is older.                                                            *)
LEMMA ReportAdvances ==
    ASSUME ClosedInv, NEW j \in Jobs, PersistReport(j), NEW jb, jb = job[j]
    PROVE  /\ SoundJob(jb) /\ jb # None
           /\ \A s \in jb.settlements : s \notin settlements
           /\ current' \in [Positions -> jb.settlements]
           /\ \A p \in Positions : current'[p].position = p
           /\ \A s \in jb.settlements : current'[s.position] = s
           /\ \A p \in Positions : current[p] # None =>
                 /\ current[p].status \notin Final
                 /\ current'[p].asOf > current[p].asOf
                 /\ AllowedCurrentTransition(current[p].status, current'[p].status)
<1>1. SoundJob(jb) /\ jb # None
    BY DEF ClosedInv, JobsInv, PersistReport
<1>2. /\ \A r \in sruns : r.asOf # jb.asOf
      /\ \A s \in jb.settlements : Supersedes(s)
      /\ current' = [p \in Positions |-> CHOOSE s \in jb.settlements : s.position = p]
    BY DEF PersistReport, RunSlotFree
<1>3. Whole(jb.settlements, jb.asOf)
    BY <1>1 DEF SoundJob
<1>4. ASSUME NEW s \in jb.settlements PROVE s \notin settlements
    BY <1>2, <1>3 DEF ClosedInv, RunsInv, Whole
<1>5. ASSUME NEW p \in Positions
      PROVE  current'[p] \in jb.settlements /\ current'[p].position = p
    BY <1>2, <1>3 DEF Whole
<1>6. ASSUME NEW s \in jb.settlements PROVE current'[s.position] = s
    BY <1>3, <1>5 DEF Whole
<1>7. ASSUME NEW p \in Positions, current[p] # None
      PROVE  /\ current[p].status \notin Final
             /\ current'[p].asOf > current[p].asOf
             /\ AllowedCurrentTransition(current[p].status, current'[p].status)
  <2>1. current[p] \in settlements
    BY <1>7 DEF ClosedInv, CurrentInv
  <2>2. current[p] # current'[p]
    BY <2>1, <1>4, <1>5
  <2>3. PICK u \in jb.settlements : u = current'[p]
    BY <1>5
  <2>4. Supersedes(u) /\ u.position = p
    BY <1>2, <1>5, <2>3
  <2> QED
    BY <1>7, <2>2, <2>3, <2>4 DEF Supersedes
<1>8. current' \in [Positions -> jb.settlements]
    BY <1>2, <1>5
<1> QED
    BY <1>1, <1>4, <1>5, <1>6, <1>7, <1>8

LEMMA SettlementTypes ==
    ASSUME ClosedInv
    PROVE  /\ \A s \in settlements : s.position \in Positions /\ s.asOf \in Nat
           /\ \A p \in Positions : current[p] # None => current[p].asOf \in Nat
<1>1. ASSUME NEW s \in settlements PROVE s.position \in Positions /\ s.asOf \in Nat
  <2>1. PICK r \in sruns : s \in r.settlements
    BY DEF ClosedInv, RunsInv
  <2>2. r.asOf \in SettlementTimes /\ Whole(r.settlements, r.asOf)
    BY DEF ClosedInv, RunsInv
  <2> QED
    BY <2>1, <2>2, ClosedLoopAssumption DEF Whole
<1>2. ASSUME NEW p \in Positions, current[p] # None PROVE current[p] \in settlements
    BY <1>2 DEF ClosedInv, CurrentInv
<1> QED
    BY <1>1, <1>2

LEMMA PersistReportStep ==
    ASSUME ClosedInv, NEW j \in Jobs, PersistReport(j)
    PROVE  ClosedInv'
<1>1. PICK jb : jb = job[j]
    OBVIOUS
<1>2. /\ SoundJob(jb) /\ jb # None
      /\ \A s \in jb.settlements : s \notin settlements
      /\ current' \in [Positions -> jb.settlements]
      /\ \A p \in Positions : current'[p].position = p
      /\ \A s \in jb.settlements : current'[s.position] = s
      /\ \A p \in Positions : current[p] # None =>
            /\ current[p].status \notin Final
            /\ current'[p].asOf > current[p].asOf
            /\ AllowedCurrentTransition(current[p].status, current'[p].status)
    BY <1>1, ReportAdvances
<1>3. /\ \A r \in sruns : r.asOf # jb.asOf
      /\ results' = results \cup (IF jb.kind = "operator" THEN jb.refs ELSE {})
      /\ settlements' = settlements \cup jb.settlements
      /\ sruns' = sruns \cup {[asOf |-> jb.asOf, settlements |-> jb.settlements]}
      /\ job' = [job EXCEPT ![j] = None]
      /\ audits' = audits /\ monitored' = monitored
    BY <1>1 DEF PersistReport, RunSlotFree, RunOf
<1>4. Whole(jb.settlements, jb.asOf) /\ jb.asOf \in SettlementTimes
    BY <1>2 DEF SoundJob
<1>5. RunsInv'
  <2>1. PICK new : new = [asOf |-> jb.asOf, settlements |-> jb.settlements]
    OBVIOUS
  <2>2. new.asOf = jb.asOf /\ new.settlements = jb.settlements /\ sruns' = sruns \cup {new}
    BY <2>1, <1>3
  <2>3. \A s \in new.settlements : UnitsAgree(s)
    BY <2>2, <1>2 DEF SoundJob, Founded
  <2> QED
    BY <2>2, <2>3, <1>3, <1>4 DEF ClosedInv, RunsInv
<1>6. CurrentInv'
  <2>1. current' \in [Positions -> {None} \cup settlements']
    BY <1>2, <1>3
  <2>2. \A p \in Positions : current'[p] # None
    BY <1>2, <1>4 DEF Whole
  <2>3. ASSUME NEW s \in settlements
        PROVE  /\ s.position \in Positions /\ s.asOf \in Nat
               /\ s.asOf <= current'[s.position].asOf
               /\ s.status \notin Final
    <3>1. s.position \in Positions /\ s.asOf \in Nat
      BY SettlementTypes
    <3>2. /\ current[s.position] # None /\ s.asOf <= current[s.position].asOf
          /\ s.status \in Final => current[s.position] = s
      BY DEF ClosedInv, CurrentInv
    <3>3. current[s.position].asOf \in Nat
      BY <3>1, <3>2, SettlementTypes
    <3>4. current'[s.position].asOf \in Nat
      BY <3>1, <1>2, <1>4, ClosedLoopAssumption DEF Whole
    <3> QED
      BY <3>1, <3>2, <3>3, <3>4, <1>2
  <2>4. ASSUME NEW s \in jb.settlements
        PROVE  s.position \in Positions /\ s.asOf <= current'[s.position].asOf
    <3>1. s.position \in Positions /\ s.asOf \in Nat
      BY <1>4, ClosedLoopAssumption DEF Whole
    <3> QED
      BY <1>2, <3>1
  <2> QED
    BY <2>1, <2>2, <2>3, <2>4, <1>2, <1>3 DEF CurrentInv
<1>7. \A s \in settlements' : EvidenceDecides(s)'
  <2>1. jb.refs \subseteq results'
    BY <1>2, <1>3 DEF SoundJob
  <2>2. ASSUME NEW s \in jb.settlements PROVE EvidenceDecides(s)'
    BY <1>2, <2>1 DEF SoundJob, Founded, EvidenceDecides
  <2>3. ASSUME NEW s \in settlements PROVE EvidenceDecides(s)'
    BY <1>3 DEF ClosedInv, EvidenceDecides
  <2> QED
    BY <1>3, <2>2, <2>3
<1>8. ASSUME NEW held, SoundJob(held) PROVE SoundJob(held)'
  <2>1. Whole(held.settlements, held.asOf) /\ held.asOf \in Nat
    BY <1>8, ClosedLoopAssumption DEF SoundJob
  <2>2. ASSUME NEW s \in held.settlements, Conflicting(s) PROVE Conflicting(s)'
    <3>1. PICK p \in Positions : p = s.position
      BY <2>1 DEF Whole
    <3>2. /\ current[p] # None /\ current[p] # s
          /\ \/ s.asOf <= current[p].asOf
             \/ ~AllowedCurrentTransition(current[p].status, s.status)
      BY <2>2, <3>1 DEF Conflicting
    <3>3. /\ current'[p] # None
          /\ current'[p].asOf > current[p].asOf
          /\ AllowedCurrentTransition(current[p].status, current'[p].status)
      BY <3>2, <1>2, <1>4 DEF Whole
    <3>4. s.asOf \in Nat /\ current[p].asOf \in Nat /\ current'[p].asOf \in Nat
      <4>1. s.asOf \in Nat
        BY <2>1 DEF Whole
      <4>2. current'[p].asOf \in Nat
        BY <1>2, <1>4, ClosedLoopAssumption DEF Whole
      <4>3. current[p].asOf \in Nat
        BY <3>2, SettlementTypes
      <4> QED
        BY <4>1, <4>2, <4>3
    <3>5. CASE s.asOf <= current[p].asOf
      BY <3>1, <3>3, <3>4, <3>5 DEF Conflicting
    <3>6. CASE ~AllowedCurrentTransition(current[p].status, s.status)
      <4>1. ~AllowedCurrentTransition(current'[p].status, s.status)
        BY <3>3, <3>6, TransitionsNarrow
      <4>2. current'[p] # s
        BY <3>3, <3>6
      <4> QED
        BY <3>1, <3>3, <4>1, <4>2 DEF Conflicting
    <3> QED
      BY <3>2, <3>5, <3>6
  <2>3. ASSUME NEW s \in held.settlements, Audited(s) PROVE Audited(s)'
    BY <2>3, <1>3 DEF Audited
  <2>4. held.kind # "operator" => held.refs \subseteq results'
    BY <1>8, <1>3 DEF SoundJob
  <2> QED
    BY <1>8, <2>2, <2>3, <2>4 DEF SoundJob
<1>9. JobsInv'
    BY <1>3, <1>8, JobChanged DEF ClosedInv
<1>10. MonitoredInv'
  <2>1. \A t : Closed(t) = {}
    <3> SUFFICES ASSUME NEW t, NEW p \in Positions, NEW s \in HistoryAsOf(p, t), s.status \in Final
                 PROVE  FALSE
      BY DEF Closed
    <3>1. s \in settlements /\ s.position = p
      BY DEF HistoryAsOf
    <3> QED
      BY <3>1, <1>2 DEF ClosedInv, CurrentInv
  <2>2. \A t : Closed(t)' \subseteq Positions
    BY DEF Closed
  <2>3. \A t : IsFiniteSet(Closed(t)')
    BY <2>2, FS_Subset, ClosedLoopAssumption
  <2>4. \A t : Cardinality(Closed(t)') \in Nat
    BY <2>3, FS_CardinalityType
  <2>5. monitored # None => monitored.inputs.settled = 0
    BY <2>1, FS_EmptySet DEF ClosedInv, MonitoredInv
  <2> QED
    BY <2>4, <2>5, <1>3 DEF ClosedInv, MonitoredInv
<1> QED
    BY <1>5, <1>6, <1>7, <1>9, <1>10 DEF ClosedInv


-----------------------------------------------------------------------------
(* The other steps *)

LEMMA RegistrationStep ==
    ClosedInv /\ (\/ \E r \in Published : RegisterResult(r)
                  \/ \E batch \in SUBSET LoadResultSnapshots : RegisterCompletedResults(batch))
      => ClosedInv'
<1> SUFFICES ASSUME ClosedInv,
                    \/ \E r \in Published : RegisterResult(r)
                    \/ \E batch \in SUBSET LoadResultSnapshots : RegisterCompletedResults(batch)
             PROVE  ClosedInv'
    OBVIOUS
<1>1. results \subseteq results' /\ UNCHANGED <<current, settlements, sruns, audits, monitored, job>>
    BY DEF RegisterResult, RegisterCompletedResults
<1>2. /\ RunsInv' /\ CurrentInv' /\ MonitoredInv' /\ \A s \in settlements' : EvidenceDecides(s)'
      /\ \A jb : SoundJob(jb) => SoundJob(jb)'
    BY <1>1, TablesKept
<1>3. JobsInv'
    BY <1>1, <1>2 DEF ClosedInv, JobsInv
<1> QED
    BY <1>2, <1>3 DEF ClosedInv

LEMMA PublishReportStep ==
    ASSUME ClosedInv, NEW j \in Jobs, NEW kind, NEW refs \in SUBSET LoadResultSnapshots,
           NEW asOf \in SettlementTimes, PublishReport(j, kind, refs, asOf),
           kind # "operator" => refs \subseteq results
    PROVE  ClosedInv'
<1>1. PICK jb : jb = [kind |-> kind, refs |-> refs, asOf |-> asOf, stage |-> "publish",
                      settlements |-> Reports[refs][asOf]]
    OBVIOUS
<1>2. /\ Settleable(refs, asOf) /\ job' = [job EXCEPT ![j] = jb]
      /\ UNCHANGED <<results, current, settlements, sruns, audits, monitored>>
    BY <1>1 DEF PublishReport
<1>3. /\ Whole(Reports[refs][asOf], asOf)
      /\ \A s \in Reports[refs][asOf] : Founded(s, refs)
    BY <1>2, ReportIsSound
<1>4. SoundJob(jb)
    BY <1>1, <1>3 DEF SoundJob
<1>5. /\ RunsInv' /\ CurrentInv' /\ MonitoredInv' /\ \A s \in settlements' : EvidenceDecides(s)'
      /\ \A held : SoundJob(held) => SoundJob(held)'
    BY <1>2, TablesKept
<1>6. JobsInv'
    BY <1>2, <1>4, <1>5, JobChanged DEF ClosedInv
<1> QED
    BY <1>5, <1>6 DEF ClosedInv

LEMMA ReplayReportStep ==
    ASSUME ClosedInv, NEW j \in Jobs, ReplayReport(j) \/ EndJob(j)
    PROVE  ClosedInv'
<1>1. /\ results \subseteq results' /\ job' = [job EXCEPT ![j] = None]
      /\ UNCHANGED <<current, settlements, sruns, audits, monitored>>
    BY DEF ReplayReport, EndJob
<1>2. /\ RunsInv' /\ CurrentInv' /\ MonitoredInv' /\ \A s \in settlements' : EvidenceDecides(s)'
      /\ \A held : SoundJob(held) => SoundJob(held)'
    BY <1>1, TablesKept
<1>3. JobsInv'
    BY <1>1, <1>2, JobChanged DEF ClosedInv
<1> QED
    BY <1>2, <1>3 DEF ClosedInv

(* A refused report leaves the conflict that refused it in sight.            *)
LEMMA RejectReportStep ==
    ASSUME ClosedInv, NEW j \in Jobs, RejectReport(j)
    PROVE  ClosedInv'
<1>1. PICK jb : jb = job[j]
    OBVIOUS
<1>2. SoundJob(jb)
    BY <1>1 DEF ClosedInv, JobsInv, RejectReport
<1>3. PICK new : new = IF RunSlotFree(jb) /\ jb.kind = "operator"
                       THEN [jb EXCEPT !.stage = "audit"] ELSE None
    OBVIOUS
<1>4. /\ job' = [job EXCEPT ![j] = new]
      /\ ~RunSlotFree(jb) \/ \E s \in jb.settlements : ~Supersedes(s)
      /\ UNCHANGED <<results, current, settlements, sruns, audits, monitored>>
    BY <1>1, <1>3 DEF RejectReport, ClosedInv, JobsInv
<1>5. /\ RunsInv' /\ CurrentInv' /\ MonitoredInv' /\ \A s \in settlements' : EvidenceDecides(s)'
      /\ \A held : SoundJob(held) => SoundJob(held)'
    BY <1>4, TablesKept
<1>6. new # None => SoundJob(new)
  <2> SUFFICES ASSUME new # None PROVE SoundJob(new)
    OBVIOUS
  <2>1. new = [kind |-> jb.kind, refs |-> jb.refs, asOf |-> jb.asOf, stage |-> "audit",
               settlements |-> jb.settlements]
    BY <1>2, <1>3 DEF SoundJob
  <2>2. PICK s \in jb.settlements : ~Supersedes(s)
    BY <1>3, <1>4
  <2>3. Conflicting(s)
    <3>1. /\ current[s.position] # None /\ current[s.position] # s
          /\ \/ current[s.position].status \in Final
             \/ ~(s.asOf > current[s.position].asOf)
             \/ ~AllowedCurrentTransition(current[s.position].status, s.status)
      BY <2>2 DEF Supersedes
    <3>2. current[s.position].status \in Final =>
              ~AllowedCurrentTransition(current[s.position].status, s.status)
      BY DEF AllowedCurrentTransition, Final
    <3>3. s.asOf \in Nat /\ current[s.position].asOf \in Nat
      BY <1>2, <3>1, SettlementTypes, ClosedLoopAssumption DEF SoundJob, Whole
    <3> QED
      BY <3>1, <3>2, <3>3 DEF Conflicting
  <2> QED
    BY <1>2, <2>1, <2>3 DEF SoundJob
<1>7. JobsInv'
    BY <1>4, <1>5, <1>6, JobChanged DEF ClosedInv
<1> QED
    BY <1>5, <1>7 DEF ClosedInv

LEMMA RecordConflictsStep ==
    ASSUME ClosedInv, NEW j \in Jobs, RecordConflicts(j)
    PROVE  ClosedInv'
<1>1. PICK jb : jb = job[j]
    OBVIOUS
<1>2. SoundJob(jb) /\ jb.stage = "audit"
    BY <1>1 DEF ClosedInv, JobsInv, RecordConflicts
<1>3. PICK new : new = [jb EXCEPT !.stage = "audited"]
    OBVIOUS
<1>4. /\ job' = [job EXCEPT ![j] = new]
      /\ UNCHANGED <<results, current, settlements, sruns, monitored>>
    BY <1>1, <1>3 DEF RecordConflicts, ClosedInv, JobsInv
<1>5. /\ audits \subseteq audits'
      /\ \A s \in jb.settlements : Conflicting(s) =>
            <<IF current[s.position].status \in Final THEN "contradictory" ELSE "stale",
              s.position>> \in audits'
    BY <1>1 DEF RecordConflicts, Conflicting
<1>6. /\ RunsInv' /\ CurrentInv' /\ MonitoredInv' /\ \A s \in settlements' : EvidenceDecides(s)'
      /\ \A held : SoundJob(held) => SoundJob(held)'
    BY <1>4, <1>5, TablesKept
<1>7. new = [kind |-> jb.kind, refs |-> jb.refs, asOf |-> jb.asOf, stage |-> "audited",
             settlements |-> jb.settlements]
    BY <1>2, <1>3 DEF SoundJob
<1>8. \E s \in jb.settlements : Audited(s)'
    BY <1>2, <1>5 DEF SoundJob, Audited
<1>9. SoundJob(new)'
  <2>1. SoundJob(jb)'
    BY <1>2, <1>6
  <2> QED
    BY <2>1, <1>7, <1>8 DEF SoundJob
<1>10. JobsInv'
    BY <1>4, <1>6, <1>9, JobChanged DEF ClosedInv
<1> QED
    BY <1>6, <1>10 DEF ClosedInv

(* What monitoring counts as settled are the positions that are final.       *)
LEMMA MonitoringStep ==
    ASSUME ClosedInv,
           \/ \E reload, evidence : \E asOf \in SettlementTimes :
                 PublishMonitoring(reload, evidence, asOf)
           \/ PersistMonitoring \/ EndMonitoring
    PROVE  ClosedInv'
<1>1. UNCHANGED <<results, current, settlements, sruns, audits, job>>
    BY DEF PublishMonitoring, PersistMonitoring, EndMonitoring
<1>2. /\ RunsInv' /\ CurrentInv' /\ \A s \in settlements' : EvidenceDecides(s)'
      /\ \A held : SoundJob(held) => SoundJob(held)'
      /\ \A t : Closed(t)' = Closed(t)
    BY <1>1, TablesKept
<1>3. JobsInv'
    BY <1>1, <1>2 DEF ClosedInv, JobsInv
<1>4. MonitoredInv'
  <2>1. ASSUME NEW reload, NEW evidence, NEW asOf \in SettlementTimes,
               PublishMonitoring(reload, evidence, asOf)
        PROVE  MonitoredInv'
    <3>1. PICK inputs : inputs = BuildMonitoringInputs(evidence, asOf)
      OBVIOUS
    <3>2. \E stage : monitored' = [asOf |-> asOf, inputs |-> inputs, stage |-> stage]
      BY <2>1, <3>1 DEF PublishMonitoring
    <3>3. \E ps \in {{}, Positions} :
             inputs.settled = Cardinality({p \in ps : \E s \in HistoryAsOf(p, asOf) : s.status \in Final})
      BY <3>1 DEF BuildMonitoringInputs
    <3>4. PICK ps \in {{}, Positions} :
             inputs.settled = Cardinality({p \in ps : \E s \in HistoryAsOf(p, asOf) : s.status \in Final})
      BY <3>3
    <3> DEFINE final == {p \in ps : \E s \in HistoryAsOf(p, asOf) : s.status \in Final}
    <3>5. final \subseteq Closed(asOf) /\ Closed(asOf) \subseteq Positions
      BY <3>4 DEF Closed
    <3>6. inputs.settled = Cardinality(final)
      BY <3>4
    <3> HIDE DEF final
    <3>7. IsFiniteSet(Closed(asOf))
      BY <3>5, FS_Subset, ClosedLoopAssumption
    <3>8. inputs.settled \in Nat /\ inputs.settled <= Cardinality(Closed(asOf))
      BY <3>5, <3>6, <3>7, FS_Subset, FS_CardinalityType
    <3> QED
      BY <1>2, <3>2, <3>8 DEF MonitoredInv
  <2>2. CASE PersistMonitoring
    <3>1. PICK held : held = monitored
      OBVIOUS
    <3>2. monitored # None /\ monitored' = [held EXCEPT !.stage = "stored"]
      BY <2>2, <3>1 DEF PersistMonitoring
    <3>3. /\ held = [asOf |-> held.asOf, inputs |-> held.inputs, stage |-> held.stage]
          /\ held.asOf \in SettlementTimes /\ held.inputs.settled \in Nat
          /\ held.inputs.settled <= Cardinality(Closed(held.asOf))
      BY <3>1, <3>2 DEF ClosedInv, MonitoredInv
    <3>4. monitored' = [asOf |-> held.asOf, inputs |-> held.inputs, stage |-> "stored"]
      BY <3>2, <3>3
    <3> QED
      BY <1>2, <3>3, <3>4 DEF MonitoredInv
  <2>3. CASE EndMonitoring
    BY <2>3 DEF EndMonitoring, MonitoredInv
  <2> QED
    BY <2>1, <2>2, <2>3
<1> QED
    BY <1>2, <1>3, <1>4 DEF ClosedInv

LEMMA ClosedStep == ClosedInv /\ [CLNext]_clvars => ClosedInv'
<1> SUFFICES ASSUME ClosedInv, [CLNext]_clvars PROVE ClosedInv'
    OBVIOUS
<1>1. CASE UNCHANGED clvars
    BY <1>1 DEF clvars, ClosedInv, RunsInv, CurrentInv, MonitoredInv, Closed, HistoryAsOf,
        JobsInv, SoundJob, Conflicting, Audited, EvidenceDecides
<1>2. ASSUME NEW j \in Jobs, NEW asOf \in SettlementTimes,
             NEW refs \in SUBSET LoadResultSnapshots,
             SettleAnalysis(j, refs, asOf) \/ SettleNewResults(j, refs, asOf)
      PROVE  ClosedInv'
    BY <1>2, PublishReportStep DEF SettleAnalysis, SettleNewResults
<1>3. ASSUME NEW j \in Jobs,
             \/ PersistReport(j) \/ ReplayReport(j) \/ RejectReport(j)
             \/ RecordConflicts(j) \/ EndJob(j)
      PROVE  ClosedInv'
    BY <1>3, PersistReportStep, ReplayReportStep, RejectReportStep, RecordConflictsStep
<1>4. ASSUME NEW asOf \in SettlementTimes,
             \/ RefreshMonitoring(asOf)
             \/ \E evidence \in EvidenceSets :
                   RunMonitoring(evidence, asOf) \/ MonitorCommand(evidence, asOf)
      PROVE  ClosedInv'
  <2>1. \E reload, evidence : PublishMonitoring(reload, evidence, asOf)
    BY <1>4 DEF RefreshMonitoring, RunMonitoring, MonitorCommand
  <2> QED
    BY <2>1, MonitoringStep
<1>5. CASE PersistMonitoring \/ EndMonitoring
    BY <1>5, MonitoringStep
<1> QED
    BY <1>1, <1>2, <1>3, <1>4, <1>5, RegistrationStep DEF CLNext

(* Reports that race are stored whole or not at all, the current settlement  *)
(* is the latest, a rejection an operator saw is audited, and what a         *)
(* monitoring run counted stays settled at its time, for any number of jobs  *)
(* (SettlementRepository.persist_report and record_conflicts,                *)
(* build_monitoring_inputs).                                                 *)
THEOREM HistoryIsKept == CLSpec => []HistoryIsWhole
<1>1. ASSUME ClosedInv PROVE ReportsAreWhole
  <2>1. \A r \in sruns : r.settlements \subseteq settlements
    BY <1>1 DEF ClosedInv, RunsInv
  <2>2. settlements \subseteq UNION {r.settlements : r \in sruns}
    BY <1>1 DEF ClosedInv, RunsInv
  <2>3. \A p \in Positions : \A s \in settlements :
            s.position = p => current[p] # None /\ s.asOf <= current[p].asOf
    BY <1>1 DEF ClosedInv, CurrentInv
  <2>4. ASSUME NEW j \in Jobs, job[j] # None, job[j].stage = "audited"
        PROVE  \E s \in job[j].settlements, kind \in {"contradictory", "stale"} :
                   <<kind, s.position>> \in audits
    BY <1>1, <2>4 DEF ClosedInv, JobsInv, SoundJob, Audited
  <2> QED
    BY <2>1, <2>2, <2>3, <2>4 DEF ReportsAreWhole
<1>2. ASSUME ClosedInv PROVE MonitoringHolds
  <2>1. ASSUME NEW p \in Positions, NEW asOf \in SettlementTimes
        PROVE  Cardinality(HistoryAsOf(p, asOf)) <= 1
    <3>1. ASSUME NEW s \in HistoryAsOf(p, asOf), NEW u \in HistoryAsOf(p, asOf)
          PROVE  s = u
      <4>1. /\ s \in settlements /\ u \in settlements
            /\ s.position = p /\ u.position = p
            /\ s.asOf <= u.asOf /\ u.asOf <= s.asOf
        BY DEF HistoryAsOf
      <4>2. s.asOf = u.asOf
        BY <1>2, <4>1, SettlementTypes
      <4>3. PICK r \in sruns : s \in r.settlements
        BY <1>2, <4>1 DEF ClosedInv, RunsInv
      <4>4. PICK q \in sruns : u \in q.settlements
        BY <1>2, <4>1 DEF ClosedInv, RunsInv
      <4>5. r = q
        BY <1>2, <4>2, <4>3, <4>4 DEF ClosedInv, RunsInv, Whole
      <4> QED
        BY <1>2, <4>1, <4>3, <4>4, <4>5 DEF ClosedInv, RunsInv, Whole
    <3>2. CASE HistoryAsOf(p, asOf) = {}
      BY <3>2, FS_EmptySet
    <3>3. CASE HistoryAsOf(p, asOf) # {}
      <4>1. PICK s : HistoryAsOf(p, asOf) = {s}
        BY <3>1, <3>3
      <4> QED
        BY <4>1, FS_Singleton
    <3> QED
      BY <3>2, <3>3
  <2>2. monitored # None => monitored.inputs.settled <= Cardinality(Closed(monitored.asOf))
    BY <1>2 DEF ClosedInv, MonitoredInv
  <2> QED
    BY <2>1, <2>2 DEF MonitoringHolds, Closed
<1>3. ClosedInv => HistoryIsWhole
    BY <1>1, <1>2 DEF HistoryIsWhole
<1> QED
    BY <1>3, ClosedStarts, ClosedStep, PTL DEF CLSpec

(* Only the storing of a report moves the settlements.                       *)
LEMMA OnlyReportsMove ==
    ASSUME [CLNext]_clvars, <<current, settlements, sruns>>' # <<current, settlements, sruns>>
    PROVE  \E j \in Jobs : PersistReport(j)
BY DEF CLNext, clvars, RegisterResult, RegisterCompletedResults, SettleAnalysis,
    SettleNewResults, PublishReport, ReplayReport, RejectReport, RecordConflicts, EndJob,
    RefreshMonitoring, RunMonitoring, MonitorCommand, PublishMonitoring, PersistMonitoring,
    EndMonitoring

(* Won, lost, pushed or voided is final, and an open position only moves     *)
(* forward in time, whichever jobs race (persist_report).                    *)
THEOREM FinalStaysFinal == CLSpec => FinalIsFinal
<1> DEFINE Forward ==
        \A p \in Positions : current[p] # None /\ current'[p] # current[p] =>
            /\ current[p].status \notin Final
            /\ current'[p].asOf > current[p].asOf
<1>1. ClosedInv /\ [CLNext]_clvars => [Forward]_clvars
  <2> SUFFICES ASSUME ClosedInv, [CLNext]_clvars PROVE Forward
    OBVIOUS
  <2>1. CASE current' = current
    BY <2>1
  <2>2. CASE current' # current
    <3>1. PICK j \in Jobs : PersistReport(j)
      BY <2>2, OnlyReportsMove
    <3>2. PICK jb : jb = job[j]
      OBVIOUS
    <3> QED
      BY <3>1, <3>2, ReportAdvances
  <2> QED
    BY <2>1, <2>2
<1> QED
    BY <1>1, ClosedStarts, ClosedStep, PTL DEF CLSpec, FinalIsFinal

(* Once one position of the analysis is final no report of another time is   *)
(* stored any more: each would have to settle that position again, and       *)
(* persist_report refuses a report as a whole.                               *)
THEOREM FinalEndsTheSeries ==
    CLSpec => [][(\E s \in settlements : s.status \in Final)
                    => UNCHANGED <<current, settlements, sruns>>]_clvars
<1> DEFINE Ended ==
        (\E s \in settlements : s.status \in Final) => UNCHANGED <<current, settlements, sruns>>
<1>1. ClosedInv /\ [CLNext]_clvars => [Ended]_clvars
  <2> SUFFICES ASSUME ClosedInv, [CLNext]_clvars, NEW s \in settlements, s.status \in Final,
                      <<current, settlements, sruns>>' # <<current, settlements, sruns>>
               PROVE  FALSE
    OBVIOUS
  <2>1. PICK j \in Jobs : PersistReport(j)
    BY OnlyReportsMove
  <2>2. PICK jb : jb = job[j]
    OBVIOUS
  <2>3. s.position \in Positions /\ current[s.position] = s /\ current[s.position] # None
    BY SettlementTypes DEF ClosedInv, CurrentInv
  <2> QED
    BY <2>1, <2>2, <2>3, ReportAdvances
<1> QED
    BY <1>1, ClosedStarts, ClosedStep, PTL DEF CLSpec

(* Every settlement on record has the status its evidence gives it, pays     *)
(* more than the stake exactly when the position was won, and that evidence  *)
(* is registered and was observable at its time (settle_single,              *)
(* settle_combination, settle_analysis_artifact).                            *)
THEOREM SettlementsFollowEvidence == CLSpec => []SettledFromEvidence
<1>1. ClosedInv => SettledFromEvidence
  <2> SUFFICES ASSUME ClosedInv, NEW s \in settlements
               PROVE  EvidenceDecides(s) /\ UnitsAgree(s)
    BY DEF SettledFromEvidence, UnitsAgree
  <2> QED
    BY DEF ClosedInv, RunsInv
<1> QED
    BY <1>1, ClosedStarts, ClosedStep, PTL DEF CLSpec
=============================================================================
