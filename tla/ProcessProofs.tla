----------------------------- MODULE ProcessProofs ----------------------------
(***************************************************************************)
(* Proofs about the processes of an installation beside the worker.         *)
(*                                                                         *)
(* First, cycles, jobs and cadence of the bookmaker scheduler agree for any *)
(* number of processes, sports, delays and clock readings.  Latest is a     *)
(* CHOOSE: the invariant carries a last slot of every sport that has a      *)
(* cycle, so that Latest is known to exist without an induction.            *)
(*                                                                         *)
(* Second, the local supervisor leaves no child running, for any plan.      *)
(***************************************************************************)
EXTENDS BookmakerScheduler, Supervisor, FiniteSetTheorems, SequenceTheorems, TLAPS

Memory == [pc : {"asleep", "anchor", "resolve", "enqueue"}, at : Nat,
           todo : Seq(SportSet), due : Nat]

SchedulerTypes ==
    /\ anchor \in [SportSet -> Nat \cup {Unset}]
    /\ cycles \in [SportSet -> SUBSET Cycle]
    /\ status \in [SportSet -> [EnabledProviders -> Nat \cup {Unset}]]
    /\ started \subseteq Schedulers
    /\ process \in [Schedulers -> Memory]
    /\ clock \in 0..MaxNow

(* A process of the operator that is awake has a sport to do and the time   *)
(* of its tick; what it is about to enqueue is due.                          *)
MemoryInv(x) ==
    /\ process[x].at <= clock
    /\ process[x].pc # "asleep" => x \in started /\ process[x].todo # <<>>
    /\ process[x].pc = "enqueue" => process[x].due <= process[x].at

IsLast(s, c) == c \in cycles[s] /\ \A d \in cycles[s] : d.scheduled <= c.scheduled

(* A cycle names its own job, a slot has one cycle, and there is a last one. *)
SportInv(s) ==
    /\ \A c \in cycles[s] :
          /\ c.scheduled <= c.enqueued
          /\ c.job = [sport |-> s, scheduled |-> c.scheduled, window |-> c.enqueued]
    /\ \A c, d \in cycles[s] : c.scheduled = d.scheduled => c = d
    /\ cycles[s] # {} => \E c \in cycles[s] : IsLast(s, c)

(* What the only process is about to enqueue is an interval after all slots. *)
OneProcess == Cardinality(started) = 1

DueApart == OneProcess => \A x \in started : process[x].pc = "enqueue" =>
    \A c \in cycles[Sport(x)] : process[x].due >= c.scheduled + Policy.interval

SchedulerInv ==
    /\ SchedulerTypes
    /\ \A x \in Schedulers : MemoryInv(x)
    /\ \A s \in SportSet : SportInv(s)
    /\ cycleJobs = UNION {{c.job : c \in cycles[s]} : s \in SportSet}
    /\ CyclesApart
    /\ DueApart

(* The slots of a sport are natural numbers.                                *)
LEMMA MaxWitness ==
    ASSUME NEW S \in SUBSET Int, NEW m \in S, \A y \in S : y <= m
    PROVE  Max(S) = m
<1>1. m \in S /\ \A y \in S : m >= y
    OBVIOUS
<1>2. \A x \in S : (\A y \in S : x >= y) => x = m
    OBVIOUS
<1> QED
    BY <1>1, <1>2 DEF Max

LEMMA MinOfTwo ==
    ASSUME NEW a \in Int, NEW b \in Int, NEW S, S = {a, b}
    PROVE  Min(S) \in S
<1>1. \E x \in S : \A y \in S : x =< y
    <2>1. CASE a <= b
        BY <2>1
    <2>2. CASE ~(a <= b)
        BY <2>2
    <2> QED
        BY <2>1, <2>2
<1> QED
    BY <1>1 DEF Min

LEMMA MaxOfFour ==
    ASSUME NEW a \in Int, NEW b \in Int, NEW c \in Int, NEW d \in Int,
           NEW S, S = {a, b, c, d}
    PROVE  Max(S) \in S /\ \A y \in S : Max(S) >= y
<1>1. \E x \in S : \A y \in S : x >= y
    <2>1. PICK x \in {a, b} : x >= a /\ x >= b
        <3>1. CASE a <= b
            BY <3>1
        <3>2. CASE ~(a <= b)
            BY <3>2
        <3> QED
            BY <3>1, <3>2
    <2>2. PICK y \in {c, d} : y >= c /\ y >= d
        <3>1. CASE c <= d
            BY <3>1
        <3>2. CASE ~(c <= d)
            BY <3>2
        <3> QED
            BY <3>1, <3>2
    <2>3. CASE x <= y
        BY <2>1, <2>2, <2>3
    <2>4. CASE ~(x <= y)
        BY <2>1, <2>2, <2>4
    <2> QED
        BY <2>3, <2>4
<1> QED
    BY <1>1 DEF Max

(* The policy: a delay and an interval of at least one.                     *)
LEMMA PolicyFacts ==
    Policy.delay \in Nat /\ Policy.interval \in Nat /\ Policy.interval >= 1
<1>1. Policy.delay \in Nat
    BY SettingsAssumption DEF Policy
<1> DEFINE intervals == {Interval[p] : p \in EnabledProviders}
           a == IF "betano" \in EnabledProviders THEN Interval["betano"] ELSE Interval["betclic"]
           b == IF "betclic" \in EnabledProviders THEN Interval["betclic"] ELSE Interval["betano"]
<1>2. a \in Nat \ {0} /\ b \in Nat \ {0} /\ intervals = {a, b}
    BY SettingsAssumption
<1> HIDE DEF a, b, intervals
<1>3. Min(intervals) \in intervals
    BY <1>2, MinOfTwo
<1>4. Min(intervals) \in Nat /\ Min(intervals) >= 1
    BY <1>2, <1>3
<1> QED
    BY <1>1, <1>4 DEF Policy, intervals

(* The last slot of a sport, when it has one. *)
LEMMA LatestFacts ==
    ASSUME SchedulerInv, NEW s \in SportSet
    PROVE  /\ cycles[s] = {} => Latest(s) = Unset
           /\ cycles[s] # {} => /\ Latest(s) \in Nat
                                /\ \A c \in cycles[s] : c.scheduled <= Latest(s)
<1>1. cycles[s] \subseteq Cycle
    BY DEF SchedulerInv, SchedulerTypes
<1>2. ASSUME cycles[s] # {}
      PROVE  Latest(s) \in Nat /\ \A c \in cycles[s] : c.scheduled <= Latest(s)
    <2>1. PICK c \in cycles[s] : IsLast(s, c)
        BY <1>2 DEF SchedulerInv, SportInv
    <2> DEFINE slots == {d.scheduled : d \in cycles[s]}
    <2>2. slots \in SUBSET Int /\ c.scheduled \in slots /\ c.scheduled \in Nat
        BY <1>1 DEF Cycle
    <2>3. \A y \in slots : y <= c.scheduled
        BY <2>1 DEF IsLast
    <2>4. Max(slots) = c.scheduled
        <3> HIDE DEF slots
        <3> QED
            BY <2>2, <2>3, MaxWitness
    <2> QED
        BY <1>2, <2>1, <2>2, <2>4 DEF Latest, IsLast
<1>3. cycles[s] = {} => Latest(s) = Unset
    BY DEF Latest
<1> QED
    BY <1>2, <1>3

(* The next slot is a time, and an interval after every slot there is.      *)
LEMMA NextDueFacts ==
    ASSUME SchedulerInv, NEW s \in SportSet, NEW at \in Nat
    PROVE  /\ NextDue(s, at) \in Nat
           /\ \A c \in cycles[s] : NextDue(s, at) >= c.scheduled + Policy.interval
<1>1. CASE cycles[s] = {}
    BY <1>1, LatestFacts DEF NextDue, SchedulerInv, SchedulerTypes
<1>2. CASE cycles[s] # {}
    <2> DEFINE last == Latest(s) + Policy.interval
               row == status[s]
               until(p) == IF p \in EnabledProviders /\ row[p] # Unset THEN row[p] ELSE at
               u == until("betano")
               v == until("betclic")
               times == {last, at} \cup {row[p] : p \in {q \in EnabledProviders : row[q] # Unset}}
    <2>1. Latest(s) \in Nat /\ last \in Nat /\ row \in [EnabledProviders -> Nat \cup {Unset}]
        BY <1>2, LatestFacts, PolicyFacts DEF SchedulerInv, SchedulerTypes
    <2>2. NextDue(s, at) = Max(times)
        BY <2>1, SettingsAssumption DEF NextDue
    <2> HIDE DEF last, row
    <2>3. u \in Nat /\ v \in Nat
        BY <2>1
    <2>4. times = {last, at, u, v}
        BY SettingsAssumption
    <2> HIDE DEF u, v, times
    <2>5. Max(times) \in times /\ \A y \in times : Max(times) >= y
        BY <2>1, <2>3, <2>4, MaxOfFour
    <2>6. Max(times) \in Nat /\ Max(times) >= last
        BY <2>1, <2>3, <2>4, <2>5
    <2>7. ASSUME NEW c \in cycles[s] PROVE c.scheduled \in Nat /\ c.scheduled <= Latest(s)
        BY <1>2, LatestFacts DEF SchedulerInv, SchedulerTypes, Cycle
    <2> QED
        BY <2>1, <2>2, <2>6, <2>7, PolicyFacts DEF last
<1> QED
    BY <1>1, <1>2

LEMMA SchedulerInitInv ==
    SchedulerInit => SchedulerInv
<1> SUFFICES ASSUME SchedulerInit PROVE SchedulerInv
    OBVIOUS
<1>1. SchedulerTypes
    BY SettingsAssumption DEF SchedulerInit, SchedulerTypes, Asleep, Memory
<1>2. \A x \in Schedulers : MemoryInv(x) /\ process[x].pc = "asleep"
    BY DEF SchedulerInit, MemoryInv, Asleep
<1>3. \A s \in SportSet : SportInv(s) /\ cycles[s] = {}
    BY DEF SchedulerInit, SportInv
<1>4. cycleJobs = UNION {{c.job : c \in cycles[s]} : s \in SportSet}
    BY DEF SchedulerInit
<1>5. CyclesApart
    BY <1>3 DEF CyclesApart
<1>6. DueApart
    BY <1>1, <1>2 DEF DueApart, SchedulerTypes
<1> QED
    BY <1>1, <1>2, <1>3, <1>4, <1>5, <1>6 DEF SchedulerInv

(* A process moves on: the tables but for the anchor are as before.         *)
LEMMA MoveOn ==
    ASSUME SchedulerInv, NEW x \in Schedulers, NEW new \in Memory,
           process' = [process EXCEPT ![x] = new],
           new.at <= clock,
           new.pc # "asleep" => x \in started /\ new.todo # <<>>,
           new.pc = "enqueue" =>
               /\ new.due <= new.at
               /\ \A c \in cycles[Head(new.todo)] : new.due >= c.scheduled + Policy.interval,
           anchor' \in [SportSet -> Nat \cup {Unset}],
           UNCHANGED <<cycles, cycleJobs, status, started, clock>>
    PROVE  SchedulerInv'
<1>1. SchedulerTypes'
    BY DEF SchedulerInv, SchedulerTypes
<1>2. process'[x] = new /\ \A y \in Schedulers \ {x} : process'[y] = process[y]
    BY DEF SchedulerInv, SchedulerTypes
<1>3. ASSUME NEW y \in Schedulers PROVE MemoryInv(y)'
    BY <1>2 DEF SchedulerInv, MemoryInv
<1>4. ASSUME NEW s \in SportSet PROVE SportInv(s)'
    BY DEF SchedulerInv, SportInv, IsLast
<1>5. CyclesApart'
    BY DEF SchedulerInv, CyclesApart
<1>6. DueApart'
    BY <1>2 DEF SchedulerInv, SchedulerTypes, DueApart, OneProcess, Sport
<1> QED
    BY <1>1, <1>3, <1>4, <1>5, <1>6 DEF SchedulerInv

LEMMA LongTail ==
    ASSUME NEW S, NEW s \in Seq(S), Len(s) > 1
    PROVE  Tail(s) \in Seq(S) /\ Tail(s) # <<>>
<1>1. s # <<>> /\ Len(s) \in Nat
    OBVIOUS
<1>2. Tail(s) \in Seq(S) /\ Len(Tail(s)) = Len(s) - 1
    BY <1>1, HeadTailProperties
<1>3. Len(Tail(s)) # 0 /\ Len(<<>>) = 0
    BY <1>1, <1>2
<1> QED
    BY <1>2, <1>3

(* NextSport leaves a process asleep or before the anchor of a next sport.  *)
LEMMA NextSportEffect ==
    ASSUME SchedulerInv, NEW x \in Schedulers, process[x].pc # "asleep", NextSport(x)
    PROVE  \E new \in Memory :
              /\ process' = [process EXCEPT ![x] = new]
              /\ new.at <= clock /\ new.pc \in {"asleep", "anchor"}
              /\ new.pc # "asleep" => x \in started /\ new.todo # <<>>
<1> DEFINE old == process[x]
           next == [old EXCEPT !.pc = "anchor", !.todo = Tail(old.todo)]
           new == IF Len(old.todo) > 1 THEN next ELSE Asleep
<1>1. /\ old \in Memory /\ old.at <= clock /\ clock \in Nat
      /\ x \in started /\ old.todo # <<>> /\ old.todo \in Seq(SportSet)
    BY SettingsAssumption DEF SchedulerInv, SchedulerTypes, MemoryInv, Memory
<1>2. process' = [process EXCEPT ![x] = new]
    BY DEF NextSport
<1> HIDE DEF old
<1>3. CASE Len(old.todo) > 1
    <2>1. Tail(old.todo) \in Seq(SportSet) /\ Tail(old.todo) # <<>>
        BY <1>1, <1>3, LongTail
    <2>2. next \in Memory /\ next.at <= clock /\ next.pc = "anchor" /\ next.todo # <<>>
        BY <1>1, <2>1 DEF Memory
    <2> QED
        BY <1>1, <1>2, <1>3, <2>2
<1>4. CASE ~(Len(old.todo) > 1)
    <2>1. Asleep \in Memory /\ Asleep.at <= clock /\ Asleep.pc = "asleep"
        BY <1>1 DEF Asleep, Memory
    <2> QED
        BY <1>2, <1>4, <2>1
<1> QED
    BY <1>3, <1>4

LEMMA NextSportStep ==
    ASSUME SchedulerInv, NEW x \in Schedulers, process[x].pc # "asleep", NextSport(x),
           UNCHANGED <<tables, status, started, clock>>
    PROVE  SchedulerInv'
<1>1. PICK new \in Memory :
          /\ process' = [process EXCEPT ![x] = new]
          /\ new.at <= clock /\ new.pc \in {"asleep", "anchor"}
          /\ new.pc # "asleep" => x \in started /\ new.todo # <<>>
    BY NextSportEffect
<1>2. anchor' \in [SportSet -> Nat \cup {Unset}]
    BY DEF SchedulerInv, SchedulerTypes, tables
<1> QED
    BY <1>1, <1>2, MoveOn DEF tables

LEMMA StartTickStep ==
    ASSUME SchedulerInv, NEW x \in Schedulers, StartTick(x)
    PROVE  SchedulerInv'
<1> DEFINE new == [pc |-> "anchor", at |-> clock, todo |-> Sports, due |-> 0]
<1>1. clock \in Nat
    BY SettingsAssumption DEF SchedulerInv, SchedulerTypes
<1>2. new \in Memory /\ new.at <= clock /\ new.pc = "anchor" /\ new.todo # <<>>
    BY <1>1, SettingsAssumption DEF Memory
<1>3. /\ x \in started /\ process' = [process EXCEPT ![x] = new]
      /\ UNCHANGED <<tables, status, started, clock>>
    BY DEF StartTick
<1>4. anchor' \in [SportSet -> Nat \cup {Unset}]
    BY <1>3 DEF SchedulerInv, SchedulerTypes, tables
<1> HIDE DEF new
<1> QED
    BY <1>2, <1>3, <1>4, MoveOn DEF tables

LEMMA EnsureAnchorStep ==
    ASSUME SchedulerInv, NEW x \in Schedulers, EnsureAnchor(x)
    PROVE  SchedulerInv'
<1> DEFINE old == process[x]
           new == [old EXCEPT !.pc = "resolve"]
           s == Sport(x)
<1>1. /\ old \in Memory /\ old.at <= clock /\ old.pc = "anchor"
      /\ x \in started /\ old.todo # <<>> /\ s \in SportSet
    <2>1. old \in Memory /\ old.pc = "anchor" /\ MemoryInv(x)
        BY DEF SchedulerInv, SchedulerTypes, EnsureAnchor
    <2>2. old.todo \in Seq(SportSet) /\ old.todo # <<>>
        BY <2>1 DEF MemoryInv, Memory
    <2>3. s \in SportSet
        BY <2>2, HeadTailProperties DEF Sport
    <2> QED
        BY <2>1, <2>2, <2>3 DEF MemoryInv
<1>2. /\ process' = [process EXCEPT ![x] = new]
      /\ UNCHANGED <<cycles, cycleJobs, status, started, clock>>
    BY DEF EnsureAnchor, SchedulerInv, SchedulerTypes
<1>3. new \in Memory /\ new.at <= clock /\ new.pc = "resolve" /\ new.todo # <<>>
    BY <1>1 DEF Memory
<1>4. anchor' \in [SportSet -> Nat \cup {Unset}]
    <2>1. Latest(s) \in Nat \cup {Unset} /\ old.at + Policy.delay \in Nat
        BY <1>1, LatestFacts, PolicyFacts DEF Memory
    <2> QED
        BY <1>1, <2>1 DEF EnsureAnchor, SchedulerInv, SchedulerTypes
<1> HIDE DEF new, old
<1> QED
    BY <1>1, <1>2, <1>3, <1>4, MoveOn

LEMMA ResolveStep ==
    ASSUME SchedulerInv, NEW x \in Schedulers, Resolve(x)
    PROVE  SchedulerInv'
<1> DEFINE old == process[x]
           s == Sport(x)
           due == NextDue(s, old.at)
           new == [old EXCEPT !.pc = "enqueue", !.due = due]
<1>1. /\ old \in Memory /\ old.at <= clock /\ old.pc = "resolve"
      /\ x \in started /\ old.todo # <<>> /\ s = Head(old.todo) /\ s \in SportSet
    <2>1. old \in Memory /\ old.pc = "resolve" /\ MemoryInv(x)
        BY DEF SchedulerInv, SchedulerTypes, Resolve
    <2>2. old.todo \in Seq(SportSet) /\ old.todo # <<>>
        BY <2>1 DEF MemoryInv, Memory
    <2>3. s \in SportSet
        BY <2>2, HeadTailProperties DEF Sport
    <2> QED
        BY <2>1, <2>2, <2>3 DEF MemoryInv, Sport
<1>2. UNCHANGED <<tables, status, started, clock>>
    BY DEF Resolve
<1>3. CASE due > old.at
    BY <1>1, <1>2, <1>3, NextSportStep DEF Resolve
<1>4. CASE ~(due > old.at)
    <2>1. process' = [process EXCEPT ![x] = new]
        BY <1>4 DEF Resolve, SchedulerInv, SchedulerTypes
    <2>2. due \in Nat /\ \A c \in cycles[s] : due >= c.scheduled + Policy.interval
        BY <1>1, NextDueFacts DEF Memory
    <2> HIDE DEF due, old
    <2>3. due \in Nat /\ due <= old.at
        BY <1>1, <1>4, <2>2 DEF Memory
    <2>4. /\ new \in Memory /\ new.at <= clock /\ new.todo = old.todo
          /\ new.due = due /\ new.due <= new.at
        BY <1>1, <2>3 DEF Memory
    <2>5. anchor' \in [SportSet -> Nat \cup {Unset}]
        BY <1>2 DEF SchedulerInv, SchedulerTypes, tables
    <2> HIDE DEF new, s
    <2> QED
        BY <1>1, <1>2, <2>1, <2>2, <2>4, <2>5, MoveOn DEF tables
<1> QED
    BY <1>3, <1>4

LEMMA SkipStep ==
    ASSUME SchedulerInv, NEW x \in Schedulers, SkipSport(x) \/ TickFails(x)
    PROVE  SchedulerInv'
<1>1. process[x].pc # "asleep" /\ UNCHANGED <<tables, status, started, clock>>
    BY DEF SkipSport, TickFails
<1>2. CASE SkipSport(x)
    BY <1>1, <1>2, NextSportStep DEF SkipSport
<1>3. CASE TickFails(x)
    <2>1. clock \in Nat
        BY SettingsAssumption DEF SchedulerInv, SchedulerTypes
    <2>2. Asleep \in Memory /\ Asleep.at <= clock /\ Asleep.pc = "asleep"
        BY <2>1 DEF Asleep, Memory
    <2>3. anchor' \in [SportSet -> Nat \cup {Unset}]
        BY <1>1 DEF SchedulerInv, SchedulerTypes, tables
    <2> QED
        BY <1>1, <1>3, <2>2, <2>3, MoveOn DEF TickFails, tables
<1> QED
    BY <1>2, <1>3

(* A new cycle of a sport lies an interval after the last one.              *)
LEMMA NewCycle ==
    ASSUME SchedulerInv, NEW s \in SportSet, NEW c \in Cycle,
           c.scheduled <= c.enqueued,
           c.job = [sport |-> s, scheduled |-> c.scheduled, window |-> c.enqueued],
           \A d \in cycles[s] : c.scheduled # d.scheduled,
           OneProcess => \A d \in cycles[s] : c.scheduled >= d.scheduled + Policy.interval,
           cycles' = [cycles EXCEPT ![s] = @ \cup {c}],
           cycleJobs' = cycleJobs \cup {c.job}, started' = started
    PROVE  /\ cycles' \in [SportSet -> SUBSET Cycle]
           /\ \A r \in SportSet : SportInv(r)'
           /\ (cycleJobs = UNION {{d.job : d \in cycles[r]} : r \in SportSet})'
           /\ CyclesApart'
<1>1. /\ cycles \in [SportSet -> SUBSET Cycle]
      /\ cycles'[s] = cycles[s] \cup {c}
      /\ \A r \in SportSet \ {s} : cycles'[r] = cycles[r]
    BY DEF SchedulerInv, SchedulerTypes
<1>2. cycles' \in [SportSet -> SUBSET Cycle]
    BY <1>1
<1>3. SportInv(s)'
    <2>1. \A d \in cycles'[s] : /\ d.scheduled <= d.enqueued
                                /\ d.job = [sport |-> s, scheduled |-> d.scheduled,
                                            window |-> d.enqueued]
        BY <1>1 DEF SchedulerInv, SportInv
    <2>2. \A d, e \in cycles'[s] : d.scheduled = e.scheduled => d = e
        BY <1>1 DEF SchedulerInv, SportInv
    <2>3. \E e \in cycles'[s] : \A d \in cycles'[s] : d.scheduled <= e.scheduled
        <3>1. CASE cycles[s] = {}
            BY <1>1, <3>1 DEF Cycle
        <3>2. CASE cycles[s] # {}
            <4>1. PICK last \in cycles[s] : \A d \in cycles[s] : d.scheduled <= last.scheduled
                BY <3>2 DEF SchedulerInv, SportInv, IsLast
            <4>2. last.scheduled \in Int /\ c.scheduled \in Int
                  /\ \A d \in cycles[s] : d.scheduled \in Int
                BY <1>1 DEF Cycle
            <4>3. CASE c.scheduled <= last.scheduled
                BY <1>1, <4>1, <4>2, <4>3
            <4>4. CASE ~(c.scheduled <= last.scheduled)
                <5>1. \A d \in cycles'[s] : d.scheduled <= c.scheduled
                    BY <1>1, <4>1, <4>2, <4>4
                <5> QED
                    BY <1>1, <5>1
            <4> QED
                BY <4>3, <4>4
        <3> QED
            BY <3>1, <3>2
    <2> QED
        BY <2>1, <2>2, <2>3 DEF SportInv, IsLast
<1>4. ASSUME NEW r \in SportSet PROVE SportInv(r)'
    <2>1. CASE r = s
        BY <1>3, <2>1
    <2>2. CASE r # s
        BY <1>1, <2>2 DEF SchedulerInv, SportInv, IsLast
    <2> QED
        BY <2>1, <2>2
<1>5. (cycleJobs = UNION {{d.job : d \in cycles[r]} : r \in SportSet})'
    <2> DEFINE of(r) == {d.job : d \in cycles[r]}
               new(r) == {d.job : d \in cycles'[r]}
    <2>1. new(s) = of(s) \cup {c.job} /\ \A r \in SportSet \ {s} : new(r) = of(r)
        BY <1>1
    <2>2. cycleJobs = UNION {of(r) : r \in SportSet}
        BY DEF SchedulerInv
    <2> HIDE DEF of, new
    <2>3. UNION {new(r) : r \in SportSet} = (UNION {of(r) : r \in SportSet}) \cup {c.job}
        BY <2>1
    <2> QED
        BY <2>2, <2>3 DEF new
<1>6. CyclesApart'
    <2> SUFFICES ASSUME OneProcess, NEW r \in SportSet,
                        NEW d \in cycles'[r], NEW e \in cycles'[r], d # e
                 PROVE  \/ d.scheduled >= e.scheduled + Policy.interval
                        \/ e.scheduled >= d.scheduled + Policy.interval
        BY DEF CyclesApart, OneProcess
    <2>1. \A a, b \in cycles[r] : a # b => \/ a.scheduled >= b.scheduled + Policy.interval
                                           \/ b.scheduled >= a.scheduled + Policy.interval
        BY DEF SchedulerInv, CyclesApart, OneProcess
    <2>2. CASE r = s
        BY <1>1, <2>1, <2>2
    <2>3. CASE r # s
        BY <1>1, <2>1, <2>3
    <2> QED
        BY <2>2, <2>3
<1> QED
    BY <1>2, <1>4, <1>5, <1>6

LEMMA EnqueueStep ==
    ASSUME SchedulerInv, NEW x \in Schedulers, Enqueue(x)
    PROVE  SchedulerInv'
<1> DEFINE s == Sport(x)
           due == process[x].due
           at == process[x].at
           c == [scheduled |-> due, enqueued |-> at, job |-> Key(x)]
<1>1. /\ process[x].pc = "enqueue" /\ x \in started /\ s \in SportSet
      /\ due \in Nat /\ at \in Nat /\ due <= at /\ at <= clock
    <2>1. process[x] \in Memory /\ process[x].pc = "enqueue" /\ MemoryInv(x)
        BY DEF SchedulerInv, SchedulerTypes, Enqueue
    <2>2. process[x].todo \in Seq(SportSet) /\ process[x].todo # <<>>
        BY <2>1 DEF MemoryInv, Memory
    <2>3. s \in SportSet
        BY <2>2, HeadTailProperties DEF Sport
    <2> QED
        BY <2>1, <2>3 DEF MemoryInv, Memory
<1>2. NextSport(x) /\ UNCHANGED <<anchor, status, started, clock>>
    BY DEF Enqueue
<1>3. CASE \E d \in cycles[s] : d.scheduled = due
    BY <1>1, <1>2, <1>3, NextSportStep DEF Enqueue, tables
<1>4. CASE \A d \in cycles[s] : d.scheduled # due
    <2>1. cycles' = [cycles EXCEPT ![s] = @ \cup {c}] /\ cycleJobs' = cycleJobs \cup {c.job}
        BY <1>4 DEF Enqueue
    <2>2. /\ c \in Cycle /\ c.scheduled = due /\ c.enqueued = at
          /\ c.job = [sport |-> s, scheduled |-> due, window |-> at]
        <3>1. clock \in 0..MaxNow /\ MaxNow \in Nat
            BY SettingsAssumption DEF SchedulerInv, SchedulerTypes
        <3>2. due \in 0..MaxNow /\ at \in 0..MaxNow
            BY <1>1, <3>1
        <3> QED
            BY <1>1, <3>2 DEF Cycle, Key
    <2>3. OneProcess => \A d \in cycles[s] : due >= d.scheduled + Policy.interval
        BY <1>1 DEF SchedulerInv, DueApart
    <2> HIDE DEF c, s, due, at
    <2>4. /\ cycles' \in [SportSet -> SUBSET Cycle]
          /\ \A r \in SportSet : SportInv(r)'
          /\ (cycleJobs = UNION {{d.job : d \in cycles[r]} : r \in SportSet})'
          /\ CyclesApart'
        BY <1>1, <1>2, <1>4, <2>1, <2>2, <2>3, NewCycle
    <2>5. PICK new \in Memory :
              /\ process' = [process EXCEPT ![x] = new]
              /\ new.at <= clock /\ new.pc \in {"asleep", "anchor"}
              /\ new.pc # "asleep" => x \in started /\ new.todo # <<>>
        BY <1>1, <1>2, NextSportEffect
    <2>6. process'[x] = new /\ \A y \in Schedulers \ {x} : process'[y] = process[y]
        BY <2>5 DEF SchedulerInv, SchedulerTypes
    <2>7. SchedulerTypes'
        BY <1>2, <2>4, <2>5 DEF SchedulerInv, SchedulerTypes
    <2>8. ASSUME NEW y \in Schedulers PROVE MemoryInv(y)'
        BY <1>2, <2>5, <2>6 DEF SchedulerInv, MemoryInv
    <2>9. DueApart'
        <3>1. OneProcess => started = {x}
            <4>1. started \subseteq Schedulers /\ x \in started
                BY <1>1 DEF SchedulerInv, SchedulerTypes
            <4>2. IsFiniteSet(started)
                BY <4>1, FS_Subset, SettingsAssumption
            <4>3. OneProcess => \E y : started = {y}
                BY <4>2, FS_Singleton DEF OneProcess
            <4> QED
                BY <4>1, <4>3
        <3> QED
            BY <1>2, <2>5, <2>6, <3>1 DEF DueApart, OneProcess
    <2> QED
        BY <2>4, <2>7, <2>8, <2>9 DEF SchedulerInv
<1> QED
    BY <1>3, <1>4

(* The worker and the clock leave cycles and memories alone.                *)
LEMMA OutsideStep ==
    ASSUME SchedulerInv,
           status' \in [SportSet -> [EnabledProviders -> Nat \cup {Unset}]],
           clock' \in 0..MaxNow, clock' >= clock,
           UNCHANGED <<tables, started, process>>
    PROVE  SchedulerInv'
<1>1. clock \in Nat
    BY SettingsAssumption DEF SchedulerInv, SchedulerTypes
<1>2. SchedulerTypes'
    BY DEF SchedulerInv, SchedulerTypes, tables
<1>3. ASSUME NEW x \in Schedulers PROVE MemoryInv(x)'
    <2>1. process[x].at \in Nat /\ process[x].at <= clock
        BY DEF SchedulerInv, SchedulerTypes, MemoryInv, Memory
    <2>2. process[x].at <= clock'
        BY <1>1, <2>1, SettingsAssumption
    <2> QED
        BY <2>2 DEF SchedulerInv, MemoryInv
<1>4. ASSUME NEW s \in SportSet PROVE SportInv(s)'
    BY DEF SchedulerInv, SportInv, IsLast, tables
<1>5. CyclesApart' /\ DueApart'
    BY DEF SchedulerInv, CyclesApart, DueApart, OneProcess, Sport, tables
<1> QED
    BY <1>2, <1>3, <1>4, <1>5 DEF SchedulerInv, tables

LEMMA StatusStep ==
    ASSUME SchedulerInv, NEW s \in SportSet, NEW p \in EnabledProviders,
           ProviderBlocked(s, p) \/ ProviderUsable(s, p)
    PROVE  SchedulerInv'
<1>1. clock \in 0..MaxNow /\ clock \in Nat /\ clock + Cooldown \in Nat
    BY SettingsAssumption DEF SchedulerInv, SchedulerTypes
<1>2. UNCHANGED <<tables, started, process, clock>>
    BY DEF ProviderBlocked, ProviderUsable
<1>3. status' \in [SportSet -> [EnabledProviders -> Nat \cup {Unset}]]
    <2>1. PICK until \in Nat \cup {Unset} : status' = [status EXCEPT ![s][p] = until]
        BY <1>1 DEF ProviderBlocked, ProviderUsable
    <2> QED
        BY <2>1 DEF SchedulerInv, SchedulerTypes
<1> QED
    BY <1>1, <1>2, <1>3, OutsideStep

LEMMA PassStep ==
    ASSUME SchedulerInv, Pass
    PROVE  SchedulerInv'
<1>1. clock \in 0..MaxNow /\ MaxNow \in Nat /\ clock < MaxNow /\ clock' = clock + 1
    BY SettingsAssumption DEF SchedulerInv, SchedulerTypes, Pass
<1>2. clock' \in 0..MaxNow /\ clock' >= clock
    BY <1>1
<1>3. /\ status' \in [SportSet -> [EnabledProviders -> Nat \cup {Unset}]]
      /\ UNCHANGED <<tables, started, process>>
    BY DEF SchedulerInv, SchedulerTypes, Pass
<1> QED
    BY <1>2, <1>3, OutsideStep

LEMMA SchedulerInvStep ==
    SchedulerInv /\ [SchedulerNext]_schedulerVars => SchedulerInv'
<1> SUFFICES ASSUME SchedulerInv, [SchedulerNext]_schedulerVars PROVE SchedulerInv'
    OBVIOUS
<1>1. ASSUME NEW x \in Schedulers,
             \/ StartTick(x) \/ EnsureAnchor(x) \/ Resolve(x)
             \/ Enqueue(x) \/ SkipSport(x) \/ TickFails(x)
      PROVE  SchedulerInv'
    BY <1>1, StartTickStep, EnsureAnchorStep, ResolveStep, EnqueueStep, SkipStep
<1>2. ASSUME NEW s \in SportSet, NEW p \in EnabledProviders,
             ProviderBlocked(s, p) \/ ProviderUsable(s, p)
      PROVE  SchedulerInv'
    BY <1>2, StatusStep
<1>3. CASE Pass
    BY <1>3, PassStep
<1>4. CASE UNCHANGED schedulerVars
    <2>1. clock \in Int
        BY SettingsAssumption DEF SchedulerInv, SchedulerTypes
    <2>2. clock' >= clock
        BY <1>4, <2>1 DEF schedulerVars
    <2> QED
        BY <1>4, <2>2, OutsideStep DEF schedulerVars, SchedulerInv, SchedulerTypes, tables
<1> QED
    BY <1>1, <1>2, <1>3, <1>4 DEF SchedulerNext

LEMMA SchedulerInvImplies ==
    SchedulerInv => CyclesMatchCadence
<1> SUFFICES ASSUME SchedulerInv PROVE CyclesMatchCadence
    OBVIOUS
<1>1. SchedulerTypeOK
    BY DEF SchedulerInv, SchedulerTypes, MemoryInv, SportInv, Memory, SchedulerTypeOK
<1>2. JobsMatchCycles
    <2>1. ASSUME NEW s \in SportSet, NEW c \in cycles[s], NEW d \in cycles[s], c.job = d.job
          PROVE  c = d
        <3>1. /\ c.job = [sport |-> s, scheduled |-> c.scheduled, window |-> c.enqueued]
              /\ d.job = [sport |-> s, scheduled |-> d.scheduled, window |-> d.enqueued]
              /\ c.scheduled = d.scheduled => c = d
            BY DEF SchedulerInv, SportInv
        <3>2. c.job.scheduled = c.scheduled /\ d.job.scheduled = d.scheduled
            BY <3>1
        <3> QED
            BY <2>1, <3>1, <3>2
    <2> QED
        BY <2>1 DEF SchedulerInv, JobsMatchCycles
<1> QED
    BY <1>1, <1>2 DEF SchedulerInv, CyclesMatchCadence

(* Whatever fails, races or is restarted: every cycle has its own job, no   *)
(* job is without its cycle, no slot lies after the enqueueing, and the     *)
(* cycles that one process schedules are at least the interval apart        *)
(* (scheduler.py, scheduler_ops.py).                                        *)
THEOREM CadenceIsKept ==
    SchedulerSpec => []CyclesMatchCadence
BY SchedulerInitInv, SchedulerInvStep, SchedulerInvImplies, PTL DEF SchedulerSpec

-----------------------------------------------------------------------------
(* The supervisor: a child that runs is one it started, and while children  *)
(* are stopped every one that runs is still to be reached by the loop.       *)
Statements == {"start", "loop", "poll", "alive", "ended"}
Loops == {"stop", "abort_stop", "cleanup"}
Waits == {"await", "abort_await", "cleanup_wait"}

Held(s, from, name) == \E i \in from..Len(s) : s[i] = name
Running == {c \in Children : child[c] = "alive"}

SupervisorTypes ==
    /\ child \in [Children -> {"none", "alive"} \cup Codes]
    /\ stopSent \in [Children -> 0..1]
    /\ children \in Seq(Children) /\ list \in Seq(Children)
    /\ pc \in Statements \cup Loops \cup Waits
    /\ k \in Nat /\ (pc # "ended" => k > 0)

StopsReach ==
    /\ pc \in Loops \cup Waits => \A c \in Running : Held(list, k, c)
    /\ pc \in Waits => k <= Len(list)

PollsReach ==
    /\ pc = "poll" => list = children
    /\ pc = "alive" =>
          /\ \A c \in Running : Held(children, k, c) \/ Held(list, 1, c)
          /\ \A i \in 1..Len(list) : child[list[i]] # "none"

SupervisorInv ==
    /\ SupervisorTypes
    /\ \A c \in Children : child[c] # "none" => Held(children, 1, c)
    /\ StopsReach
    /\ PollsReach
    /\ NoOrphan

LEMMA SupervisorStarts == SupervisorInit => SupervisorInv
<1> SUFFICES ASSUME SupervisorInit PROVE SupervisorInv
    OBVIOUS
<1>1. <<>> \in Seq(Children)
    OBVIOUS
<1> QED
    BY <1>1 DEF SupervisorInit, SupervisorInv, SupervisorTypes, StopsReach, PollsReach,
        NoOrphan, Running, Statements, Loops, Waits

(* Taking a child out of a list keeps the others.                           *)
LEMMA WithoutKeeps ==
    ASSUME NEW s \in Seq(Children), NEW name \in Children, Held(s, 1, name)
    PROVE  /\ Without(s, name) \in Seq(Children)
           /\ \A c \in Children \ {name} : Held(s, 1, c) => Held(Without(s, name), 1, c)
<1> DEFINE at == CHOOSE i \in 1..Len(s) : s[i] = name
           left == SubSeq(s, 1, at - 1)
           right == SubSeq(s, at + 1, Len(s))
<1>1. at \in 1..Len(s) /\ s[at] = name
    BY DEF Held
<1>2. Without(s, name) = left \o right
    BY DEF Without
<1> HIDE DEF at
<1>3. /\ left \in Seq(Children) /\ Len(left) = at - 1
      /\ \A i \in 1..(at - 1) : left[i] = s[i]
    BY <1>1
<1>4. /\ right \in Seq(Children) /\ Len(right) = Len(s) - at
      /\ \A i \in 1..(Len(s) - at) : right[i] = s[at + i]
    BY <1>1
<1> HIDE DEF left, right
<1>5. /\ left \o right \in Seq(Children)
      /\ Len(left \o right) = Len(s) - 1
      /\ \A i \in 1..(at - 1) : (left \o right)[i] = s[i]
      /\ \A i \in at..(Len(s) - 1) : (left \o right)[i] = s[i + 1]
  <2>1. /\ left \o right \in Seq(Children)
        /\ Len(left \o right) = Len(left) + Len(right)
        /\ \A i \in 1..(Len(left) + Len(right)) : (left \o right)[i] =
              IF i <= Len(left) THEN left[i] ELSE right[i - Len(left)]
    BY <1>3, <1>4, ConcatProperties
  <2>2. ASSUME NEW i \in at..(Len(s) - 1)
        PROVE  (left \o right)[i] = s[i + 1]
    <3>1. i - (at - 1) \in 1..(Len(s) - at) /\ at + (i - (at - 1)) = i + 1
      BY <1>1
    <3>2. i \in 1..(Len(left) + Len(right)) /\ ~(i <= Len(left)) /\ i - Len(left) = i - (at - 1)
      BY <1>1, <1>3, <1>4
    <3>3. (left \o right)[i] = right[i - (at - 1)]
      BY <2>1, <3>2
    <3>4. right[i - (at - 1)] = s[at + (i - (at - 1))]
      BY <1>4, <3>1
    <3> QED
      BY <3>1, <3>3, <3>4
  <2>3. ASSUME NEW i \in 1..(at - 1)
        PROVE  (left \o right)[i] = s[i]
    BY <2>1, <1>1, <1>3, <1>4
  <2>4. Len(left \o right) = Len(s) - 1
    BY <2>1, <1>1, <1>3, <1>4
  <2> QED
    BY <2>1, <2>2, <2>3, <2>4
<1>6. ASSUME NEW c \in Children \ {name}, Held(s, 1, c)
      PROVE  Held(left \o right, 1, c)
  <2>1. PICK i \in 1..Len(s) : s[i] = c
    BY <1>6 DEF Held
  <2>2. CASE i < at
    <3>1. i \in 1..(at - 1) /\ i \in 1..Len(left \o right)
      BY <2>1, <2>2, <1>1, <1>5
    <3> QED
      BY <3>1, <2>1, <1>5 DEF Held
  <2>3. CASE i > at
    <3>1. i - 1 \in at..(Len(s) - 1) /\ i - 1 \in 1..Len(left \o right) /\ (i - 1) + 1 = i
      BY <2>1, <2>3, <1>1, <1>5
    <3> QED
      BY <3>1, <2>1, <1>5 DEF Held
  <2> QED
    BY <2>1, <2>2, <2>3, <1>1
<1> QED
    BY <1>2, <1>5, <1>6

LEMMA AppendHolds ==
    ASSUME NEW s \in Seq(Children), NEW name \in Children
    PROVE  /\ Append(s, name) \in Seq(Children)
           /\ Held(Append(s, name), 1, name)
           /\ \A c \in Children : Held(s, 1, c) => Held(Append(s, name), 1, c)
<1>1. /\ Append(s, name) \in Seq(Children)
      /\ Len(Append(s, name)) = Len(s) + 1
      /\ \A i \in 1..Len(s) : Append(s, name)[i] = s[i]
      /\ Append(s, name)[Len(s) + 1] = name
    OBVIOUS
<1> QED
    BY <1>1 DEF Held

LEMMA StartChildStep == SupervisorInv /\ StartChild => SupervisorInv'
<1> SUFFICES ASSUME SupervisorInv, StartChild PROVE SupervisorInv'
    OBVIOUS
<1>1. Plan[k] \in Children
    BY PlanAssumption DEF SupervisorInv, SupervisorTypes, StartChild, Children
<1>2. CASE children' = children
  <2>1. /\ pc = "start" /\ pc' = "abort_stop" /\ k' = 1 /\ list' = children
        /\ child' = child /\ stopSent' = stopSent /\ result' = result
    <3>1. Len(Append(children, Plan[k])) # Len(children)
      BY <1>1 DEF SupervisorInv, SupervisorTypes
    <3>2. children' # Append(children, Plan[k])
      BY <1>2, <3>1
    <3> QED
      BY <3>2 DEF StartChild, Continue
  <2>2. SupervisorTypes'
    BY <1>2, <2>1 DEF SupervisorInv, SupervisorTypes, Loops
  <2>3. \A c \in Children : child'[c] # "none" => Held(children', 1, c)
    BY <1>2, <2>1 DEF SupervisorInv
  <2>4. \A c \in Running' : Held(list', k', c)
    BY <1>2, <2>1, <2>3 DEF Running
  <2>5. StopsReach' /\ PollsReach' /\ NoOrphan'
    BY <2>1, <2>4 DEF StopsReach, PollsReach, NoOrphan, Waits
  <2> QED
    BY <1>2, <2>2, <2>3, <2>5 DEF SupervisorInv, Held
<1>3. CASE children' # children
  <2>1. /\ child' = [child EXCEPT ![Plan[k]] = "alive"]
        /\ children' = Append(children, Plan[k])
        /\ pc' = "start" /\ k' = k + 1 /\ list' = list
        /\ stopSent' = stopSent /\ result' = result
    BY <1>3 DEF StartChild, Continue
  <2>2. /\ children' \in Seq(Children) /\ Held(children', 1, Plan[k])
        /\ \A c \in Children : Held(children, 1, c) => Held(children', 1, c)
    BY <1>1, <2>1, AppendHolds DEF SupervisorInv, SupervisorTypes
  <2>3. \A c \in Children : child'[c] # "none" => Held(children', 1, c)
    BY <1>1, <2>1, <2>2 DEF SupervisorInv, SupervisorTypes
  <2> QED
    BY <1>1, <2>1, <2>2, <2>3 DEF SupervisorInv, SupervisorTypes, StopsReach, PollsReach,
      NoOrphan, Running, Statements, Loops, Waits, Held
<1> QED
    BY <1>2, <1>3

(* From "loop" on, stopping or polling starts from all the children.        *)
LEMMA LoopStep ==
    SupervisorInv /\ (InstallSignalHandlers \/ CheckStop \/ GuardedException \/ Signal)
      => SupervisorInv'
<1> SUFFICES ASSUME SupervisorInv,
                    InstallSignalHandlers \/ CheckStop \/ GuardedException \/ Signal
             PROVE  SupervisorInv'
    OBVIOUS
<1>1. /\ child' = child /\ stopSent' = stopSent /\ children' = children /\ result' = result
      /\ \/ pc' \in {"loop", "stop", "poll", "cleanup"} /\ k' = 1 /\ list' = children
         \/ pc' = pc /\ k' = k /\ list' = list
    BY DEF InstallSignalHandlers, CheckStop, GuardedException, Signal, Continue, supVars
<1> QED
    BY <1>1 DEF SupervisorInv, SupervisorTypes, StopsReach, PollsReach, NoOrphan, Running,
      Statements, Loops, Waits, Held

(* The child that exited is left out of the children to stop.               *)
LEMMA HandleChildExitStep ==
    ASSUME SupervisorInv, NEW name \in Children, child[name] # "alive",
           Held(children, 1, name), HandleChildExit(name),
           UNCHANGED <<child, stopSent, children, result>>
    PROVE  SupervisorInv'
<1>1. pc' = "stop" /\ k' = 1 /\ list' = Without(children, name)
    BY DEF HandleChildExit, Continue
<1>2. /\ list' \in Seq(Children)
      /\ \A c \in Children \ {name} : Held(children, 1, c) => Held(list', 1, c)
    BY <1>1, WithoutKeeps DEF SupervisorInv, SupervisorTypes
<1> QED
    BY <1>1, <1>2 DEF SupervisorInv, SupervisorTypes, StopsReach, PollsReach, NoOrphan,
      Running, Statements, Loops, Waits

LEMMA FirstExitedChildStep == SupervisorInv /\ FirstExitedChild => SupervisorInv'
<1> SUFFICES ASSUME SupervisorInv, FirstExitedChild PROVE SupervisorInv'
    OBVIOUS
<1>1. /\ pc = "poll" /\ list = children /\ children \in Seq(Children)
      /\ UNCHANGED <<child, stopSent, children, result>> /\ k \in Nat /\ k > 0
    BY DEF SupervisorInv, SupervisorTypes, PollsReach, FirstExitedChild
<1>2. CASE k <= Len(list) /\ child[list[k]] # "alive"
  <2>1. list[k] \in Children /\ Held(children, 1, list[k])
    BY <1>1, <1>2 DEF Held
  <2>2. HandleChildExit(list[k])
    BY <1>2, <1>1 DEF FirstExitedChild
  <2> QED
    BY <1>1, <1>2, <2>1, <2>2, HandleChildExitStep
<1>3. CASE ~(k <= Len(list) /\ child[list[k]] # "alive")
  <2>1. \/ pc' = "alive" /\ k' = 1 /\ list' = <<>>
        \/ pc' = "poll" /\ k' = k + 1 /\ list' = list
    BY <1>1, <1>3 DEF FirstExitedChild, Continue
  <2>2. CASE pc' = "alive" /\ k' = 1 /\ list' = <<>>
    <3>1. <<>> \in Seq(Children) /\ Len(<<>>) = 0
      OBVIOUS
    <3>2. \A c \in Running : Held(children, 1, c)
      BY DEF SupervisorInv, Running
    <3> QED
      BY <1>1, <2>2, <3>1, <3>2 DEF SupervisorInv, SupervisorTypes, StopsReach, PollsReach,
        NoOrphan, Running, Statements, Loops, Waits
  <2>3. CASE pc' = "poll" /\ k' = k + 1 /\ list' = list
    BY <1>1, <2>3 DEF SupervisorInv, SupervisorTypes, StopsReach, PollsReach, NoOrphan,
      Running, Statements, Loops, Waits
  <2> QED
    BY <2>1, <2>2, <2>3
<1> QED
    BY <1>2, <1>3

LEMMA ListAliveStep == SupervisorInv /\ ListAlive => SupervisorInv'
<1> SUFFICES ASSUME SupervisorInv, ListAlive PROVE SupervisorInv'
    OBVIOUS
<1>1. /\ pc = "alive" /\ k \in 1..Len(children) /\ children[k] \in Children
      /\ pc' = "alive" /\ k' = k + 1
      /\ UNCHANGED <<child, stopSent, children, result>>
    BY DEF SupervisorInv, SupervisorTypes, ListAlive, Continue
<1>2. CASE child[children[k]] = "alive"
  <2>1. list' = Append(list, children[k])
    BY <1>2 DEF ListAlive, Continue
  <2>2. /\ list' \in Seq(Children) /\ Held(list', 1, children[k])
        /\ \A c \in Children : Held(list, 1, c) => Held(list', 1, c)
    BY <1>1, <2>1, AppendHolds DEF SupervisorInv, SupervisorTypes
  <2>3. \A c \in Running : Held(children, k + 1, c) \/ Held(list', 1, c)
    <3> SUFFICES ASSUME NEW c \in Running PROVE Held(children, k + 1, c) \/ Held(list', 1, c)
      OBVIOUS
    <3>1. c \in Children /\ (Held(children, k, c) \/ Held(list, 1, c))
      BY <1>1 DEF SupervisorInv, PollsReach, Running
    <3>2. Held(children, k, c) => Held(children, k + 1, c) \/ c = children[k]
      BY <1>1 DEF Held, SupervisorInv, SupervisorTypes
    <3> QED
      BY <3>1, <3>2, <2>2
  <2>4. \A i \in 1..Len(list') : child[list'[i]] # "none"
    <3>1. /\ Len(list') = Len(list) + 1 /\ list'[Len(list) + 1] = children[k]
          /\ \A i \in 1..Len(list) : list'[i] = list[i]
      BY <1>1, <2>1 DEF SupervisorInv, SupervisorTypes
    <3>2. \A i \in 1..Len(list) : child[list[i]] # "none"
      BY <1>1 DEF SupervisorInv, PollsReach
    <3>3. list \in Seq(Children) /\ Len(list) \in Nat
      BY DEF SupervisorInv, SupervisorTypes
    <3> SUFFICES ASSUME NEW i \in 1..Len(list') PROVE child[list'[i]] # "none"
      OBVIOUS
    <3>4. i \in 1..Len(list) \/ i = Len(list) + 1
      BY <3>1, <3>3
    <3> QED
      BY <3>1, <3>2, <3>4, <1>2
  <2> QED
    BY <1>1, <2>2, <2>3, <2>4 DEF SupervisorInv, SupervisorTypes, StopsReach, PollsReach,
      NoOrphan, Running, Statements, Loops, Waits
<1>3. CASE child[children[k]] # "alive"
  <2>1. list' = list
    BY <1>3 DEF ListAlive, Continue
  <2>2. \A c \in Running : Held(children, k + 1, c) \/ Held(list, 1, c)
    <3> SUFFICES ASSUME NEW c \in Running PROVE Held(children, k + 1, c) \/ Held(list, 1, c)
      OBVIOUS
    <3>1. c # children[k] /\ (Held(children, k, c) \/ Held(list, 1, c))
      BY <1>1, <1>3 DEF SupervisorInv, PollsReach, Running
    <3> QED
      BY <1>1, <3>1 DEF Held, SupervisorInv, SupervisorTypes
  <2> QED
    BY <1>1, <2>1, <2>2 DEF SupervisorInv, SupervisorTypes, StopsReach, PollsReach, NoOrphan,
      Running, Statements, Loops, Waits
<1> QED
    BY <1>2, <1>3

(* What ends run() leaves nobody running.                                    *)
LEMMA FinishStep ==
    ASSUME SupervisorInv, NEW outcome, Finish(outcome),
           UNCHANGED <<child, stopSent, children>>,
           outcome # "interrupted" => Running = {}
    PROVE  SupervisorInv'
<1>1. pc' = "ended" /\ k' = 0 /\ list' = <<>> /\ result' = outcome /\ <<>> \in Seq(Children)
    BY DEF Finish, Continue
<1> QED
    BY <1>1 DEF SupervisorInv, SupervisorTypes, StopsReach, PollsReach, NoOrphan, Running,
      Statements, Loops, Waits

LEMMA EndingStep ==
    SupervisorInv /\ (NobodyAlive \/ ShutdownDone \/ CleanupDone \/ UnguardedException)
      => SupervisorInv'
<1> SUFFICES ASSUME SupervisorInv,
                    NobodyAlive \/ ShutdownDone \/ CleanupDone \/ UnguardedException
             PROVE  SupervisorInv'
    OBVIOUS
<1>1. CASE NobodyAlive
  <2>1. Running = {}
    BY <1>1 DEF NobodyAlive, SupervisorInv, SupervisorTypes, PollsReach, Held
  <2> QED
    BY <1>1, <2>1, FinishStep DEF NobodyAlive
<1>2. CASE ShutdownDone
  <2>1. Running = {}
    BY <1>2 DEF ShutdownDone, SupervisorInv, SupervisorTypes, StopsReach, Held, Stopping, Loops
  <2> QED
    BY <1>2, <2>1, FinishStep DEF ShutdownDone
<1>3. CASE CleanupDone
  <2>1. Running = {}
    BY <1>3 DEF CleanupDone, SupervisorInv, SupervisorTypes, StopsReach, Held, Loops
  <2> QED
    BY <1>3, <2>1, FinishStep DEF CleanupDone
<1>4. CASE UnguardedException
    BY <1>4, FinishStep DEF UnguardedException
<1> QED
    BY <1>1, <1>2, <1>3, <1>4

LEMMA WaitFirstStep == SupervisorInv /\ WaitFirst => SupervisorInv'
<1> SUFFICES ASSUME SupervisorInv, WaitFirst PROVE SupervisorInv'
    OBVIOUS
<1>1. /\ pc = "alive" /\ UNCHANGED <<child, stopSent, children, result>>
      /\ list[1] \in Children
    BY DEF SupervisorInv, SupervisorTypes, WaitFirst
<1>2. CASE child[list[1]] # "alive"
  <2>1. HandleChildExit(list[1])
    BY <1>2 DEF WaitFirst
  <2>2. Held(children, 1, list[1])
    <3>1. child[list[1]] # "none"
      BY <1>1 DEF SupervisorInv, SupervisorTypes, PollsReach, WaitFirst
    <3> QED
      BY <3>1, <1>1 DEF SupervisorInv
  <2> QED
    BY <1>1, <1>2, <2>1, <2>2, HandleChildExitStep
<1>3. CASE child[list[1]] = "alive"
  <2>1. pc' = "loop" /\ k' = 1 /\ list' = <<>> /\ <<>> \in Seq(Children)
    BY <1>3 DEF WaitFirst, Continue
  <2> QED
    BY <1>1, <2>1 DEF SupervisorInv, SupervisorTypes, StopsReach, PollsReach, NoOrphan,
      Running, Statements, Loops, Waits
<1> QED
    BY <1>2, <1>3

(* A child that no longer runs is passed over.                               *)
LEMMA PassedOver ==
    ASSUME SupervisorTypes, k <= Len(list), pc # "ended",
           \A c \in Running : Held(list, k, c), list[k] \notin Running
    PROVE  \A c \in Running : Held(list, k + 1, c)
BY DEF SupervisorTypes, Held

LEMMA AskedOnce ==
    ASSUME stopSent \in [Children -> 0..1], NEW name \in Children,
           RequestGracefulStopOnce(name)
    PROVE  stopSent' \in [Children -> 0..1]
BY DEF RequestGracefulStopOnce

LEMMA ShutdownStep ==
    SupervisorInv /\ (ShutdownChild \/ CleanupChild) => SupervisorInv'
<1> SUFFICES ASSUME SupervisorInv, ShutdownChild \/ CleanupChild PROVE SupervisorInv'
    OBVIOUS
<1>1. /\ pc \in Loops /\ k \in 1..Len(list) /\ list[k] \in Children
      /\ UNCHANGED <<child, children, result>>
    BY DEF SupervisorInv, SupervisorTypes, ShutdownChild, CleanupChild, Stopping, Loops
<1>2. CASE child[list[k]] # "alive"
  <2>1. pc' = pc /\ k' = k + 1 /\ list' = list /\ stopSent' = stopSent
    BY <1>2 DEF ShutdownChild, CleanupChild, Continue
  <2>2. \A c \in Running : Held(list, k + 1, c)
    BY <1>1, <1>2, PassedOver DEF SupervisorInv, StopsReach, Running, Loops
  <2> QED
    BY <1>1, <2>1, <2>2 DEF SupervisorInv, SupervisorTypes, StopsReach, PollsReach, NoOrphan,
      Running, Statements, Loops, Waits
<1>3. CASE child[list[k]] = "alive"
  <2>1. /\ pc' \in Waits /\ k' = k /\ list' = list
        /\ RequestGracefulStopOnce(list[k]) \/ UNCHANGED stopSent
    BY <1>1, <1>3 DEF ShutdownChild, CleanupChild, Continue, Stopping, Awaiting, Waits
  <2>2. stopSent' \in [Children -> 0..1]
    BY <1>1, <2>1, AskedOnce DEF SupervisorInv, SupervisorTypes
  <2> QED
    BY <1>1, <2>1, <2>2 DEF SupervisorInv, SupervisorTypes, StopsReach, PollsReach, NoOrphan,
      Running, Statements, Loops, Waits
<1> QED
    BY <1>2, <1>3

LEMMA WaitStep == SupervisorInv /\ (AwaitChild \/ CleanupWait) => SupervisorInv'
<1> SUFFICES ASSUME SupervisorInv, AwaitChild \/ CleanupWait PROVE SupervisorInv'
    OBVIOUS
<1>1. /\ pc \in Waits /\ k \in 1..Len(list) /\ list[k] \in Children
      /\ pc' \in Loops /\ k' = k + 1 /\ list' = list
      /\ UNCHANGED <<stopSent, children, result>>
    BY DEF SupervisorInv, SupervisorTypes, StopsReach, AwaitChild, CleanupWait, Continue,
      Resuming, Loops, Waits
<1>2. \/ child[list[k]] # "alive" /\ child' = child
      \/ child[list[k]] = "alive" /\ child' = [child EXCEPT ![list[k]] = Killed]
    BY DEF AwaitChild, CleanupWait
<1>3. /\ child' \in [Children -> {"none", "alive"} \cup Codes]
      /\ child'[list[k]] # "alive"
      /\ \A c \in Children : child'[c] = "alive" => child[c] = "alive"
      /\ \A c \in Children : child'[c] # "none" => child[c] # "none"
    BY <1>1, <1>2 DEF SupervisorInv, SupervisorTypes, Codes, Killed
<1>4. \A c \in Children : child'[c] = "alive" => Held(list, k + 1, c)
    BY <1>1, <1>3 DEF SupervisorInv, SupervisorTypes, StopsReach, Held, Running
<1> QED
    BY <1>1, <1>3, <1>4 DEF SupervisorInv, SupervisorTypes, StopsReach, PollsReach, NoOrphan,
      Running, Statements, Loops, Waits

LEMMA ChildExitsStep ==
    ASSUME SupervisorInv, NEW name \in Children, NEW code \in {Zero, NonZero},
           ChildExits(name, code)
    PROVE  SupervisorInv'
<1>1. /\ UNCHANGED <<stopSent, children, pc, k, list, result>>
      /\ child[name] = "alive" /\ child' = [child EXCEPT ![name] = code]
    BY DEF ChildExits, supVars
<1>2. /\ child' \in [Children -> {"none", "alive"} \cup Codes]
      /\ \A c \in Children : child'[c] = "alive" => child[c] = "alive"
      /\ \A c \in Children : child'[c] # "none" => child[c] # "none"
    BY <1>1 DEF SupervisorInv, SupervisorTypes, Codes, Zero, NonZero
<1>3. \A i \in 1..Len(list) : list[i] \in Children
    BY DEF SupervisorInv, SupervisorTypes
<1>4. StopsReach' /\ PollsReach'
  <2>1. Running' \subseteq Running
    BY <1>2 DEF Running
  <2>2. StopsReach'
    BY <1>1, <2>1 DEF SupervisorInv, StopsReach, Held
  <2>3. CASE pc # "alive"
    BY <1>1, <2>2, <2>3 DEF SupervisorInv, PollsReach
  <2>4. CASE pc = "alive"
    <3>1. \A i \in 1..Len(list) : child'[list[i]] # "none"
      BY <1>1, <1>2, <1>3, <2>4 DEF SupervisorInv, SupervisorTypes, PollsReach, Zero, NonZero
    <3>2. \A c \in Running' : Held(children, k, c) \/ Held(list, 1, c)
      BY <2>1, <2>4 DEF SupervisorInv, PollsReach
    <3> QED
      BY <1>1, <2>2, <2>4, <3>1, <3>2 DEF PollsReach, Held
  <2> QED
    BY <2>3, <2>4
<1>5. SupervisorTypes' /\ NoOrphan'
    BY <1>1, <1>2 DEF SupervisorInv, SupervisorTypes, NoOrphan
<1>6. \A c \in Children : child'[c] # "none" => Held(children', 1, c)
    BY <1>1, <1>2 DEF SupervisorInv, Held
<1> QED
    BY <1>4, <1>5, <1>6 DEF SupervisorInv, Held

LEMMA SupervisorStep ==
    SupervisorInv /\ [SupervisorNext]_supervisorVars => SupervisorInv'
<1> SUFFICES ASSUME SupervisorInv, [SupervisorNext]_supervisorVars PROVE SupervisorInv'
    OBVIOUS
<1>1. CASE SupervisorNext
    BY <1>1, StartChildStep, LoopStep, FirstExitedChildStep, ListAliveStep, EndingStep,
      WaitFirstStep, ShutdownStep, WaitStep, ChildExitsStep DEF SupervisorNext, Supervise
<1>2. CASE UNCHANGED supervisorVars
    BY <1>2 DEF supervisorVars, supVars, SupervisorInv, SupervisorTypes, StopsReach,
      PollsReach, NoOrphan, Running, Held
<1> QED
    BY <1>1, <1>2

(* However supervision ends, no child is left running and none is asked     *)
(* twice to stop, whatever the plan and whenever children exit              *)
(* (LocalSupervisor.run).                                                    *)
THEOREM ChildrenAreStopped == SupervisorSpec => []ChildrenStopped
<1>1. SupervisorInv => ChildrenStopped
  <2>1. SupervisorInv => GracefulStopOnce
    <3> SUFFICES ASSUME SupervisorInv, NEW c \in Children PROVE stopSent[c] <= 1
      BY DEF GracefulStopOnce
    <3>1. stopSent[c] \in 0..1
      BY DEF SupervisorInv, SupervisorTypes
    <3> QED
      BY <3>1
  <2> QED
    BY <2>1 DEF SupervisorInv, ChildrenStopped
<1> QED
    BY <1>1, SupervisorStarts, SupervisorStep, PTL DEF SupervisorSpec
=============================================================================
