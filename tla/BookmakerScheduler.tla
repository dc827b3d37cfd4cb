------------------------- MODULE BookmakerScheduler -------------------------
(***************************************************************************)
(* The bookmaker scheduler processes: each tick takes the sports in order, *)
(* makes sure the first-cycle anchor exists, reads when the next cycle is  *)
(* due and, if it is, creates the cycle and its job in one transaction.    *)
(* The three database accesses of a sport are separate steps, each may     *)
(* fail, and the process may be restarted between any two of them.  The    *)
(* provider statuses are written by the jobs that the worker runs.         *)
(***************************************************************************)
EXTENDS Integers, Sequences, FiniteSets, FiniteSetsExt

CONSTANTS Schedulers,   \* scheduler processes on the same database
          Sports,       \* SUPPORTED_BOOKMAKER_SPORTS, a sequence
          EnabledProviders, \* enabled in the settings
          InitialDelay, \* initial_delay_seconds, by provider
          Interval,     \* acquisition_interval_seconds, by provider
          Cooldown,     \* blocked_cooldown_seconds
          MaxNow,       \* bound on the clock
          MaxFailures,  \* bound on failing steps and restarts
          Unset

SportSet == {Sports[i] : i \in 1..Len(Sports)}

ASSUME SettingsAssumption ==
    /\ EnabledProviders \subseteq {"betano", "betclic"} /\ EnabledProviders # {}
    /\ InitialDelay \in [EnabledProviders -> Nat]
    /\ Interval \in [EnabledProviders -> Nat \ {0}]
    /\ Cooldown \in Nat /\ MaxNow \in Nat /\ MaxFailures \in Nat
    /\ Sports \in Seq(SportSet) /\ Sports # <<>>
    /\ IsFiniteSet(Schedulers) /\ Unset \notin Nat

VARIABLES
    anchor,   \* bookmaker_scheduler_anchors: first_due_at by sport
    cycles,   \* bookmaker_scheduler_cycles by sport: scheduled_for, enqueued_at, job
    cycleJobs, \* idempotency keys of the cycle jobs that were created
    status,   \* bookmaker_provider_status by sport and provider
    started,  \* the scheduler processes that the operator runs
    process,  \* their memory
    failures, \* failing steps and restarts so far
    clock

tables == <<anchor, cycles, cycleJobs>>
schedulerVars == <<anchor, cycles, cycleJobs, status, started, process, failures, clock>>

(* resolve_autonomous_scheduling_policy: with both providers Betano gives   *)
(* the delay and the shorter interval counts.                               *)
Policy ==
    [delay |-> IF "betano" \in EnabledProviders THEN InitialDelay["betano"]
               ELSE InitialDelay["betclic"],
     interval |-> Min({Interval[p] : p \in EnabledProviders})]

Asleep == [pc |-> "asleep", at |-> 0, todo |-> <<>>, due |-> 0]

SchedulerInit ==
    /\ anchor = [s \in SportSet |-> Unset]
    /\ cycles = [s \in SportSet |-> {}]
    /\ cycleJobs = {}
    /\ status = [s \in SportSet |-> [p \in EnabledProviders |-> Unset]]
    /\ started \in SUBSET Schedulers \ {{}}
    /\ process = [x \in Schedulers |-> Asleep]
    /\ failures = 0
    /\ clock = 0

Sport(x) == Head(process[x].todo)

(* latest_scheduler_cycle: the cycle with the greatest scheduled_for. *)
Latest(s) == IF cycles[s] = {} THEN Unset ELSE Max({c.scheduled : c \in cycles[s]})

(* Faulty variant of NextSport: the loop ends with its first sport. *)
NextSportNone(x) == process' = [process EXCEPT ![x] = Asleep]

(* On to the next sport of this tick, or to sleep. *)
NextSport(x) ==
    LET todo == process[x].todo
    IN  process' = [process EXCEPT ![x] =
            IF Len(todo) > 1 THEN [@ EXCEPT !.pc = "anchor", !.todo = Tail(todo)] ELSE Asleep]

(* tick: the clock is read once for all sports. *)
StartTick(x) ==
    /\ x \in started /\ process[x].pc = "asleep"
    /\ process' = [process EXCEPT ![x] = [pc |-> "anchor", at |-> clock, todo |-> Sports, due |-> 0]]
    /\ UNCHANGED <<tables, status, started, failures, clock>>

(* ensure_scheduler_anchor, one transaction. *)
EnsureAnchor(x) ==
    /\ process[x].pc = "anchor"
    /\ anchor' = [anchor EXCEPT ![Sport(x)] =
          IF @ # Unset THEN @
          ELSE IF Latest(Sport(x)) # Unset THEN Latest(Sport(x))
          ELSE process[x].at + Policy.delay]
    /\ process' = [process EXCEPT ![x].pc = "resolve"]
    /\ UNCHANGED <<cycles, cycleJobs, status, started, failures, clock>>

(* resolve_next_scheduled_for: the anchor before the first cycle; then the  *)
(* last slot plus the interval, but not before the tick's time nor before   *)
(* a blocked provider is eligible again.                                    *)
NextDue(s, at) ==
    IF Latest(s) = Unset THEN IF anchor[s] # Unset THEN anchor[s] ELSE at
    ELSE Max({Latest(s) + Policy.interval, at} \cup
             {status[s][p] : p \in {q \in EnabledProviders : status[s][q] # Unset}})

(* _enqueue_sport_if_due: a slot in the future waits for a later tick. *)
Resolve(x) ==
    /\ process[x].pc = "resolve"
    /\ LET due == NextDue(Sport(x), process[x].at)
       IN  IF due > process[x].at THEN NextSport(x)
           ELSE process' = [process EXCEPT ![x].pc = "enqueue", ![x].due = due]
    /\ UNCHANGED <<tables, status, started, failures, clock>>

(* The job's idempotency key: the slot and the digest of the window, which  *)
(* starts at the tick's time.                                               *)
Key(x) == [sport |-> Sport(x), scheduled |-> process[x].due, window |-> process[x].at]

(* Faulty variant of Enqueue: the job is committed before the cycle is      *)
(* looked for.                                                              *)
EnqueueJobFirst(x) ==
    /\ process[x].pc = "enqueue"
    /\ cycleJobs' = cycleJobs \cup {Key(x)}
    /\ cycles' = IF \E c \in cycles[Sport(x)] : c.scheduled = process[x].due THEN cycles
                 ELSE [cycles EXCEPT ![Sport(x)] = @ \cup
                        {[scheduled |-> process[x].due, enqueued |-> process[x].at, job |-> Key(x)]}]
    /\ NextSport(x)
    /\ UNCHANGED <<anchor, status, started, failures, clock>>

(* atomic_enqueue_autonomous_cycle: a slot that has a cycle is left alone;  *)
(* otherwise job (by idempotency key) and cycle are created together.       *)
Enqueue(x) ==
    /\ process[x].pc = "enqueue"
    /\ IF \E c \in cycles[Sport(x)] : c.scheduled = process[x].due
       THEN UNCHANGED <<cycles, cycleJobs>>
       ELSE /\ cycleJobs' = cycleJobs \cup {Key(x)}
            /\ cycles' = [cycles EXCEPT ![Sport(x)] = @ \cup
                   {[scheduled |-> process[x].due, enqueued |-> process[x].at, job |-> Key(x)]}]
    /\ NextSport(x)
    /\ UNCHANGED <<anchor, status, started, failures, clock>>

(* The anchor or the enqueue transaction fails: the sport is skipped. *)
SkipSport(x) ==
    /\ failures < MaxFailures /\ failures' = failures + 1
    /\ process[x].pc \in {"anchor", "enqueue"}
    /\ NextSport(x)
    /\ UNCHANGED <<tables, status, started, clock>>

(* Reading the due time is outside the try: its failure ends the whole      *)
(* tick, and run_forever sleeps and goes on.  A restart of the process      *)
(* leaves the same state behind.                                            *)
TickFails(x) ==
    /\ failures < MaxFailures /\ failures' = failures + 1
    /\ process[x].pc # "asleep"
    /\ process' = [process EXCEPT ![x] = Asleep]
    /\ UNCHANGED <<tables, status, started, clock>>

(* The worker: a cycle or an operator's job finds a provider blocked, or    *)
(* not; status keeps next_eligible_at of the blocked ones.                  *)
ProviderBlocked(s, p) ==
    /\ status' = [status EXCEPT ![s][p] = clock + Cooldown]
    /\ UNCHANGED <<tables, process, started, failures, clock>>

ProviderUsable(s, p) ==
    /\ status[s][p] # Unset
    /\ status' = [status EXCEPT ![s][p] = Unset]
    /\ UNCHANGED <<tables, process, started, failures, clock>>

Pass ==
    /\ clock < MaxNow
    /\ clock' = clock + 1
    /\ UNCHANGED <<tables, status, started, process, failures>>

SchedulerNext ==
    \/ \E x \in Schedulers : StartTick(x) \/ EnsureAnchor(x) \/ Resolve(x)
                             \/ Enqueue(x) \/ SkipSport(x) \/ TickFails(x)
    \/ \E s \in SportSet, p \in EnabledProviders : ProviderBlocked(s, p) \/ ProviderUsable(s, p)
    \/ Pass

SchedulerSpec == SchedulerInit /\ [][SchedulerNext]_schedulerVars

(* Time passes, some process goes on, and only finitely many steps fail. *)
ScheduleStep == \E x \in Schedulers : StartTick(x) \/ EnsureAnchor(x) \/ Resolve(x) \/ Enqueue(x)

FairSchedulerSpec == SchedulerSpec /\ WF_schedulerVars(Pass) /\ WF_schedulerVars(ScheduleStep)

-----------------------------------------------------------------------------
(* Properties *)

Cycle == [scheduled : 0..MaxNow, enqueued : 0..MaxNow,
          job : [sport : SportSet, scheduled : 0..MaxNow, window : 0..MaxNow]]

(* Types; no cycle is scheduled later than it was enqueued. *)
SchedulerTypeOK ==
    /\ \A s \in SportSet :
         /\ anchor[s] \in {Unset} \cup Nat
         /\ \A c \in cycles[s] : c \in Cycle /\ c.scheduled <= c.enqueued
    /\ \A x \in Schedulers :
         /\ process[x].pc \in {"asleep", "anchor", "resolve", "enqueue"}
         /\ process[x].at <= clock

(* Jobs and cycles are created together: whatever fails or races, every     *)
(* cycle has its own job and no job is without its cycle.                   *)
JobsMatchCycles ==
    /\ cycleJobs = UNION {{c.job : c \in cycles[s]} : s \in SportSet}
    /\ \A s \in SportSet : \A c, d \in cycles[s] : c.job = d.job => c = d

(* The cadence: cycles of a sport are at least the interval apart, however  *)
(* the one process pauses, fails and is restarted.  (Two processes may each *)
(* schedule a late slot at their own time.)                                 *)
CyclesApart ==
    Cardinality(started) = 1 => \A s \in SportSet : \A c, d \in cycles[s] :
        c # d => c.scheduled >= d.scheduled + Policy.interval
              \/ d.scheduled >= c.scheduled + Policy.interval

(* Every sport gets its first cycle, even if other sports' steps fail.  The *)
(* second disjunct is the end of the bounded clock: an anchor beyond it     *)
(* never comes due.                                                         *)
EverySportStarts ==
    \A s \in SportSet : <>(cycles[s] # {} \/ (anchor[s] # Unset /\ anchor[s] > MaxNow))

(* Cycles and jobs belong together and keep the cadence.                    *)
CyclesMatchCadence == SchedulerTypeOK /\ JobsMatchCycles /\ CyclesApart
=============================================================================
