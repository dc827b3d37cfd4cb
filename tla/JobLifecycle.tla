---------------------------- MODULE JobLifecycle ----------------------------
(***************************************************************************)
(* What the job queue promises its users, without tables, leases, clocks,  *)
(* versions or claims: a job is worked on by one worker at a time, a       *)
(* worker works on one job at a time, an attempt ends once, and a job gets *)
(* at most as many attempts as it may have.  JobQueue implements it.       *)
(***************************************************************************)
EXTENDS Naturals

CONSTANTS Jobs, Workers, NULL, MaximumAttempts

VARIABLES
    status,     \* of each job
    holder,     \* the worker that works on it, or NULL
    attempts    \* attempts started

lifecycleVars == <<status, holder, attempts>>

LifecycleInit ==
    /\ status = [j \in Jobs |-> "absent"]
    /\ holder = [j \in Jobs |-> NULL]
    /\ attempts = [j \in Jobs |-> 0]

MayRepeat(j) == attempts[j] < MaximumAttempts[j]

Submit(j) ==
    /\ status[j] = "absent"
    /\ status' = [status EXCEPT ![j] = "pending"]
    /\ UNCHANGED <<holder, attempts>>

\* A free worker takes a job that has an attempt left.
Start(j, w) ==
    /\ status[j] = "pending" /\ MayRepeat(j)
    /\ \A k \in Jobs : holder[k] # w
    /\ status' = [status EXCEPT ![j] = "running"]
    /\ holder' = [holder EXCEPT ![j] = w]
    /\ attempts' = [attempts EXCEPT ![j] = @ + 1]

\* The attempt of one worker ends: with a result, for good, or to be repeated.
Finish(j) ==
    /\ status[j] = "running"
    /\ \E s \in {"succeeded", "failed"} \cup (IF MayRepeat(j) THEN {"pending"} ELSE {}) :
          status' = [status EXCEPT ![j] = s]
    /\ holder' = [holder EXCEPT ![j] = NULL]
    /\ UNCHANGED attempts

\* The attempts of several jobs at once are lost with their workers.
Lose(lost) ==
    /\ lost # {} /\ \A j \in lost : status[j] = "running"
    /\ status' = [j \in Jobs |-> IF j \notin lost THEN status[j] ELSE IF MayRepeat(j) THEN "pending" ELSE "failed"]
    /\ holder' = [j \in Jobs |-> IF j \in lost THEN NULL ELSE holder[j]]
    /\ UNCHANGED attempts

Withdraw(j) ==
    /\ status[j] \in {"pending", "failed"}
    /\ status' = [status EXCEPT ![j] = "cancelled"]
    /\ UNCHANGED <<holder, attempts>>

Reopen(j) ==
    /\ status[j] = "failed" /\ MayRepeat(j)
    /\ status' = [status EXCEPT ![j] = "pending"]
    /\ UNCHANGED <<holder, attempts>>

LifecycleNext ==
    \/ \E j \in Jobs : Submit(j) \/ Finish(j) \/ Withdraw(j) \/ Reopen(j)
    \/ \E j \in Jobs, w \in Workers : Start(j, w)
    \/ \E lost \in SUBSET Jobs : Lose(lost)

LifecycleSpec == LifecycleInit /\ [][LifecycleNext]_lifecycleVars
=============================================================================
