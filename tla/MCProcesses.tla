---------------------------- MODULE MCProcesses ----------------------------
(* The processes of an installation for TLC: a worker process, the local     *)
(* supervisor with its three children, and two scheduler processes.  Each    *)
(* behaviour is one of the three, the others stay as they began.             *)
EXTENDS MCWorkerRuntime, Supervisor, BookmakerScheduler

VARIABLE part

MCPlan == <<"worker", "streamlit-ui", "bookmaker-scheduler">>

TwoSports == <<"football", "tennis">>
OneEnabled == {"betano"}
MCDelays == [p \in EnabledProviders |-> 0]
Intervals == [p \in EnabledProviders |-> 2]

ProcessesInit ==
    /\ part \in {"worker", "supervisor", "scheduler"}
    /\ RuntimeInit /\ SupervisorInit /\ SchedulerInit
    /\ part # "scheduler" => started = Schedulers

ProcessesNext ==
    /\ UNCHANGED part
    /\ \/ part = "worker" /\ RuntimeNext /\ UNCHANGED <<supervisorVars, schedulerVars>>
       \/ part = "supervisor" /\ SupervisorNext /\ UNCHANGED <<rvars, schedulerVars>>
       \/ part = "scheduler" /\ SchedulerNext /\ UNCHANGED <<rvars, supervisorVars>>

\* The fairness of each component, in the behaviours that are its own.
ProcessesFairness ==
    /\ \A w \in Workers : /\ WF_rvars(part = "worker" /\ MainStep(w))
                          /\ WF_rvars(part = "worker" /\ HeartbeatStep(w))
    /\ WF_supervisorVars(part = "supervisor" /\ Supervise)
    /\ WF_schedulerVars(part = "scheduler" /\ Pass)
    /\ WF_schedulerVars(part = "scheduler" /\ ScheduleStep)

ProcessesSpec ==
    ProcessesInit /\ [][ProcessesNext]_<<part, rvars, supervisorVars, schedulerVars>> /\ ProcessesFairness

-----------------------------------------------------------------------------
\* Every sport of a running scheduler starts its cycles (see EverySportStarts).
SchedulerStartsSports == part = "scheduler" => EverySportStarts
=============================================================================
