----------------------------- MODULE Supervisor -----------------------------
(***************************************************************************)
(* The local process supervisor (local/supervisor.py): LocalSupervisor.run *)
(* starts the worker and, when configured, the UI and the bookmaker        *)
(* scheduler, polls them, and stops the others when one exits or when a    *)
(* stop signal arrives.                                                    *)
(*                                                                         *)
(* Children are independent processes: one may exit between any two        *)
(* statements of the supervisor, so every poll and wait is a step of its   *)
(* own.  A stopped child may ignore the request until it is killed.        *)
(***************************************************************************)
EXTENDS Naturals, Sequences, FiniteSets

CONSTANT
    Plan        \* the children to start, in order

ASSUME PlanAssumption ==
    /\ Plan \in Seq(STRING) /\ Len(Plan) > 0
    /\ \A i, j \in 1..Len(Plan) : Plan[i] = Plan[j] => i = j

Children == {Plan[i] : i \in 1..Len(Plan)}
Zero == "zero"              \* exit status 0
NonZero == "non-zero"
Killed == "killed"          \* wait() of a killed child: also non-zero
Codes == {Zero, NonZero, Killed}

VARIABLES
    child,      \* "none", "alive" or the exit code
    stopSent,   \* graceful stop requests sent to each child
    stop,       \* stop_requested, set by the signal handlers
    children,   \* the children started so far, in order
    pc, k,      \* the supervisor's statement and loop index
    list,       \* children the present loop runs over
    codes,      \* codes collected by _shutdown_children
    exitCode,   \* exit code of the child that ended supervision
    result      \* "none", "raised", "interrupted" or the returned exit status

supVars == <<children, pc, k, list, codes, exitCode, result>>
supervisorVars == <<child, stopSent, stop, supVars>>

SupervisorInit ==
    /\ child = [c \in Children |-> "none"]
    /\ stopSent = [c \in Children |-> 0]
    /\ stop = FALSE /\ children = <<>>
    /\ pc = "start" /\ k = 1 /\ list = <<>> /\ codes = <<>>
    /\ exitCode = Zero /\ result = "none"

Continue(where, index, over) == pc' = where /\ k' = index /\ list' = over

Finish(outcome) ==
    /\ result' = outcome
    /\ Continue("ended", 0, <<>>)
    /\ codes' = <<>>
    /\ UNCHANGED exitCode

-----------------------------------------------------------------------------
(* Starting *)

(* _start_child: Popen succeeds, or OSError becomes a WorkerError and the   *)
(* children started so far are shut down before it is raised.               *)
StartChild ==
    /\ pc = "start" /\ k <= Len(Plan)
    /\ \/ /\ child' = [child EXCEPT ![Plan[k]] = "alive"]
          /\ children' = Append(children, Plan[k])
          /\ Continue("start", k + 1, list)
       \/ /\ Continue("abort_stop", 1, children)
          /\ UNCHANGED <<child, children>>
    /\ UNCHANGED <<stopSent, stop, codes, exitCode, result>>

(* _install_signal_handlers: from here on every exception is cleaned up.    *)
InstallSignalHandlers ==
    /\ pc = "start" /\ k > Len(Plan)
    /\ Continue("loop", 1, children)
    /\ UNCHANGED <<children, child, stopSent, stop, codes, exitCode, result>>

-----------------------------------------------------------------------------
(* The supervision loop *)

(* Faulty variant of CheckStop: the stop event is never looked at. *)
CheckStopNever ==
    /\ pc = "loop"
    /\ Continue("poll", 1, children)
    /\ UNCHANGED <<children, child, stopSent, stop, codes, exitCode, result>>

CheckStop ==
    /\ pc = "loop"
    /\ IF stop THEN Continue("stop", 1, children) ELSE Continue("poll", 1, children)
    /\ UNCHANGED <<children, child, stopSent, stop, codes, exitCode, result>>

(* Faulty variant of HandleChildExit: the others are left running. *)
HandleChildExitAlone(name) ==
    /\ exitCode' = child[name]
    /\ Continue("stop", 1, <<>>)

(* The list without the child of that name. *)
Without(s, name) ==
    LET at == CHOOSE i \in 1..Len(s) : s[i] = name
    IN  SubSeq(s, 1, at - 1) \o SubSeq(s, at + 1, Len(s))

(* _handle_child_exit: shut the others down. *)
HandleChildExit(name) ==
    /\ exitCode' = child[name]
    /\ Continue("stop", 1, Without(children, name))

(* _first_exited_child polls the children one after the other. *)
FirstExitedChild ==
    /\ pc = "poll"
    /\ IF k > Len(list) THEN Continue("alive", 1, <<>>) /\ UNCHANGED exitCode
       ELSE IF child[list[k]] # "alive" THEN HandleChildExit(list[k])
       ELSE Continue("poll", k + 1, list) /\ UNCHANGED exitCode
    /\ UNCHANGED <<children, child, stopSent, stop, codes, result>>

(* alive = [...]: a second round of polls; nobody alive returns 0. *)
ListAlive ==
    /\ pc = "alive" /\ k <= Len(children)
    /\ Continue("alive", k + 1,
            IF child[children[k]] = "alive" THEN Append(list, children[k]) ELSE list)
    /\ UNCHANGED <<children, child, stopSent, stop, codes, exitCode, result>>

NobodyAlive ==
    /\ pc = "alive" /\ k > Len(children) /\ list = <<>>
    /\ Finish(Zero)
    /\ UNCHANGED <<children, child, stopSent, stop>>

(* alive[0].wait(timeout): it exited, or the poll interval passed. *)
WaitFirst ==
    /\ pc = "alive" /\ k > Len(children) /\ list # <<>>
    /\ \/ child[list[1]] # "alive" /\ HandleChildExit(list[1])
       \/ child[list[1]] = "alive" /\ Continue("loop", 1, <<>>) /\ UNCHANGED exitCode
    /\ UNCHANGED <<children, child, stopSent, stop, codes, result>>

-----------------------------------------------------------------------------
(* _shutdown_children, from the loop ("stop") or from a failed start        *)
(* ("abort_stop").                                                          *)

Stopping == {"stop", "abort_stop"}
Awaiting == [stop |-> "await", abort_stop |-> "abort_await"]
Resuming == [await |-> "stop", abort_await |-> "abort_stop"]

(* _request_graceful_stop_once *)
RequestGracefulStopOnce(c) ==
    stopSent' = IF stopSent[c] > 0 THEN stopSent
                ELSE [stopSent EXCEPT ![c] = @ + 1]

ShutdownChild ==
    /\ pc \in Stopping /\ k <= Len(list)
    /\ IF child[list[k]] # "alive"
       THEN /\ codes' = Append(codes, child[list[k]])
            /\ Continue(pc, k + 1, list)
            /\ UNCHANGED stopSent
       ELSE /\ RequestGracefulStopOnce(list[k])
            /\ Continue(Awaiting[pc], k, list)
            /\ UNCHANGED codes
    /\ UNCHANGED <<children, child, stop, exitCode, result>>

(* wait(grace), then kill() and wait(). *)
AwaitChild ==
    /\ pc \in DOMAIN Resuming
    /\ \/ child[list[k]] # "alive" /\ UNCHANGED child
       \/ child[list[k]] = "alive" /\ child' = [child EXCEPT ![list[k]] = Killed]
    /\ codes' = Append(codes, child'[list[k]])
    /\ Continue(Resuming[pc], k + 1, list)
    /\ UNCHANGED <<children, stopSent, stop, exitCode, result>>

FirstNonZero(s) ==
    LET bad == SelectSeq(s, LAMBDA code : code # Zero)
    IN  IF bad = <<>> THEN Zero ELSE bad[1]

ShutdownDone ==
    /\ pc \in Stopping /\ k > Len(list)
    /\ Finish(IF pc = "abort_stop" THEN "raised"
              ELSE IF exitCode # Zero THEN exitCode
              ELSE FirstNonZero(codes))
    /\ UNCHANGED <<children, child, stopSent, stop>>

-----------------------------------------------------------------------------
(* Exceptions *)

(* An exception inside the cleanup boundary. *)
GuardedException ==
    /\ \/ pc = "start" /\ k > Len(Plan)       \* installing the handlers failed
       \/ pc \in {"loop", "poll", "alive", "stop", "await"}
    /\ Continue("cleanup", 1, children)
    /\ UNCHANGED <<children, child, stopSent, stop, codes, exitCode, result>>

(* _cleanup_child_after_exception: ask (the request itself may raise), wait *)
(* for the grace period, kill.  Nothing raised here leaves the loop.        *)
CleanupChild ==
    /\ pc = "cleanup" /\ k <= Len(list)
    /\ IF child[list[k]] # "alive"
       THEN Continue("cleanup", k + 1, list) /\ UNCHANGED stopSent
       ELSE /\ RequestGracefulStopOnce(list[k]) \/ UNCHANGED stopSent
            /\ Continue("cleanup_wait", k, list)
    /\ UNCHANGED <<children, child, stop, codes, exitCode, result>>

CleanupWait ==
    /\ pc = "cleanup_wait"
    /\ \/ child[list[k]] # "alive" /\ UNCHANGED child
       \/ child[list[k]] = "alive" /\ child' = [child EXCEPT ![list[k]] = Killed]
    /\ Continue("cleanup", k + 1, list)
    /\ UNCHANGED <<children, stopSent, stop, codes, exitCode, result>>

CleanupDone ==
    /\ pc = "cleanup" /\ k > Len(list)
    /\ Finish("raised")
    /\ UNCHANGED <<children, child, stopSent, stop>>

(* Anything but a WorkerError while children are being started, or any      *)
(* exception while a failed start is shut down, leaves run() at once.       *)
UnguardedException ==
    /\ pc \in {"start", "abort_stop", "abort_await"}
    /\ Finish("interrupted")
    /\ UNCHANGED <<children, child, stopSent, stop>>

-----------------------------------------------------------------------------
(* Environment *)

Signal ==
    /\ pc \notin {"start", "abort_stop", "abort_await", "ended"} /\ ~stop
    /\ stop' = TRUE
    /\ UNCHANGED <<child, stopSent, supVars>>

ChildExits(c, code) ==
    /\ child[c] = "alive"
    /\ child' = [child EXCEPT ![c] = code]
    /\ UNCHANGED <<stopSent, stop, supVars>>

Supervise ==
    \/ StartChild \/ InstallSignalHandlers \/ CheckStop \/ FirstExitedChild
    \/ ListAlive \/ NobodyAlive \/ WaitFirst \/ ShutdownChild \/ AwaitChild
    \/ ShutdownDone \/ CleanupChild \/ CleanupWait \/ CleanupDone

SupervisorNext ==
    \/ Supervise
    \/ GuardedException \/ UnguardedException
    \/ Signal
    \/ \E c \in Children, code \in {Zero, NonZero} : ChildExits(c, code)

SupervisorSpec == SupervisorInit /\ [][SupervisorNext]_supervisorVars

(* The supervisor's own statements are scheduled; its waits are bounded by  *)
(* the poll interval and the grace period.                                  *)
FairSupervisorSpec == SupervisorSpec /\ WF_supervisorVars(Supervise)

-----------------------------------------------------------------------------
(* Properties *)

(* run() leaves no child behind: whichever child exits, whichever start     *)
(* fails and whatever is raised during supervision, every started child has *)
(* ended when run() returns or raises (docs/worker.md:309, "no post-spawn   *)
(* exception can orphan the child").  The exception is an interrupt outside *)
(* the cleanup boundary, while children are still being started or a failed *)
(* start is shut down.                                                      *)
NoOrphan ==
    (pc = "ended" /\ result # "interrupted") => \A c \in Children : child[c] # "alive"

(* "exactly once per run" (docs/worker.md:315): a child is asked to stop at *)
(* most once, also when the shutdown itself is interrupted and cleaned up.  *)
GracefulStopOnce == \A c \in Children : stopSent[c] <= 1

(* A stop signal and the exit of any one child each end supervision. *)
SupervisionEnds ==
    /\ stop ~> pc = "ended"
    /\ \A c \in Children : (pc = "loop" /\ child[c] \in Codes) ~> pc = "ended"

(* However supervision ends, the children are stopped, and asked once.      *)
ChildrenStopped == NoOrphan /\ GracefulStopOnce
=============================================================================
