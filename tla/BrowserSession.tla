--------------------------- MODULE BrowserSession ---------------------------
(***************************************************************************)
(* One acquisition with a disposable browser                               *)
(* (sources/browser/playwright_runtime.py, readiness.py).  The browser     *)
(* calls back whenever the program waits for it: for the page, and for the *)
(* body of a response.  Callbacks only put what they saw in bounded queues;*)
(* the program drains them after every wait.  A gRPC-Web response may be   *)
(* owned by the streaming observer (CdpStreaming) instead of the reader of *)
(* finite bodies; the observer of a route is replaced at the next one.     *)
(***************************************************************************)
EXTENDS Integers, Sequences, FiniteSets, SequencesExt, BrowserContracts

CONSTANTS Traffic,          \* responses the pages cause, see BrowserContracts
          Causes,           \* Providers -> SUBSET Traffic
          Describe,         \* Traffic -> the description of a response
          Providers, RouteCount, Limits,
          QueueLimit,       \* 512 in the code
          MaxPolls          \* bound: polls of the observation window

ASSUME SessionAssumption ==
    /\ IsFiniteSet(Traffic) /\ QueueLimit \in Nat \ {0}
    /\ Limits.response \in Nat /\ Limits.total \in Nat
    /\ \A r \in Traffic : /\ Describe[r].size \in Nat /\ Describe[r].public \in BOOLEAN
                          /\ Describe[r].declared \in Nat \cup {None}
    /\ None \notin Nat

VARIABLES browser,    \* per response: "none", "responded", "finished" to the page
          heard,      \* per response: when the observer was told of it, see OnStreamingResponse
          responses, finished,          \* the queues of the callbacks of the page
          observable, \* what the queue of the observer holds
          pending,    \* responses that wait for requestfinished
          owned,      \* per response: "no", "open", "done", "unsupported" for the observer
          recorded,   \* responses with an outcome of the observer
          ended,      \* per response: how it left the queues
          kept,       \* per response: bytes retained by each path
          total,      \* captured_total_bytes
          session,    \* where the acquisition is
          late        \* the deadline has passed

sessionVars == <<browser, heard, responses, finished, observable, pending, owned, recorded, ended, kept, total,
                 session, late>>

SessionInit ==
    /\ browser = [r \in Traffic |-> "none"] /\ heard = [r \in Traffic |-> "no"]
    /\ responses = <<>> /\ finished = <<>> /\ observable = {} /\ pending = <<>>
    /\ owned = [r \in Traffic |-> "no"] /\ recorded = {}
    /\ ended = [r \in Traffic |-> <<>>]
    /\ kept = [r \in Traffic |-> [finite |-> 0, stream |-> 0]] /\ total = 0
    /\ session \in [stage : {"opening"}, provider : Providers, route : {1}, batch : {<<>>}, next : {"none"},
                   polls : {0}, observing : {FALSE}, result : {"none"}, warned : {FALSE}]
    /\ late = FALSE

-----------------------------------------------------------------------------
Provider == session.provider
Item == Head(session.batch)
Grpc(r) == Describe[r].approved /\ Describe[r].media = "grpc-web"
End(r, how) == ended' = [ended EXCEPT ![r] = Append(@, how)]

\* _consume_response: what the observer may start to stream.
Streamable(r) ==
    /\ Grpc(r) /\ ~Describe[r].metadataOnly
    /\ Describe[r].resource \in {"fetch", "xhr"} /\ Describe[r].status \in 200..299

\* Mutant: a stream owns its response only while it is active.
OwnedByActive(r) == \E o \in Traffic : owned[o] = "open" /\ Describe[o].url = Describe[r].url

\* uses_streaming_for_url: any supported stream of the same URL owns the response.
OwnedByStream(r) == \E o \in Traffic : owned[o] \in {"open", "done"} /\ Describe[o].url = Describe[r].url

\* What is left of the budget, and what the finite gRPC reader makes of a response.
Left == Limits.total - total
Outcome(r) == ObserveGrpc(Describe[r], IF Left < Limits.response THEN Left ELSE Limits.response, TRUE)

\* The program waits for the body of the response it works on.
ReadsBody ==
    /\ session.batch # <<>>
    /\ \/ /\ session.stage = "responses" /\ ~late /\ Describe[Item].public
          /\ \/ JsonRead(Provider, Describe[Item], Limits, total)
             \/ JsonState(Provider, Describe[Item], Limits, total) = "read-failed"
       \/ /\ session.stage = "finished" /\ Contains(pending, Item) /\ ~OwnedByStream(Item) /\ Left > 0
          /\ Outcome(Item).read \/ Outcome(Item).failure = "body-read-failed"

\* The program is in a call that lets the browser run: it waits for the page, for
\* a body, for the answer to a command of the observer, or for the end of the browser.
Waiting ==
    \/ session.stage \in {"goto", "consent", "ready", "observe", "leaving", "closing"}
    \/ session.stage = "observer" /\ session.observing
    \/ ReadsBody

\* _on_response: the response belongs to the route that is open now.
OnResponse(r) ==
    /\ Waiting /\ browser[r] = "none" /\ r \in Causes[Provider]
    /\ browser' = [browser EXCEPT ![r] = "responded"]
    /\ IF Len(responses) < QueueLimit THEN responses' = Append(responses, r) /\ UNCHANGED ended
       ELSE End(r, "overflow") /\ UNCHANGED responses
    /\ UNCHANGED <<heard, finished, observable, pending, owned, recorded, kept, total, session, late>>

\* _on_request_finished
OnRequestFinished(r) ==
    /\ Waiting /\ browser[r] = "responded"
    /\ browser' = [browser EXCEPT ![r] = "finished"]
    /\ finished' = IF Len(finished) < QueueLimit THEN Append(finished, r) ELSE finished
    /\ UNCHANGED <<heard, responses, observable, pending, owned, recorded, ended, kept, total, session, late>>

\* _on_response_received of the observer: its session reports a response apart
\* from the page's, before or after it.
OnStreamingResponse(r) ==
    /\ Waiting /\ session.observing /\ heard[r] = "no" /\ r \in Causes[Provider] /\ Streamable(r)
    /\ heard' = [heard EXCEPT ![r] = IF browser[r] = "none" THEN "first" ELSE "late"]
    /\ observable' = IF Cardinality(observable) < QueueLimit THEN observable \cup {r} ELSE observable
    /\ UNCHANGED <<browser, responses, finished, pending, owned, recorded, ended, kept, total, session, late>>

DeadlinePasses ==
    /\ session.stage # "closing" /\ ~late
    /\ late' = TRUE
    /\ UNCHANGED <<browser, heard, responses, finished, observable, pending, owned, recorded, ended, kept, total,
                   session>>

-----------------------------------------------------------------------------
SessionGoesTo(new) ==
    /\ session' = new
    /\ UNCHANGED <<browser, heard, responses, finished, observable, pending, owned, recorded, ended, kept, total, late>>

\* acquire: the next route, unless the deadline has passed, with an observer of
\* its own, which the browser may not support.  What the last observer heard of
\* and the page's queue did not bring yet is carried over to the new route.
OpenRoute ==
    /\ session.stage = "opening" /\ ~late /\ session.route <= RouteCount
    /\ \E supported \in BOOLEAN :
           session' = [session EXCEPT !.stage = "goto",
                                      !.observing = supported /\ Provider = "betclic-pt"]
    /\ owned' = [r \in Traffic |-> "no"] /\ observable' = {}
    /\ heard' = [r \in Traffic |-> IF heard[r] = "first" /\ (browser[r] = "none" \/ Contains(responses, r))
                                   THEN "carried" ELSE heard[r]]
    /\ UNCHANGED <<browser, responses, finished, pending, recorded, ended, kept, total, late>>

\* The result is returned, or the error raised, once the browser is closed.
Return ==
    /\ session.stage = "opening"
    /\ session.route <= RouteCount => late
    /\ SessionGoesTo([session EXCEPT !.stage = "closing",
                          !.result = IF session.route <= RouteCount THEN "retryable" ELSE "complete"])

\* goto, consent, readiness, dwell: each wait ends in a drain and then in the
\* next one; two more drains follow before the observer is closed.
EndWait(stage, next) ==
    /\ session.stage = stage
    /\ SessionGoesTo([session EXCEPT !.stage = "observer", !.next = next,
                                     !.polls = IF next = stage THEN @ + 1 ELSE 0])

PageLoaded == EndWait("goto", "consent")
ConsentGiven == EndWait("consent", "deadline")
DeadlineHolds == session.stage = "deadline" /\ ~late /\ SessionGoesTo([session EXCEPT !.stage = "ready"])
PageReady == EndWait("ready", "observe")
\* _observe_after_readiness: until the window ends, or candidates are seen.
Observed == session.polls < MaxPolls /\ EndWait("observe", "observe")
WindowEnds == EndWait("observe", "settled")
Settled == EndWait("settled", "finally")
Finally == EndWait("finally", "cleanup")

\* A timeout, a crash or a block ends the visit of the page.
VisitFails ==
    /\ \/ session.stage \in {"goto", "ready", "observe"}
       \/ session.stage = "deadline" /\ late
       \/ session.stage = "observer" /\ session.next # "cleanup"
    /\ \E result \in {"retryable", "blocked"} :
           /\ result = "blocked" => session.stage = "ready"
           /\ SessionGoesTo([session EXCEPT !.stage = "finally", !.result = result])

\* observer.drain empties its queue: a response it was told of may be streamed,
\* whatever has become of it on the page, if the browser supports the command,
\* and a stream may come to its end.
DrainedStreams ==
    {streams \in [Traffic -> {"no", "open", "done", "unsupported"}] : \A r \in Traffic :
        \/ streams[r] = owned[r]
        \/ owned[r] = "open" /\ streams[r] = "done"
        \/ owned[r] = "no" /\ r \in observable}

TakeResponses(next) ==
    /\ session' = [session EXCEPT !.stage = "responses", !.batch = responses, !.next = next,
                                  !.observing = @ /\ next # "flush"]
    /\ responses' = <<>>

DrainObserver ==
    /\ session.stage = "observer"
    /\ IF session.observing THEN owned' \in DrainedStreams /\ observable' = {} ELSE UNCHANGED <<owned, observable>>
    /\ TakeResponses(session.next)
    /\ UNCHANGED <<browser, heard, finished, pending, recorded, ended, kept, total, late>>

\* Mutant: the queue is cleared when its batch has been worked off.
ClearedAfterBatch ==
    /\ session.stage = "responses" /\ session.batch = <<>>
    /\ session' = [session EXCEPT !.stage = "finished", !.batch = finished]
    /\ finished' = <<>> /\ responses' = <<>>
    /\ UNCHANGED <<browser, heard, observable, pending, owned, recorded, ended, kept, total, late>>

\* _drain_finished_requests follows the responses of the batch.
ResponsesDrained ==
    /\ session.stage = "responses" /\ session.batch = <<>>
    /\ session' = [session EXCEPT !.stage = "finished", !.batch = finished]
    /\ finished' = <<>>
    /\ UNCHANGED <<browser, heard, responses, observable, pending, owned, recorded, ended, kept, total, late>>

Works(stage) ==
    /\ session.stage = stage /\ session.batch # <<>>
    /\ session' = [session EXCEPT !.batch = Tail(@)]
    /\ UNCHANGED <<browser, heard, responses, finished, observable, owned, recorded, late>>

Retain(r, bytes) == kept' = [kept EXCEPT ![r].finite = bytes] /\ total' = total + bytes

\* The bytes the JSON reader retains of a response.
JsonBytes(r) ==
    IF JsonState(Provider, Describe[r], Limits, total) = "captured" THEN Describe[r].size ELSE 0

\* _process_response: gRPC-Web waits for its end, JSON is read at once; what is
\* worked on after the deadline, or has a private address, is dropped silently.
ProcessResponse ==
    /\ Works("responses")
    /\ IF late \/ ~Describe[Item].public THEN End(Item, "dropped") /\ UNCHANGED <<pending, kept, total>>
       ELSE IF Provider = "betclic-pt" /\ Grpc(Item)
            THEN pending' = Append(pending, Item) /\ UNCHANGED <<ended, kept, total>>
       ELSE End(Item, "recorded") /\ Retain(Item, JsonBytes(Item)) /\ UNCHANGED pending

\* An error in the observation of a response is swallowed, its bytes counted or not.
ObservationFails ==
    /\ Works("responses") /\ ~late
    /\ End(Item, "dropped") /\ UNCHANGED pending
    /\ \E bytes \in {0, JsonBytes(Item)} : Retain(Item, bytes)

\* _process_finished_betclic_grpc_response, for the pending response of the
\* request that finished (no two are of one request); without one the event is
\* gone.
ProcessFinished ==
    /\ Works("finished")
    /\ IF ~Contains(pending, Item) THEN UNCHANGED <<pending, ended, kept, total>>
       ELSE /\ pending' = RemoveAt(pending, CHOOSE i \in 1..Len(pending) : pending[i] = Item)
            /\ IF OwnedByStream(Item) THEN End(Item, "streamed") /\ UNCHANGED <<kept, total>>
               ELSE /\ End(Item, "recorded")
                    /\ IF Left <= 0 THEN UNCHANGED <<kept, total>>
                       ELSE /\ kept' = [kept EXCEPT ![Item].finite = IF Outcome(Item).stored THEN Describe[Item].size ELSE 0]
                            /\ total' = IF Outcome(Item).read /\ Describe[Item].size <= Left
                                        THEN total + Describe[Item].size ELSE total

\* The rest of the drain (metadata of web sockets), then what comes next.
DrainEnds ==
    /\ session.stage = "finished" /\ session.batch = <<>>
    /\ SessionGoesTo([session EXCEPT !.stage = session.next])

-----------------------------------------------------------------------------
\* close of the observer and _record_streaming_outcomes: it drains once more and
\* ends its streams; what they retained is added to the total, whatever the total is.
CloseObserver ==
    /\ session.stage = "cleanup"
    /\ IF ~session.observing THEN UNCHANGED <<owned, observable, recorded, kept, total>>
       ELSE /\ \E streams \in DrainedStreams :
                   owned' = [r \in Traffic |-> IF streams[r] = "open" THEN "done" ELSE streams[r]]
            /\ \E retained \in SUBSET {r \in Traffic : owned'[r] = "done"} :
                   /\ kept' = [r \in Traffic |-> IF r \in retained THEN [kept[r] EXCEPT !.stream = 1] ELSE kept[r]]
                   /\ total' = total + Cardinality(retained)
            /\ recorded' = recorded \cup {r \in Traffic : owned'[r] # "no"}
            /\ observable' = {}
    /\ TakeResponses("flush")
    /\ UNCHANGED <<browser, heard, finished, pending, ended, late>>

\* After the cleanup the page is read, unless the visit failed.
AfterCleanup == IF session.result = "none" THEN "leaving" ELSE "closing"

\* An error in the cleanup is a warning; its remaining steps are left out.
CleanupFails ==
    /\ \/ session.stage = "cleanup"
       \/ session.stage = "observer" /\ session.next = "cleanup"
    /\ SessionGoesTo([session EXCEPT !.stage = AfterCleanup, !.observing = FALSE, !.warned = TRUE])

\* _flush_pending_betclic_grpc_responses: what never finished is recorded so; a
\* page that was read is drained and flushed a second time.
Flush ==
    /\ session.stage \in {"flush", "last flush"}
    /\ ended' = [r \in Traffic |-> IF Contains(pending, r) THEN Append(ended[r], "incomplete") ELSE ended[r]]
    /\ pending' = <<>>
    /\ session' = [session EXCEPT !.stage = IF session.stage = "flush" THEN AfterCleanup ELSE "looking"]
    /\ UNCHANGED <<browser, heard, responses, finished, observable, owned, recorded, kept, total, late>>

\* Title and body of the page are read: the browser runs once more.
LeavePage ==
    /\ session.stage = "leaving"
    /\ TakeResponses("last flush")
    /\ UNCHANGED <<browser, heard, finished, observable, pending, owned, recorded, ended, kept, total, late>>

LeavingFails ==
    /\ session.stage = "leaving"
    /\ SessionGoesTo([session EXCEPT !.stage = "closing", !.result = "retryable"])

\* A page that turns out to be blocked ends the acquisition.
JudgePage ==
    /\ session.stage = "looking"
    /\ \/ SessionGoesTo([session EXCEPT !.stage = "closing", !.result = "blocked"])
       \/ SessionGoesTo([session EXCEPT !.stage = "opening", !.route = @ + 1])

SessionNext ==
    \/ \E r \in Traffic : OnResponse(r) \/ OnRequestFinished(r) \/ OnStreamingResponse(r)
    \/ DeadlinePasses \/ OpenRoute \/ Return
    \/ PageLoaded \/ ConsentGiven \/ DeadlineHolds \/ PageReady \/ Observed \/ WindowEnds \/ Settled \/ Finally
    \/ VisitFails \/ DrainObserver \/ ResponsesDrained \/ ProcessResponse \/ ObservationFails \/ ProcessFinished
    \/ DrainEnds \/ CloseObserver \/ CleanupFails \/ Flush \/ LeavePage \/ LeavingFails \/ JudgePage

SessionSpec == SessionInit /\ [][SessionNext]_sessionVars

-----------------------------------------------------------------------------
\* docs/worker.md:448, "two mutually exclusive body-retention paths": no body is
\* retained by the reader of finite bodies and by the streaming observer, of a
\* response the observer's session reports before the page's, in one visit.  The
\* code relies on that order: what the observer is told of later it streams
\* whether or not the finite reader has retained it.
RetainedOnce ==
    \A r \in Traffic : heard[r] \notin {"late", "carried"} => kept[r].finite = 0 \/ kept[r].stream = 0

\* The bodies of the finite readers stay within the budget of the cycle, however
\* their reads and the streams of the page interleave: a byte is a response with
\* a position in its body.
BytesOf(of) == UNION {{r} \X (1..of[r].finite) : r \in Traffic}
FiniteWithinBudget == Cardinality(BytesOf(kept)) <= Limits.total

\* Bodies are retained by one path each and within the budget.
BodiesRetained == RetainedOnce /\ FiniteWithinBudget

\* Where a response can be that the page has reported.
Places(r) == <<Contains(responses, r), session.stage = "responses" /\ Contains(session.batch, r),
               Contains(pending, r), ended[r] # <<>>>>

\* Every response the page reported is in the queue, in the batch being worked
\* off, waiting for its end, or has ended, in exactly one of these places and
\* once: callbacks, drains and failures lose none and process none twice.
PlacedOnce ==
    /\ \A r \in Traffic : IF browser[r] = "none" THEN \A i \in 1..4 : ~Places(r)[i]
                          ELSE \E i \in 1..4 : \A j \in 1..4 : Places(r)[j] = (i = j)
    /\ \A r \in Traffic : Len(ended[r]) <= 1
    /\ IsInjective(responses) /\ IsInjective(pending)
    /\ session.stage = "responses" => IsInjective(session.batch)

\* A result that is returned, complete or blocked, without a warning of its
\* cleanup: no response still waits for its end, and one that was left to a
\* stream of its URL has the outcome of that stream beside it.
ResultAccounts ==
    session.stage = "closing" /\ session.result \in {"complete", "blocked"} /\ ~session.warned =>
        /\ pending = <<>>
        /\ \A r \in Traffic : ended[r] = <<"streamed">> => \E o \in recorded : Describe[o].url = Describe[r].url

EveryResponseAccounted == PlacedOnce /\ ResultAccounts
=============================================================================
