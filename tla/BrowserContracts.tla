-------------------------- MODULE BrowserContracts --------------------------
(***************************************************************************)
(* What one observation of the browser may say: the checks of the records  *)
(* (sources/browser/contracts.py), the approval of a URL (safety.py), the  *)
(* signals of a blocked page (readiness.py), the kinds of error            *)
(* (errors.py), the limits (limits.py), and the functions of               *)
(* playwright_runtime.py that turn a response into a record.               *)
(* A URL is [scheme, clean, credentials, host, port]; a host has a name,   *)
(* the kind of its addresses, and says whether it is a literal address.    *)
(***************************************************************************)
EXTENDS Integers, Sequences, FiniteSets

CONSTANTS None

\* _reject_private_or_loopback_hostname: a name that does not resolve passes.
RejectedHost(host) == host.name = "localhost" \/ "private" \in host.addresses

\* classify_https_public_url
PublicHttpsUrl(url) ==
    url.clean /\ url.scheme = "https" /\ ~url.credentials /\ ~RejectedHost(url.host)

\* validate_provider_navigation_url
NavigationApproved(url, allowed) == PublicHttpsUrl(url) /\ url.host.name \in allowed

\* classify_safe_websocket_url: names are not resolved here.
WebSocketApproved(url, allowed) ==
    /\ url.scheme = "wss" /\ url.port \in {None, 443} /\ ~url.credentials
    /\ url.host.name \in allowed /\ url.host.name # "localhost"
    /\ url.host.literal => "private" \notin url.host.addresses

\* classify_block_signals: the first kind of marker found in title and body.
BlockSignals(markers) ==
    IF "captcha" \in markers THEN "captcha"
    ELSE IF "denied" \in markers THEN "access-denied"
    ELSE IF "login" \in markers /\ "odds" \notin markers THEN "authentication-required"
    ELSE IF "region" \in markers THEN "regional-refusal"
    ELSE IF "bot" \in markers THEN "anti-automation"
    ELSE None

\* classify_readiness_block, and the predicates of the two providers.
ReadinessBlock(page) ==
    IF ~page.available THEN "page-unavailable"
    ELSE IF page.title = "splash" THEN "anti-automation"
    ELSE BlockSignals(page.markers)

BetanoReady(page) ==
    page.available /\ page.title # "splash" /\ page.body /\ BlockSignals(page.markers) = None

BetclicReady(page) ==
    page.available /\ page.title # "forbidden" /\ page.body /\ BlockSignals(page.markers) = None

\* raise_for_classified_error
ErrorRaised(kind) ==
    CASE kind \in {"permanent-configuration", "permanent-local-configuration", "schema-contradiction"} -> "permanent"
      [] kind = "retryable-transport" -> "retryable"
      [] kind = "blocked" -> "permanent"

\* classify_playwright_import_error ... classify_schema_contradiction
ErrorKind(cause) ==
    CASE cause = "playwright-package-missing"  -> "permanent-configuration"
      [] cause = "chromium-executable-missing" -> "permanent-local-configuration"
      [] cause \in {"navigation-timeout", "browser-process-crash"} -> "retryable-transport"
      [] cause = "schema-contradiction" -> "schema-contradiction"
      [] cause = "block" -> "blocked"

\* BrowserAcquisitionLimits, and what the session checks before it starts.
ValidLimits(limits) ==
    /\ limits.response >= 1 /\ limits.total >= limits.response
    /\ limits.concurrency \in 1..4 /\ limits.interval >= 0
    /\ limits.timeout \in 1..120000 /\ limits.retries = 0

\* DeterministicNavigationGate.acquire: [active, last]; NONE: not admitted.
GateAdmits(gate, limits, now) ==
    /\ gate.active < limits.concurrency
    /\ gate.last # None => now >= gate.last + limits.interval

GateAcquired(gate, now) == [active |-> gate.active + 1, last |-> now]
GateReleased(gate) == [gate EXCEPT !.active = @ - 1]

-----------------------------------------------------------------------------
\* classify_browser_transport
Transport(resource, media) ==
    IF media = "grpc-web" THEN "grpc-web"
    ELSE IF resource \in {"document", "fetch", "xhr", "websocket", "eventsource"} THEN resource
    ELSE IF resource = "script" \/ media = "javascript" THEN "script-configuration"
    ELSE "other-approved"

\* approved_json_payload_for_profile: only Betano has a reviewed payload.
JsonApproved(provider, response) ==
    /\ response.resource \in {"fetch", "xhr"}
    /\ provider = "betano-pt" /\ response.payload = "topevents"

NoOutcome == [route |-> FALSE, envelope |-> FALSE, size |-> None, failure |-> None,
              read |-> FALSE, stored |-> FALSE, malformed |-> FALSE]

\* observe_betclic_grpc_response: what the finite reader makes of a response.
ObserveGrpc(response, maximum, directory) ==
    LET routed   == [NoOutcome EXCEPT !.route = TRUE]
        body     == [routed EXCEPT !.size = response.size, !.read = TRUE]
        accepted == [body EXCEPT !.envelope = TRUE]
    IN  IF ~response.approved THEN NoOutcome
        ELSE IF response.media # "grpc-web" \/ response.metadataOnly THEN routed
        ELSE IF response.declared # None /\ response.declared > maximum
             THEN [routed EXCEPT !.size = response.declared, !.failure = "size-header-rejected"]
        ELSE IF ~response.readable THEN [routed EXCEPT !.failure = "body-read-failed"]
        ELSE IF response.size > maximum THEN [body EXCEPT !.failure = "body-size-exceeded"]
        ELSE IF response.payload \in {"malformed", "unsupported"}
             THEN [body EXCEPT !.failure = response.payload, !.malformed = response.payload = "malformed"]
        ELSE IF ~directory THEN accepted
        ELSE IF ~response.storable THEN [accepted EXCEPT !.failure = "evidence-storage-failed"]
        ELSE [accepted EXCEPT !.stored = TRUE]

\* What the JSON reader of _process_response makes of it; total: bytes captured.
JsonState(provider, response, limits, total) ==
    IF ~response.hostApproved \/ response.media # "json" \/ response.status = None THEN "unsupported-content"
    ELSE IF response.declared # None /\ response.declared > limits.response THEN "declared-size-rejected"
    ELSE IF total >= limits.total THEN "total-budget-rejected"
    ELSE IF ~response.readable THEN "read-failed"
    ELSE IF response.size > limits.response THEN "actual-size-rejected"
    ELSE IF total + response.size > limits.total THEN "total-budget-rejected"
    ELSE IF JsonApproved(provider, response) THEN "captured"
    ELSE "not-approved"

\* The body that was read, whether or not it is retained.
JsonRead(provider, response, limits, total) ==
    JsonState(provider, response, limits, total) \in
        {"actual-size-rejected", "captured", "not-approved"}
    \/ /\ JsonState(provider, response, limits, total) = "total-budget-rejected"
       /\ total < limits.total

\* build_network_metadata: captured needs a retained JSON body of an approved host.
CapturesBody(response, body, inspected) ==
    response.hostApproved /\ inspected /\ response.media = "json" /\ body

\* build_network_metadata; None for a URL that may not be recorded.
NetworkMetadata(response, body, inspected, state, outcome) ==
    IF ~response.public THEN None
    ELSE LET captured == CapturesBody(response, body, inspected)
         IN  [hostApproved |-> response.hostApproved \/ response.approved,
              captured |-> captured, state |-> state,
              length   |-> IF body THEN response.size ELSE None,
              checksum |-> captured,
              route    |-> ~response.hostApproved /\ response.approved,
              template |-> ~response.hostApproved /\ response.approved,
              envelope |-> outcome.envelope, read |-> outcome.read,
              stored   |-> outcome.stored, malformed |-> outcome.malformed,
              status   |-> response.status]

\* BrowserNetworkMetadata: an observation that fails this is dropped silently.
ValidNetworkMetadata(meta) ==
    /\ meta.status = None \/ meta.status \in 100..599
    /\ meta.length = None \/ meta.length >= 0
    /\ meta.captured => meta.hostApproved /\ meta.length # None /\ meta.checksum
    /\ meta.captured = (meta.state = "captured")
    /\ meta.route = meta.template
    /\ meta.envelope => meta.read
    /\ meta.stored => meta.read /\ meta.envelope
    /\ meta.malformed => meta.read /\ ~meta.envelope

\* _process_response: the finite gRPC reader follows the JSON reader for Betclic.
ProcessedMetadata(provider, response, limits, total, directory) ==
    LET json    == JsonState(provider, response, limits, total)
        left    == limits.total - (IF json = "captured" THEN total + response.size ELSE total)
        maximum == IF left < limits.response THEN left ELSE limits.response
        outcome == IF provider # "betclic-pt" THEN NoOutcome
                   ELSE IF left <= 0 THEN [NoOutcome EXCEPT !.failure = "total-capture-budget-rejected"]
                   ELSE ObserveGrpc(response, maximum, directory)
        state   == IF provider # "betclic-pt" THEN json
                   ELSE IF left <= 0 THEN "total-budget-rejected"
                   ELSE IF outcome.size = None THEN json
                   ELSE IF outcome.size > left THEN "total-budget-rejected"
                   ELSE IF outcome.read THEN "metadata-only" ELSE json
    IN  NetworkMetadata(response, json = "captured", JsonRead(provider, response, limits, total), state, outcome)

\* _record_streaming_outcomes: what the metadata says of an observed stream.
StreamedMetadata(response, summary) ==
    NetworkMetadata(response, FALSE, FALSE, "metadata-only",
        [NoOutcome EXCEPT !.envelope = summary.frames > 0, !.read = summary.chunks > 0,
                          !.stored = summary.stored > 0,
                          !.malformed = summary.state = "truncated" /\ summary.frames = 0 /\ summary.chunks > 0])

-----------------------------------------------------------------------------
\* BrowserDomCandidate
ValidDomCandidate(c) ==
    /\ c.tagAllowed /\ c.markersAllowed /\ c.children \in 0..10000
    /\ c.class \in {"decimal-odds", "hydration-structure", "structural-interest"}
    /\ c.class = "hydration-structure" => c.script /\ c.hydration /\ c.shape /\ c.markers = 0
    /\ c.class # "hydration-structure" => ~c.script /\ ~c.hydration /\ ~c.shape
    /\ c.class = "structural-interest" => c.markers > 0
    /\ (c.class = "decimal-odds") = c.odds

\* BrowserPageObservation, BrowserResponseObservation
ValidPage(page) == page.route /\ page.bareHost /\ Len(page.candidates) <= 40

ValidResponse(r) ==
    /\ r.https /\ r.bareHost /\ r.method
    /\ r.declared = None \/ r.declared >= 0
    /\ r.state = "captured" /\ r.captured \in {None, r.size}
    /\ r.route = r.template /\ r.status \in 100..599

\* BrowserGrpcWebDiagnostic
ValidGrpcDiagnostic(d) ==
    /\ d.bytes >= 1 /\ d.framing \in {"binary", "text"}
    /\ d.dataFrames >= 0 /\ d.trailerFrames >= 0
    /\ d.unit \in {"finite-complete-response", "complete-streaming-frame"}
    /\ d.kind \in {None, "data", "trailer"}
    /\ d.unit = "complete-streaming-frame" => d.kind # None /\ d.reference

\* BrowserGrpcWebStreamSummary
ValidStreamSummary(s) ==
    /\ s.frames = s.dataFrames + s.trailerFrames
    /\ s.completed => s.trailerFrames = 1

\* BrowserClientScriptInspection, BrowserClientSchemaSummary
ValidScriptInspection(i) == i.bareHost /\ i.chars >= 1 /\ Cardinality(i.symbols) <= 128

ValidSchemaSummary(s) == s.inspected = Len(s.inspections) /\ \A n \in s.rejections : n >= 1

\* BrowserAcquisitionResult: every part belongs to the cycle, or to none.
LinkedToCycle(item, cycle) ==
    /\ item.provider \in {None, cycle.provider} /\ item.sport \in {None, cycle.sport}
    /\ item.cycle \in {None, cycle.id}

TruncatedResponses(metadata) ==
    Cardinality({i \in 1..Len(metadata) :
        metadata[i].state \in {"declared-size-rejected", "actual-size-rejected", "total-budget-rejected"}})
=============================================================================
