------------------------------ MODULE RawStore ------------------------------
(***************************************************************************)
(* Downloads into the content-addressed raw store (sources/http.py,        *)
(* sources/raw_store.py, sources/raw_capture.py).  Several downloads share *)
(* one store.  Content is a sequence of chunks and is its own checksum; a  *)
(* path of the store is named by the content it must hold.                 *)
(***************************************************************************)
EXTENDS Integers, Sequences, FiniteSets, SequencesExt

CONSTANTS Downloads,            \* concurrent calls of download_to_raw_store
          Bodies,               \* what a response may deliver
          MaximumBytes, MaximumRetries, MaximumRedirects,
          BackoffBase, BackoffMax, MinimumInterval,
          Missing               \* no file, no earlier request

Contents == UNION {Prefixes(b) : b \in Bodies}

ASSUME RawAssumption ==
    /\ Bodies \subseteq Seq(STRING)
    /\ Missing \notin Contents

VARIABLES files,        \* the file at each content's path, or Missing
          download      \* per call: its stage, its retries and clock, what it wrote

rawVars == <<files, download>>

NotStarted == [stage |-> "pacing", attempt |-> 0, redirects |-> 0, since |-> Missing, gap |-> Missing,
               body |-> <<>>, temp |-> <<>>, requests |-> 0, result |-> Missing]

\* A file may have been damaged since an earlier run stored it.
RawInit ==
    /\ files \in [Contents -> {Missing, <<"damage">>}] /\ Cardinality({c \in Contents : files[c] # Missing}) <= 1
    /\ download = [d \in Downloads |-> NotStarted]

-----------------------------------------------------------------------------
\* _raise_for_status
StatusClass(status) ==
    IF status \in {404, 410} THEN "not_found"
    ELSE IF status \in {408, 429} \/ status >= 500 THEN "retryable" ELSE "permanent"

RedirectStatuses == {301, 302, 303, 307, 308}

\* _validate_allowed_url: HTTPS, no credentials, the one host, the default port.
AllowedUrl(u) == u.scheme = "https" /\ ~u.credentials /\ u.host = "football-data" /\ u.port \in {0, 443}

\* _validate_content_type: a text type passes whatever it is, any other unless
\* it names HTML; no type at all passes.
AcceptedContentType(t) == t.family = "text" \/ ~t.html

ContentTypes == {[family |-> "text", html |-> FALSE], [family |-> "text", html |-> TRUE],
                 [family |-> "application", html |-> TRUE]}

\* _retry_backoff_delay
BackoffDelay(attempt) == Min({BackoffMax, BackoffBase * 2^attempt})

Settle(d, how) == download' = [download EXCEPT ![d].stage = how, ![d].body = <<>>, ![d].temp = <<>>]

\* _sleep_for_request_pacing: what is left of the interval since the last start.
PacingDelay(since) == IF since = Missing \/ since >= MinimumInterval THEN 0 ELSE MinimumInterval - since

StartRequest(d) ==
    /\ download[d].stage = "pacing"
    /\ download' = [download EXCEPT ![d].stage = "requesting", ![d].redirects = 0,
           ![d].requests = @ + 1, ![d].since = 0,
           ![d].gap = IF download[d].since = Missing THEN Missing
                      ELSE download[d].since + PacingDelay(download[d].since)]
    /\ UNCHANGED files

\* Mutant: the attempt is counted only when a response arrived.
RetryWithoutCount(d) ==
    download' = [download EXCEPT ![d].stage = "pacing",
        ![d].since = @ + BackoffDelay(download[d].attempt)]

\* A retryable failure: another attempt after the backoff, or the end.
RetryOrGiveUp(d) ==
    IF download[d].attempt >= MaximumRetries THEN Settle(d, "gave_up")
    ELSE download' = [download EXCEPT ![d].stage = "pacing", ![d].attempt = @ + 1,
                          ![d].since = @ + BackoffDelay(download[d].attempt)]

\* The transport raised: a timeout, TLS, DNS or connection error.
NetworkFails(d) ==
    /\ download[d].stage = "requesting" /\ RetryOrGiveUp(d)
    /\ UNCHANGED files

\* A redirect: its target must exist, be allowed and not be one too many.
Redirected(d) ==
    /\ download[d].stage = "requesting"
    /\ \/ Settle(d, "refused")
       \/ /\ download[d].redirects < MaximumRedirects
          /\ download' = [download EXCEPT ![d].redirects = @ + 1]
    /\ UNCHANGED files

StatusFails(d) ==
    /\ download[d].stage = "requesting"
    /\ \E status \in {400, 404, 429, 503} :
           IF StatusClass(status) = "retryable" THEN RetryOrGiveUp(d) ELSE Settle(d, "refused")
    /\ UNCHANGED files

\* A response with its content type; the body follows chunk by chunk.
Respond(d) ==
    /\ download[d].stage = "requesting"
    /\ \E b \in Bodies, t \in ContentTypes :
           IF AcceptedContentType(t)
           THEN download' = [download EXCEPT ![d].stage = "streaming", ![d].body = b]
           ELSE Settle(d, "refused")
    /\ UNCHANGED files

-----------------------------------------------------------------------------
\* store_stream: chunks go to a temporary file, up to the limit.
WriteChunk(d) ==
    /\ download[d].stage = "streaming" /\ Len(download[d].temp) < Len(download[d].body)
    /\ LET more == Append(download[d].temp, download[d].body[Len(download[d].temp) + 1])
       IN  IF Len(more) > MaximumBytes THEN Settle(d, "refused")
           ELSE download' = [download EXCEPT ![d].temp = more]
    /\ UNCHANGED files

\* The end of the body; a connection that closes early looks the same.
LooksLikeHtml(content) == content # <<>> /\ content[1] = "html"

EndBody(d) ==
    /\ download[d].stage = "streaming"
    /\ IF LooksLikeHtml(download[d].temp) THEN Settle(d, "refused")
       ELSE download' = [download EXCEPT ![d].stage = "written"]
    /\ UNCHANGED files

\* A read error while the body streams is permanent: no retry.
BodyFails(d) ==
    /\ download[d].stage = "streaming" /\ Settle(d, "refused")
    /\ UNCHANGED files

\* Mutant: the body is streamed into its final file.
StoreInPlace(d) ==
    /\ download[d].stage = "written"
    /\ \E n \in 0..Len(download[d].temp) :
           files' = [files EXCEPT ![download[d].temp] = SubSeq(download[d].temp, 1, n)]
    /\ download' = [download EXCEPT ![d].stage = "stored", ![d].result = download[d].temp]

\* _verify_existing, or the rename of the temporary file.  The existence check
\* and the rename are two steps; another download may store the same content
\* between them.
FindExisting(d) ==
    /\ download[d].stage = "written"
    /\ download' = [download EXCEPT ![d].stage =
           IF files[download[d].temp] = Missing THEN "renaming"
           ELSE IF files[download[d].temp] = download[d].temp THEN "stored" ELSE "refused",
           ![d].result = IF files[download[d].temp] = download[d].temp THEN download[d].temp ELSE Missing]
    /\ UNCHANGED files

RenameIntoPlace(d) ==
    /\ download[d].stage = "renaming"
    /\ files' = [files EXCEPT ![download[d].temp] = download[d].temp]
    /\ download' = [download EXCEPT ![d].stage = "stored", ![d].result = download[d].temp, ![d].body = <<>>, ![d].temp = <<>>]

\* The process dies; its temporary file stays, no path of the store changes.
CrashDownload(d) ==
    /\ download[d].stage \in {"pacing", "requesting", "streaming", "written", "renaming"}
    /\ Settle(d, "crashed")
    /\ UNCHANGED files

RawNext ==
    \E d \in Downloads :
        \/ StartRequest(d) \/ NetworkFails(d) \/ Redirected(d) \/ StatusFails(d) \/ Respond(d)
        \/ WriteChunk(d) \/ EndBody(d) \/ BodyFails(d) \/ FindExisting(d) \/ RenameIntoPlace(d)
        \/ CrashDownload(d)

RawFairness ==
    \A d \in Downloads :
        /\ WF_rawVars(StartRequest(d) \/ NetworkFails(d) \/ StatusFails(d) \/ Respond(d))
        /\ WF_rawVars(EndBody(d)) /\ WF_rawVars(FindExisting(d)) /\ WF_rawVars(RenameIntoPlace(d))

RawSpec == RawInit /\ [][RawNext]_rawVars /\ RawFairness

-----------------------------------------------------------------------------
\* load_verified: a file is given out only when its content is its name.
LoadVerified(c) == IF files[c] = c THEN c ELSE Missing

\* A call that returned an artifact finds it in the store, whole, whichever
\* other calls stored the same content at the same time or died while they
\* wrote it (store_stream, raw_store.py:105).
StoredIsLoadable ==
    \A d \in Downloads : download[d].stage = "stored" =>
        LoadVerified(download[d].result) = download[d].result /\ download[d].result # Missing

\* Nobody asks more often than the configured retries allow, no request starts
\* within the pacing interval of the one before, and every call comes to an end.
Ended(d) == download[d].stage \in {"stored", "gave_up", "refused", "crashed"}
DownloadsEnd ==
    \A d \in Downloads :
        /\ [](/\ download[d].requests <= MaximumRetries + 1
              /\ download[d].gap # Missing => download[d].gap >= MinimumInterval)
        /\ <>Ended(d)
=============================================================================
