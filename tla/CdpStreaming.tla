---------------------------- MODULE CdpStreaming ----------------------------
(***************************************************************************)
(* The passive observer of streamed gRPC-Web responses                     *)
(* (sources/browser/cdp_streaming.py, grpc_web_stream.py).  Callbacks only *)
(* enqueue; one consumer drains the queue between two waits of the page.   *)
(* The browser delivers events while the page waits and while the consumer *)
(* waits for the answer of Network.streamResourceContent.  A byte is "D"   *)
(* or "T", the header of a data or trailer frame, or a payload byte; a     *)
(* frame is a header and one payload byte.                                 *)
(***************************************************************************)
EXTENDS Integers, Sequences, FiniteSets, SequencesExt

CONSTANTS Requests,             \* approved fetch requests of the page
          Bodies,               \* the chunks the server sends for each
          MaximumQueueSize, MaximumResponses, MaximumStreamingBytes, MaximumFrames,
          MaxNoise,             \* bound: events of other requests of the page
          MaxTicks              \* bound: drains at which a timeout may be due

\* What the chunks are made of.
Byte == UNION {UNION {ToSet(Bodies[r][i]) : i \in DOMAIN Bodies[r]} : r \in Requests}

ASSUME StreamsAssumption ==
    /\ IsFiniteSet(Requests) /\ Bodies \in [Requests -> Seq(Seq(Byte))]
    /\ MaximumResponses \in Nat /\ MaximumStreamingBytes \in Nat

VARIABLES net,          \* per request: what the browser has reported of it
          queue,        \* observations not yet consumed
          overflowed,   \* _queue_overflowed
          consumer,     \* "waiting", "draining", "sending", "closed"; the request sent for
          streams,      \* the active streams
          outcomes,     \* the finished ones
          known,        \* _requests
          bytes,        \* _streaming_bytes
          noise, ticks,
          dropped       \* requests an observation of which was dropped

streamVars == <<net, queue, overflowed, consumer, streams, outcomes, known, bytes, noise, ticks, dropped>>

Idle == [stage |-> "new", chunks |-> 0, streaming |-> FALSE]
NoStream == [active |-> FALSE]

StreamsInit ==
    /\ net = [r \in Requests |-> Idle]
    /\ queue = <<>> /\ overflowed = FALSE
    /\ consumer = [stage |-> "waiting", request |-> "none", buffered |-> 0]
    /\ streams = [r \in Requests |-> NoStream] /\ outcomes = <<>> /\ known = {}
    /\ bytes = 0 /\ noise = 0 /\ ticks = 0 /\ dropped = {}

-----------------------------------------------------------------------------
\* _enqueue: a full queue drops the observation and remembers that it did.
Enqueue(observation) ==
    IF Len(queue) < MaximumQueueSize
    THEN queue' = Append(queue, observation) /\ UNCHANGED <<overflowed, dropped>>
    ELSE overflowed' = TRUE /\ dropped' = dropped \union {observation.request} /\ UNCHANGED queue

\* Callbacks run while the page waits or a command is answered.
Delivering == consumer.stage \in {"waiting", "sending"}

Others == <<consumer, streams, outcomes, known, bytes, ticks>>

RequestWillBeSent(r) ==
    /\ Delivering /\ net[r].stage = "new"
    /\ net' = [net EXCEPT ![r].stage = "sent"]
    /\ Enqueue([kind |-> "request", request |-> r])
    /\ UNCHANGED <<noise, Others>>

ResponseReceived(r) ==
    /\ Delivering /\ net[r].stage = "sent"
    /\ net' = [net EXCEPT ![r].stage = "receiving"]
    /\ Enqueue([kind |-> "response", request |-> r])
    /\ UNCHANGED <<noise, Others>>

\* The data is in the event only once the browser streams the response.
DataReceived(r) ==
    /\ Delivering /\ net[r].stage = "receiving" /\ net[r].chunks < Len(Bodies[r])
    /\ net' = [net EXCEPT ![r].chunks = @ + 1]
    /\ Enqueue(IF net[r].streaming THEN [kind |-> "data", request |-> r, chunk |-> net[r].chunks + 1]
               ELSE [kind |-> "missing", request |-> r])
    /\ UNCHANGED <<noise, Others>>

LoadingEnds(r) ==
    /\ Delivering /\ net[r].stage = "receiving"
    /\ \E failed \in BOOLEAN :
           /\ ~failed => net[r].chunks = Len(Bodies[r])
           /\ Enqueue([kind |-> "loading", request |-> r, failed |-> failed])
    /\ net' = [net EXCEPT ![r].stage = "ended"]
    /\ UNCHANGED <<noise, Others>>

\* Requests the classifier does not approve, navigation of the main frame.
OtherEvent(kind) ==
    /\ Delivering /\ noise < MaxNoise
    /\ noise' = noise + 1
    /\ Enqueue([kind |-> kind, request |-> "none"])
    /\ UNCHANGED <<net, Others>>

\* A redirect: the request id is used again, before any response.
RequestRedirected(r) ==
    /\ Delivering /\ noise < MaxNoise /\ net[r].stage = "sent"
    /\ noise' = noise + 1
    /\ UNCHANGED net
    /\ Enqueue([kind |-> "reuse", request |-> r])
    /\ UNCHANGED Others

-----------------------------------------------------------------------------
\* IncrementalGrpcWebDecoder._drain_frames: the complete frames of a buffer and
\* the rest, or an error at a header that is none, after a trailer or past the
\* number of frames allowed.
FrameLength == 2
Trailed(frames) == frames # <<>> /\ Last(frames)[1] = "T"

Feed(s, raw) ==
    LET buffer == s.buffer \o raw
        whole  == Len(buffer) \div FrameLength
        frames == [i \in 1..whole |-> SubSeq(buffer, FrameLength * (i - 1) + 1, FrameLength * i)]
        all    == s.frames \o frames
    IN  [ok |-> /\ \A i \in 1..Len(buffer) : i % FrameLength = 1 => buffer[i] \in {"D", "T"}
                /\ \A i \in 1..Len(all) - 1 : all[i][1] # "T"
                /\ Trailed(all) => Len(buffer) % FrameLength = 0
                /\ Len(all) <= MaximumFrames,
         frames |-> all,
         rest   |-> SubSeq(buffer, FrameLength * whole + 1, Len(buffer))]

Opened == [active |-> TRUE, buffer |-> <<>>, frames |-> <<>>, buffered |-> <<>>, first |-> TRUE, missing |-> 0]

Finished(r, state, frames) == [request |-> r, state |-> state, frames |-> frames]

\* _finish_stream: nothing happens to a stream that is gone.
Finish(r, state) ==
    /\ streams' = [streams EXCEPT ![r] = NoStream]
    /\ known' = known \ {r}
    /\ outcomes' = IF streams[r].active THEN Append(outcomes, Finished(r, state, streams[r].frames)) ELSE outcomes

\* _decode_data, _feed_raw_data, _retain_frame.  The stream is rejected when its
\* data is no base64, passes the byte limit of the cycle or is no frame, and at
\* the first frame that cannot be stored, which leaves those stored before it.
FeedRawData(r, stream, raw) ==
    LET fed    == Feed(stream, raw)
        within == bytes + Len(raw) <= MaximumStreamingBytes
    IN  \/ /\ within /\ fed.ok
           /\ bytes' = bytes + Len(raw)
           /\ streams' = [streams EXCEPT ![r] = [stream EXCEPT !.buffer = fed.rest, !.frames = fed.frames]]
           /\ UNCHANGED <<outcomes, known>>
        \/ /\ within /\ ~fed.ok
           /\ bytes' = bytes + Len(raw)
           /\ Finish(r, "rejected")
        \/ Finish(r, "rejected") /\ UNCHANGED bytes
        \/ /\ within /\ fed.ok
           /\ bytes' = bytes + Len(raw)
           /\ streams' = [streams EXCEPT ![r] = NoStream] /\ known' = known \ {r}
           /\ \E stored \in Len(stream.frames)..(Len(fed.frames) - 1) :
                  outcomes' = Append(outcomes, Finished(r, "rejected", SubSeq(fed.frames, 1, stored)))

-----------------------------------------------------------------------------
Reported == <<net, noise>>

\* drain: streams that were active when the queue overflowed are given up.
StartDrain ==
    /\ consumer.stage = "waiting" /\ ticks < MaxTicks
    /\ consumer' = [consumer EXCEPT !.stage = "draining"]
    /\ overflowed' = FALSE
    /\ LET lost == IF overflowed THEN {r \in Requests : streams[r].active} ELSE {}
       IN  /\ streams' = [r \in Requests |-> IF r \in lost THEN NoStream ELSE streams[r]]
           /\ known' = known \ lost
           /\ outcomes' = outcomes \o [i \in 1..Cardinality(lost) |->
                  LET r == SetToSeq(lost)[i] IN Finished(r, "rejected", streams[r].frames)]
    /\ UNCHANGED <<Reported, queue, bytes, ticks, dropped>>

Consuming(kind) == consumer.stage = "draining" /\ queue # <<>> /\ Head(queue).kind = kind
Consumed == queue' = Tail(queue) /\ UNCHANGED <<net, noise, overflowed, ticks, dropped>>
Subject == Head(queue).request

ConsumeRequest ==
    /\ Consuming("request") /\ Consumed
    /\ known' = known \union {Subject}
    /\ UNCHANGED <<consumer, streams, outcomes, bytes>>

\* The same id with another request: a stream that is open ends.
ConsumeReuse ==
    /\ Consuming("reuse") /\ Consumed
    /\ streams' = [streams EXCEPT ![Subject] = NoStream]
    /\ outcomes' = IF streams[Subject].active
                   THEN Append(outcomes, Finished(Subject, "transport_error", streams[Subject].frames)) ELSE outcomes
    /\ known' = known \union {Subject}
    /\ UNCHANGED <<consumer, bytes>>

\* An approved response opens a stream, up to the number of a cycle; one
\* outcome tells of all that are refused.
ActiveStreams == {r \in Requests : streams[r].active}
LimitTold == \E i \in 1..Len(outcomes) : outcomes[i].state = "limit"

ConsumeResponse ==
    /\ Consuming("response") /\ Consumed
    /\ \/ /\ Subject \notin known \/ streams[Subject].active
          /\ UNCHANGED <<consumer, streams, outcomes>>
       \/ /\ Subject \in known /\ ~streams[Subject].active
          /\ Cardinality(ActiveStreams) + Len(outcomes) >= MaximumResponses
          /\ outcomes' = IF LimitTold THEN outcomes ELSE Append(outcomes, Finished(Subject, "limit", <<>>))
          /\ UNCHANGED <<consumer, streams>>
       \/ /\ Subject \in known /\ ~streams[Subject].active
          /\ Cardinality(ActiveStreams) + Len(outcomes) < MaximumResponses
          /\ streams' = [streams EXCEPT ![Subject] = Opened]
          /\ consumer' = [stage |-> "sending", request |-> Subject, buffered |-> -1]
          /\ UNCHANGED outcomes
    /\ UNCHANGED <<known, bytes>>

\* Network.streamResourceContent: from here the browser puts the data in its
\* events; it answers with what it had buffered before.
StreamResourceContent ==
    /\ consumer.stage = "sending" /\ consumer.buffered < 0
    /\ net' = [net EXCEPT ![consumer.request].streaming = net[consumer.request].stage # "ended"]
    /\ consumer' = [consumer EXCEPT !.buffered = net[consumer.request].chunks]
    /\ UNCHANGED <<queue, overflowed, streams, outcomes, known, bytes, noise, ticks, dropped>>

SendReturns ==
    /\ consumer.stage = "sending" /\ consumer.buffered >= 0
    /\ LET r   == consumer.request
           raw == FlattenSeq(SubSeq(Bodies[r], 1, consumer.buffered))
       IN  IF raw = <<>> THEN UNCHANGED <<streams, outcomes, known, bytes>>
           ELSE FeedRawData(r, [streams[r] EXCEPT !.buffered = raw], raw)
    /\ consumer' = [stage |-> "draining", request |-> "none", buffered |-> 0]
    /\ UNCHANGED <<net, queue, overflowed, noise, ticks, dropped>>

\* The command is unknown to this browser, or fails.
SendFails ==
    /\ consumer.stage = "sending" /\ consumer.buffered < 0
    /\ Finish(consumer.request, "unsupported")
    /\ consumer' = [stage |-> "draining", request |-> "none", buffered |-> 0]
    /\ UNCHANGED <<net, queue, overflowed, bytes, noise, ticks, dropped>>

\* Data of a stream; the first event may repeat what was buffered.  No event
\* repeats: each has a time of its own, so _consume_data's signatures differ.
WithoutOverlap(s, raw) ==
    IF ~s.first \/ s.buffered = <<>> THEN raw
    ELSE IF IsPrefix(s.buffered, raw) THEN SubSeq(raw, Len(s.buffered) + 1, Len(raw)) ELSE raw

ConsumeData ==
    /\ Consuming("data") /\ Consumed
    /\ LET s   == streams[Subject]
           raw == WithoutOverlap(s, Bodies[Subject][Head(queue).chunk])
       IN  IF ~s.active THEN UNCHANGED <<streams, outcomes, known, bytes>>
           ELSE FeedRawData(Subject, [s EXCEPT !.first = FALSE, !.buffered = <<>>], raw)
    /\ UNCHANGED consumer

ConsumeMissing ==
    /\ Consuming("missing") /\ Consumed
    /\ streams' = IF streams[Subject].active THEN [streams EXCEPT ![Subject].missing = @ + 1] ELSE streams
    /\ UNCHANGED <<consumer, outcomes, known, bytes>>

\* Mutant: a response that ended is complete, whatever its last frame.
StateAtEndIgnoringTrailer(s) == IF s.buffer # <<>> THEN "truncated" ELSE "complete"

\* The end of the response: whole frames only, a trailer for a complete call.
StateAtEnd(s) == IF s.buffer # <<>> THEN "truncated" ELSE IF Trailed(s.frames) THEN "complete" ELSE "open"

ConsumeLoading ==
    /\ Consuming("loading") /\ Consumed
    /\ IF ~streams[Subject].active THEN UNCHANGED <<streams, known, outcomes>>
       ELSE Finish(Subject, IF Head(queue).failed THEN "transport_error" ELSE StateAtEnd(streams[Subject]))
    /\ UNCHANGED <<consumer, bytes>>

ConsumeOther ==
    /\ Consuming("unapproved") /\ Consumed
    /\ UNCHANGED <<consumer, streams, outcomes, known, bytes>>

\* Another main document replaces the page of every open stream.
ConsumeNavigation ==
    /\ Consuming("navigation") /\ Consumed
    /\ streams' = [r \in Requests |-> NoStream]
    /\ known' = known \ ActiveStreams
    /\ outcomes' = outcomes \o [i \in 1..Cardinality(ActiveStreams) |->
           LET r == SetToSeq(ActiveStreams)[i] IN Finished(r, "transport_error", streams[r].frames)]
    /\ UNCHANGED <<consumer, bytes>>

\* _apply_timeouts: first data, idle or lifetime limits of any stream.
EndDrain ==
    /\ consumer.stage = "draining" /\ queue = <<>>
    /\ \E late \in SUBSET ActiveStreams :
           /\ streams' = [r \in Requests |-> IF r \in late THEN NoStream ELSE streams[r]]
           /\ known' = known \ late
           /\ outcomes' = outcomes \o [i \in 1..Cardinality(late) |->
                  LET r == SetToSeq(late)[i] IN Finished(r, "timeout", streams[r].frames)]
    /\ consumer' = [consumer EXCEPT !.stage = "waiting"]
    /\ ticks' = ticks + 1
    /\ UNCHANGED <<Reported, queue, overflowed, bytes, dropped>>

\* close: after a last drain every open stream gets the state of its end.
Close ==
    /\ consumer.stage = "waiting" /\ queue = <<>> /\ ~overflowed
    /\ consumer' = [consumer EXCEPT !.stage = "closed"]
    /\ streams' = [r \in Requests |-> NoStream] /\ known' = {}
    /\ outcomes' = outcomes \o [i \in 1..Cardinality(ActiveStreams) |->
           LET r == SetToSeq(ActiveStreams)[i] IN Finished(r, StateAtEnd(streams[r]), streams[r].frames)]
    /\ UNCHANGED <<Reported, queue, overflowed, bytes, ticks, dropped>>

StreamsNext ==
    \/ \E r \in Requests :
           RequestWillBeSent(r) \/ ResponseReceived(r) \/ DataReceived(r) \/ LoadingEnds(r) \/ RequestRedirected(r)
    \/ \E kind \in {"unapproved", "navigation"} : OtherEvent(kind)
    \/ StartDrain \/ ConsumeRequest \/ ConsumeReuse \/ ConsumeResponse \/ StreamResourceContent
    \/ SendReturns \/ SendFails \/ ConsumeData \/ ConsumeMissing \/ ConsumeLoading \/ ConsumeOther
    \/ ConsumeNavigation \/ EndDrain \/ Close

StreamsSpec == StreamsInit /\ [][StreamsNext]_streamVars

-----------------------------------------------------------------------------
\* What the server has sent after k chunks.
Sent(r, k) == FlattenSeq(SubSeq(Bodies[r], 1, k))

\* Two habits of the servers, without which frames are not retained as sent: a
\* trailer ends the response, as gRPC-Web prescribes, and no chunk begins with all
\* that was sent before it, which WithoutOverlap would take for a repetition.
TrailersLast ==
    \A r \in Requests : LET b == FlattenSeq(Bodies[r])
        IN  \A i \in 1..Len(b) : i % FrameLength = 1 /\ b[i] = "T" => Len(b) <= i + 1
NoChunkRepeats ==
    \A r \in Requests : \A k \in 1..(Len(Bodies[r]) - 1) :
        Sent(r, k) # <<>> => ~IsPrefix(Sent(r, k), Bodies[r][k + 1])

\* The frames of the whole response.
FramesOf(r) == Feed(Opened, FlattenSeq(Bodies[r])).frames

\* Frames are retained as the server sent them: unless one of its observations
\* was dropped, an outcome holds a prefix of the frames of its response, and all
\* of them if it is complete.  Bytes stay within the limit of the cycle, and the
\* outcomes within the number of responses and one that tells of the rest.
RetainedAsSent ==
    /\ \A i \in 1..Len(outcomes) : outcomes[i].request \notin dropped =>
           /\ IsPrefix(outcomes[i].frames, FramesOf(outcomes[i].request))
           /\ outcomes[i].state = "complete" => outcomes[i].frames = FramesOf(outcomes[i].request)
    /\ bytes <= MaximumStreamingBytes
    /\ Cardinality(ActiveStreams) + Len(outcomes) <= MaximumResponses + 1
=============================================================================
