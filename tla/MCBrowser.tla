----------------------------- MODULE MCBrowser -----------------------------
(* Instances of the browser modules for TLC: in each behaviour one of them  *)
(* runs, so that one run covers the three.                                  *)
EXTENDS CdpStreaming, BrowserSession, ClientSchema, TLC

CONSTANTS r1, r2, j1, j2, g1, g2

VARIABLES part

\* The responses of the instance have the habits of CdpStreaming.
ASSUME RegularResponses == TrailersLast /\ NoChunkRepeats

MCRequests == {r1, r2}
MCBodies == [r \in MCRequests |->
    IF r = r1 THEN <<<<"D">>, <<"a", "T">>, <<"0">>>> ELSE <<<<"D", "c", "T", "0">>>>]

MCTraffic == {j1, j2, g1, g2}
MCDescribe == [r \in MCTraffic |->
    IF r \in {j1, j2} THEN [public |-> TRUE, hostApproved |-> TRUE, approved |-> FALSE, media |-> "json", resource |-> "xhr",
                    payload |-> "topevents", status |-> 200, declared |-> None, size |-> 2, readable |-> TRUE,
                    metadataOnly |-> FALSE, storable |-> TRUE, url |-> "j"]
    ELSE [public |-> TRUE, hostApproved |-> FALSE, approved |-> TRUE, media |-> "grpc-web", resource |-> "fetch",
          payload |-> "frames", status |-> 200, declared |-> None, size |-> 2, readable |-> TRUE,
          metadataOnly |-> FALSE, storable |-> TRUE, url |-> "g"]]
MCCauses == [p \in {"betano-pt", "betclic-pt"} |-> IF p = "betano-pt" THEN {j1, j2, g1, g2} ELSE {j1, g1, g2}]
MCLimits == [response |-> 2, total |-> 3]

Script(id, ok, chars_) == [id |-> id, approved |-> ok, length |-> chars_, valid |-> TRUE]
MCScripts == {Script(1, TRUE, 1), Script(2, TRUE, 3), Script(3, FALSE, 1),
              [Script(4, TRUE, 1) EXCEPT !.valid = FALSE]}

\* Two responses are alike.
Alike == Permutations({g1, g2})

\* Bounds of a stream: one step in which streams fail, or events of the rest of
\* the page, not both.
Failed(o) == {i \in DOMAIN o : o[i].state \in {"rejected", "unsupported", "timeout", "transport_error"}}
CalmStreams ==
    /\ Failed(outcomes) # {} => Cardinality(Failed(outcomes')) = Cardinality(Failed(outcomes)) /\ UNCHANGED noise
    /\ noise' > 0 => \A i \in Failed(outcomes') : outcomes'[i].state = "transport_error"

\* Bounds of a session: two responses with an observer or three without one;
\* a deadline that passes before anything else fails; a second route without
\* failures until its page has been read; no callbacks once the browser closes.
CalmSession ==
    /\ Cardinality({r \in MCTraffic : browser'[r] # "none" \/ heard'[r] # "no"})
           <= IF Provider = "betano-pt" THEN 3 ELSE 2
    /\ late' # late => session.route = 1 /\ session.result = "none" /\ ~session.warned
    /\ session'.route = 2 => /\ ~session'.warned /\ session'.polls = 0
                             /\ session'.stage # "closing" => session'.result = "none"
    /\ session.stage = "closing" => UNCHANGED <<browser, heard>>

allVars == <<streamVars, sessionVars, scriptVars, part>>

BrowserInit == part \in {"streams", "session", "scripts"} /\ StreamsInit /\ SessionInit /\ ScriptsInit

BrowserNext ==
    /\ UNCHANGED part
    /\ \/ part = "streams" /\ StreamsNext /\ CalmStreams /\ UNCHANGED <<sessionVars, scriptVars>>
       \/ part = "session" /\ SessionNext /\ CalmSession /\ UNCHANGED <<streamVars, scriptVars>>
       \/ part = "scripts" /\ ScriptsNext /\ UNCHANGED <<streamVars, sessionVars>>

BrowserSpec == BrowserInit /\ [][BrowserNext]_allVars

\* The passive observers: frames of streams are kept as they were sent, and every
\* script the page announced is accounted for.
PassivelyObserved == RetainedAsSent /\ ScriptsAccounted
=============================================================================
