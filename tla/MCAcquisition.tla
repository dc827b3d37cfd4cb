--------------------------- MODULE MCAcquisition ---------------------------
(* The two ways market data is acquired, for TLC: the bookmaker cycles and   *)
(* The Odds API.  Each behaviour is one of the two.                          *)
EXTENDS BookmakerAcquisition, AutomaticMarketData

\* Bundles: a complete capture, a partial one, one that drifted.
Full ==
    [verified |-> TRUE, critical |-> FALSE, events |-> TRUE, drift |-> FALSE,
     markets |-> TRUE, priced |-> TRUE, quotes |-> TRUE, unresolved |-> FALSE,
     complete |-> TRUE]
Partial == [Full EXCEPT !.complete = FALSE]
Drifted == [Full EXCEPT !.drift = TRUE]

FullAndPartial == {Full, Partial, Drifted}
BothEnabled == {"betano", "betclic"}

VARIABLE part

\* Bounds: two generations of controls between jobs, with every fault and answer;
\* three of controls that overlap with jobs, then without restarts, with a quota
\* that lasts, a key that stays valid and fewer of the answers that fail alike.
\* The keys are alike, so the first one to be stored may be any.
FirstKey == CHOOSE k \in Keys : TRUE
Bounded ==
    /\ (config = Unset /\ ui'.key # Unset) => ui'.key = FirstKey
    /\ (~overlap /\ ui.op = "idle" /\ ui'.op # "idle" /\ config # Unset) => config.generation < 2
    /\ overlap => faults' = 0
    /\ overlap => valid' # {}
    /\ overlap => \A c \in Contents : raw'[c] # Reserve
    /\ overlap => handling'.st.quota # Reserve
    /\ overlap => ui'.st.quota # Reserve
    /\ overlap => handling'.why \notin {"validation-failed", "temporarily-unavailable"}

\* Bounds of the cycles: executions that have overlapped acquire no drifted bundle
\* any more.  The executions are alike: the next to begin may be any that is idle.
InOrder ==
    /\ \A e \in Executions : ~alone /\ exec'[e].seen \notin {NULL, exec[e].seen} => exec'[e].seen.bundle # Drifted
    /\ \A e \in Executions : exec[e].pc = "idle" /\ exec'[e].pc # "idle"
        => e = CHOOSE f \in Executions : exec[f].pc = "idle"

AcquisitionInit ==
    /\ part \in {"bookmaker", "automatic"} /\ Init /\ AutomaticInit
    /\ part = "bookmaker" => ~overlap

AcquisitionNext ==
    /\ UNCHANGED part
    /\ \/ part = "bookmaker" /\ Next /\ InOrder /\ UNCHANGED automaticVars
       \/ part = "automatic" /\ AutomaticNext /\ Bounded /\ UNCHANGED vars

\* The chain of automatic jobs stays as it began in the behaviours of the cycles.
AcquisitionFairness ==
    /\ WF_stateVars(part = "automatic" /\ Worker) /\ WF_stateVars(part = "automatic" /\ Controller)
    /\ \A i \in JobIds : /\ WF_stateVars(part = "automatic" /\ Due(i))
                         /\ WF_stateVars(part = "automatic" /\ Claim(i))
                         /\ WF_stateVars(part = "automatic" /\ Recover(i))

AcquisitionSpec == AcquisitionInit /\ [][AcquisitionNext]_<<part, vars, automaticVars>> /\ AcquisitionFairness
=============================================================================
