---------------------------- MODULE ClientSchema ----------------------------
(***************************************************************************)
(* The passive inspection of scripts the page has loaded                   *)
(* (sources/browser/client_schema.py): a callback queues what was parsed,  *)
(* a drain reads the source of approved scripts within the limits.         *)
(***************************************************************************)
EXTENDS Integers, Sequences, FiniteSets

CONSTANTS Scripts,          \* parsed scripts: [id, approved, length, valid]
          MaximumSeen, MaximumScripts, MaximumChars, MaximumTotalChars, MaximumScriptQueue

ASSUME ScriptsAssumption ==
    /\ MaximumScripts \in Nat /\ MaximumChars \in Nat /\ MaximumTotalChars \in Nat
    /\ \A s \in Scripts : s.length \in Nat

VARIABLES parsed,      \* scripts the browser has announced, by how often
          scripts,     \* the queue
          inspections, \* ids of the scripts inspected
          seenIds, rejections, seen, chars, inspector

scriptVars == <<parsed, scripts, inspections, seenIds, rejections, seen, chars, inspector>>

ScriptsInit ==
    /\ parsed = [s \in Scripts |-> 0] /\ scripts = <<>> /\ inspections = <<>> /\ seenIds = {}
    /\ rejections = 0 /\ seen = 0 /\ chars = 0 /\ inspector = "open"

\* _on_script_parsed: what is malformed or past a limit is only counted.
OnScriptParsed(s) ==
    /\ inspector = "open" /\ parsed[s] < 2
    /\ parsed' = [parsed EXCEPT ![s] = @ + 1]
    /\ seen' = seen + 1
    /\ IF seen + 1 > MaximumSeen \/ ~s.valid \/ Len(scripts) >= MaximumScriptQueue
       THEN rejections' = rejections + 1 /\ UNCHANGED scripts
       ELSE scripts' = Append(scripts, s) /\ UNCHANGED rejections
    /\ UNCHANGED <<inspections, seenIds, chars, inspector>>

\* _inspect, up to the command that asks for the source.
Inspectable(s) ==
    /\ s.id \notin seenIds /\ s.approved
    /\ Len(inspections) < MaximumScripts
    /\ s.length <= MaximumChars
    /\ chars + s.length <= MaximumTotalChars

\* The source must be there and have the announced length.
SourceAccepted(s, source) == source = s.length

InspectNext ==
    /\ inspector = "open" /\ scripts # <<>>
    /\ LET s == Head(scripts)
       IN  /\ seenIds' = seenIds \union {s.id}
           /\ \E source \in 0..MaximumChars + 1 :
                  /\ source \in {0, s.length, s.length + 1}
                  /\ IF Inspectable(s) /\ SourceAccepted(s, source)
                     THEN /\ inspections' = Append(inspections, s.id) /\ chars' = chars + source
                          /\ UNCHANGED rejections
                     ELSE rejections' = rejections + 1 /\ UNCHANGED <<inspections, chars>>
    /\ scripts' = Tail(scripts)
    /\ UNCHANGED <<parsed, seen, inspector>>

\* drain: past the wall time the rest of the queue is rejected.
WallTimePasses ==
    /\ inspector = "open" /\ scripts # <<>>
    /\ rejections' = rejections + Len(scripts)
    /\ scripts' = <<>>
    /\ UNCHANGED <<parsed, inspections, seenIds, seen, chars, inspector>>

CloseInspector ==
    /\ inspector = "open" /\ scripts = <<>>
    /\ inspector' = "closed"
    /\ UNCHANGED <<parsed, scripts, inspections, seenIds, rejections, seen, chars>>

ScriptsNext ==
    (\E s \in Scripts : OnScriptParsed(s)) \/ InspectNext \/ WallTimePasses \/ CloseInspector

ScriptsSpec == ScriptsInit /\ [][ScriptsNext]_scriptVars

-----------------------------------------------------------------------------
\* Every script that was seen is inspected, rejected or still queued, and the
\* sources that were read stay within the budget of the page.
ScriptsAccounted ==
    /\ seen = Len(inspections) + rejections + Len(scripts)
    /\ chars <= MaximumTotalChars /\ Len(inspections) <= MaximumScripts
=============================================================================
