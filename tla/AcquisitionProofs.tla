------------------------- MODULE AcquisitionProofs -------------------------
(***************************************************************************)
(* Proofs about the two ways market data is acquired: the bookmaker cycles, *)
(* for any number of executions that overlap, and the chain of jobs of The  *)
(* Odds API; and about what is done with it: the reconciliation of events   *)
(* and the choice between two prices.                                       *)
(***************************************************************************)
EXTENDS BookmakerAcquisition, AutomaticMarketData,
        FiniteSetTheorems, SequenceTheorems, TLAPS

-----------------------------------------------------------------------------
(* The bookmaker cycles: runs, registrations, provider status, executions   *)

Used == {p \in Providers : Uses(p)}

Execution ==
    [pc : Pc, cycle : Cycles \cup {NULL}, attempt : 0..MaximumAttempts, started : 0..MaxNow,
     todo : Seq(Used), out : [Providers -> Outcome],
     seen : {NULL} \cup Acquired, cached : {NULL} \cup Snapshot]
CycleJob == [status : {"pending", "running", "succeeded", "failed"},
             attempts : 0..MaximumAttempts]
Codes == {"unknown", "blocked", "unavailable", "drift-detected", "partial",
          "admitted", "operational"}
ProviderStatus == [code : Codes, lastValid : {NULL} \cup Snapshot,
                   nextEligible : {NULL} \cup Nat]

TableTypes ==
    /\ job \in [Cycles -> CycleJob]
    /\ runs \in [Cycles -> [Providers -> {NULL} \cup Run]]
    /\ attempts \in [Cycles -> [Providers -> [1..MaximumAttempts -> {NULL} \cup RunStatus]]]
    /\ status \in [Providers -> ProviderStatus]
    /\ registered \in [Cycles -> [Providers -> {NULL} \cup Registration]]
    /\ blocked \in [Providers -> Nat]
    /\ alone \in BOOLEAN
    /\ now \in 0..MaxNow

(* A job that waits has an attempt left; the three tables tell one story;   *)
(* only providers of the selection mode have runs.                          *)
TableInv ==
    /\ \A c \in Cycles : job[c].status = "pending" => job[c].attempts < MaximumAttempts
    /\ LastValidAdmitted
    /\ RegistrationMatchesRun
    /\ \A c \in Cycles, p \in Providers : runs[c][p] # NULL => p \in Used

Dealing == {"lookup", "acquire", "publish", "persist", "exhausted", "success"}

(* What an execution that is under way remembers. *)
ExecOK(x) == x.pc # "idle" =>
    /\ x.cycle \in Cycles /\ x.attempt \in 1..MaximumAttempts /\ x.started <= now
    /\ x.todo = <<>> <=> x.pc \in {"finish", "decide"}
    /\ x.pc \in {"publish", "persist", "success"} => x.seen \in Acquired
    /\ x.pc \in {"publish", "success"} => x.seen.kind = "bundle"
    /\ \A p \in Providers : x.out[p] = "retryable" => x.attempt < MaximumAttempts

Pending(x, p) == \E i \in 1..Len(x.todo) : x.todo[i] = p

Open(run) == run # NULL /\ run.status = "retryable"

Unsettled(c, p) == Open(runs[c][p])

(* ... and, while executions have not overlapped: it deals only with a run  *)
(* that is open, of a provider whose block is over; a run that asks for a   *)
(* retry is still to do, was skipped or has its retry asked for.            *)
Careful(x) == x.pc # "idle" =>
    /\ x.pc \in Dealing => blocked[Head(x.todo)] <= now
    /\ x.pc \in Dealing \ {"lookup"} =>
          runs[x.cycle][Head(x.todo)] = NULL \/ Unsettled(x.cycle, Head(x.todo))
    /\ \A p \in Providers : Unsettled(x.cycle, p) =>
          Pending(x, p) \/ x.out[p] \in {"cooldown", "retryable"}
    /\ x.pc = "decide" => \A p \in Providers : x.out[p] # "retryable"

(* A block that is not over is the one in the provider's status. *)
BlockKept ==
    \A p \in Providers :
        \/ blocked[p] <= now
        \/ status[p].code = "blocked" /\ status[p].nextEligible = blocked[p]

OneUnderWay ==
    \A e, f \in Executions : exec[e].pc # "idle" /\ exec[f].pc # "idle" => e = f

CyclesInv ==
    /\ TableTypes /\ TableInv
    /\ exec \in [Executions -> Execution]
    /\ \A e \in Executions : ExecOK(exec[e])
    /\ alone => /\ OneUnderWay /\ BlockKept
                /\ \A e \in Executions : Careful(exec[e])

LEMMA CyclesInvImplies ==
    CyclesInv => TablesAgree
<1> SUFFICES ASSUME CyclesInv PROVE TablesAgree
    OBVIOUS
<1>1. TypeOK
    BY DEF CyclesInv, TableTypes, Execution, CycleJob, ProviderStatus, TypeOK
<1> QED
    BY <1>1 DEF CyclesInv, TableInv, TablesAgree

(* The providers of a cycle are those that the selection mode uses.         *)
LEMMA SelectionFacts ==
    /\ Used \subseteq Providers
    /\ ProvidersForSelectionMode \in Seq(Used)
    /\ \A p \in Used : \E i \in 1..Len(ProvidersForSelectionMode) :
          ProvidersForSelectionMode[i] = p
<1> DEFINE first == IF Uses("betano") THEN <<"betano">> ELSE <<>>
           second == IF Uses("betclic") THEN <<"betclic">> ELSE <<>>
           all == first \o second
<1>1. all = ProvidersForSelectionMode
    BY DEF ProvidersForSelectionMode
<1>2. \A p : p \in Used <=> (p = "betano" \/ p = "betclic") /\ Uses(p)
    BY DEF Used, Providers
<1> HIDE DEF Uses
<1>3. CASE Uses("betano") /\ Uses("betclic")
    <2> DEFINE one == <<"betano">>
               two == <<"betclic">>
    <2>1. all = one \o two
        BY <1>3
    <2>2. /\ one \in Seq(Used) /\ Len(one) = 1 /\ one[1] = "betano"
          /\ two \in Seq(Used) /\ Len(two) = 1 /\ two[1] = "betclic"
        BY <1>2, <1>3
    <2> HIDE DEF all, one, two
    <2>3. /\ all \in Seq(Used) /\ Len(all) = 2
          /\ \A i \in 1..2 : all[i] = IF i <= 1 THEN one[i] ELSE two[i - 1]
        BY <2>1, <2>2, ConcatProperties
    <2>4. all[1] = "betano" /\ all[2] = "betclic"
        BY <2>2, <2>3
    <2> QED
        BY <1>1, <1>2, <2>3, <2>4 DEF Providers
<1>4. CASE Uses("betano") /\ ~Uses("betclic")
    <2>1. all = <<"betano">>
        BY <1>4
    <2>2. all \in Seq(Used) /\ Len(all) = 1 /\ all[1] = "betano"
        BY <1>2, <1>4, <2>1
    <2> HIDE DEF all
    <2> QED
        BY <1>1, <1>2, <1>4, <2>2 DEF Providers
<1>5. CASE ~Uses("betano") /\ Uses("betclic")
    <2>1. all = <<"betclic">>
        BY <1>5
    <2>2. all \in Seq(Used) /\ Len(all) = 1 /\ all[1] = "betclic"
        BY <1>2, <1>5, <2>1
    <2> HIDE DEF all
    <2> QED
        BY <1>1, <1>2, <1>5, <2>2 DEF Providers
<1>6. CASE ~Uses("betano") /\ ~Uses("betclic")
    <2>1. all = <<>>
        BY <1>6
    <2> HIDE DEF all
    <2> QED
        BY <1>1, <1>2, <1>6, <2>1 DEF Providers
<1> QED
    BY <1>3, <1>4, <1>5, <1>6

LEMMA TailFacts ==
    ASSUME NEW S, NEW seq \in Seq(S), seq # <<>>
    PROVE  /\ Head(seq) \in S /\ Tail(seq) \in Seq(S)
           /\ Tail(seq) = <<>> <=> ~(Len(seq) > 1)
           /\ \A i \in 1..Len(seq) :
                 seq[i] = Head(seq) \/ \E k \in 1..Len(Tail(seq)) : Tail(seq)[k] = seq[i]
<1>1. /\ Head(seq) \in S /\ Tail(seq) \in Seq(S) /\ Len(Tail(seq)) = Len(seq) - 1
      /\ \A k \in 1..Len(Tail(seq)) : Tail(seq)[k] = seq[k + 1]
    BY HeadTailProperties
<1>2. Len(seq) \in Nat /\ Len(seq) > 0 /\ Head(seq) = seq[1]
    OBVIOUS
<1> DEFINE rest == Tail(seq)
<1> HIDE DEF rest
<1>3. rest \in Seq(S) => (rest = <<>> <=> Len(rest) = 0)
    OBVIOUS
<1>4. ASSUME NEW i \in 1..Len(seq), i # 1
      PROVE  \E k \in 1..Len(rest) : rest[k] = seq[i]
    <2>1. i - 1 \in 1..Len(rest) /\ (i - 1) + 1 = i
        BY <1>1, <1>2, <1>4 DEF rest
    <2>2. rest[i - 1] = seq[(i - 1) + 1]
        BY <1>1, <2>1 DEF rest
    <2> QED
        BY <2>1, <2>2
<1> QED
    BY <1>1, <1>2, <1>3, <1>4 DEF rest

(* Advanced: the provider is dealt with, the others are still to do.        *)
LEMMA AdvancedFacts ==
    ASSUME NEW x \in Execution, NEW outcome \in Outcome, x.todo # <<>>,
           NEW new, new = Advanced(x, outcome)
    PROVE  /\ new \in Execution /\ Head(x.todo) \in Used
           /\ new.pc \in {"next", "finish"} /\ (new.todo = <<>> <=> new.pc = "finish")
           /\ new.cycle = x.cycle /\ new.attempt = x.attempt /\ new.started = x.started
           /\ new.out[Head(x.todo)] = outcome
           /\ \A p \in Providers : p # Head(x.todo) =>
                 new.out[p] = x.out[p] /\ (Pending(x, p) => Pending(new, p))
<1> DEFINE head == Head(x.todo)
           rest == Tail(x.todo)
           after == IF Len(x.todo) > 1 THEN "next" ELSE "finish"
           out == [x.out EXCEPT ![head] = outcome]
<1>1. /\ head \in Used /\ rest \in Seq(Used) /\ (rest = <<>> <=> ~(Len(x.todo) > 1))
      /\ \A i \in 1..Len(x.todo) :
            x.todo[i] = head \/ \E k \in 1..Len(rest) : rest[k] = x.todo[i]
    BY TailFacts DEF Execution
<1>2. /\ out \in [Providers -> Outcome] /\ out[head] = outcome
      /\ \A p \in Providers : p # head => out[p] = x.out[p]
    BY <1>1, SelectionFacts DEF Execution
<1>3. new = [x EXCEPT !.pc = after, !.todo = rest, !.seen = NULL, !.out = out]
    BY DEF Advanced
<1>4. after \in {"next", "finish"} /\ (rest = <<>> <=> after = "finish")
    BY <1>1
<1> HIDE DEF head, rest, after, out
<1>5. /\ new \in Execution /\ new.pc = after /\ new.todo = rest /\ new.out = out
      /\ new.cycle = x.cycle /\ new.attempt = x.attempt /\ new.started = x.started
    BY <1>1, <1>2, <1>3, <1>4 DEF Execution, Pc
<1>6. \A p \in Providers : p # head => (Pending(x, p) => Pending(new, p))
    BY <1>1, <1>5 DEF Pending
<1> QED
    BY <1>1, <1>2, <1>4, <1>5, <1>6 DEF head

LEMMA CyclesFacts ==
    ASSUME CyclesInv, NEW e \in Executions
    PROVE  /\ TableTypes /\ TableInv /\ exec \in [Executions -> Execution]
           /\ exec[e] \in Execution /\ ExecOK(exec[e])
           /\ alone => OneUnderWay /\ BlockKept /\ Careful(exec[e])
           /\ now \in Nat /\ now \in 0..MaxNow
           /\ now + BlockedCooldown \in Nat /\ now + AcquisitionInterval \in Nat
           /\ MaximumAttempts \in Nat
BY NumbersAssumption DEF CyclesInv, TableTypes

(* An execution that has a provider to deal with.                           *)
LEMMA DealingFacts ==
    ASSUME CyclesInv, NEW e \in Executions, exec[e].pc \in Dealing \cup {"next"}
    PROVE  /\ exec[e].cycle \in Cycles /\ exec[e].attempt \in 1..MaximumAttempts
           /\ exec[e].started \in 0..MaxNow /\ exec[e].started <= now
           /\ exec[e].todo # <<>> /\ exec[e].todo \in Seq(Used)
           /\ Provider(e) \in Used /\ Provider(e) \in Providers
           /\ Provider(e) = Head(exec[e].todo)
<1>1. exec[e] \in Execution /\ ExecOK(exec[e])
    BY CyclesFacts
<1>2. exec[e].todo # <<>> /\ exec[e].todo \in Seq(Used)
    BY <1>1 DEF ExecOK, Execution, Dealing
<1>3. Head(exec[e].todo) \in Used
    BY <1>2, TailFacts
<1> QED
    BY <1>1, <1>2, <1>3, SelectionFacts DEF ExecOK, Execution, Dealing, Provider

(* One execution goes on, the tables keep their story.                      *)
LEMMA ExecutionStep ==
    ASSUME CyclesInv, NEW e \in Executions, NEW new \in Execution, exec[e].pc # "idle",
           exec' = [exec EXCEPT ![e] = new], now' = now, alone' = alone,
           TableTypes', TableInv', ExecOK(new),
           alone => Careful(new)' /\ BlockKept'
    PROVE  CyclesInv'
<1>1. /\ exec' \in [Executions -> Execution] /\ exec'[e] = new
      /\ \A f \in Executions \ {e} : exec'[f] = exec[f]
    BY CyclesFacts
<1>2. ASSUME NEW f \in Executions PROVE ExecOK(exec'[f])
    BY <1>1, CyclesFacts
<1>3. \A f \in Executions : ExecOK(exec[f])'
    BY <1>2 DEF ExecOK
<1>4. ASSUME alone, NEW f \in Executions PROVE Careful(exec[f])'
    <2>1. CASE f = e
        BY <1>1, <1>4, <2>1 DEF Careful, Unsettled, Pending
    <2>2. CASE f # e
        <3>1. exec'[f].pc = "idle"
            BY <1>1, <1>4, <2>2, CyclesFacts DEF OneUnderWay
        <3> QED
            BY <3>1 DEF Careful
    <2> QED
        BY <2>1, <2>2
<1>5. alone => OneUnderWay'
    BY <1>1, CyclesFacts DEF OneUnderWay
<1> QED
    BY <1>1, <1>3, <1>4, <1>5 DEF CyclesInv

(* Nothing but the memory of one execution changes.                         *)
LEMMA QuietStep ==
    ASSUME CyclesInv, NEW e \in Executions, NEW new \in Execution, exec[e].pc # "idle",
           exec' = [exec EXCEPT ![e] = new], UNCHANGED <<job, tables, history, now>>,
           ExecOK(new), alone => Careful(new)
    PROVE  CyclesInv'
<1>1. TableTypes'
    BY CyclesFacts DEF TableTypes, tables, history
<1>2. TableInv'
    BY CyclesFacts DEF TableInv, LastValidAdmitted, RegistrationMatchesRun, tables
<1>3. alone => Careful(new)' /\ BlockKept'
    BY CyclesFacts DEF Careful, BlockKept, Unsettled, Pending, tables, history
<1> QED
    BY <1>1, <1>2, <1>3, ExecutionStep DEF history

(* A provider is dealt with: what its run says agrees with the outcome.     *)
LEMMA DealtStep ==
    ASSUME CyclesInv, NEW e \in Executions, NEW outcome \in Outcome,
           exec[e].pc \in Dealing \cup {"next"}, Advance(e, outcome),
           outcome = "retryable" => exec[e].attempt < MaximumAttempts,
           TableTypes', TableInv', now' = now, alone' = alone, alone => BlockKept',
           Open(runs'[exec[e].cycle][Provider(e)]) => outcome \in {"cooldown", "retryable"},
           \A p \in Providers \ {Provider(e)} :
               runs'[exec[e].cycle][p] = runs[exec[e].cycle][p]
    PROVE  CyclesInv'
<1> DEFINE x == exec[e]
           head == Provider(e)
<1>1. /\ x \in Execution /\ x.todo # <<>> /\ head = Head(x.todo) /\ ExecOK(x)
      /\ x.cycle \in Cycles /\ x.attempt \in 1..MaximumAttempts /\ x.started <= now
      /\ x.pc \notin {"idle", "finish", "decide"}
    BY CyclesFacts, DealingFacts DEF Dealing
<1> HIDE DEF head
<1>2. PICK new : new = Advanced(x, outcome)
    OBVIOUS
<1>3. exec' = [exec EXCEPT ![e] = new]
    BY <1>2 DEF Advance
<1>4. /\ new \in Execution
      /\ new.pc \in {"next", "finish"} /\ (new.todo = <<>> <=> new.pc = "finish")
      /\ new.cycle = x.cycle /\ new.attempt = x.attempt /\ new.started = x.started
      /\ new.out[head] = outcome
      /\ \A p \in Providers : p # head =>
            new.out[p] = x.out[p] /\ (Pending(x, p) => Pending(new, p))
    BY <1>1, <1>2, AdvancedFacts
<1>5. ExecOK(new)
    BY <1>1, <1>4 DEF ExecOK
<1>6. ASSUME alone PROVE Careful(new)'
    <2>1. new.pc \notin Dealing /\ new.pc # "decide"
        BY <1>4 DEF Dealing
    <2>2. ASSUME NEW p \in Providers, Open(runs'[new.cycle][p])
          PROVE  Pending(new, p) \/ new.out[p] \in {"cooldown", "retryable"}
        <3>1. CASE p = head
            BY <1>4, <2>2, <3>1 DEF head
        <3>2. CASE p # head
            <4>1. Open(runs[x.cycle][p])
                BY <1>4, <2>2, <3>2 DEF head
            <4>2. Pending(x, p) \/ x.out[p] \in {"cooldown", "retryable"}
                BY <1>1, <1>6, <4>1, CyclesFacts DEF Careful, Unsettled
            <4> QED
                BY <1>4, <3>2, <4>2
        <3> QED
            BY <3>1, <3>2
    <2> QED
        BY <2>1, <2>2 DEF Careful, Unsettled, Pending
<1> QED
    BY <1>1, <1>3, <1>4, <1>5, <1>6, ExecutionStep

(* The execution ends, its job with it if it still holds it.                *)
LEMMA EndStep ==
    ASSUME CyclesInv, NEW e \in Executions, exec[e].pc # "idle",
           NEW ending \in {"pending", "succeeded", "failed"}, EndJob(e, ending),
           ending = "pending" => \/ exec[e].attempt < MaximumAttempts
                             \/ job[exec[e].cycle].attempts < MaximumAttempts,
           exec' = [exec EXCEPT ![e] = Idle],
           UNCHANGED <<runs, attempts, status, registered, history, now>>
    PROVE  CyclesInv'
<1> DEFINE c == exec[e].cycle
           n == exec[e].attempt
<1>1. c \in Cycles /\ job \in [Cycles -> CycleJob]
    BY CyclesFacts DEF ExecOK, TableTypes
<1>2. /\ job' \in [Cycles -> CycleJob]
      /\ \A d \in Cycles : job'[d].status = "pending" => job'[d].attempts < MaximumAttempts
    <2>1. CASE job[c] = [status |-> "running", attempts |-> n]
        <3>1. job' = [job EXCEPT ![c].status = ending]
            BY <2>1 DEF EndJob
        <3> HIDE DEF c, n
        <3>2. job' \in [Cycles -> CycleJob]
            BY <1>1, <3>1 DEF CycleJob
        <3>3. job[c].attempts = n
            BY <2>1
        <3>4. job'[c].status = ending /\ job'[c].attempts = n
            BY <1>1, <3>1, <3>3 DEF CycleJob
        <3>5. ending = "pending" => n < MaximumAttempts
            BY <3>3 DEF n, c
        <3>6. \A d \in Cycles \ {c} : job'[d] = job[d]
            BY <1>1, <3>1
        <3> QED
            BY <3>2, <3>4, <3>5, <3>6, CyclesFacts DEF TableInv
    <2>2. CASE job[c] # [status |-> "running", attempts |-> n]
        BY <1>1, <2>2, CyclesFacts DEF EndJob, TableInv
    <2> QED
        BY <2>1, <2>2
<1>3. TableTypes'
    BY <1>2, CyclesFacts DEF TableTypes, history
<1>4. TableInv'
    BY <1>2, CyclesFacts DEF TableInv, LastValidAdmitted, RegistrationMatchesRun
<1>5. Idle \in Execution /\ Idle.pc = "idle"
    <2>1. <<>> \in Seq(Used)
        OBVIOUS
    <2>2. [p \in Providers |-> "none"] \in [Providers -> Outcome]
        BY DEF Outcome
    <2> QED
        BY <2>1, <2>2, NumbersAssumption DEF Idle, Execution, Pc
<1>6. PICK new \in Execution : new = Idle
    BY <1>5
<1>7. ExecOK(new) /\ Careful(new)'
    BY <1>5, <1>6 DEF ExecOK, Careful
<1>8. alone => BlockKept'
    BY CyclesFacts DEF BlockKept, history
<1> QED
    BY <1>3, <1>4, <1>6, <1>7, <1>8, ExecutionStep DEF history

LEMMA BeginStep ==
    ASSUME CyclesInv, NEW e \in Executions, NEW c \in Cycles, Begin(e, c)
    PROVE  CyclesInv'
<1> DEFINE claimed == [status |-> "running", attempts |-> job[c].attempts + 1]
           first == IF ProvidersForSelectionMode = <<>> THEN "finish" ELSE "next"
           n == job[c].attempts + 1
<1>1. PICK new : new = [Idle EXCEPT !.pc = first, !.cycle = c, !.attempt = n, !.started = now,
                                    !.todo = ProvidersForSelectionMode]
    OBVIOUS
<1>2. /\ exec' = [exec EXCEPT ![e] = new] /\ exec[e].pc = "idle"
      /\ job' = [job EXCEPT ![c] = claimed] /\ job[c].status = "pending"
      /\ alone' = (alone /\ \A f \in Executions : exec[f].pc = "idle")
      /\ UNCHANGED <<runs, attempts, status, registered, decisions, blocked, now>>
    BY <1>1 DEF Begin, tables
<1>3. job[c] \in CycleJob /\ job[c].attempts < MaximumAttempts /\ n \in 1..MaximumAttempts
    BY <1>2, NumbersAssumption DEF CyclesInv, TableTypes, TableInv, CycleJob
<1>4. claimed \in CycleJob /\ claimed.status = "running"
    BY <1>3 DEF CycleJob
<1> HIDE DEF claimed, n
<1>5. TableTypes'
    BY <1>2, <1>4, CyclesFacts DEF TableTypes
<1>6. TableInv'
    <2>1. \A d \in Cycles : job'[d].status = "pending" => job'[d].attempts < MaximumAttempts
        BY <1>2, <1>4, CyclesFacts DEF TableTypes, TableInv
    <2> QED
        BY <1>2, <2>1, CyclesFacts DEF TableInv, LastValidAdmitted, RegistrationMatchesRun
<1>7. /\ new \in Execution /\ new.pc = first /\ new.cycle = c /\ new.attempt = n
      /\ new.started = now /\ new.todo = ProvidersForSelectionMode
      /\ \A p \in Providers : new.out[p] = "none"
    <2>1. [p \in Providers |-> "none"] \in [Providers -> Outcome]
        BY DEF Outcome
    <2>2. first \in {"finish", "next"} /\ now \in 0..MaxNow
        BY CyclesFacts
    <2>3. new = [pc |-> first, cycle |-> c, attempt |-> n, started |-> now,
                 todo |-> ProvidersForSelectionMode, out |-> [p \in Providers |-> "none"],
                 seen |-> NULL, cached |-> NULL]
        BY <1>1 DEF Idle
    <2> QED
        BY <1>3, <2>1, <2>2, <2>3, SelectionFacts, NumbersAssumption DEF Execution, Pc
<1>8. first \in {"finish", "next"} /\ (first = "finish" <=> ProvidersForSelectionMode = <<>>)
    OBVIOUS
<1>9. ExecOK(new)'
    BY <1>2, <1>3, <1>7, <1>8, CyclesFacts DEF ExecOK
<1>10. Careful(new)'
    <2>1. ASSUME NEW p \in Providers, runs[c][p] # NULL PROVE Pending(new, p)
        <3>1. p \in Used
            BY <2>1, CyclesFacts DEF TableInv
        <3> QED
            BY <1>7, <3>1, SelectionFacts DEF Pending
    <2>2. ASSUME NEW p \in Providers, Open(runs'[c][p]) PROVE Pending(new, p)
        BY <1>2, <2>1, <2>2 DEF Open
    <2> QED
        BY <1>7, <1>8, <2>2 DEF Careful, Unsettled, Pending, Dealing
<1>11. /\ exec' \in [Executions -> Execution] /\ exec'[e] = new
       /\ \A f \in Executions \ {e} : exec'[f] = exec[f]
    BY <1>2, <1>7, CyclesFacts
<1>12. ASSUME NEW f \in Executions PROVE ExecOK(exec[f])'
    <2>1. CASE f = e
        BY <1>9, <1>11, <2>1 DEF ExecOK
    <2>2. CASE f # e
        BY <1>2, <1>11, <2>2, CyclesFacts DEF ExecOK
    <2> QED
        BY <2>1, <2>2
<1>13. ASSUME alone', NEW f \in Executions PROVE Careful(exec[f])'
    <2>1. CASE f = e
        BY <1>10, <1>11, <2>1 DEF Careful, Unsettled, Pending
    <2>2. CASE f # e
        <3>1. exec'[f].pc = "idle"
            BY <1>2, <1>11, <1>13, <2>2
        <3> QED
            BY <3>1 DEF Careful
    <2> QED
        BY <2>1, <2>2
<1>14. alone' => OneUnderWay' /\ BlockKept'
    BY <1>2, <1>11, CyclesFacts DEF OneUnderWay, BlockKept
<1> QED
    BY <1>5, <1>6, <1>11, <1>12, <1>13, <1>14 DEF CyclesInv

(* A provider found eligible is one whose block is over.                    *)
LEMMA EligibleIsOver ==
    ASSUME CyclesInv, NEW e \in Executions, exec[e].pc = "next", Eligible(e), alone
    PROVE  blocked[Provider(e)] <= now
<1> DEFINE p == Provider(e)
<1>1. /\ p \in Providers /\ exec[e].started \in Nat /\ exec[e].started <= now
      /\ now \in Nat /\ blocked[p] \in Nat
    BY DealingFacts, CyclesFacts DEF TableTypes
<1>2. \/ blocked[p] <= now
      \/ status[p].code = "blocked" /\ status[p].nextEligible = blocked[p]
    BY <1>1, CyclesFacts DEF BlockKept
<1>3. status[p].code = "blocked" => status[p].nextEligible <= exec[e].started
    BY DEF Eligible
<1> QED
    BY <1>1, <1>2, <1>3

LEMMA CheckEligibleStep ==
    ASSUME CyclesInv, NEW e \in Executions, CheckEligible(e)
    PROVE  CyclesInv'
<1>1. /\ exec[e].pc = "next" /\ UNCHANGED <<job, tables, history, now>>
      /\ exec[e] \in Execution /\ ExecOK(exec[e])
    BY CyclesFacts DEF CheckEligible
<1>2. CASE Eligible(e)
    <2>1. PICK new : new = [exec[e] EXCEPT !.pc = "lookup"]
        OBVIOUS
    <2>2. exec' = [exec EXCEPT ![e] = new]
        BY <1>2, <2>1, CyclesFacts DEF CheckEligible, Move
    <2>3. /\ new \in Execution /\ new.pc = "lookup" /\ new.todo = exec[e].todo
          /\ new.cycle = exec[e].cycle /\ new.out = exec[e].out
          /\ new.attempt = exec[e].attempt /\ new.started = exec[e].started
        BY <1>1, <2>1 DEF Execution, Pc
    <2>4. ExecOK(new)
        BY <1>1, <2>3 DEF ExecOK
    <2>5. ASSUME alone PROVE Careful(new)
        <3>1. blocked[Provider(e)] <= now
            BY <1>1, <1>2, <2>5, EligibleIsOver
        <3>2. Provider(e) = Head(new.todo)
            BY <1>1, <2>3, DealingFacts
        <3> QED
            BY <1>1, <2>3, <2>5, <3>1, <3>2, CyclesFacts DEF Careful, Dealing, Pending
    <2> QED
        BY <1>1, <2>2, <2>3, <2>4, <2>5, QuietStep
<1>3. CASE ~Eligible(e)
    <2>1. Advance(e, "cooldown")
        BY <1>3 DEF CheckEligible
    <2>2. TableTypes'
        BY <1>1, CyclesFacts DEF TableTypes, tables, history
    <2>3. TableInv'
        BY <1>1, CyclesFacts DEF TableInv, LastValidAdmitted, RegistrationMatchesRun, tables
    <2>4. alone => BlockKept'
        BY <1>1, CyclesFacts DEF BlockKept, tables, history
    <2>5. runs' = runs /\ alone' = alone /\ "cooldown" \in Outcome
        BY <1>1 DEF tables, history, Outcome
    <2> QED
        BY <1>1, <2>1, <2>2, <2>3, <2>4, <2>5, DealtStep
<1> QED
    BY <1>2, <1>3

LEMMA LookupStep ==
    ASSUME CyclesInv, NEW e \in Executions, Lookup(e)
    PROVE  CyclesInv'
<1>1. /\ exec[e].pc = "lookup" /\ UNCHANGED <<job, tables, history, now>>
      /\ exec[e] \in Execution /\ ExecOK(exec[e])
    BY CyclesFacts DEF Lookup
<1>2. CASE Row(e) # NULL /\ Row(e).status # "retryable"
    <2>1. PICK outcome \in Outcome : outcome = OutcomeOfRun(Row(e)) /\ outcome # "retryable"
        BY DEF OutcomeOfRun, Outcome
    <2>2. Advance(e, outcome)
        BY <1>2, <2>1 DEF Lookup
    <2>3. TableTypes'
        BY <1>1, CyclesFacts DEF TableTypes, tables, history
    <2>4. TableInv'
        BY <1>1, CyclesFacts DEF TableInv, LastValidAdmitted, RegistrationMatchesRun, tables
    <2>5. alone => BlockKept'
        BY <1>1, CyclesFacts DEF BlockKept, tables, history
    <2>6. runs' = runs /\ alone' = alone /\ exec[e].pc \in Dealing
        BY <1>1 DEF tables, history, Dealing
    <2>7. ~Open(runs'[exec[e].cycle][Provider(e)])
        BY <1>2, <2>6 DEF Open, Row
    <2> QED
        BY <1>1, <2>1, <2>2, <2>3, <2>4, <2>5, <2>6, <2>7, DealtStep
<1>3. CASE ~(Row(e) # NULL /\ Row(e).status # "retryable")
    <2>1. PICK new : new = [exec[e] EXCEPT !.pc = "acquire"]
        OBVIOUS
    <2>2. exec' = [exec EXCEPT ![e] = new]
        BY <1>3, <2>1, CyclesFacts DEF Lookup, Move
    <2>3. /\ new \in Execution /\ new.pc = "acquire" /\ new.todo = exec[e].todo
          /\ new.cycle = exec[e].cycle /\ new.out = exec[e].out
          /\ new.attempt = exec[e].attempt /\ new.started = exec[e].started
        BY <1>1, <2>1 DEF Execution, Pc
    <2>4. ExecOK(new)
        BY <1>1, <2>3 DEF ExecOK
    <2>5. Row(e) = NULL \/ Unsettled(exec[e].cycle, Provider(e))
        BY <1>3 DEF Row, Unsettled, Open
    <2>6. ASSUME alone PROVE Careful(new)
        <3>1. Careful(exec[e])
            BY <2>6 DEF CyclesInv
        <3>2. /\ blocked[Head(exec[e].todo)] <= now
              /\ \A p \in Providers : Unsettled(exec[e].cycle, p) =>
                    Pending(exec[e], p) \/ exec[e].out[p] \in {"cooldown", "retryable"}
            BY <1>1, <3>1 DEF Careful, Dealing
        <3>3. \A p \in Providers : Pending(new, p) <=> Pending(exec[e], p)
            BY <2>3 DEF Pending
        <3> QED
            BY <2>3, <2>5, <3>2, <3>3 DEF Careful, Row, Provider
    <2> QED
        BY <1>1, <2>2, <2>3, <2>4, <2>6, QuietStep
<1> QED
    BY <1>2, <1>3

(* What acquiring and publishing change of an execution.                    *)
LEMMA SeenStep ==
    ASSUME CyclesInv, NEW e \in Executions, exec[e].pc \in {"acquire", "publish"},
           NEW pc \in {"publish", "persist", "success"}, NEW seen \in Acquired,
           pc # "persist" => seen.kind = "bundle",
           exec' = [exec EXCEPT ![e].pc = pc, ![e].seen = seen],
           UNCHANGED <<job, tables, history, now>>
    PROVE  CyclesInv'
<1>1. exec[e] \in Execution /\ ExecOK(exec[e]) /\ exec \in [Executions -> Execution]
    BY CyclesFacts
<1>2. PICK new : new = [exec[e] EXCEPT !.pc = pc, !.seen = seen]
    OBVIOUS
<1>3. exec' = [exec EXCEPT ![e] = new]
    BY <1>1, <1>2
<1>4. /\ new \in Execution /\ new.pc = pc /\ new.todo = exec[e].todo /\ new.seen = seen
      /\ new.cycle = exec[e].cycle /\ new.out = exec[e].out
      /\ new.attempt = exec[e].attempt /\ new.started = exec[e].started
    BY <1>1, <1>2 DEF Execution, Pc
<1>5. ExecOK(new)
    BY <1>1, <1>4 DEF ExecOK
<1>6. ASSUME alone PROVE Careful(new)
    BY <1>1, <1>4, <1>6, CyclesFacts DEF Careful, Dealing, Pending
<1> QED
    BY <1>1, <1>3, <1>4, <1>5, <1>6, QuietStep

LEMMA AcquireStep ==
    ASSUME CyclesInv, NEW e \in Executions, Acquire(e)
    PROVE  CyclesInv'
<1>1. PICK r \in Acquired :
          exec' = [exec EXCEPT
              ![e].seen = r,
              ![e].pc = IF r.kind = "bundle" /\ EvaluateAdmission(r.bundle).publish
                        THEN "publish" ELSE "persist"]
    BY DEF Acquire
<1>2. PICK pc \in {"publish", "persist"} :
          /\ pc = IF r.kind = "bundle" /\ EvaluateAdmission(r.bundle).publish
                  THEN "publish" ELSE "persist"
          /\ pc # "persist" => r.kind = "bundle"
    OBVIOUS
<1>3. exec' = [exec EXCEPT ![e].pc = pc, ![e].seen = r]
    BY <1>1, <1>2, CyclesFacts
<1> QED
    BY <1>2, <1>3, SeenStep DEF Acquire

LEMMA PublishStep ==
    ASSUME CyclesInv, NEW e \in Executions, Publish(e)
    PROVE  CyclesInv'
<1>1. exec[e].pc = "publish" /\ UNCHANGED <<job, tables, history, now>>
    BY DEF Publish
<1>2. exec[e] \in Execution /\ exec[e].seen \in Acquired /\ exec[e].seen.kind = "bundle"
    BY <1>1, CyclesFacts DEF ExecOK
<1>3. CASE Move(e, "success")
    <2>1. exec' = [exec EXCEPT ![e].pc = "success", ![e].seen = exec[e].seen]
        BY <1>2, <1>3, CyclesFacts DEF Move, Execution
    <2>2. PICK seen \in Acquired : seen = exec[e].seen
        BY <1>2
    <2> QED
        BY <1>1, <1>2, <2>1, <2>2, SeenStep
<1>4. ASSUME NEW kind \in {"retryable", "permanent"},
             exec' = [exec EXCEPT ![e].pc = "persist",
                                  ![e].seen = [kind |-> kind, bundle |-> NULL]]
      PROVE  CyclesInv'
    <2>1. PICK seen \in Acquired : seen = [kind |-> kind, bundle |-> NULL]
        BY DEF Acquired
    <2> QED
        BY <1>1, <1>4, <2>1, SeenStep
<1> QED
    BY <1>3, <1>4 DEF Publish

(* A run without a new snapshot: it keeps the snapshot it has, and the      *)
(* provider keeps its last valid one.                                       *)
LEMMA RunStep ==
    ASSUME CyclesInv, NEW e \in Executions, exec[e].pc \in Dealing,
           NEW result \in RunStatus, SetRun(e, result, NULL),
           NEW row \in ProviderStatus, status' = [status EXCEPT ![Provider(e)] = row],
           row.lastValid = status[Provider(e)].lastValid,
           attempts' = attempts \/ AddAttempt(e, result),
           blocked' \in [Providers -> Nat],
           UNCHANGED <<job, registered, alone, now>>
    PROVE  /\ TableTypes' /\ TableInv'
           /\ runs'[exec[e].cycle][Provider(e)].status = result
           /\ \A p \in Providers \ {Provider(e)} :
                 runs'[exec[e].cycle][p] = runs[exec[e].cycle][p]
<1> DEFINE c == exec[e].cycle
           p == Provider(e)
           n == exec[e].attempt
           was == runs[c][p]
           run == [status |-> result, snapshot |-> IF was = NULL THEN NULL ELSE was.snapshot]
<1>1. /\ c \in Cycles /\ p \in Providers /\ p \in Used /\ n \in 1..MaximumAttempts
      /\ was \in {NULL} \cup Run /\ TableTypes /\ TableInv
    BY DealingFacts, CyclesFacts DEF TableTypes
<1>2. runs' = [runs EXCEPT ![c][p] = run]
    BY DEF SetRun
<1>3. run \in Run /\ run.status = result /\ (was # NULL => run.snapshot = was.snapshot)
    BY <1>1 DEF Run
<1>4. attempts' = attempts \/ attempts' = [attempts EXCEPT ![c][p][n] = result]
    BY DEF AddAttempt
<1> HIDE DEF c, p, n, run
<1>5. run # NULL
    BY <1>3, NullAssumption
<1>6. /\ runs' \in [Cycles -> [Providers -> {NULL} \cup Run]]
      /\ runs'[c][p] = run
      /\ \A d \in Cycles, q \in Providers : d # c \/ q # p => runs'[d][q] = runs[d][q]
    BY <1>1, <1>2, <1>3 DEF TableTypes
<1>7. /\ status' \in [Providers -> ProviderStatus]
      /\ \A q \in Providers : status'[q].lastValid = status[q].lastValid
    BY <1>1 DEF TableTypes, p
<1>8. attempts' \in [Cycles -> [Providers -> [1..MaximumAttempts -> {NULL} \cup RunStatus]]]
    <2> DEFINE Results == [1..MaximumAttempts -> {NULL} \cup RunStatus]
               results == [attempts[c][p] EXCEPT ![n] = result]
    <2>1. attempts \in [Cycles -> [Providers -> Results]] /\ attempts[c][p] \in Results
        BY <1>1 DEF TableTypes
    <2>2. results \in Results
        BY <1>1, <2>1
    <2>3. attempts' = attempts \/ attempts' = [attempts EXCEPT ![c][p] = results]
        BY <1>4
    <2> HIDE DEF Results, results
    <2>4. attempts' \in [Cycles -> [Providers -> Results]]
        BY <1>1, <2>1, <2>2, <2>3
    <2> QED
        BY <2>4 DEF Results
<1>9. TableTypes'
    BY <1>1, <1>6, <1>7, <1>8 DEF TableTypes
<1>10. LastValidAdmitted'
    BY <1>1, <1>7 DEF TableInv, LastValidAdmitted
<1>11. RegistrationMatchesRun'
    BY <1>1, <1>3, <1>5, <1>6 DEF TableInv, RegistrationMatchesRun, was
<1>12. \A d \in Cycles, q \in Providers : runs'[d][q] # NULL => q \in Used
    BY <1>1, <1>6 DEF TableInv
<1>13. TableInv'
    BY <1>1, <1>10, <1>11, <1>12 DEF TableInv
<1> QED
    BY <1>1, <1>3, <1>6, <1>9, <1>13 DEF c, p

(* ... and with the provider dealt with.  Its block is over, unless this is *)
(* the block that is written.                                               *)
LEMMA RunAndAdvance ==
    ASSUME CyclesInv, NEW e \in Executions, exec[e].pc \in Dealing,
           NEW result \in RunStatus, SetRun(e, result, NULL),
           NEW code \in Codes, NEW eligible \in {NULL} \cup Nat, SetStatus(e, code, eligible),
           attempts' = attempts \/ AddAttempt(e, result),
           \/ blocked' = blocked
           \/ /\ blocked' = [blocked EXCEPT ![Provider(e)] = eligible]
              /\ code = "blocked" /\ eligible \in Nat,
           UNCHANGED <<job, registered, alone, now>>,
           NEW outcome \in Outcome, Advance(e, outcome),
           outcome = "retryable" => exec[e].attempt < MaximumAttempts,
           result = "retryable" => outcome = "retryable"
    PROVE  CyclesInv'
<1>1. /\ Provider(e) \in Providers /\ status \in [Providers -> ProviderStatus]
      /\ blocked \in [Providers -> Nat] /\ exec[e].todo # <<>>
      /\ Provider(e) = Head(exec[e].todo)
    BY DealingFacts, CyclesFacts DEF TableTypes
<1>2. PICK row : row = [status[Provider(e)] EXCEPT !.code = code, !.nextEligible = eligible]
    OBVIOUS
<1>3. /\ row \in ProviderStatus /\ row.lastValid = status[Provider(e)].lastValid
      /\ row.code = code /\ row.nextEligible = eligible
    BY <1>1, <1>2 DEF ProviderStatus
<1>4. status' = [status EXCEPT ![Provider(e)] = row]
    BY <1>2 DEF SetStatus
<1>5. blocked' \in [Providers -> Nat]
    BY <1>1
<1>6. /\ TableTypes' /\ TableInv'
      /\ runs'[exec[e].cycle][Provider(e)].status = result
      /\ \A q \in Providers \ {Provider(e)} :
            runs'[exec[e].cycle][q] = runs[exec[e].cycle][q]
    BY <1>3, <1>4, <1>5, RunStep
<1>7. ASSUME alone PROVE BlockKept'
    <2> DEFINE p == Provider(e)
    <2>1. blocked[p] <= now /\ BlockKept
        BY <1>1, <1>7, CyclesFacts DEF Careful, Dealing
    <2> HIDE DEF p
    <2>2. ASSUME NEW q \in Providers, q # p
          PROVE  status'[q] = status[q] /\ blocked'[q] = blocked[q]
        BY <1>1, <1>4, <2>2 DEF p
    <2>3. status'[p] = row
        BY <1>1, <1>4 DEF p
    <2>4. \/ blocked'[p] <= now
          \/ row.code = "blocked" /\ row.nextEligible = blocked'[p]
        BY <1>1, <1>3, <2>1 DEF p
    <2> QED
        BY <2>1, <2>2, <2>3, <2>4 DEF BlockKept
<1>8. Open(runs'[exec[e].cycle][Provider(e)]) => outcome \in {"cooldown", "retryable"}
    BY <1>6 DEF Open
<1> QED
    BY <1>6, <1>7, <1>8, DealtStep

LEMMA PersistBlockedStep ==
    ASSUME CyclesInv, NEW e \in Executions, PersistBlocked(e)
    PROVE  CyclesInv'
<1>1. now + BlockedCooldown \in Nat
    BY CyclesFacts
<1>2. PICK eligible \in Nat : eligible = now + BlockedCooldown
    BY <1>1
<1>3. /\ exec[e].pc \in Dealing /\ "blocked" \in RunStatus /\ "blocked" \in Outcome
      /\ "blocked" \in Codes /\ Advance(e, "blocked")
      /\ SetRun(e, "blocked", NULL) /\ AddAttempt(e, "blocked")
      /\ SetStatus(e, "blocked", eligible)
      /\ blocked' = [blocked EXCEPT ![Provider(e)] = eligible]
      /\ UNCHANGED <<job, registered, alone, now>>
    BY <1>2 DEF PersistBlocked, Dealing, RunStatus, Outcome, Codes
<1> QED
    BY <1>3, RunAndAdvance

LEMMA PersistRejectedStep ==
    ASSUME CyclesInv, NEW e \in Executions, PersistRejected(e)
    PROVE  CyclesInv'
<1>1. PICK code \in Codes : code = EvaluateAdmission(exec[e].seen.bundle).outcome
    BY DEF EvaluateAdmission, Codes
<1>2. /\ exec[e].pc \in Dealing /\ "failed" \in RunStatus /\ "permanent" \in Outcome
      /\ Advance(e, "permanent")
      /\ SetRun(e, "failed", NULL) /\ AddAttempt(e, "failed") /\ SetStatus(e, code, NULL)
      /\ UNCHANGED <<job, registered, blocked, alone, now>>
    BY <1>1 DEF PersistRejected, Dealing, RunStatus, Outcome, Codes, history
<1> QED
    BY <1>2, RunAndAdvance

LEMMA PersistFailureStep ==
    ASSUME CyclesInv, NEW e \in Executions, PersistFailure(e)
    PROVE  CyclesInv'
<1>1. /\ exec[e].pc \in Dealing /\ "failed" \in RunStatus /\ "permanent" \in Outcome
      /\ "unavailable" \in Codes /\ Advance(e, "permanent")
      /\ SetRun(e, "failed", NULL) /\ AddAttempt(e, "failed")
      /\ SetStatus(e, "unavailable", NULL)
      /\ UNCHANGED <<job, registered, blocked, alone, now>>
    BY DEF PersistFailure, Dealing, RunStatus, Outcome, Codes, history
<1> QED
    BY <1>1, RunAndAdvance

LEMMA FinalizeTerminalStep ==
    ASSUME CyclesInv, NEW e \in Executions, FinalizeTerminalFailure(e)
    PROVE  CyclesInv'
<1>1. /\ exec[e].pc \in Dealing /\ "failed" \in RunStatus /\ "permanent" \in Outcome
      /\ "unavailable" \in Codes /\ Advance(e, "permanent")
      /\ SetRun(e, "failed", NULL) /\ attempts' = attempts
      /\ SetStatus(e, "unavailable", NULL)
      /\ UNCHANGED <<job, registered, blocked, alone, now>>
    BY DEF FinalizeTerminalFailure, Dealing, RunStatus, Outcome, Codes, history
<1> QED
    BY <1>1, RunAndAdvance

(* On the last attempt the run stays open until the next transaction.       *)
LEMMA PersistRetryableStep ==
    ASSUME CyclesInv, NEW e \in Executions, PersistRetryable(e)
    PROVE  CyclesInv'
<1>1. /\ exec[e].pc = "persist" /\ exec[e].pc \in Dealing
      /\ "retryable" \in RunStatus /\ "retryable" \in Outcome /\ "unavailable" \in Codes
      /\ SetRun(e, "retryable", NULL) /\ AddAttempt(e, "retryable")
      /\ SetStatus(e, "unavailable", NULL)
      /\ UNCHANGED <<job, registered, blocked, alone, now>>
    BY DEF PersistRetryable, Dealing, RunStatus, Outcome, Codes, history
<1>2. CASE exec[e].attempt < MaximumAttempts
    BY <1>1, <1>2, RunAndAdvance DEF PersistRetryable
<1>3. CASE ~(exec[e].attempt < MaximumAttempts)
    <2> DEFINE x == exec[e]
               p == Provider(e)
    <2>1. /\ x \in Execution /\ ExecOK(x) /\ p \in Providers /\ p = Head(x.todo)
          /\ x.todo # <<>> /\ status \in [Providers -> ProviderStatus]
          /\ blocked \in [Providers -> Nat]
        BY <1>1, DealingFacts, CyclesFacts DEF TableTypes
    <2>2. PICK row : row = [status[p] EXCEPT !.code = "unavailable", !.nextEligible = NULL]
        OBVIOUS
    <2>3. row \in ProviderStatus /\ row.lastValid = status[p].lastValid
        BY <1>1, <2>1, <2>2 DEF ProviderStatus
    <2>4. status' = [status EXCEPT ![p] = row]
        BY <1>1, <2>2 DEF SetStatus
    <2>5. /\ TableTypes' /\ TableInv'
          /\ runs'[x.cycle][p].status = "retryable"
          /\ \A q \in Providers \ {p} : runs'[x.cycle][q] = runs[x.cycle][q]
        BY <1>1, <2>1, <2>3, <2>4, RunStep
    <2>6. PICK new : new = [x EXCEPT !.pc = "exhausted"]
        OBVIOUS
    <2>7. exec' = [exec EXCEPT ![e] = new]
        BY <1>3, <2>6, CyclesFacts DEF PersistRetryable, Move
    <2>8. /\ new \in Execution /\ new.pc = "exhausted" /\ new.todo = x.todo
          /\ new.cycle = x.cycle /\ new.out = x.out
          /\ new.attempt = x.attempt /\ new.started = x.started
        BY <2>1, <2>6 DEF Execution, Pc
    <2>9. ExecOK(new)
        BY <1>1, <2>1, <2>8 DEF ExecOK
    <2>10. ASSUME alone PROVE Careful(new)' /\ BlockKept'
        <3>1. blocked[p] <= now /\ BlockKept /\ Careful(x)
            BY <1>1, <2>1, <2>10, CyclesFacts DEF Careful
        <3>2. BlockKept'
            BY <1>1, <2>1, <2>4, <3>1 DEF BlockKept
        <3>3. runs'[x.cycle][p] = NULL \/ Open(runs'[x.cycle][p])
            BY <2>5 DEF Open
        <3>4. Pending(new, p)
            <4>1. x.todo \in Seq(Used) /\ 1 \in 1..Len(x.todo) /\ x.todo[1] = Head(x.todo)
                BY <2>1 DEF Execution
            <4> QED
                BY <2>1, <2>8, <4>1 DEF Pending
        <3>5. ASSUME NEW q \in Providers, Open(runs'[new.cycle][q])
              PROVE  Pending(new, q) \/ new.out[q] \in {"cooldown", "retryable"}
            <4>1. CASE q = p
                BY <3>4, <4>1
            <4>2. CASE q # p
                <5>1. Open(runs[x.cycle][q])
                    BY <2>5, <2>8, <3>5, <4>2
                <5> QED
                    BY <1>1, <2>8, <3>1, <5>1 DEF Careful, Unsettled, Pending
            <4> QED
                BY <4>1, <4>2
        <3> HIDE DEF p
        <3>6. \A q : Unsettled(new.cycle, q)' <=> Open(runs'[new.cycle][q])
            BY DEF Unsettled
        <3>7. Careful(new)'
            BY <1>1, <2>1, <2>8, <3>1, <3>3, <3>5 DEF Careful, Unsettled, Pending
        <3> QED
            BY <3>2, <3>7
    <2> QED
        BY <1>1, <2>5, <2>7, <2>8, <2>9, <2>10, ExecutionStep
<1> QED
    BY <1>2, <1>3

(* The snapshot is registered, named by the run and, if it is complete, the *)
(* last valid one, in one transaction.                                      *)
LEMMA PersistSuccessStep ==
    ASSUME CyclesInv, NEW e \in Executions, PersistSuccess(e)
    PROVE  CyclesInv'
<1> DEFINE x == exec[e]
           c == x.cycle
           p == Provider(e)
           n == x.attempt
           snap == SnapshotOf(e)
           entry == [snapshot |-> snap, observed |-> x.started]
           run == [status |-> "succeeded", snapshot |-> snap]
           whole == Complete(x.seen.bundle)
           row == [code |-> IF whole THEN "operational" ELSE "partial",
                   lastValid |-> IF whole THEN snap ELSE status[p].lastValid,
                   nextEligible |-> now + AcquisitionInterval]
           outcome == IF whole THEN "success" ELSE "permanent"
<1>1. /\ x.pc = "success" /\ x.pc \in Dealing /\ x \in Execution /\ ExecOK(x)
      /\ c \in Cycles /\ p \in Providers /\ p \in Used /\ n \in 1..MaximumAttempts
      /\ x.started \in 0..MaxNow
      /\ TableTypes /\ TableInv /\ now + AcquisitionInterval \in Nat
    BY DealingFacts, CyclesFacts DEF PersistSuccess, Dealing
<1>2. x.seen.bundle \in Bundles
    BY <1>1 DEF ExecOK, Acquired
<1>3. /\ snap \in Snapshot /\ snap # NULL /\ snap.cycle = c /\ snap.provider = p
      /\ Complete(snap.bundle) <=> whole
    BY <1>1, <1>2, NullAssumption DEF SnapshotOf, Snapshot
<1>4. /\ run \in Run /\ run # NULL /\ entry \in Registration /\ entry # NULL
    BY <1>1, <1>3, NullAssumption DEF Run, RunStatus, Registration
<1>5. row \in ProviderStatus
    BY <1>1, <1>3 DEF TableTypes, ProviderStatus, Codes
<1>6. runs' = [runs EXCEPT ![c][p] = run]
    BY <1>3 DEF PersistSuccess, SetRun
<1>7. registered' = [registered EXCEPT ![c][p] = IF @ = NULL THEN entry ELSE @]
    BY DEF PersistSuccess
<1>8. status' = [status EXCEPT ![p] = row]
    BY DEF PersistSuccess
<1>9. registered[c][p] # NULL => registered[c][p].snapshot = snap
    BY DEF PersistSuccess, Conflict
<1>10. attempts' = [attempts EXCEPT ![c][p][n] = "succeeded"]
    BY DEF PersistSuccess, AddAttempt
<1>11. /\ Advance(e, outcome) /\ outcome \in Outcome /\ outcome # "retryable"
       /\ UNCHANGED <<job, blocked, alone, now>>
    BY DEF PersistSuccess, Outcome, history
<1>12. run.status = "succeeded" /\ run.snapshot = snap /\ entry.snapshot = snap
    OBVIOUS
<1>13. row.lastValid = IF whole THEN snap ELSE status[p].lastValid
    OBVIOUS
<1> HIDE DEF c, p, n, snap, entry, run, whole, row, outcome
<1>14. /\ runs' \in [Cycles -> [Providers -> {NULL} \cup Run]]
       /\ runs'[c][p] = run
       /\ \A d \in Cycles, q \in Providers : d # c \/ q # p => runs'[d][q] = runs[d][q]
    BY <1>1, <1>4, <1>6 DEF TableTypes
<1>15. /\ registered' \in [Cycles -> [Providers -> {NULL} \cup Registration]]
       /\ registered'[c][p] # NULL /\ registered'[c][p].snapshot = snap
       /\ \A d \in Cycles, q \in Providers : registered[d][q] # NULL =>
             registered'[d][q] = registered[d][q]
       /\ \A d \in Cycles, q \in Providers : d # c \/ q # p =>
             registered'[d][q] = registered[d][q]
    <2> DEFINE new == IF registered[c][p] = NULL THEN entry ELSE registered[c][p]
    <2>1. registered' = [registered EXCEPT ![c][p] = new]
        BY <1>7
    <2>2. /\ new \in Registration /\ new # NULL /\ new.snapshot = snap
          /\ registered[c][p] # NULL => new = registered[c][p]
        BY <1>1, <1>4, <1>9, <1>12 DEF TableTypes
    <2> HIDE DEF new
    <2> QED
        BY <1>1, <2>1, <2>2 DEF TableTypes
<1>16. /\ status' \in [Providers -> ProviderStatus]
       /\ status'[p] = row /\ \A q \in Providers : q # p => status'[q] = status[q]
    BY <1>1, <1>5, <1>8 DEF TableTypes
<1>17. attempts' \in [Cycles -> [Providers -> [1..MaximumAttempts -> {NULL} \cup RunStatus]]]
    <2> DEFINE Results == [1..MaximumAttempts -> {NULL} \cup RunStatus]
               results == [attempts[c][p] EXCEPT ![n] = "succeeded"]
    <2>1. attempts \in [Cycles -> [Providers -> Results]] /\ attempts[c][p] \in Results
        BY <1>1 DEF TableTypes
    <2>2. results \in Results
        BY <1>1, <2>1 DEF RunStatus
    <2>3. attempts' = [attempts EXCEPT ![c][p] = results]
        BY <1>10
    <2> HIDE DEF Results, results
    <2>4. attempts' \in [Cycles -> [Providers -> Results]]
        BY <1>1, <2>1, <2>2, <2>3
    <2> QED
        BY <2>4 DEF Results
<1>18. TableTypes'
    BY <1>1, <1>11, <1>14, <1>15, <1>16, <1>17 DEF TableTypes
<1>19. LastValidAdmitted'
    <2> SUFFICES ASSUME NEW q \in Providers, status'[q].lastValid # NULL
                 PROVE  LET s == status'[q].lastValid
                        IN  /\ registered'[s.cycle][q] # NULL
                            /\ registered'[s.cycle][q].snapshot = s
                            /\ Complete(s.bundle)
        BY DEF LastValidAdmitted, Complete
    <2>1. CASE q = p /\ whole
        BY <1>3, <1>13, <1>15, <1>16, <2>1
    <2>2. CASE ~(q = p /\ whole)
        <3>1. status'[q].lastValid = status[q].lastValid
            BY <1>13, <1>16, <2>2
        <3>2. PICK s : s = status[q].lastValid
            OBVIOUS
        <3>3. s \in Snapshot /\ s.cycle \in Cycles
            BY <1>1, <3>1, <3>2 DEF TableTypes, ProviderStatus, Snapshot
        <3>4. /\ registered[s.cycle][q] # NULL /\ registered[s.cycle][q].snapshot = s
              /\ Complete(s.bundle)
            BY <1>1, <3>1, <3>2 DEF TableInv, LastValidAdmitted
        <3> QED
            BY <1>15, <3>1, <3>2, <3>3, <3>4
    <2> QED
        BY <2>1, <2>2
<1>20. RegistrationMatchesRun'
    BY <1>1, <1>4, <1>12, <1>14, <1>15 DEF TableInv, RegistrationMatchesRun
<1>21. TableInv'
    <2>1. \A d \in Cycles, q \in Providers : runs'[d][q] # NULL => q \in Used
        BY <1>1, <1>14 DEF TableInv
    <2> QED
        BY <1>1, <1>11, <1>19, <1>20, <2>1 DEF TableInv
<1>22. ASSUME alone PROVE BlockKept'
    <2>1. blocked[p] <= now /\ BlockKept
        BY <1>1, <1>22, CyclesFacts DEF Careful, p, Provider
    <2> QED
        BY <1>11, <1>16, <2>1 DEF BlockKept
<1>23. /\ ~Open(runs'[x.cycle][Provider(e)])
       /\ \A q \in Providers \ {Provider(e)} : runs'[x.cycle][q] = runs[x.cycle][q]
    BY <1>1, <1>12, <1>14 DEF Open, c, p
<1>24. PICK result \in Outcome : result = outcome
    BY <1>11
<1> QED
    BY <1>1, <1>11, <1>18, <1>21, <1>22, <1>23, <1>24, DealtStep

LEMMA RequeuedFacts ==
    ASSUME CyclesInv, NEW c \in Cycles
    PROVE  /\ Requeued(c) \in {"pending", "succeeded", "failed"}
           /\ Requeued(c) = "pending" => job[c].attempts < MaximumAttempts
BY DEF Requeued

(* The steps that end an execution.                                         *)
LEMMA EndingStep ==
    ASSUME CyclesInv, NEW e \in Executions,
           \/ PersistConflict(e) \/ AskForRetry(e) \/ CachedUnreadable(e)
           \/ PersistFallback(e) \/ Crash(e)
    PROVE  CyclesInv'
<1>1. exec[e].pc # "idle" /\ exec' = [exec EXCEPT ![e] = Idle]
      /\ UNCHANGED <<runs, attempts, status, registered, history, now>>
    BY DEF PersistConflict, AskForRetry, CachedUnreadable, PersistFallback, Crash, tables
<1>2. exec[e].cycle \in Cycles /\ ExecOK(exec[e])
    BY <1>1, CyclesFacts DEF ExecOK
<1>3. CASE AskForRetry(e)
    <2>1. EndJob(e, "pending") /\ exec[e].attempt < MaximumAttempts
        BY <1>1, <1>2, <1>3 DEF AskForRetry, ExecOK
    <2> QED
        BY <1>1, <2>1, EndStep
<1>4. CASE PersistFallback(e)
    <2>1. EndJob(e, "succeeded")
        BY <1>4 DEF PersistFallback
    <2> QED
        BY <1>1, <2>1, EndStep
<1>5. CASE PersistConflict(e) \/ CachedUnreadable(e) \/ Crash(e)
    <2>1. PICK ending \in {"pending", "succeeded", "failed"} :
              /\ EndJob(e, ending)
              /\ ending = "pending" => job[exec[e].cycle].attempts < MaximumAttempts
        BY <1>2, <1>5, RequeuedFacts DEF PersistConflict, CachedUnreadable, Crash
    <2> QED
        BY <1>1, <2>1, EndStep
<1> QED
    BY <1>3, <1>4, <1>5

LEMMA ReadCachedStep ==
    ASSUME CyclesInv, NEW e \in Executions, ReadCached(e)
    PROVE  CyclesInv'
<1>1. /\ exec[e].pc = "finish" /\ UNCHANGED <<job, tables, history, now>>
      /\ exec[e] \in Execution /\ ExecOK(exec[e])
      /\ \A p \in Providers : exec[e].out[p] # "retryable"
    BY CyclesFacts DEF ReadCached
<1>2. PICK cached \in {NULL} \cup Snapshot : cached = SelectCached(e)
    <2> DEFINE Of(p) == status[p].lastValid
               Have == {p \in Providers : Of(p) # NULL}
    <2>1. \A p \in Have : p \in Providers /\ Of(p) \in Snapshot
        BY CyclesFacts DEF TableTypes, ProviderStatus
    <2>2. Have # {} => (CHOOSE p \in Have : TRUE) \in Have
        OBVIOUS
    <2>3. Have = Providers => Of("betano") \in Snapshot /\ Of("betclic") \in Snapshot
        BY <2>1 DEF Providers
    <2>4. \/ SelectCached(e) = NULL
          \/ Have # {} /\ SelectCached(e) = Of(CHOOSE p \in Have : TRUE)
          \/ Have = Providers /\ SelectCached(e) \in {Of("betano"), Of("betclic")}
        BY DEF SelectCached
    <2> QED
        BY <2>1, <2>2, <2>3, <2>4
<1>3. PICK new : new = [exec[e] EXCEPT !.pc = "decide", !.cached = cached]
    OBVIOUS
<1>4. exec' = [exec EXCEPT ![e] = new]
    <2>1. exec' = [exec EXCEPT ![e].pc = "decide", ![e].cached = cached]
        BY <1>2 DEF ReadCached
    <2> QED
        BY <1>3, <2>1, CyclesFacts
<1>5. /\ new \in Execution /\ new.pc = "decide" /\ new.todo = exec[e].todo
      /\ new.cycle = exec[e].cycle /\ new.out = exec[e].out
      /\ new.attempt = exec[e].attempt /\ new.started = exec[e].started
    BY <1>1, <1>3 DEF Execution, Pc
<1>6. ExecOK(new)
    BY <1>1, <1>5 DEF ExecOK
<1>7. ASSUME alone PROVE Careful(new)
    BY <1>1, <1>5, <1>7, CyclesFacts DEF Careful, Dealing, Pending
<1> QED
    BY <1>1, <1>4, <1>5, <1>6, <1>7, QuietStep

LEMMA LoseLeaseStep ==
    ASSUME CyclesInv, NEW c \in Cycles, LoseLease(c)
    PROVE  CyclesInv'
<1>1. TableTypes /\ TableInv /\ UNCHANGED <<tables, exec, history, now>>
    BY DEF CyclesInv, LoseLease
<1>2. /\ job' \in [Cycles -> CycleJob]
      /\ \A d \in Cycles : job'[d].status = "pending" => job'[d].attempts < MaximumAttempts
    <2>1. PICK ending \in {"pending", "succeeded", "failed"} :
              /\ job' = [job EXCEPT ![c].status = ending]
              /\ ending = "pending" => job[c].attempts < MaximumAttempts
        BY RequeuedFacts DEF LoseLease
    <2>2. job' \in [Cycles -> CycleJob]
        BY <1>1, <2>1 DEF TableTypes, CycleJob
    <2>3. job'[c].status = ending /\ job'[c].attempts = job[c].attempts
        BY <1>1, <2>1 DEF TableTypes, CycleJob
    <2>4. \A d \in Cycles \ {c} : job'[d] = job[d]
        BY <1>1, <2>1 DEF TableTypes
    <2> QED
        BY <1>1, <2>1, <2>2, <2>3, <2>4 DEF TableInv
<1>3. TableTypes'
    BY <1>1, <1>2 DEF TableTypes, tables, history
<1>4. TableInv'
    BY <1>1, <1>2 DEF TableInv, LastValidAdmitted, RegistrationMatchesRun, tables
<1>5. (\A e \in Executions : ExecOK(exec[e]))' /\ (exec \in [Executions -> Execution])'
    BY <1>1 DEF CyclesInv, ExecOK
<1>6. (alone => OneUnderWay /\ BlockKept)'
    BY <1>1 DEF CyclesInv, OneUnderWay, BlockKept, tables, history
<1>7. (alone => \A e \in Executions : Careful(exec[e]))'
    BY <1>1 DEF CyclesInv, Careful, Unsettled, Pending, tables, history
<1> QED
    BY <1>3, <1>4, <1>5, <1>6, <1>7 DEF CyclesInv

LEMMA TickStep ==
    ASSUME CyclesInv, Tick
    PROVE  CyclesInv'
<1>1. /\ TableTypes /\ TableInv /\ UNCHANGED <<job, tables, exec, history>>
      /\ now \in Nat /\ now' = now + 1 /\ now' \in 0..MaxNow
    BY NumbersAssumption DEF CyclesInv, TableTypes, Tick
<1>2. TableTypes'
    BY <1>1 DEF TableTypes, tables, history
<1>3. TableInv'
    BY <1>1 DEF TableInv, LastValidAdmitted, RegistrationMatchesRun, tables
<1>4. \A t \in Int : t <= now => t <= now'
    BY <1>1
<1>5. ASSUME NEW e \in Executions PROVE ExecOK(exec[e])'
    <2>1. exec[e] \in Execution /\ ExecOK(exec[e]) /\ exec' = exec
        BY <1>1, CyclesFacts
    <2>2. exec[e].started \in Int
        BY <2>1 DEF Execution
    <2> QED
        BY <1>4, <2>1, <2>2 DEF ExecOK
<1>6. \A p \in Providers : blocked[p] \in Int
    BY <1>1 DEF TableTypes
<1>7. alone => BlockKept'
    BY <1>1, <1>4, <1>6 DEF CyclesInv, BlockKept, tables, history
<1>8. ASSUME alone, NEW e \in Executions PROVE Careful(exec[e])'
    <2>1. exec[e].pc \in Dealing => blocked[Head(exec[e].todo)] \in Int
        BY <1>6, DealingFacts
    <2>2. Careful(exec[e]) /\ exec' = exec /\ runs' = runs /\ blocked' = blocked
        BY <1>1, <1>8, CyclesFacts DEF tables, history
    <2> QED
        BY <1>4, <2>1, <2>2 DEF Careful, Unsettled, Pending
<1> QED
    BY <1>1, <1>2, <1>3, <1>5, <1>7, <1>8 DEF CyclesInv, OneUnderWay, history

LEMMA CyclesInitInv ==
    Init => CyclesInv
<1> SUFFICES ASSUME Init PROVE CyclesInv
    OBVIOUS
<1>1. TableTypes
    <2>1. job \in [Cycles -> CycleJob] /\ now \in 0..MaxNow
        BY NumbersAssumption DEF Init, CycleJob
    <2>2. [n \in 1..MaximumAttempts |-> NULL] \in [1..MaximumAttempts -> {NULL} \cup RunStatus]
        OBVIOUS
    <2>3. attempts \in [Cycles -> [Providers -> [1..MaximumAttempts -> {NULL} \cup RunStatus]]]
        BY <2>2 DEF Init
    <2>4. status \in [Providers -> ProviderStatus]
        BY DEF Init, ProviderStatus, Codes
    <2> QED
        BY <2>1, <2>3, <2>4 DEF Init, TableTypes
<1>2. TableInv
    BY NumbersAssumption DEF Init, TableInv, LastValidAdmitted, RegistrationMatchesRun
<1>3. Idle \in Execution /\ Idle.pc = "idle"
    <2>1. <<>> \in Seq(Used)
        OBVIOUS
    <2>2. [p \in Providers |-> "none"] \in [Providers -> Outcome]
        BY DEF Outcome
    <2> QED
        BY <2>1, <2>2, NumbersAssumption DEF Idle, Execution, Pc
<1>4. exec \in [Executions -> Execution] /\ \A e \in Executions : exec[e].pc = "idle"
    BY <1>3 DEF Init
<1>5. BlockKept
    BY DEF Init, BlockKept
<1> QED
    BY <1>1, <1>2, <1>4, <1>5 DEF CyclesInv, ExecOK, Careful, OneUnderWay

LEMMA CyclesInvStep ==
    CyclesInv /\ [Next]_vars => CyclesInv'
<1> SUFFICES ASSUME CyclesInv, [Next]_vars PROVE CyclesInv'
    OBVIOUS
<1>1. ASSUME NEW e \in Executions, Step(e) PROVE CyclesInv'
    BY <1>1, CheckEligibleStep, LookupStep, AcquireStep, PublishStep, PersistBlockedStep,
       PersistRejectedStep, PersistFailureStep, PersistRetryableStep, FinalizeTerminalStep,
       PersistSuccessStep, EndingStep, ReadCachedStep DEF Step
<1>2. ASSUME NEW e \in Executions, Crash(e) PROVE CyclesInv'
    BY <1>2, EndingStep
<1>3. ASSUME NEW e \in Executions, NEW c \in Cycles, Begin(e, c) PROVE CyclesInv'
    BY <1>3, BeginStep
<1>4. ASSUME NEW c \in Cycles, LoseLease(c) PROVE CyclesInv'
    BY <1>4, LoseLeaseStep
<1>5. CASE Tick
    BY <1>5, TickStep
<1>6. CASE UNCHANGED vars
    <2>1. TableTypes' /\ TableInv'
        BY <1>6 DEF vars, CyclesInv, TableTypes, TableInv, LastValidAdmitted,
                   RegistrationMatchesRun
    <2>2. /\ (exec \in [Executions -> Execution])'
          /\ (\A e \in Executions : ExecOK(exec[e]))'
        BY <1>6 DEF vars, CyclesInv, ExecOK
    <2>3. (alone => OneUnderWay /\ BlockKept)'
        BY <1>6 DEF vars, CyclesInv, OneUnderWay, BlockKept
    <2>4. (alone => \A e \in Executions : Careful(exec[e]))'
        BY <1>6 DEF vars, CyclesInv, Careful, Unsettled, Pending
    <2> QED
        BY <2>1, <2>2, <2>3, <2>4 DEF CyclesInv
<1> QED
    BY <1>1, <1>2, <1>3, <1>4, <1>5, <1>6 DEF Next

(* Runs are written by the executions that persist, each its own.           *)
LEMMA RunsWritten ==
    ASSUME CyclesInv, [Next]_vars, NEW c \in Cycles, NEW p \in Providers,
           runs'[c][p] # runs[c][p]
    PROVE  \E e \in Executions : /\ exec[e].pc \in {"persist", "exhausted", "success"}
                                 /\ c = exec[e].cycle /\ p = Provider(e)
<1>1. runs \in [Cycles -> [Providers -> {NULL} \cup Run]]
    BY DEF CyclesInv, TableTypes
<1>2. PICK e \in Executions : \/ PersistBlocked(e) \/ PersistRejected(e) \/ PersistFailure(e)
                              \/ PersistRetryable(e) \/ FinalizeTerminalFailure(e)
                              \/ PersistSuccess(e)
    BY DEF Next, Step, vars, tables, CheckEligible, Lookup, Acquire, Publish, PersistConflict,
           AskForRetry, ReadCached, CachedUnreadable, PersistFallback, Crash, Begin,
           LoseLease, Tick
<1>3. exec[e].pc \in {"persist", "exhausted", "success"}
    BY <1>2 DEF PersistBlocked, PersistRejected, PersistFailure, PersistRetryable,
                FinalizeTerminalFailure, PersistSuccess
<1>4. \E run : runs' = [runs EXCEPT ![exec[e].cycle][Provider(e)] = run]
    BY <1>2 DEF PersistBlocked, PersistRejected, PersistFailure, PersistRetryable,
                FinalizeTerminalFailure, PersistSuccess, SetRun
<1>5. exec[e].cycle \in Cycles /\ Provider(e) \in Providers
    BY <1>3, DealingFacts DEF Dealing
<1>6. c = exec[e].cycle /\ p = Provider(e)
    BY <1>1, <1>4, <1>5
<1> QED
    BY <1>3, <1>6

LEMMA SucceededStays ==
    ASSUME CyclesInv, [Next]_vars, alone, NEW c \in Cycles, NEW p \in Providers,
           runs[c][p] # NULL, runs[c][p].status = "succeeded"
    PROVE  runs'[c][p] = runs[c][p]
<1> SUFFICES ASSUME runs'[c][p] # runs[c][p] PROVE FALSE
    OBVIOUS
<1>1. PICK e \in Executions : /\ exec[e].pc \in {"persist", "exhausted", "success"}
                              /\ c = exec[e].cycle /\ p = Provider(e)
    BY RunsWritten
<1>2. runs[c][p] = NULL \/ Open(runs[c][p])
    BY <1>1, CyclesFacts DEF Careful, Dealing, Unsettled, Provider
<1> QED
    BY <1>2 DEF Open

LEMMA DecisionIsSettled ==
    ASSUME CyclesInv, [Next]_vars, alone, NEW d \in decisions' \ decisions,
           NEW p \in Providers, runs[d.cycle][p] # NULL,
           runs[d.cycle][p].status = "retryable"
    PROVE  d.out[p] = "cooldown"
<1>1. PICK e \in Executions : PersistFallback(e)
    BY DEF Next, Step, vars, tables, CheckEligible, Lookup, Acquire, Publish, PersistBlocked,
           PersistRejected, PersistFailure, PersistRetryable, FinalizeTerminalFailure,
           PersistSuccess, PersistConflict, AskForRetry, ReadCached, CachedUnreadable,
           Crash, Begin, LoseLease, Tick
<1>2. exec[e].pc = "decide" /\ d.cycle = exec[e].cycle /\ d.out = exec[e].out
    BY <1>1 DEF PersistFallback
<1>3. /\ Unsettled(exec[e].cycle, p) => Pending(exec[e], p) \/ exec[e].out[p] \in {"cooldown", "retryable"}
      /\ exec[e].out[p] # "retryable" /\ exec[e].todo = <<>>
    BY <1>2, CyclesFacts DEF Careful, ExecOK
<1>4. ~Pending(exec[e], p)
    BY <1>3 DEF Pending
<1> QED
    BY <1>2, <1>3, <1>4 DEF Unsettled, Open

LEMMA EligibleIsCool ==
    ASSUME CyclesInv, [Next]_vars, alone, NEW e \in Executions,
           exec[e].pc = "next", exec'[e].pc = "lookup"
    PROVE  blocked[Provider(e)] <= now
<1>1. exec \in [Executions -> Execution] /\ Idle.pc = "idle"
    BY DEF CyclesInv, Idle
<1>2. exec' # exec
    OBVIOUS
<1>3. \E f \in Executions : Step(f) \/ Crash(f) \/ \E c \in Cycles : Begin(f, c)
    BY <1>2 DEF Next, vars, LoseLease, Tick
<1>4. PICK f \in Executions : Step(f) \/ Crash(f) \/ \E c \in Cycles : Begin(f, c)
    BY <1>3
<1>5. \E new : exec' = [exec EXCEPT ![f] = new]
    <2>1. CASE CheckEligible(f) \/ Lookup(f)
        BY <1>1, <2>1 DEF CheckEligible, Lookup, Move, Advance
    <2>2. CASE Acquire(f)
        BY <1>1, <2>2 DEF Acquire
    <2>3. CASE Publish(f)
        BY <1>1, <2>3 DEF Publish, Move
    <2>4. CASE PersistBlocked(f) \/ PersistRejected(f) \/ PersistFailure(f)
               \/ PersistRetryable(f) \/ FinalizeTerminalFailure(f) \/ PersistSuccess(f)
        BY <1>1, <2>4 DEF PersistBlocked, PersistRejected, PersistFailure, PersistRetryable,
                          FinalizeTerminalFailure, PersistSuccess, Move, Advance
    <2>5. CASE PersistConflict(f) \/ AskForRetry(f) \/ CachedUnreadable(f)
               \/ PersistFallback(f) \/ Crash(f)
        BY <2>5 DEF PersistConflict, AskForRetry, CachedUnreadable, PersistFallback, Crash
    <2>6. CASE ReadCached(f)
        BY <1>1, <2>6 DEF ReadCached
    <2>7. CASE \E c \in Cycles : Begin(f, c)
        BY <2>7 DEF Begin
    <2> QED
        BY <1>4, <2>1, <2>2, <2>3, <2>4, <2>5, <2>6, <2>7 DEF Step
<1>6. f = e
    BY <1>1, <1>5
<1>7. CheckEligible(e)
    <2>1. CheckEligible(e) \/ Crash(e)
        BY <1>4, <1>6 DEF Step, Lookup, Acquire, Publish, PersistBlocked, PersistRejected,
               PersistFailure, PersistRetryable, FinalizeTerminalFailure, PersistSuccess,
               PersistConflict, AskForRetry, ReadCached, CachedUnreadable, PersistFallback,
               Begin
    <2>2. ~Crash(e)
        BY <1>1 DEF Crash
    <2> QED
        BY <2>1, <2>2
<1>8. Eligible(e)
    <2> SUFFICES ASSUME ~Eligible(e) PROVE FALSE
        OBVIOUS
    <2>1. exec' = [exec EXCEPT ![e] = Advanced(exec[e], "cooldown")]
        BY <1>7 DEF CheckEligible, Advance
    <2>2. exec'[e] = Advanced(exec[e], "cooldown")
        BY <1>1, <2>1
    <2>3. exec[e].todo # <<>> /\ exec[e] \in Execution /\ "cooldown" \in Outcome
        BY <1>1, DealingFacts DEF Outcome
    <2>4. exec'[e].pc \in {"next", "finish"}
        BY <2>2, <2>3, AdvancedFacts
    <2> QED
        BY <2>4
<1> QED
    BY <1>8, EligibleIsOver

(* However many executions overlap, whatever is lost, late or retried: the  *)
(* provider status names only snapshots that are registered and were        *)
(* admitted as complete, and runs name the registered snapshot              *)
(* (bookmakers/service.py, data/repositories/bookmakers.py).                *)
THEOREM TablesTellOneStory ==
    Spec => []TablesAgree
BY CyclesInitInv, CyclesInvStep, CyclesInvImplies, PTL DEF Spec

(* While executions do not overlap, a succeeded sub-cycle is never written  *)
(* again, a cycle is decided only when nothing is left to retry, and no     *)
(* provider is asked while its block lasts.                                 *)
THEOREM RetriesAreIdempotent ==
    Spec => CyclesSettle
<1>1. CyclesInv /\ [Next]_vars =>
        [alone => \A c \in Cycles, p \in Providers :
            runs[c][p] # NULL /\ runs[c][p].status = "succeeded"
               => runs'[c][p] = runs[c][p]]_vars
    BY SucceededStays
<1>2. CyclesInv /\ [Next]_vars =>
        [alone => \A d \in decisions' \ decisions, p \in Providers :
            runs[d.cycle][p] # NULL /\ runs[d.cycle][p].status = "retryable"
               => d.out[p] = "cooldown"]_vars
    BY DecisionIsSettled
<1>3. CyclesInv /\ [Next]_vars =>
        [alone => \A e \in Executions :
            exec[e].pc = "next" /\ exec'[e].pc = "lookup" => blocked[Provider(e)] <= now]_vars
    BY EligibleIsCool
<1>4. Spec => SucceededIsFinal
    BY <1>1, CyclesInitInv, CyclesInvStep, PTL DEF Spec, SucceededIsFinal
<1>5. Spec => SettledOrSkipped
    BY <1>2, CyclesInitInv, CyclesInvStep, PTL DEF Spec, SettledOrSkipped
<1>6. Spec => CoolsDown
    BY <1>3, CyclesInitInv, CyclesInvStep, PTL DEF Spec, CoolsDown
<1> QED
    BY <1>4, <1>5, <1>6 DEF CyclesSettle

-----------------------------------------------------------------------------
(* The Odds API: the chain of jobs and the key                              *)

HandlerPc == {"idle", "config", "secret", "state", "request", "save", "block", "retry",
              "next", "load", "write", "done"}
Handling == [pc : HandlerPc, job : JobIds \cup {Unset}, cfg : Config \cup {Unset},
             key : Keys \cup {Unset}, st : State,
             why : Connections \cup {"none", "scheduled"}]
UiOp == {"idle", "enable", "replace", "pause", "resume", "run now"}
UiPc == {"idle", "read", "validate", "secret", "config", "load", "write", "cancel", "reload",
         "ensure"}
Operation == [op : UiOp, pc : UiPc, cfg : Config \cup {Unset}, key : Keys \cup {Unset},
              st : State]

AutoTypes ==
    /\ config \in Config \cup {Unset} /\ secret \in Keys \cup {Unset} /\ st \in State
    /\ jobs \in [JobIds -> Job \cup {Unset}]
    /\ handling \in Handling /\ ui \in Operation
    /\ faults \in Nat /\ faults <= MaxFaults /\ overlap \in BOOLEAN

(* The chain needs a job that survives its faults: MAXIMUM_ATTEMPTS claims. *)
Steady == ~overlap /\ MaxFaults < MaxAttempts

(* A handler that ends leaves the chain to another job or to the operator.  *)
Relieved(h) == ~Active(config) \/ \E i \in JobIds \ {h.job} : jobs[i] # Unset

Rescheduling == {"temporarily-unavailable", "validation-failed", "replay-conflict"}

(* What the handler of a job remembers. *)
HandlerOK(h) ==
    /\ h.pc = "idle" => h.job = Unset
    /\ h.pc # "idle" =>
        /\ h.job \in JobIds /\ jobs[h.job] # Unset /\ jobs[h.job].status = "running"
        /\ h.pc = "retry" => jobs[h.job].retry < 2 /\ h.why = "retry-scheduled"
        /\ h.pc = "block" => h.why = "authentication-failed" /\ h.key \notin valid
        /\ h.pc \notin {"config", "done"} => h.cfg \in Config /\ config # Unset
        /\ h.pc \in {"load", "write"} => h.why \in Connections \cup {"scheduled"}
        /\ h.pc = "secret" => secret \notin failed
        /\ h.pc \in {"state", "request", "block"} => h.key \notin failed
        /\ ~overlap => ui.op = "idle"
        /\ Steady =>
            /\ h.pc \in {"load", "write"} =>
                  h.why \in Rescheduling \cup {"quota-reserve-paused"} \/ Relieved(h)
            /\ h.pc = "done" => st.conn = "quota-reserve-paused" \/ Relieved(h)

(* What an operation in the UI process remembers. *)
OperationOK(u) ==
    /\ u.op = "idle" <=> u.pc = "idle"
    /\ u.pc \in {"read", "secret", "validate"} => u.key \in Keys /\ u.op \in {"enable", "replace"}
    /\ u.pc = "read" <=> u.op = "enable" /\ u.cfg = Unset
    /\ u.pc \notin {"idle", "read"} => u.cfg \in Config
    /\ u.pc = "config" => u.op \in {"enable", "replace", "pause", "resume"} /\ secret # Unset
    /\ u.op \in {"replace", "pause", "resume", "run now"} => config # Unset
    /\ u.pc \in {"load", "write", "ensure", "cancel", "reload"} => config # Unset
    /\ u.pc = "reload" => u.op = "resume"
    /\ u.pc \in {"read", "secret"} => u.key \notin failed
    /\ u.op \in {"enable", "replace"} /\ u.pc # "read" => ~u.cfg.blocked
    /\ u.pc = "config" /\ u.cfg.blocked => config # Unset /\ config.blocked
    /\ u.pc = "config" /\ ~u.cfg.blocked => secret \notin failed
    /\ u.op = "pause" /\ u.pc = "config" => u.cfg.paused
    /\ u.pc = "cancel" /\ ~overlap => config.paused

(* Every claim that did not end its job has cost a fault.                   *)
JobsOK ==
    /\ \A i \in JobIds : jobs[i] # Unset =>
          /\ jobs[i].status = "pending" => jobs[i].attempts < MaxAttempts
          /\ jobs[i].attempts <= faults + (IF handling.job = i THEN 1 ELSE 0)
    /\ \E a, b \in JobIds : Live \subseteq {a, b}

KeysOK ==
    /\ config # Unset => secret # Unset
    /\ failed \cap valid = {}
    /\ config # Unset /\ ~config.blocked => secret \notin failed

ChainOK ==
    Steady => (\/ ~Active(config) \/ st.conn = "quota-reserve-paused" \/ Live # {}
               \/ ui.op # "idle" /\ ui.pc # "validate")

AutoInv ==
    AutoTypes /\ HandlerOK(handling) /\ OperationOK(ui) /\ JobsOK /\ KeysOK /\ ChainOK

LEMMA AutoFacts ==
    ASSUME AutoInv
    PROVE  /\ AutoTypes /\ HandlerOK(handling) /\ OperationOK(ui)
           /\ JobsOK /\ KeysOK /\ ChainOK
           /\ Unset \notin Keys /\ Unset \notin Contents /\ Unset \notin JobIds
           /\ Unset \notin Nat /\ Unset \notin Config /\ Unset \notin Job
           /\ Quotas \subseteq Nat /\ Reserve \in Nat /\ MaxAttempts \in Nat
           /\ MaxFaults \in Nat /\ MaxAttempts # 0
BY BoundsAssumption, UnsetAssumption DEF AutoInv

(* There is always room for a job besides one that runs. *)
LEMMA AnotherId ==
    ASSUME NEW own
    PROVE  \E i \in JobIds : i # own
<1> SUFFICES ASSUME \A i \in JobIds : i = own PROVE FALSE
    OBVIOUS
<1>1. JobIds \in SUBSET {own} /\ IsFiniteSet({own}) /\ Cardinality({own}) = 1
    BY FS_Singleton
<1>2. Cardinality(JobIds) <= 1 /\ IsFiniteSet(JobIds)
    BY <1>1, FS_Subset
<1>3. Cardinality(JobIds) \in Nat /\ Cardinality(JobIds) > 2
    BY <1>2, FS_CardinalityType, BoundsAssumption
<1> QED
    BY <1>2, <1>3

LEMMA AtMostTwo ==
    ASSUME NEW S, NEW a, NEW b, S \subseteq {a, b}
    PROVE  Cardinality(S) <= 2
<1>1. IsFiniteSet({a}) /\ Cardinality({a}) = 1
    BY FS_Singleton
<1>2. {a} \cup {b} = {a, b}
    OBVIOUS
<1>3. /\ IsFiniteSet({a, b})
      /\ Cardinality({a, b}) = 1 \/ Cardinality({a, b}) = 2
    BY <1>1, <1>2, FS_AddElement
<1>4. IsFiniteSet(S) /\ Cardinality(S) <= Cardinality({a, b})
    BY <1>3, FS_Subset
<1>5. Cardinality(S) \in Nat
    BY <1>4, FS_CardinalityType
<1> QED
    BY <1>3, <1>4, <1>5

(* EnsureJob: pending jobs but the caller's own are dropped when they are   *)
(* to be replaced; afterwards there is a job besides the caller's own, and  *)
(* a new one only if there was no other.                                    *)
Ensured(new, own) ==
    /\ new \in [JobIds -> Job \cup {Unset}]
    /\ \A i \in JobIds :
          \/ new[i] = jobs[i]
          \/ new[i] = Unset
          \/ new[i] # Unset /\ new[i].status = "pending" /\ new[i].attempts = 0
    /\ \A i \in JobIds :
          jobs[i] # Unset /\ (jobs[i].status = "running" \/ i = own) => new[i] = jobs[i]
    /\ \E i \in JobIds \ {own} : new[i] # Unset
    /\ \E a, b \in JobIds : {i \in JobIds : new[i] # Unset} \subseteq {a, b}

LEMMA EnsureFacts ==
    ASSUME AutoInv, NEW generation \in Nat, NEW due \in BOOLEAN, NEW replace \in BOOLEAN,
           NEW own \in JobIds \cup {Unset}, own # Unset => jobs[own] # Unset, NEW retry \in 0..2,
           NEW new, new = EnsureJob(generation, due, replace, own, retry)
    PROVE  Ensured(new, own)
<1> DEFINE kept == [i \in JobIds |->
                      IF replace /\ i # own /\ jobs[i] # Unset /\ jobs[i].status = "pending"
                      THEN Unset ELSE jobs[i]]
           free == {i \in JobIds : kept[i] = Unset}
           fresh == NewJob(generation, due, retry)
           slot == CHOOSE i \in free : TRUE
<1>1. jobs \in [JobIds -> Job \cup {Unset}] /\ kept \in [JobIds -> Job \cup {Unset}]
    BY DEF AutoInv, AutoTypes
<1>2. /\ fresh \in Job /\ fresh # Unset /\ fresh.status = "pending" /\ fresh.attempts = 0
    BY AutoFacts DEF NewJob, Job
<1>3. /\ \A i \in JobIds : kept[i] = jobs[i] \/ kept[i] = Unset
      /\ \A i \in JobIds :
            jobs[i] # Unset /\ (jobs[i].status = "running" \/ i = own) => kept[i] = jobs[i]
    OBVIOUS
<1>4. new = IF \E i \in JobIds \ {own} : kept[i] # Unset THEN kept
            ELSE [kept EXCEPT ![slot] = fresh]
    BY DEF EnsureJob
<1>5. PICK a \in JobIds, b \in JobIds : \A i \in JobIds : jobs[i] # Unset => i \in {a, b}
    BY AutoFacts DEF JobsOK, Live
<1> HIDE DEF kept, fresh
<1>6. CASE \E i \in JobIds \ {own} : kept[i] # Unset
    <2>1. new = kept
        BY <1>4, <1>6
    <2>2. {i \in JobIds : new[i] # Unset} \subseteq {a, b}
        BY <1>3, <1>5, <2>1
    <2> QED
        BY <1>1, <1>3, <1>6, <2>1, <2>2 DEF Ensured
<1>7. CASE \A i \in JobIds \ {own} : kept[i] = Unset
    <2>1. new = [kept EXCEPT ![slot] = fresh]
        BY <1>4, <1>7
    <2>2. PICK other \in JobIds : other # own
        BY AnotherId
    <2>3. other \in free
        BY <1>7, <2>2
    <2>4. slot \in free
        BY <2>3
    <2> HIDE DEF slot
    <2>5. slot \in JobIds /\ kept[slot] = Unset
        BY <2>4
    <2>6. /\ new \in [JobIds -> Job \cup {Unset}] /\ new[slot] = fresh
          /\ \A i \in JobIds \ {slot} : new[i] = kept[i]
        BY <1>1, <1>2, <2>1, <2>5
    <2>7. jobs[slot] # Unset => ~(jobs[slot].status = "running" \/ slot = own)
        BY <1>3, <2>5
    <2>8. PICK c \in JobIds : c = IF own \in JobIds THEN own ELSE slot
        BY <2>5
    <2>9. {i \in JobIds : new[i] # Unset} \subseteq {c, slot}
        BY <1>7, <2>6, <2>8
    <2>10. \E i \in JobIds \ {own} : new[i] # Unset
        <3>1. slot # own
            BY <1>3, <2>5, AutoFacts
        <3> QED
            BY <1>2, <2>5, <2>6, <3>1
    <2> QED
        BY <1>2, <1>3, <2>5, <2>6, <2>7, <2>9, <2>10 DEF Ensured
<1> QED
    BY <1>6, <1>7

(* Only the memory of the handler changes.                                  *)
LEMMA MemoryStep ==
    ASSUME AutoInv, overlap' = overlap, handling.pc # "idle", NEW new \in Handling, handling' = new,
           new.pc # "idle", new.job = handling.job, HandlerOK(new),
           UNCHANGED <<config, secret, st, jobs, ui, valid, failed, faults>>
    PROVE  AutoInv'
<1>1. AutoTypes' /\ OperationOK(ui)' /\ KeysOK' /\ ChainOK'
    BY AutoFacts DEF AutoTypes, OperationOK, KeysOK, ChainOK, Live, Steady
<1>2. HandlerOK(handling)'
    BY DEF HandlerOK, Relieved, Steady
<1>3. JobsOK'
    BY AutoFacts DEF JobsOK, Live
<1> QED
    BY <1>1, <1>2, <1>3 DEF AutoInv

LEMMA GotoStep ==
    ASSUME AutoInv, overlap' = overlap, handling.pc # "idle", NEW pc \in HandlerPc \ {"idle", "secret", "state", "request"},
           NEW why \in Connections \cup {"none", "scheduled"}, Goto(pc, why),
           pc = "retry" => jobs[handling.job].retry < 2 /\ why = "retry-scheduled",
           pc = "block" => why = "authentication-failed" /\ handling.key \notin valid,
           pc \notin {"config", "done"} => handling.pc \notin {"config", "done"},
           pc \in {"load", "write"} => why \in Connections \cup {"scheduled"},
           pc = "block" => handling.pc = "request",
           Steady =>
               /\ pc \in {"load", "write"} =>
                     why \in Rescheduling \cup {"quota-reserve-paused"} \/ Relieved(handling)
               /\ pc = "done" => st.conn = "quota-reserve-paused" \/ Relieved(handling),
           UNCHANGED <<config, secret, st, jobs, ui, valid, failed, faults>>
    PROVE  AutoInv'
<1>1. PICK new : new = [handling EXCEPT !.pc = pc, !.why = why]
    OBVIOUS
<1>2. /\ new \in Handling /\ new.pc = pc /\ new.why = why /\ new.job = handling.job
      /\ new.cfg = handling.cfg /\ new.key = handling.key
    BY <1>1, AutoFacts DEF AutoTypes, Handling
<1>3. Relieved(handling) => Relieved(new)
    BY <1>2 DEF Relieved
<1>4. HandlerOK(new)
    BY <1>2, <1>3, AutoFacts DEF HandlerOK
<1> QED
    BY <1>1, <1>2, <1>4, MemoryStep DEF Goto

LEMMA LoadSecretStep ==
    ASSUME AutoInv, overlap' = overlap, LoadSecret
    PROVE  AutoInv'
<1>1. /\ handling.pc = "secret" /\ UNCHANGED <<config, secret, st, jobs, ui, valid, failed, faults>>
    BY DEF LoadSecret, files
<1>2. secret # Unset /\ handling.cfg \in Config
    BY <1>1, AutoFacts DEF HandlerOK, KeysOK
<1>3. PICK new : new = [handling EXCEPT !.pc = "state", !.key = secret]
    OBVIOUS
<1>4. /\ new \in Handling /\ new.pc = "state" /\ new.job = handling.job
      /\ new.cfg = handling.cfg /\ new.key = secret /\ new.why = handling.why
    BY <1>3, AutoFacts DEF AutoTypes, Handling, HandlerPc
<1>5. HandlerOK(new)
    BY <1>1, <1>4, AutoFacts DEF HandlerOK
<1> QED
    BY <1>1, <1>2, <1>3, <1>4, <1>5, MemoryStep DEF LoadSecret

LEMMA LoadStateStep ==
    ASSUME AutoInv, overlap' = overlap, LoadState \/ LoadForUpdate
    PROVE  AutoInv'
<1>1. /\ handling.pc \in {"state", "load"}
      /\ UNCHANGED <<config, secret, st, jobs, ui, valid, failed, faults>>
    BY DEF LoadState, LoadForUpdate, files
<1>2. PICK pc : pc = IF handling.pc = "state" THEN "request" ELSE "write"
    OBVIOUS
<1>3. PICK new : new = [handling EXCEPT !.pc = pc, !.st = st]
    OBVIOUS
<1>4. /\ new \in Handling /\ new.pc = pc /\ new.job = handling.job
      /\ new.cfg = handling.cfg /\ new.key = handling.key /\ new.why = handling.why
    BY <1>1, <1>2, <1>3, AutoFacts DEF AutoTypes, Handling, HandlerPc
<1>5. HandlerOK(new)
    BY <1>1, <1>2, <1>4, AutoFacts DEF HandlerOK, Relieved
<1>6. handling' = new /\ new.pc # "idle"
    <2>1. CASE LoadState
        BY <1>2, <1>3, <1>4, <2>1 DEF LoadState
    <2>2. CASE LoadForUpdate
        BY <1>2, <1>3, <1>4, <2>2 DEF LoadForUpdate
    <2> QED
        BY <2>1, <2>2
<1> QED
    BY <1>1, <1>4, <1>5, <1>6, MemoryStep

LEMMA RequestStep ==
    ASSUME AutoInv, overlap' = overlap,
           \/ QuotaReached \/ RequestUnauthorized \/ RequestUnavailable \/ RequestRejected
           \/ \E q \in Quotas, c \in Contents : RespondConflict(c, q) \/ RespondInvalid(c, q)
    PROVE  AutoInv'
<1>1. /\ handling.pc = "request"
      /\ UNCHANGED <<config, secret, st, jobs, ui, valid, failed, faults>>
    BY DEF QuotaReached, RequestUnauthorized, RequestUnavailable, RequestRejected,
           RespondConflict, RespondInvalid, Request, files
<1>2. CASE RequestUnauthorized
    <2>1. Goto("block", "authentication-failed") /\ handling.key \notin valid
        BY <1>2 DEF RequestUnauthorized
    <2> QED
        BY <1>1, <2>1, GotoStep DEF HandlerPc, Connections
<1>3. CASE RequestUnavailable /\ jobs[handling.job].retry < 2
    <2>1. Goto("retry", "retry-scheduled")
        BY <1>3 DEF RequestUnavailable
    <2> QED
        BY <1>1, <1>3, <2>1, GotoStep DEF HandlerPc, Connections
<1>4. CASE ~RequestUnauthorized /\ ~(RequestUnavailable /\ jobs[handling.job].retry < 2)
    <2>1. PICK why \in Rescheduling \cup {"quota-reserve-paused"} : Goto("load", why)
        BY <1>4 DEF QuotaReached, RequestUnavailable, RequestRejected, RespondConflict,
                    RespondInvalid, Rescheduling
    <2>2. why \in Connections
        BY DEF Rescheduling, Connections
    <2> QED
        BY <1>1, <2>1, <2>2, GotoStep DEF HandlerPc
<1> QED
    BY <1>2, <1>3, <1>4

LEMMA RespondStep ==
    ASSUME AutoInv, overlap' = overlap, NEW q \in Quotas,
           \/ RespondSame(q)
           \/ \E c \in Contents : Respond(c, q)
    PROVE  AutoInv'
<1>1. /\ handling.pc = "request" /\ handling \in Handling
      /\ UNCHANGED <<config, secret, st, jobs, ui, valid, failed, faults>>
    BY AutoFacts DEF RespondSame, Respond, Request, files, AutoTypes
<1>2. PICK state \in State : handling' = [handling EXCEPT !.pc = "save", !.st = state]
    <2> DEFINE old == handling.st
    <2>1. old \in State
        BY <1>1 DEF Handling
    <2>2. CASE RespondSame(q)
        <3>1. [old EXCEPT !.quota = q] \in State
            BY <2>1 DEF State
        <3> QED
            BY <2>2, <3>1 DEF RespondSame
    <2>3. CASE \E c \in Contents : Respond(c, q)
        <3>1. PICK c \in Contents : Respond(c, q)
            BY <2>3
        <3>2. [old EXCEPT !.quota = q, !.digest = c] \in State
            BY <2>1 DEF State
        <3>3. handling' = [handling EXCEPT !.pc = "save", !.st = [old EXCEPT !.quota = q, !.digest = c]]
            BY <1>1, <3>1 DEF Respond, Handling, State
        <3> QED
            BY <3>2, <3>3
    <2> QED
        BY <2>2, <2>3
<1>3. PICK new : new = [handling EXCEPT !.pc = "save", !.st = state]
    OBVIOUS
<1>4. /\ new \in Handling /\ new.pc = "save" /\ new.job = handling.job
      /\ new.cfg = handling.cfg /\ new.key = handling.key /\ new.why = handling.why
    BY <1>1, <1>3 DEF Handling, HandlerPc
<1>5. HandlerOK(new)
    BY <1>1, <1>4, AutoFacts DEF HandlerOK
<1> QED
    BY <1>1, <1>2, <1>3, <1>4, <1>5, MemoryStep

(* What EnsureJob leaves is again a chain of at most two jobs.              *)
LEMMA EnsuredJobs ==
    ASSUME AutoInv, NEW own, NEW new, Ensured(new, own), jobs' = new,
           NEW count \in Nat, faults' = count, count >= faults,
           handling'.job = handling.job \/ count = faults + 1
    PROVE  /\ jobs' \in [JobIds -> Job \cup {Unset}] /\ JobsOK' /\ Live' # {}
           /\ \E i \in JobIds \ {own} : jobs'[i] # Unset
           /\ \A i \in JobIds : jobs[i] # Unset /\ jobs[i].status = "running" => jobs'[i] = jobs[i]
<1>1. /\ new \in [JobIds -> Job \cup {Unset}]
      /\ \A i \in JobIds :
            \/ new[i] = jobs[i]
            \/ new[i] = Unset
            \/ new[i] # Unset /\ new[i].status = "pending" /\ new[i].attempts = 0
      /\ \A i \in JobIds :
            jobs[i] # Unset /\ (jobs[i].status = "running" \/ i = own) => new[i] = jobs[i]
      /\ \E i \in JobIds \ {own} : new[i] # Unset
      /\ \E a, b \in JobIds : {i \in JobIds : new[i] # Unset} \subseteq {a, b}
    BY DEF Ensured
<1>2. jobs' = new /\ Live' = {i \in JobIds : new[i] # Unset}
    BY DEF Live
<1>3. ASSUME NEW i \in JobIds, new[i] # Unset
      PROVE  /\ new[i].status = "pending" => new[i].attempts < MaxAttempts
             /\ new[i].attempts <= faults' + (IF handling'.job = i THEN 1 ELSE 0)
    <2>1. CASE new[i] = jobs[i]
        <3>1. /\ jobs[i].status = "pending" => jobs[i].attempts < MaxAttempts
              /\ jobs[i].attempts <= faults + (IF handling.job = i THEN 1 ELSE 0)
              /\ jobs[i].attempts \in Nat /\ faults \in Nat
            BY <1>1, <1>3, <2>1, AutoFacts DEF JobsOK, Job, AutoTypes
        <3> QED
            BY <2>1, <3>1
    <2>2. CASE new[i].status = "pending" /\ new[i].attempts = 0
        <3>1. 0 < MaxAttempts /\ faults' \in Nat
            BY AutoFacts
        <3>2. PICK more \in {0, 1} : more = IF handling'.job = i THEN 1 ELSE 0
            OBVIOUS
        <3>3. 0 <= faults' + more
            BY <3>1
        <3> QED
            BY <2>2, <3>1, <3>2, <3>3
    <2> QED
        BY <1>1, <1>3, <2>1, <2>2
<1>4. JobsOK'
    BY <1>1, <1>2, <1>3 DEF JobsOK
<1> QED
    BY <1>1, <1>2, <1>4

(* The handler schedules a successor: the chain goes on without its job.    *)
LEMMA SuccessorStep ==
    ASSUME AutoInv, overlap' = overlap, handling.pc # "idle",
           NEW new, Ensured(new, handling.job), jobs' = new,
           NEW pc \in {"load", "done"}, NEW why \in Connections \cup {"none", "scheduled"},
           Goto(pc, why),
           pc = "load" => why # "none" /\ handling.pc \notin {"config", "done"},
           UNCHANGED <<config, secret, st, ui, valid, failed, faults>>
    PROVE  AutoInv'
<1>1. /\ handling \in Handling /\ handling.job \in JobIds /\ jobs[handling.job] # Unset
      /\ jobs[handling.job].status = "running" /\ faults \in Nat
    BY AutoFacts DEF AutoTypes, HandlerOK
<1>2. PICK next : next = [handling EXCEPT !.pc = pc, !.why = why]
    OBVIOUS
<1>3. /\ next \in Handling /\ next.pc = pc /\ next.why = why /\ next.job = handling.job
      /\ next.cfg = handling.cfg /\ next.key = handling.key /\ handling' = next
    BY <1>1, <1>2 DEF Goto, Handling, HandlerPc
<1>4. /\ jobs' \in [JobIds -> Job \cup {Unset}] /\ JobsOK' /\ Live' # {}
      /\ \E i \in JobIds \ {handling.job} : jobs'[i] # Unset
      /\ jobs'[handling.job] = jobs[handling.job]
    <2>1. PICK own \in JobIds, count \in Nat : own = handling.job /\ count = faults
        BY <1>1
    <2>2. /\ faults' = count /\ count >= faults /\ handling'.job = handling.job
          /\ Ensured(new, own)
        BY <1>1, <1>3, <2>1
    <2> QED
        BY <1>1, <2>1, <2>2, EnsuredJobs
<1>5. HandlerOK(handling)'
    BY <1>1, <1>3, <1>4, AutoFacts DEF HandlerOK, Relieved
<1>6. AutoTypes' /\ OperationOK(ui)' /\ KeysOK' /\ ChainOK'
    BY <1>3, <1>4, AutoFacts DEF AutoTypes, OperationOK, KeysOK, ChainOK
<1> QED
    BY <1>4, <1>5, <1>6 DEF AutoInv

LEMMA LoadConfigStep ==
    ASSUME AutoInv, overlap' = overlap, LoadConfig
    PROVE  AutoInv'
<1>1. handling.pc = "config" /\ UNCHANGED <<config, secret, st, ui, valid, failed, faults>>
    BY DEF LoadConfig, files
<1>2. CASE ~Active(config)
    <2>1. Goto("done", "none") /\ jobs' = jobs
        BY <1>2 DEF LoadConfig
    <2>2. Relieved(handling)
        BY <1>2 DEF Relieved
    <2> QED
        BY <1>1, <2>1, <2>2, GotoStep DEF HandlerPc
<1>3. CASE Active(config) /\ config.generation # jobs[handling.job].generation
    <2>1. /\ jobs' = EnsureJob(config.generation, TRUE, FALSE, handling.job, 0)
          /\ Goto("done", "none")
        BY <1>3 DEF LoadConfig
    <2>2. PICK generation \in Nat : generation = config.generation
        BY <1>3, AutoFacts DEF Active, AutoTypes, Config
    <2>3. PICK own \in JobIds : own = handling.job /\ jobs[own] # Unset
        BY <1>1, AutoFacts DEF HandlerOK
    <2>4. PICK new : new = EnsureJob(generation, TRUE, FALSE, own, 0)
        OBVIOUS
    <2>5. jobs' = new
        BY <2>1, <2>2, <2>3, <2>4
    <2>6. Ensured(new, own)
        BY <2>3, <2>4, TRUE \in BOOLEAN, FALSE \in BOOLEAN, 0 \in 0..2, EnsureFacts
    <2> QED
        BY <1>1, <2>1, <2>3, <2>5, <2>6, SuccessorStep
<1>4. CASE Active(config) /\ config.generation = jobs[handling.job].generation
    <2>1. PICK new : new = [handling EXCEPT !.pc = "secret", !.cfg = config]
        OBVIOUS
    <2>2. handling' = new /\ jobs' = jobs
        BY <1>4, <2>1 DEF LoadConfig
    <2>3. config \in Config /\ config # Unset /\ ~config.blocked
        BY <1>4, AutoFacts DEF Active, AutoTypes
    <2>4. /\ new \in Handling /\ new.pc = "secret" /\ new.job = handling.job
          /\ new.cfg = config /\ new.key = handling.key /\ new.why = handling.why
        BY <2>1, <2>3, AutoFacts DEF AutoTypes, Handling, HandlerPc
    <2>5. HandlerOK(new)
        BY <1>1, <1>4, <2>3, <2>4, AutoFacts DEF HandlerOK, KeysOK
    <2> QED
        BY <1>1, <2>2, <2>4, <2>5, MemoryStep
<1> QED
    BY <1>2, <1>3, <1>4

LEMMA ScheduleStep ==
    ASSUME AutoInv, overlap' = overlap, ScheduleRetry \/ ScheduleNext
    PROVE  AutoInv'
<1>1. handling.pc \in {"retry", "next"} /\ UNCHANGED <<config, secret, st, ui, valid, failed, faults>>
    BY DEF ScheduleRetry, ScheduleNext, files
<1>2. PICK generation \in Nat : generation = handling.cfg.generation
    BY <1>1, AutoFacts DEF HandlerOK, Config
<1>3. PICK own \in JobIds : own = handling.job /\ jobs[own] # Unset
    BY <1>1, AutoFacts DEF HandlerOK
<1>4. CASE ScheduleRetry
    <2>1. /\ handling.pc = "retry" /\ handling.why = "retry-scheduled"
          /\ jobs[handling.job].retry < 2 /\ jobs[handling.job] \in Job
        BY <1>4, AutoFacts DEF ScheduleRetry, HandlerOK, AutoTypes
    <2>2. PICK retry \in 0..2 : retry = jobs[handling.job].retry + 1
        BY <2>1 DEF Job
    <2>3. PICK new : new = EnsureJob(generation, FALSE, FALSE, own, retry)
        OBVIOUS
    <2>4. jobs' = new /\ Goto("load", "retry-scheduled")
        BY <1>2, <1>4, <1>3, <2>1, <2>2, <2>3 DEF ScheduleRetry
    <2>5. Ensured(new, own)
        BY <1>3, <2>3, FALSE \in BOOLEAN, EnsureFacts
    <2> QED
        BY <1>1, <1>3, <2>4, <2>5, SuccessorStep DEF Connections
<1>5. CASE ScheduleNext
    <2>1. PICK new : new = EnsureJob(generation, FALSE, FALSE, own, 0)
        OBVIOUS
    <2>2. jobs' = new /\ Goto("load", "scheduled")
        BY <1>2, <1>5, <1>3, <2>1 DEF ScheduleNext
    <2>3. Ensured(new, own)
        BY <1>3, <2>1, FALSE \in BOOLEAN, 0 \in 0..2, EnsureFacts
    <2> QED
        BY <1>1, <1>3, <2>2, <2>3, SuccessorStep
<1> QED
    BY <1>4, <1>5

(* One row of the queue changes and stays there.                            *)
LEMMA RowChanges ==
    ASSUME AutoInv, overlap' = overlap, NEW i \in JobIds, jobs[i] # Unset, NEW row \in Job,
           jobs' = [jobs EXCEPT ![i] = row],
           row.status = "pending" => row.attempts < MaxAttempts,
           NEW count \in Nat, faults' = count, count >= faults,
           row.attempts <= count + (IF handling'.job = i THEN 1 ELSE 0),
           \A j \in JobIds \ {i} : handling.job = j => handling'.job = j \/ count = faults + 1
    PROVE  /\ jobs' \in [JobIds -> Job \cup {Unset}] /\ JobsOK' /\ Live' = Live
           /\ jobs'[i] = row /\ \A j \in JobIds \ {i} : jobs'[j] = jobs[j]
<1>1. /\ jobs \in [JobIds -> Job \cup {Unset}] /\ row # Unset /\ faults \in Nat
    BY AutoFacts DEF AutoTypes
<1>2. PICK new : new = [jobs EXCEPT ![i] = row]
    OBVIOUS
<1>3. /\ new \in [JobIds -> Job \cup {Unset}] /\ jobs' = new
      /\ new[i] = row /\ \A j \in JobIds \ {i} : new[j] = jobs[j]
    BY <1>1, <1>2
<1>4. Live' = Live
    BY <1>1, <1>3 DEF Live
<1>5. ASSUME NEW j \in JobIds, new[j] # Unset
      PROVE  /\ new[j].status = "pending" => new[j].attempts < MaxAttempts
             /\ new[j].attempts <= faults' + (IF handling'.job = j THEN 1 ELSE 0)
    <2>1. CASE j = i
        BY <1>3, <2>1
    <2>2. CASE j # i
        <3>1. /\ jobs[j].status = "pending" => jobs[j].attempts < MaxAttempts
              /\ jobs[j].attempts <= faults + (IF handling.job = j THEN 1 ELSE 0)
              /\ jobs[j].attempts \in Nat /\ new[j] = jobs[j]
            BY <1>1, <1>3, <1>5, <2>2, AutoFacts DEF JobsOK, Job
        <3> QED
            BY <1>1, <2>2, <3>1
    <2> QED
        BY <2>1, <2>2
<1>6. JobsOK'
    BY <1>3, <1>4, <1>5, AutoFacts DEF JobsOK
<1> QED
    BY <1>3, <1>4, <1>6

(* One row leaves the queue.                                                *)
LEMMA RowLeaves ==
    ASSUME AutoInv, overlap' = overlap, NEW i \in JobIds, jobs' = [jobs EXCEPT ![i] = Unset],
           NEW count \in Nat, faults' = count, count >= faults,
           \A j \in JobIds \ {i} : handling.job = j => handling'.job = j \/ count = faults + 1
    PROVE  /\ jobs' \in [JobIds -> Job \cup {Unset}] /\ JobsOK'
           /\ \A j \in JobIds \ {i} : jobs'[j] = jobs[j]
<1>1. /\ jobs \in [JobIds -> Job \cup {Unset}] /\ faults \in Nat
    BY AutoFacts DEF AutoTypes
<1>2. PICK new : new = [jobs EXCEPT ![i] = Unset]
    OBVIOUS
<1>3. /\ new \in [JobIds -> Job \cup {Unset}] /\ jobs' = new
      /\ new[i] = Unset /\ \A j \in JobIds \ {i} : new[j] = jobs[j]
    BY <1>1, <1>2
<1>4. Live' \subseteq Live
    BY <1>1, <1>3 DEF Live
<1>5. ASSUME NEW j \in JobIds, new[j] # Unset
      PROVE  /\ new[j].status = "pending" => new[j].attempts < MaxAttempts
             /\ new[j].attempts <= faults' + (IF handling'.job = j THEN 1 ELSE 0)
    <2>1. j # i
        BY <1>3, <1>5
    <2>2. /\ jobs[j].status = "pending" => jobs[j].attempts < MaxAttempts
          /\ jobs[j].attempts <= faults + (IF handling.job = j THEN 1 ELSE 0)
          /\ jobs[j].attempts \in Nat /\ new[j] = jobs[j]
        BY <1>1, <1>3, <1>5, <2>1, AutoFacts DEF JobsOK, Job
    <2> QED
        BY <1>1, <2>1, <2>2
<1>6. JobsOK'
    BY <1>3, <1>4, <1>5, AutoFacts DEF JobsOK
<1> QED
    BY <1>3, <1>6

LEMMA DueStep ==
    ASSUME AutoInv, overlap' = overlap, NEW i \in JobIds, Due(i)
    PROVE  AutoInv'
<1>1. /\ jobs[i] # Unset /\ jobs[i] \in Job /\ jobs[i].status = "pending" /\ faults \in Nat
      /\ jobs \in [JobIds -> Job \cup {Unset}]
      /\ UNCHANGED <<config, secret, st, handling, ui, valid, failed, faults>>
    BY AutoFacts DEF Due, files, AutoTypes
<1>2. PICK row : row = [jobs[i] EXCEPT !.due = TRUE]
    OBVIOUS
<1>3. /\ row \in Job /\ row.status = "pending" /\ row.attempts = jobs[i].attempts
      /\ jobs' = [jobs EXCEPT ![i] = row]
    BY <1>1, <1>2 DEF Due, Job
<1>4. PICK count \in Nat : count = faults
    BY <1>1
<1>5. /\ row.attempts < MaxAttempts
      /\ row.attempts <= count + (IF handling'.job = i THEN 1 ELSE 0)
    BY <1>1, <1>3, <1>4, AutoFacts DEF JobsOK
<1>6. /\ faults' = count /\ count >= faults /\ jobs[i] # Unset
      /\ row.status = "pending" => row.attempts < MaxAttempts
      /\ \A j \in JobIds \ {i} : handling.job = j => handling'.job = j \/ count = faults + 1
    BY <1>1, <1>4, <1>5
<1>7. /\ jobs' \in [JobIds -> Job \cup {Unset}] /\ JobsOK' /\ Live' = Live
      /\ \A j \in JobIds \ {i} : jobs'[j] = jobs[j]
    BY <1>3, <1>5, <1>6, RowChanges
<1>8. \A j \in JobIds : jobs'[j] # Unset <=> jobs[j] # Unset
    BY <1>7 DEF Live
<1>9. HandlerOK(handling)'
    BY <1>1, <1>7, <1>8, AutoFacts DEF HandlerOK, Relieved
<1>10. AutoTypes' /\ OperationOK(ui)' /\ KeysOK' /\ ChainOK'
    BY <1>1, <1>7, AutoFacts DEF AutoTypes, OperationOK, KeysOK, ChainOK, Steady
<1> QED
    BY <1>7, <1>9, <1>10 DEF AutoInv

(* No handler runs.                                                         *)
LEMMA IdleHandler ==
    ASSUME handling' = NoExec
    PROVE  handling' \in Handling /\ HandlerOK(handling)' /\ handling'.job = Unset
BY DEF NoExec, EmptyState, Handling, HandlerPc, State, Connections, HandlerOK

LEMMA ClaimStep ==
    ASSUME AutoInv, overlap' = overlap, NEW i \in JobIds, Claim(i)
    PROVE  AutoInv'
<1>1. /\ jobs[i] # Unset /\ jobs[i] \in Job /\ jobs[i].status = "pending" /\ faults \in Nat
      /\ jobs \in [JobIds -> Job \cup {Unset}]
      /\ handling.pc = "idle" /\ handling.job = Unset /\ (overlap \/ ui.op = "idle")
      /\ UNCHANGED <<config, secret, st, ui, valid, failed, faults>>
    BY AutoFacts DEF Claim, files, AutoTypes, HandlerOK
<1>2. /\ jobs[i].attempts < MaxAttempts /\ jobs[i].attempts <= faults
      /\ jobs[i].attempts \in 0..MaxAttempts
    BY <1>1, AutoFacts DEF JobsOK, Job
<1>3. PICK row : row = [jobs[i] EXCEPT !.status = "running", !.attempts = jobs[i].attempts + 1]
    OBVIOUS
<1>4. jobs[i].attempts + 1 \in 0..MaxAttempts /\ jobs[i].attempts + 1 <= faults + 1
    BY <1>1, <1>2, AutoFacts
<1>5. /\ row \in Job /\ row.status = "running" /\ row.attempts <= faults + 1
    BY <1>1, <1>3, <1>4 DEF Job
<1>6. jobs' = [jobs EXCEPT ![i] = row]
    BY <1>1, <1>3 DEF Claim
<1>7. PICK new : new = [NoExec EXCEPT !.pc = "config", !.job = i]
    OBVIOUS
<1>8. /\ new \in Handling /\ new.pc = "config" /\ new.job = i /\ handling' = new
    BY <1>7 DEF Claim, NoExec, EmptyState, Handling, HandlerPc, State, Connections
<1>9. PICK count \in Nat : count = faults
    BY <1>1
<1>10. row.attempts <= count + (IF handling'.job = i THEN 1 ELSE 0)
    BY <1>5, <1>8, <1>9
<1>11. /\ faults' = count /\ count >= faults
       /\ row.status = "pending" => row.attempts < MaxAttempts
       /\ \A j \in JobIds \ {i} : handling.job = j => handling'.job = j \/ count = faults + 1
    BY <1>1, <1>5, <1>9, AutoFacts
<1>12. /\ jobs' \in [JobIds -> Job \cup {Unset}] /\ JobsOK' /\ Live' = Live
       /\ jobs'[i] = row
    BY <1>1, <1>5, <1>6, <1>10, <1>11, RowChanges
<1>13. HandlerOK(handling)'
    BY <1>1, <1>5, <1>8, <1>12, AutoFacts DEF HandlerOK
<1>14. AutoTypes' /\ OperationOK(ui)' /\ KeysOK' /\ ChainOK'
    BY <1>1, <1>8, <1>12, AutoFacts DEF AutoTypes, OperationOK, KeysOK, ChainOK, Steady
<1> QED
    BY <1>12, <1>13, <1>14 DEF AutoInv

(* An attempt that did not end is repeated, or its job leaves the queue:    *)
(* then it has met MaxAttempts faults.                                      *)
LEMMA RetriedJobs ==
    ASSUME AutoInv, overlap' = overlap, NEW i \in JobIds, jobs[i] # Unset, jobs' = Retried(i),
           NEW count \in Nat, faults' = count, count >= faults,
           (handling'.job = handling.job /\ handling.job # i) \/ count = faults + 1
    PROVE  /\ jobs' \in [JobIds -> Job \cup {Unset}] /\ JobsOK'
           /\ \A j \in JobIds \ {i} : jobs'[j] = jobs[j]
           /\ jobs[i].attempts < MaxAttempts => Live' = Live
<1>1. /\ jobs[i] \in Job /\ jobs[i].attempts \in Nat /\ faults \in Nat
      /\ jobs[i].attempts <= faults + (IF handling.job = i THEN 1 ELSE 0)
      /\ jobs \in [JobIds -> Job \cup {Unset}]
    BY AutoFacts DEF AutoTypes, JobsOK, Job
<1>2. CASE jobs[i].attempts < MaxAttempts
    <2>1. PICK row : row = [jobs[i] EXCEPT !.status = "pending", !.due = FALSE]
        OBVIOUS
    <2>2. /\ row \in Job /\ row.attempts = jobs[i].attempts
        BY <1>1, <2>1 DEF Job
    <2>3. jobs' = [jobs EXCEPT ![i] = row]
        BY <1>1, <1>2, <2>1 DEF Retried
    <2>4. row.attempts <= count + (IF handling'.job = i THEN 1 ELSE 0)
        BY <1>1, <2>2
    <2> QED
        BY <1>2, <2>2, <2>3, <2>4, RowChanges
<1>3. CASE ~(jobs[i].attempts < MaxAttempts)
    <2>1. jobs' = [jobs EXCEPT ![i] = Unset]
        BY <1>3 DEF Retried
    <2> QED
        BY <1>3, <2>1, RowLeaves
<1> QED
    BY <1>2, <1>3

LEMMA RecoverStep ==
    ASSUME AutoInv, overlap' = overlap, NEW i \in JobIds, Recover(i)
    PROVE  AutoInv'
<1>1. /\ jobs[i] # Unset /\ jobs[i].status = "running" /\ handling.job # i
      /\ jobs' = Retried(i) /\ faults \in Nat
      /\ UNCHANGED <<config, secret, st, handling, ui, valid, failed, faults>>
    BY AutoFacts DEF Recover, files, AutoTypes
<1>2. PICK count \in Nat : count = faults
    BY <1>1
<1>3. /\ faults' = count /\ count >= faults
      /\ handling'.job = handling.job /\ handling.job # i
    BY <1>1, <1>2
<1>4. /\ jobs' \in [JobIds -> Job \cup {Unset}] /\ JobsOK'
      /\ \A j \in JobIds \ {i} : jobs'[j] = jobs[j]
      /\ jobs[i].attempts < MaxAttempts => Live' = Live
    BY <1>1, <1>3, RetriedJobs
<1>5. Steady => Live' = Live
    <2>1. jobs[i].attempts <= faults /\ jobs[i].attempts \in Nat /\ faults <= MaxFaults
        BY <1>1, AutoFacts DEF JobsOK, AutoTypes, Job
    <2>2. MaxFaults < MaxAttempts => jobs[i].attempts < MaxAttempts
        BY <1>1, <2>1, AutoFacts
    <2> QED
        BY <1>4, <2>2 DEF Steady
<1>6. Steady => \A j \in JobIds : jobs'[j] # Unset <=> jobs[j] # Unset
    BY <1>5 DEF Live
<1>7. HandlerOK(handling)'
    <2>1. PICK h : h = handling
        OBVIOUS
    <2>2. handling' = h
        BY <1>1, <2>1
    <2>3. h.pc # "idle" => h.job \in JobIds \ {i} /\ jobs'[h.job] = jobs[h.job]
        BY <1>1, <1>4, <2>1, AutoFacts DEF HandlerOK
    <2>4. Steady => (Relieved(h) => Relieved(h)')
        BY <1>1, <1>6 DEF Relieved
    <2>5. HandlerOK(h)
        BY <2>1, AutoFacts
    <2>6. HandlerOK(h)'
        BY <1>1, <2>3, <2>4, <2>5 DEF HandlerOK, Steady
    <2> QED
        BY <2>2, <2>6 DEF HandlerOK, Relieved
<1>8. AutoTypes' /\ OperationOK(ui)' /\ KeysOK' /\ ChainOK'
    BY <1>1, <1>4, <1>5, AutoFacts DEF AutoTypes, OperationOK, KeysOK, ChainOK, Steady
<1> QED
    BY <1>4, <1>7, <1>8 DEF AutoInv

LEMMA UnexpectedErrorStep ==
    ASSUME AutoInv, overlap' = overlap, UnexpectedError
    PROVE  AutoInv'
<1>1. /\ handling.pc # "idle" /\ faults < MaxFaults /\ faults \in Nat /\ faults' = faults + 1
      /\ jobs' = Retried(handling.job) /\ handling' = NoExec
      /\ UNCHANGED <<config, secret, st, ui, valid, failed>>
    BY AutoFacts DEF UnexpectedError, files, AutoTypes
<1>2. PICK i \in JobIds : i = handling.job /\ jobs[i] # Unset
    BY <1>1, AutoFacts DEF HandlerOK
<1>3. PICK count \in Nat : count = faults + 1
    BY <1>1
<1>4. jobs' = Retried(i) /\ faults' = count /\ count >= faults
    BY <1>1, <1>2, <1>3
<1>5. /\ jobs' \in [JobIds -> Job \cup {Unset}] /\ JobsOK'
      /\ jobs[i].attempts < MaxAttempts => Live' = Live
    BY <1>2, <1>3, <1>4, RetriedJobs
<1>6. Steady => Live' = Live
    <2>1. /\ jobs[i].attempts <= faults + 1 /\ jobs[i].attempts \in Nat
        BY <1>1, <1>2, AutoFacts DEF JobsOK, AutoTypes, Job
    <2>2. MaxFaults < MaxAttempts => jobs[i].attempts < MaxAttempts
        BY <1>1, <2>1, AutoFacts
    <2> QED
        BY <1>5, <2>2 DEF Steady
<1>7. handling' \in Handling /\ HandlerOK(handling)'
    BY <1>1, IdleHandler
<1>8. faults' \in Nat /\ faults' <= MaxFaults
    BY <1>1, AutoFacts
<1>9. AutoTypes' /\ OperationOK(ui)' /\ KeysOK' /\ ChainOK'
    BY <1>1, <1>5, <1>6, <1>7, <1>8, AutoFacts DEF AutoTypes, OperationOK, KeysOK, ChainOK, Steady
<1> QED
    BY <1>5, <1>7, <1>9 DEF AutoInv

LEMMA FinishStep ==
    ASSUME AutoInv, overlap' = overlap, Finish
    PROVE  AutoInv'
<1>1. /\ handling.pc = "done" /\ jobs' = [jobs EXCEPT ![handling.job] = Unset]
      /\ handling' = NoExec /\ faults \in Nat
      /\ UNCHANGED <<config, secret, st, ui, valid, failed, faults>>
    BY AutoFacts DEF Finish, files, AutoTypes
<1>2. PICK i \in JobIds : i = handling.job
    BY <1>1, AutoFacts DEF HandlerOK
<1>3. PICK count \in Nat : count = faults
    BY <1>1
<1>4. /\ jobs' = [jobs EXCEPT ![i] = Unset] /\ faults' = count /\ count >= faults
      /\ \A j \in JobIds \ {i} : handling.job = j => handling'.job = j \/ count = faults + 1
    BY <1>1, <1>2, <1>3
<1>5. /\ jobs' \in [JobIds -> Job \cup {Unset}] /\ JobsOK'
      /\ \A j \in JobIds \ {i} : jobs'[j] = jobs[j]
    BY <1>4, RowLeaves
<1>6. Steady => st.conn = "quota-reserve-paused" \/ ~Active(config) \/ Live' # {}
    BY <1>1, <1>2, <1>5, AutoFacts DEF HandlerOK, Relieved, Live
<1>7. handling' \in Handling /\ HandlerOK(handling)'
    BY <1>1, IdleHandler
<1>8. AutoTypes'
    BY <1>1, <1>5, <1>7, AutoFacts DEF AutoTypes
<1>9. OperationOK(ui)' /\ KeysOK'
    BY <1>1, AutoFacts DEF OperationOK, KeysOK
<1>10. ChainOK'
    BY <1>1, <1>6, AutoFacts DEF ChainOK, Active, Steady
<1> QED
    BY <1>5, <1>7, <1>8, <1>9, <1>10 DEF AutoInv

(* Only the memory of the operation in the UI process changes.              *)
LEMMA OperationStep ==
    ASSUME AutoInv, overlap' = overlap, overlap \/ handling.pc = "idle",
           NEW new \in Operation, ui' = new,
           OperationOK(new),
           Steady => (\/ ~Active(config) \/ st.conn = "quota-reserve-paused" \/ Live # {}
                      \/ new.op # "idle" /\ new.pc # "validate"),
           UNCHANGED <<config, secret, st, jobs, handling, valid, failed, faults>>
    PROVE  AutoInv'
<1>1. AutoTypes' /\ KeysOK' /\ JobsOK'
    BY AutoFacts DEF AutoTypes, KeysOK, JobsOK, Live
<1>2. HandlerOK(handling)'
    BY AutoFacts, BoundsAssumption DEF HandlerOK, Relieved, Steady
<1>3. OperationOK(ui)'
    BY DEF OperationOK
<1>4. ChainOK'
    BY DEF ChainOK, Live, Steady
<1> QED
    BY <1>1, <1>2, <1>3, <1>4 DEF AutoInv

LEMMA EnableStep ==
    ASSUME AutoInv, overlap' = overlap, NEW k \in Keys, NEW q \in Quotas, Enable(k, q)
    PROVE  AutoInv'
<1>1. /\ k \in valid /\ (overlap \/ handling.pc = "idle")
      /\ UNCHANGED <<config, secret, st, jobs, handling, valid, failed, faults>>
    BY DEF Enable, MayChange, MayAct, files
<1>2. PICK state : state = [EmptyState EXCEPT !.conn = "validated", !.quota = q]
    OBVIOUS
<1>3. state \in State
    BY <1>2 DEF EmptyState, State, Connections
<1>4. PICK new : new = [op |-> "enable", pc |-> "read", cfg |-> Unset, key |-> k, st |-> state]
    OBVIOUS
<1>5. new \in Operation /\ ui' = new
    BY <1>2, <1>3, <1>4 DEF Enable, Operation, UiOp, UiPc
<1>6. /\ new.op = "enable" /\ new.pc = "read" /\ new.cfg = Unset /\ new.key = k
      /\ k \notin failed
    BY <1>1, <1>4, AutoFacts DEF KeysOK
<1>7. OperationOK(new)
    BY <1>6 DEF OperationOK
<1> QED
    BY <1>1, <1>5, <1>6, <1>7, OperationStep

LEMMA ReadPriorStep ==
    ASSUME AutoInv, overlap' = overlap, ReadPrior
    PROVE  AutoInv'
<1>1. /\ ui.pc = "read" /\ ui \in Operation /\ ui.op = "enable" /\ ui.key \in Keys
      /\ UNCHANGED <<config, secret, st, jobs, handling, valid, failed, faults>>
    BY AutoFacts DEF ReadPrior, files, AutoTypes, OperationOK
<1>2. PICK generation : generation = IF config = Unset THEN 1 ELSE config.generation + 1
    OBVIOUS
<1>3. generation \in Nat
    BY <1>2, AutoFacts DEF AutoTypes, Config
<1>4. PICK cfg : cfg = [paused |-> FALSE, blocked |-> FALSE, generation |-> generation]
    OBVIOUS
<1>5. cfg \in Config /\ ~cfg.blocked
    BY <1>3, <1>4 DEF Config
<1>6. PICK new : new = [ui EXCEPT !.pc = "secret", !.cfg = cfg]
    OBVIOUS
<1>7. /\ new \in Operation /\ ui' = new /\ new.pc = "secret" /\ new.op = "enable"
      /\ new.cfg = cfg /\ new.key = ui.key
    BY <1>1, <1>2, <1>4, <1>5, <1>6 DEF ReadPrior, Operation, UiOp, UiPc
<1>8. OperationOK(new) /\ (overlap \/ handling.pc = "idle")
    BY <1>1, <1>5, <1>7, AutoFacts, BoundsAssumption DEF OperationOK, HandlerOK
<1> QED
    BY <1>1, <1>7, <1>8, OperationStep

(* What starts or ends the operations that work on the stored configuration. *)
LEMMA NoOperation ==
    NoUi \in Operation /\ NoUi.op = "idle" /\ NoUi.pc = "idle" /\ NoUi.cfg = Unset
BY DEF NoUi, EmptyState, Operation, UiOp, UiPc, State, Connections

LEMMA NoOperationOK ==
    ASSUME AutoInv
    PROVE  OperationOK(NoUi)
BY NoOperation, AutoFacts DEF OperationOK

LEMMA ReplaceKeyStep ==
    ASSUME AutoInv, overlap' = overlap, NEW k \in Keys, ReplaceKey(k)
    PROVE  AutoInv'
<1>1. /\ ui.op = "idle" /\ (overlap \/ handling.pc = "idle") /\ config # Unset
      /\ UNCHANGED <<config, secret, st, jobs, handling, valid, failed, faults>>
    BY DEF ReplaceKey, MayChange, MayAct, files
<1>2. PICK generation : generation = config.generation + 1
    OBVIOUS
<1>3. generation \in Nat
    BY <1>1, <1>2, AutoFacts DEF AutoTypes, Config
<1>4. PICK cfg : cfg = [paused |-> FALSE, blocked |-> FALSE, generation |-> generation]
    OBVIOUS
<1>5. cfg \in Config /\ ~cfg.blocked
    BY <1>3, <1>4 DEF Config
<1>6. PICK new : new = [NoUi EXCEPT !.op = "replace", !.pc = "validate", !.key = k, !.cfg = cfg]
    OBVIOUS
<1>7. /\ new \in Operation /\ ui' = new /\ new.pc = "validate" /\ new.op = "replace"
      /\ new.cfg = cfg /\ new.key = k
    BY <1>2, <1>4, <1>5, <1>6, NoOperation DEF ReplaceKey, Operation, UiOp, UiPc
<1>8. OperationOK(new)
    BY <1>1, <1>5, <1>7, AutoFacts DEF OperationOK
<1>9. Steady => ~Active(config) \/ st.conn = "quota-reserve-paused" \/ Live # {}
    BY <1>1, AutoFacts DEF ChainOK
<1> QED
    BY <1>1, <1>7, <1>8, <1>9, OperationStep

LEMMA ValidateKeyStep ==
    ASSUME AutoInv, overlap' = overlap, NEW q \in Quotas, ValidateKey(q)
    PROVE  AutoInv'
<1>1. /\ ui.pc = "validate" /\ ui \in Operation /\ (overlap \/ handling.pc = "idle")
      /\ ui.op \in {"enable", "replace"} /\ ui.key \in Keys /\ ui.cfg \in Config
      /\ UNCHANGED <<config, secret, st, jobs, handling, valid, failed, faults>>
    BY AutoFacts, BoundsAssumption DEF ValidateKey, files, AutoTypes, OperationOK, HandlerOK
<1>2. Steady => ~Active(config) \/ st.conn = "quota-reserve-paused" \/ Live # {}
    BY <1>1, AutoFacts DEF ChainOK
<1>3. CASE ui.key \in valid
    <2>1. PICK state : state = [ui.st EXCEPT !.quota = q]
        OBVIOUS
    <2>2. state \in State
        BY <1>1, <2>1 DEF Operation, State
    <2>3. PICK new : new = [ui EXCEPT !.pc = "secret", !.st = state]
        OBVIOUS
    <2>4. ui' = new
        BY <1>1, <1>3, <2>1, <2>3 DEF ValidateKey, Operation
    <2>5. /\ new \in Operation /\ new.pc = "secret" /\ new.op = ui.op /\ new.key = ui.key
          /\ new.cfg = ui.cfg
        BY <1>1, <2>2, <2>3 DEF Operation, UiPc
    <2>6. OperationOK(new)
        BY <1>1, <1>3, <2>5, AutoFacts DEF OperationOK, KeysOK
    <2> QED
        BY <1>1, <1>2, <2>4, <2>5, <2>6, OperationStep
<1>4. CASE ui.key \notin valid
    <2>1. ui' = NoUi
        BY <1>4 DEF ValidateKey
    <2> QED
        BY <1>1, <1>2, <2>1, NoOperation, NoOperationOK, OperationStep
<1> QED
    BY <1>3, <1>4

LEMMA SetPausedStep ==
    ASSUME AutoInv, overlap' = overlap, NEW paused \in BOOLEAN, SetPaused(paused)
    PROVE  AutoInv'
<1>1. /\ ui.op = "idle" /\ (overlap \/ handling.pc = "idle") /\ config \in Config
      /\ config # Unset /\ secret # Unset
      /\ UNCHANGED <<config, secret, st, jobs, handling, valid, failed, faults>>
    BY AutoFacts DEF SetPaused, MayChange, MayAct, files, AutoTypes, KeysOK
<1>2. PICK generation \in Nat : generation = config.generation + 1
    BY <1>1 DEF Config
<1>3. PICK cfg : cfg = [config EXCEPT !.paused = paused, !.generation = generation]
    OBVIOUS
<1>4. cfg \in Config /\ cfg.blocked = config.blocked /\ cfg.paused = paused
    BY <1>1, <1>3 DEF Config
<1>5. PICK op \in {"pause", "resume"} : op = IF paused THEN "pause" ELSE "resume"
    OBVIOUS
<1>6. PICK new : new = [NoUi EXCEPT !.op = op, !.pc = "config", !.cfg = cfg]
    OBVIOUS
<1>7. ui' = new
    BY <1>1, <1>3, <1>5, <1>6, <1>2 DEF SetPaused, Config
<1>8. /\ new \in Operation /\ new.pc = "config" /\ new.op = op /\ new.cfg = cfg
    BY <1>4, <1>5, <1>6, NoOperation DEF Operation, UiOp, UiPc
<1>9. OperationOK(new)
    BY <1>1, <1>4, <1>5, <1>8, AutoFacts DEF OperationOK, KeysOK
<1>10. Steady => ~Active(config) \/ st.conn = "quota-reserve-paused" \/ Live # {}
    BY <1>1, AutoFacts DEF ChainOK
<1> QED
    BY <1>1, <1>7, <1>8, <1>9, <1>10, OperationStep

LEMMA RunNowStep ==
    ASSUME AutoInv, overlap' = overlap, RunNow
    PROVE  AutoInv'
<1>1. /\ ui.op = "idle" /\ (overlap \/ handling.pc = "idle") /\ config \in Config
      /\ config # Unset
      /\ UNCHANGED <<config, secret, st, jobs, handling, valid, failed, faults>>
    BY AutoFacts DEF RunNow, Active, MayAct, files, AutoTypes
<1>2. PICK new : new = [NoUi EXCEPT !.op = "run now", !.pc = "ensure", !.cfg = config]
    OBVIOUS
<1>3. /\ ui' = new /\ new \in Operation /\ new.pc = "ensure" /\ new.op = "run now"
      /\ new.cfg = config
    BY <1>1, <1>2, NoOperation DEF RunNow, Operation, UiOp, UiPc
<1>4. OperationOK(new)
    BY <1>1, <1>3, AutoFacts DEF OperationOK
<1> QED
    BY <1>1, <1>3, <1>4, OperationStep

LEMMA UiLoadStateStep ==
    ASSUME AutoInv, overlap' = overlap, UiLoadState
    PROVE  AutoInv'
<1>1. /\ ui.pc = "load" /\ ui \in Operation /\ (overlap \/ handling.pc = "idle") /\ st \in State
      /\ ui.op # "idle" /\ ui.cfg \in Config /\ config # Unset
      /\ UNCHANGED <<config, secret, st, jobs, handling, valid, failed, faults>>
    BY AutoFacts, BoundsAssumption DEF UiLoadState, files, AutoTypes, OperationOK, HandlerOK
<1>2. PICK state : state = [st EXCEPT !.conn = "validated", !.quota = ui.st.quota]
    OBVIOUS
<1>3. state \in State
    BY <1>1, <1>2 DEF Operation, State, Connections
<1>4. PICK new : new = [ui EXCEPT !.pc = "write", !.st = state]
    OBVIOUS
<1>5. /\ new \in Operation /\ ui' = new /\ new.pc = "write" /\ new.op = ui.op
      /\ new.key = ui.key /\ new.cfg = ui.cfg
    BY <1>1, <1>2, <1>3, <1>4 DEF UiLoadState, Operation, UiPc
<1>6. OperationOK(new)
    BY <1>1, <1>5, AutoFacts DEF OperationOK
<1> QED
    BY <1>1, <1>5, <1>6, OperationStep

LEMMA ReloadStep ==
    ASSUME AutoInv, overlap' = overlap, Reload
    PROVE  AutoInv'
<1>1. /\ ui.pc = "reload" /\ ui \in Operation /\ (overlap \/ handling.pc = "idle")
      /\ ui.op = "resume" /\ config # Unset /\ config \in Config
      /\ UNCHANGED <<config, secret, st, jobs, handling, valid, failed, faults>>
    BY AutoFacts, BoundsAssumption DEF Reload, files, AutoTypes, OperationOK, HandlerOK
<1>2. PICK new : new = [ui EXCEPT !.pc = "ensure", !.cfg = config]
    OBVIOUS
<1>3. /\ new \in Operation /\ ui' = new /\ new.pc = "ensure" /\ new.op = "resume"
      /\ new.key = ui.key /\ new.cfg = config
    BY <1>1, <1>2 DEF Reload, Operation, UiPc
<1>4. OperationOK(new)
    BY <1>1, <1>3, AutoFacts DEF OperationOK
<1> QED
    BY <1>1, <1>3, <1>4, OperationStep

LEMMA UiEnsureJobStep ==
    ASSUME AutoInv, overlap' = overlap, UiEnsureJob
    PROVE  AutoInv'
<1>1. /\ ui.pc = "ensure" /\ ui.op # "idle" /\ ui.cfg \in Config /\ ui' = NoUi /\ faults \in Nat
      /\ (overlap \/ handling.pc = "idle")
      /\ UNCHANGED <<config, secret, st, handling, valid, failed, faults>>
    BY AutoFacts, BoundsAssumption DEF UiEnsureJob, files, AutoTypes, OperationOK, HandlerOK
<1>2. PICK generation \in Nat : generation = ui.cfg.generation
    BY <1>1 DEF Config
<1>3. PICK replace \in BOOLEAN : replace = (ui.op # "enable")
    OBVIOUS
<1>4. PICK new : new = EnsureJob(generation, TRUE, replace, Unset, 0)
    OBVIOUS
<1>5. jobs' = new
    BY <1>2, <1>3, <1>4, Zenon DEF UiEnsureJob
<1>6. PICK own \in JobIds \cup {Unset} : own = Unset
    OBVIOUS
<1>7. new = EnsureJob(generation, TRUE, replace, own, 0)
    BY <1>4, <1>6, Zenon
<1>8. Ensured(new, own)
    BY <1>6, <1>7, TRUE \in BOOLEAN, 0 \in 0..2, EnsureFacts
<1>9. PICK count \in Nat : count = faults
    BY <1>1
<1>10. /\ faults' = count /\ count >= faults /\ handling'.job = handling.job
    BY <1>1, <1>9
<1>11. /\ jobs' \in [JobIds -> Job \cup {Unset}] /\ JobsOK' /\ Live' # {}
       /\ \A i \in JobIds : jobs[i] # Unset /\ jobs[i].status = "running" => jobs'[i] = jobs[i]
    BY <1>5, <1>8, <1>10, EnsuredJobs
<1>12. HandlerOK(handling)'
    BY <1>1, <1>11, AutoFacts, NoOperation DEF HandlerOK, Steady
<1>13. AutoTypes' /\ KeysOK' /\ ChainOK'
    BY <1>1, <1>11, AutoFacts, NoOperation DEF AutoTypes, KeysOK, ChainOK
<1>14. OperationOK(ui)'
    BY <1>1, NoOperationOK DEF OperationOK
<1> QED
    BY <1>11, <1>12, <1>13, <1>14 DEF AutoInv

LEMMA RestartStep ==
    ASSUME AutoInv, overlap' = overlap, Restart
    PROVE  AutoInv'
<1>1. /\ faults < MaxFaults /\ faults' = faults + 1 /\ faults \in Nat
      /\ handling' = NoExec /\ ui' = NoUi
      /\ UNCHANGED <<config, secret, st, valid, failed>>
    BY AutoFacts DEF Restart, files, AutoTypes
<1>2. handling' \in Handling /\ HandlerOK(handling)'
    BY <1>1, IdleHandler
<1>3. faults' \in Nat /\ faults' <= MaxFaults
    BY <1>1, AutoFacts
<1>4. OperationOK(ui)'
    BY <1>1, NoOperationOK DEF OperationOK
<1>5. jobs' \in [JobIds -> Job \cup {Unset}] /\ JobsOK' /\ (Active(config) => Live' # {})
    <2>1. CASE Active(config) /\ secret # Unset
        <3>1. PICK generation \in Nat : generation = config.generation
            BY <2>1, AutoFacts DEF Active, AutoTypes, Config
        <3>2. PICK own \in JobIds \cup {Unset} : own = Unset
            OBVIOUS
        <3>3. PICK new : new = EnsureJob(generation, TRUE, FALSE, own, 0)
            OBVIOUS
        <3>4. jobs' = new
            BY <2>1, <3>1, <3>2, <3>3, Zenon DEF Restart
        <3>5. Ensured(new, own)
            BY <3>2, <3>3, TRUE \in BOOLEAN, FALSE \in BOOLEAN, 0 \in 0..2, EnsureFacts
        <3>6. PICK count \in Nat : count = faults + 1
            BY <1>1
        <3>7. faults' = count /\ count >= faults
            BY <1>1, <3>6
        <3> QED
            BY <3>4, <3>5, <3>6, <3>7, EnsuredJobs
    <2>2. CASE ~(Active(config) /\ secret # Unset)
        <3>1. jobs' = jobs /\ ~Active(config)
            BY <2>2, AutoFacts DEF Restart, KeysOK, Active
        <3>2. ASSUME NEW i \in JobIds, jobs[i] # Unset
              PROVE  jobs[i].attempts <= faults' + (IF handling'.job = i THEN 1 ELSE 0)
            <4>1. /\ jobs[i].attempts \in Nat
                  /\ jobs[i].attempts <= faults + (IF handling.job = i THEN 1 ELSE 0)
                BY <3>2, AutoFacts DEF AutoTypes, JobsOK, Job
            <4>2. faults' + (IF handling'.job = i THEN 1 ELSE 0) >= faults + 1
                BY <1>1
            <4> QED
                BY <1>1, <4>1, <4>2
        <3>3. JobsOK'
            BY <3>1, <3>2, AutoFacts DEF JobsOK, Live
        <3> QED
            BY <3>1, <3>3, AutoFacts DEF AutoTypes
    <2> QED
        BY <2>1, <2>2
<1>6. AutoTypes' /\ KeysOK' /\ ChainOK'
    BY <1>1, <1>2, <1>3, <1>5, AutoFacts, NoOperation DEF AutoTypes, KeysOK, ChainOK, Active
<1> QED
    BY <1>2, <1>4, <1>5, <1>6 DEF AutoInv

LEMMA CancelPendingStep ==
    ASSUME AutoInv, overlap' = overlap, CancelPending
    PROVE  AutoInv'
<1>1. /\ ui.pc = "cancel" /\ ui.op # "idle" /\ ui' = NoUi /\ faults \in Nat
      /\ (overlap \/ handling.pc = "idle") /\ (~overlap => config.paused)
      /\ UNCHANGED <<config, secret, st, handling, valid, failed, faults>>
    BY AutoFacts, BoundsAssumption DEF CancelPending, files, AutoTypes, OperationOK, HandlerOK
<1>2. PICK new : new = [i \in JobIds |->
           IF jobs[i] # Unset /\ jobs[i].status = "pending" THEN Unset ELSE jobs[i]]
    OBVIOUS
<1>3. /\ jobs' = new /\ new \in [JobIds -> Job \cup {Unset}]
      /\ \A i \in JobIds : new[i] # Unset => new[i] = jobs[i]
      /\ \A i \in JobIds : jobs[i] # Unset /\ jobs[i].status = "running" => new[i] = jobs[i]
    BY <1>2, AutoFacts DEF CancelPending, AutoTypes
<1>4. Live' \subseteq Live
    BY <1>3 DEF Live
<1>5. JobsOK'
    BY <1>1, <1>3, <1>4, AutoFacts DEF JobsOK
<1>6. HandlerOK(handling)'
    BY <1>1, <1>3, AutoFacts, NoOperation DEF HandlerOK, Steady
<1>7. AutoTypes' /\ KeysOK' /\ ChainOK'
    BY <1>1, <1>3, AutoFacts, NoOperation DEF AutoTypes, KeysOK, ChainOK, Steady, Active
<1>8. OperationOK(ui)'
    BY <1>1, NoOperationOK DEF OperationOK
<1> QED
    BY <1>5, <1>6, <1>7, <1>8 DEF AutoInv

(* state.json is written by the handler, *)
LEMMA StateWritten ==
    ASSUME AutoInv, overlap' = overlap, SaveState \/ WriteUpdate
    PROVE  AutoInv'
<1>1. /\ handling.pc \in {"save", "write"} /\ handling \in Handling /\ faults \in Nat
      /\ handling.job \in JobIds /\ jobs[handling.job] # Unset
      /\ handling.cfg \in Config /\ config # Unset
      /\ UNCHANGED <<config, secret, jobs, ui, valid, failed, faults>>
    BY AutoFacts DEF SaveState, WriteUpdate, files, AutoTypes, HandlerOK
<1>2. PICK state \in State, pc \in {"next", "done"} :
          /\ st' = state /\ Goto(pc, "none")
          /\ Steady /\ pc = "done" => state.conn = "quota-reserve-paused" \/ Relieved(handling)
    <2>1. PICK old \in State : old = handling.st
        BY <1>1 DEF Handling
    <2>2. CASE SaveState
        <3>1. PICK state : state = [old EXCEPT !.conn = "connected"]
            OBVIOUS
        <3>2. state \in State
            BY <3>1 DEF State, Connections
        <3> QED
            BY <2>1, <2>2, <3>1, <3>2 DEF SaveState
    <2>3. CASE WriteUpdate
        <3>1. /\ handling.pc = "write" /\ handling.why \in Connections \cup {"scheduled"}
              /\ Steady => handling.why \in Rescheduling \cup {"quota-reserve-paused"}
                             \/ Relieved(handling)
            BY <2>3, AutoFacts DEF WriteUpdate, HandlerOK
        <3>2. PICK state : state = IF handling.why = "scheduled" THEN old
                                   ELSE [old EXCEPT !.conn = handling.why]
            OBVIOUS
        <3>3. /\ state \in State
              /\ handling.why = "quota-reserve-paused" => state.conn = "quota-reserve-paused"
            BY <3>1, <3>2 DEF State
        <3>4. st' = state
            BY <2>1, <2>3, <3>2 DEF WriteUpdate
        <3>5. PICK pc \in {"next", "done"} : pc = IF handling.why \in Rescheduling THEN "next" ELSE "done"
            OBVIOUS
        <3>6. Goto(pc, "none")
            BY <2>3, <3>5 DEF WriteUpdate, Rescheduling
        <3>7. Steady /\ pc = "done" => state.conn = "quota-reserve-paused" \/ Relieved(handling)
            BY <3>1, <3>3, <3>5
        <3> QED
            BY <3>3, <3>4, <3>6, <3>7
    <2> QED
        BY <2>2, <2>3
<1>3. PICK new : new = [handling EXCEPT !.pc = pc, !.why = "none"]
    OBVIOUS
<1>4. /\ new \in Handling /\ new.pc = pc /\ new.job = handling.job /\ new.cfg = handling.cfg
      /\ handling' = new
    BY <1>1, <1>2, <1>3 DEF Handling, HandlerPc, Goto
<1>5. HandlerOK(handling)'
    BY <1>1, <1>2, <1>4, AutoFacts DEF HandlerOK, Relieved, Steady
<1>6. Live' = Live /\ Live # {}
    BY <1>1 DEF Live
<1>7. AutoTypes' /\ OperationOK(ui)' /\ JobsOK' /\ KeysOK' /\ ChainOK'
    BY <1>1, <1>2, <1>4, <1>6, AutoFacts DEF AutoTypes, OperationOK, JobsOK, KeysOK, ChainOK
<1> QED
    BY <1>5, <1>7 DEF AutoInv

(* ... or by the operator's controls.                                       *)
LEMMA UiWriteStateStep ==
    ASSUME AutoInv, overlap' = overlap, UiWriteState
    PROVE  AutoInv'
<1>1. /\ ui.pc = "write" /\ ui \in Operation /\ (overlap \/ handling.pc = "idle")
      /\ ui.op # "idle" /\ ui.cfg \in Config /\ config # Unset /\ st' = ui.st
      /\ UNCHANGED <<config, secret, jobs, handling, valid, failed, faults>>
    BY AutoFacts, BoundsAssumption DEF UiWriteState, files, AutoTypes, OperationOK, HandlerOK
<1>2. PICK new : new = [ui EXCEPT !.pc = "ensure"]
    OBVIOUS
<1>3. /\ new \in Operation /\ ui' = new /\ new.pc = "ensure" /\ new.op = ui.op
      /\ new.key = ui.key /\ new.cfg = ui.cfg /\ st' \in State
    BY <1>1, <1>2 DEF UiWriteState, Operation, UiPc
<1>4. OperationOK(new)
    BY <1>1, <1>3, AutoFacts DEF OperationOK
<1>5. OperationOK(ui)'
    BY <1>1, <1>3, <1>4 DEF OperationOK
<1>6. HandlerOK(handling)'
    BY <1>1, <1>3, AutoFacts DEF HandlerOK, Steady
<1>7. AutoTypes' /\ JobsOK' /\ KeysOK' /\ ChainOK'
    BY <1>1, <1>3, AutoFacts DEF AutoTypes, JobsOK, Live, KeysOK, ChainOK
<1> QED
    BY <1>5, <1>6, <1>7 DEF AutoInv

(* The refused key is on record, and the configuration is blocked.          *)
LEMMA SaveBlockedStep ==
    ASSUME AutoInv, overlap' = overlap, SaveBlocked
    PROVE  AutoInv'
<1>1. /\ handling.pc = "block" /\ handling \in Handling /\ faults \in Nat
      /\ handling.cfg \in Config /\ config # Unset /\ secret # Unset
      /\ handling.why = "authentication-failed" /\ handling.key \notin valid
      /\ handling.job \in JobIds /\ jobs[handling.job] # Unset
      /\ jobs[handling.job].status = "running"
      /\ (~overlap => ui.op = "idle")
      /\ UNCHANGED <<secret, st, jobs, ui, valid, faults>>
    BY AutoFacts DEF SaveBlocked, AutoTypes, HandlerOK, KeysOK
<1>2. PICK generation \in Nat : generation = handling.cfg.generation + 1
    BY <1>1 DEF Config
<1>3. PICK cfg : cfg = [handling.cfg EXCEPT !.blocked = TRUE, !.generation = generation]
    OBVIOUS
<1>4. cfg \in Config /\ cfg.blocked /\ config' = cfg /\ cfg # Unset
    BY <1>1, <1>2, <1>3, AutoFacts DEF SaveBlocked, Config
<1>5. failed' = (IF ui.op = "idle" THEN failed \cup {handling.key} ELSE failed) /\ Goto("load", "authentication-failed")
    BY <1>1 DEF SaveBlocked
<1>6. PICK new : new = [handling EXCEPT !.pc = "load", !.why = "authentication-failed"]
    OBVIOUS
<1>7. /\ new \in Handling /\ new.pc = "load" /\ new.job = handling.job
      /\ new.cfg = handling.cfg /\ new.why = "authentication-failed" /\ handling' = new
    BY <1>1, <1>5, <1>6 DEF Handling, HandlerPc, Connections, Goto
<1>8. ~Active(config)'
    BY <1>4 DEF Active
<1>9. HandlerOK(handling)'
    BY <1>1, <1>4, <1>7, <1>8, AutoFacts DEF HandlerOK, Relieved, Connections
<1>10. OperationOK(ui)'
    <2>1. CASE ui.op = "idle"
        BY <1>1, <1>4, <2>1, AutoFacts DEF OperationOK
    <2>2. CASE ui.op # "idle"
        BY <1>1, <1>4, <1>5, <2>2, AutoFacts DEF OperationOK
    <2> QED
        BY <2>1, <2>2
<1>11. KeysOK'
    BY <1>1, <1>4, <1>5, AutoFacts DEF KeysOK
<1>12. AutoTypes' /\ JobsOK' /\ ChainOK'
    BY <1>1, <1>4, <1>7, <1>8, AutoFacts DEF AutoTypes, JobsOK, Live, ChainOK
<1> QED
    BY <1>9, <1>10, <1>11, <1>12 DEF AutoInv

LEMMA SaveSecretStep ==
    ASSUME AutoInv, overlap' = overlap, SaveSecret
    PROVE  AutoInv'
<1>1. /\ ui.pc = "secret" /\ ui \in Operation /\ (overlap \/ handling.pc = "idle")
      /\ ui.op \in {"enable", "replace"} /\ ui.cfg \in Config /\ ui.key \in Keys
      /\ ui.key \notin failed /\ ~ui.cfg.blocked
      /\ secret' = ui.key /\ secret' # Unset
      /\ UNCHANGED <<config, st, jobs, handling, valid, failed, faults>>
    BY AutoFacts, BoundsAssumption DEF SaveSecret, AutoTypes, OperationOK, HandlerOK
<1>2. PICK new : new = [ui EXCEPT !.pc = "config"]
    OBVIOUS
<1>3. /\ new \in Operation /\ ui' = new /\ new.pc = "config" /\ new.op = ui.op
      /\ new.key = ui.key /\ new.cfg = ui.cfg
    BY <1>1, <1>2 DEF SaveSecret, Operation, UiPc
<1>4. OperationOK(ui)'
    BY <1>1, <1>3, AutoFacts DEF OperationOK
<1>5. HandlerOK(handling)'
    BY <1>1, <1>3, AutoFacts DEF HandlerOK, Steady
<1>6. AutoTypes' /\ JobsOK' /\ KeysOK' /\ ChainOK'
    BY <1>1, <1>3, AutoFacts DEF AutoTypes, JobsOK, Live, KeysOK, ChainOK
<1> QED
    BY <1>4, <1>5, <1>6 DEF AutoInv

LEMMA SaveConfigStep ==
    ASSUME AutoInv, overlap' = overlap, SaveConfig
    PROVE  AutoInv'
<1>1. /\ ui.pc = "config" /\ ui \in Operation /\ (overlap \/ handling.pc = "idle")
      /\ ui.op \in {"enable", "replace", "pause", "resume"} /\ ui.cfg \in Config
      /\ secret # Unset /\ config' = ui.cfg /\ config' # Unset
      /\ UNCHANGED <<secret, st, jobs, handling, valid, failed, faults>>
    BY AutoFacts, BoundsAssumption DEF SaveConfig, AutoTypes, OperationOK, HandlerOK
<1>2. PICK pc \in {"write", "load", "cancel", "reload"} :
          pc = CASE ui.op = "enable" -> "write" [] ui.op = "replace" -> "load"
                 [] ui.op = "pause" -> "cancel" [] ui.op = "resume" -> "reload"
    BY <1>1
<1>3. PICK new : new = [ui EXCEPT !.pc = pc]
    OBVIOUS
<1>4. /\ new \in Operation /\ ui' = new /\ new.pc = pc /\ new.op = ui.op
      /\ new.key = ui.key /\ new.cfg = ui.cfg
    BY <1>1, <1>2, <1>3 DEF SaveConfig, Operation, UiPc
<1>5. (pc = "cancel" => ui.op = "pause") /\ (pc = "reload" => ui.op = "resume")
    BY <1>1, <1>2
<1>6. /\ ui.op \in {"enable", "replace"} => ~ui.cfg.blocked
      /\ ~ui.cfg.blocked => secret \notin failed
      /\ ui.op = "pause" => ui.cfg.paused
    BY <1>1, AutoFacts DEF OperationOK
<1>7. OperationOK(ui)'
    BY <1>1, <1>2, <1>4, <1>5, <1>6, AutoFacts DEF OperationOK
<1>8. HandlerOK(handling)'
    BY <1>1, <1>4, AutoFacts DEF HandlerOK, Steady
<1>9. KeysOK'
    BY <1>1, <1>6, AutoFacts DEF KeysOK
<1>10. AutoTypes' /\ JobsOK' /\ ChainOK'
    BY <1>1, <1>2, <1>4, AutoFacts DEF AutoTypes, JobsOK, Live, ChainOK
<1> QED
    BY <1>7, <1>8, <1>9, <1>10 DEF AutoInv

LEMMA RevokeStep ==
    ASSUME AutoInv, overlap' = overlap, NEW k \in Keys, Revoke(k)
    PROVE  AutoInv'
<1>1. /\ valid' \subseteq valid
      /\ UNCHANGED <<config, secret, st, jobs, handling, ui, failed, faults>>
    BY DEF Revoke, files
<1>2. HandlerOK(handling)'
    BY <1>1, AutoFacts DEF HandlerOK, Relieved, Steady
<1>3. AutoTypes' /\ OperationOK(ui)' /\ JobsOK' /\ KeysOK' /\ ChainOK'
    BY <1>1, AutoFacts DEF AutoTypes, OperationOK, JobsOK, Live, KeysOK, ChainOK, Steady
<1> QED
    BY <1>2, <1>3 DEF AutoInv

LEMMA AutoInitInv == AutomaticInit => AutoInv
<1> SUFFICES ASSUME AutomaticInit PROVE AutoInv
    OBVIOUS
<1>1. /\ config = Unset /\ secret = Unset /\ st = EmptyState /\ handling = NoExec /\ ui = NoUi
      /\ jobs = [i \in JobIds |-> Unset] /\ valid = Keys /\ failed = {} /\ faults = 0
      /\ overlap \in BOOLEAN
    BY DEF AutomaticInit
<1>2. EmptyState \in State /\ NoExec \in Handling /\ NoExec.pc = "idle" /\ NoExec.job = Unset
    BY DEF EmptyState, NoExec, Handling, HandlerPc, State, Connections
<1>3. AutoTypes
    BY <1>1, <1>2, NoOperation, BoundsAssumption DEF AutoTypes
<1>4. HandlerOK(handling) /\ OperationOK(ui) /\ KeysOK
    BY <1>1, <1>2, NoOperation DEF HandlerOK, OperationOK, KeysOK
<1>5. Live = {}
    BY <1>1 DEF Live
<1>6. PICK a \in JobIds : TRUE
    BY AnotherId
<1>7. JobsOK
    BY <1>1, <1>5, <1>6 DEF JobsOK
<1>8. ChainOK
    BY <1>1 DEF ChainOK, Active
<1> QED
    BY <1>3, <1>4, <1>7, <1>8 DEF AutoInv

LEMMA AutoInvStep == AutoInv /\ [AutomaticNext]_automaticVars => AutoInv'
<1> SUFFICES ASSUME AutoInv, [AutomaticNext]_automaticVars PROVE AutoInv'
    OBVIOUS
<1>0. overlap' = overlap
    BY DEF AutomaticNext, automaticVars
<1>1. CASE UNCHANGED automaticVars
    <2>1. UNCHANGED <<config, secret, st, jobs, handling, ui, valid, failed, faults, overlap>>
        BY <1>1 DEF automaticVars
    <2>2. HandlerOK(handling)'
        BY <2>1, AutoFacts DEF HandlerOK, Relieved, Steady
    <2>3. AutoTypes' /\ OperationOK(ui)' /\ JobsOK' /\ KeysOK' /\ ChainOK'
        BY <2>1, AutoFacts DEF AutoTypes, OperationOK, JobsOK, Live, KeysOK, ChainOK, Steady
    <2> QED
        BY <2>2, <2>3 DEF AutoInv
<1>2. CASE \E i \in JobIds : Due(i) \/ Claim(i) \/ Recover(i)
    BY <1>0, <1>2, DueStep, ClaimStep, RecoverStep
<1>3. CASE Worker
    <2>1. CASE \/ QuotaReached \/ RequestUnauthorized \/ RequestUnavailable \/ RequestRejected
               \/ \E q \in Quotas, c \in Contents : RespondConflict(c, q) \/ RespondInvalid(c, q)
        BY <1>0, <2>1, RequestStep
    <2>2. CASE \E q \in Quotas : RespondSame(q) \/ \E c \in Contents : Respond(c, q)
        BY <1>0, <2>2, RespondStep
    <2>3. CASE LoadConfig \/ LoadSecret \/ LoadState \/ LoadForUpdate
        BY <1>0, <2>3, LoadConfigStep, LoadSecretStep, LoadStateStep
    <2>4. CASE SaveState \/ WriteUpdate \/ SaveBlocked
        BY <1>0, <2>4, StateWritten, SaveBlockedStep
    <2>5. CASE ScheduleRetry \/ ScheduleNext \/ Finish
        BY <1>0, <2>5, ScheduleStep, FinishStep
    <2> QED
        BY <1>3, <2>1, <2>2, <2>3, <2>4, <2>5 DEF Worker
<1>4. CASE UnexpectedError
    BY <1>0, <1>4, UnexpectedErrorStep
<1>5. CASE Operator
    BY <1>0, <1>5, ReplaceKeyStep, EnableStep, SetPausedStep, RunNowStep DEF Operator
<1>6. CASE Controller
    BY <1>0, <1>6, ReadPriorStep, ValidateKeyStep, SaveSecretStep, SaveConfigStep, UiLoadStateStep,
       UiWriteStateStep, ReloadStep, UiEnsureJobStep, CancelPendingStep DEF Controller
<1>7. CASE Restart
    BY <1>0, <1>7, RestartStep
<1>8. CASE \E k \in Keys : Revoke(k)
    BY <1>0, <1>8, RevokeStep
<1> QED
    BY <1>1, <1>2, <1>3, <1>4, <1>5, <1>6, <1>7, <1>8 DEF AutomaticNext

LEMMA AutoInvTypeOK == AutoInv => AutomaticTypeOK /\ DuplicatesSuppressed
<1> SUFFICES ASSUME AutoInv PROVE AutomaticTypeOK /\ DuplicatesSuppressed
    OBVIOUS
<1>1. \A i \in Live : jobs[i] \in Job /\ (jobs[i].status = "pending" => jobs[i].attempts < MaxAttempts)
    BY AutoFacts DEF AutoTypes, JobsOK, Live
<1>2. handling.pc # "idle" => handling.job \in Live /\ jobs[handling.job].status = "running"
    BY AutoFacts DEF HandlerOK, Live
<1>3. AutomaticTypeOK
    BY <1>1, <1>2, AutoFacts DEF AutoTypes, AutomaticTypeOK
<1>4. PICK a \in JobIds, b \in JobIds : Live \subseteq {a, b}
    BY AutoFacts DEF JobsOK
<1>5. DuplicatesSuppressed
    BY <1>4, AtMostTwo DEF DuplicatesSuppressed
<1> QED
    BY <1>3, <1>5

(* Duplicate suppression, whatever overlaps and however often the processes *)
(* stop: whoever asks for a job, there are never more than the one that     *)
(* runs and its successor.                                                  *)
THEOREM JobsAreNotDuplicated ==
    AutomaticSpec => [](AutomaticTypeOK /\ DuplicatesSuppressed)
BY AutoInitInv, AutoInvStep, AutoInvTypeOK, PTL DEF AutomaticSpec

(* The chain of jobs never forks, and it does not break while the operator  *)
(* acts between jobs and restarts and unexpected errors stay fewer than     *)
(* MAXIMUM_ATTEMPTS: whatever single acquisitions meet, an active operation *)
(* has a job.                                                               *)
THEOREM ChainIsKept ==
    ASSUME MaxFaults < MaxAttempts
    PROVE  AutomaticSpec => []OneJobChain
<1>1. AutoInv => OneJobChain
    <2> SUFFICES ASSUME AutoInv PROVE OneJobChain
        OBVIOUS
    <2>1. ~overlap => StaysScheduled
        BY AutoFacts DEF ChainOK, Steady, StaysScheduled
    <2> QED
        BY <2>1, AutoInvTypeOK DEF OneJobChain
<1> QED
    BY <1>1, AutoInitInv, AutoInvStep, PTL DEF AutomaticSpec

(* However the operator's controls overlap with the requests of the         *)
(* handler: a key whose failure was put on record outside a control is      *)
(* never sent again, and the operation is blocked only when the stored key  *)
(* is refused, or when another key was stored while the handler worked with *)
(* a refused one.                                                           *)
THEOREM RefusedKeysRest ==
    AutomaticSpec => KeysRespected
<1>1. AutoInv /\ [AutomaticNext]_automaticVars => [Sent => handling.key \notin failed]_automaticVars
    BY AutoFacts DEF Sent, HandlerOK
<1>2. AutoInv /\ [AutomaticNext]_automaticVars =>
        [config # Unset /\ ~config.blocked /\ config'.blocked
            => secret \notin valid \/ secret # handling.key]_automaticVars
    <2> SUFFICES ASSUME AutoInv, [AutomaticNext]_automaticVars,
                        config # Unset, ~config.blocked, config'.blocked
                 PROVE  secret \notin valid \/ secret # handling.key
        OBVIOUS
    <2>1. CASE SaveBlocked
        BY <2>1, AutoFacts DEF SaveBlocked, HandlerOK
    <2>2. CASE SaveConfig
        BY <2>2, AutoFacts DEF SaveConfig, OperationOK
    <2>3. CASE config' = config
        BY <2>3
    <2>4. SaveBlocked \/ SaveConfig \/ config' = config
        BY DEF AutomaticNext, automaticVars, Worker, Operator, Controller, files, Due, Claim,
               Recover, LoadConfig, LoadSecret, LoadState, QuotaReached, RequestUnauthorized,
               RequestUnavailable, RequestRejected, RespondSame, RespondConflict, RespondInvalid,
               Respond, SaveState, ScheduleRetry, ScheduleNext, LoadForUpdate, WriteUpdate,
               Finish, UnexpectedError, ReplaceKey, Enable, SetPaused, RunNow, ReadPrior,
               ValidateKey, SaveSecret, UiLoadState, UiWriteState, Reload, UiEnsureJob,
               CancelPending, Restart, Revoke
    <2> QED
        BY <2>1, <2>2, <2>3, <2>4
<1>3. AutomaticSpec => KeyFailsOnce
    BY <1>1, AutoInitInv, AutoInvStep, PTL DEF AutomaticSpec, KeyFailsOnce
<1>4. AutomaticSpec => BlocksRevokedKey
    BY <1>2, AutoInitInv, AutoInvStep, PTL DEF AutomaticSpec, BlocksRevokedKey
<1> QED
    BY <1>3, <1>4 DEF KeysRespected

-----------------------------------------------------------------------------
(* What is done with the events and prices that were acquired.  Absent is    *)
(* the None of the code: a rejected call or a missing value.                 *)
CONSTANT Absent
Rec == INSTANCE EventReconciliation WITH None <- Absent
Sel == INSTANCE QuoteSelection WITH None <- Absent

(* An event that misses one of these is never exact; None is none of them. *)
Reasons == {"missing event occurrence key", "missing canonical home participant",
            "missing canonical away participant"}

LEMMA IncompleteReasons ==
    ASSUME Absent \notin Reasons, NEW c, c.occurrence = Absent
    PROVE  Rec!_incomplete_event_reason(c) # Absent
<1>1. Rec!_incomplete_event_reason(c) = "missing event occurrence key"
    BY DEF Rec!_incomplete_event_reason
<1>2. "missing event occurrence key" \in Reasons
    BY DEF Reasons
<1> QED
    BY <1>1, <1>2

LEMMA CompleteEvents ==
    ASSUME Absent \notin Reasons, NEW c, Rec!_incomplete_event_reason(c) = Absent
    PROVE  c.occurrence # Absent /\ c.home # Absent /\ c.away # Absent
<1>1. c.occurrence # Absent
    BY IncompleteReasons
<1>2. CASE c.home = Absent
  <2>1. Rec!_incomplete_event_reason(c) = "missing canonical home participant"
    BY <1>1, <1>2 DEF Rec!_incomplete_event_reason
  <2>2. "missing canonical home participant" \in Reasons
    BY DEF Reasons
  <2> QED
    BY <2>1, <2>2
<1>3. CASE c.home # Absent /\ c.away = Absent
  <2>1. Rec!_incomplete_event_reason(c) = "missing canonical away participant"
    BY <1>1, <1>3 DEF Rec!_incomplete_event_reason
  <2>2. "missing canonical away participant" \in Reasons
    BY DEF Reasons
  <2> QED
    BY <2>1, <2>2
<1> QED
    BY <1>1, <1>2, <1>3

(* Exact matches are compatible (sports/reconciliation.py with the guard of   *)
(* bookmakers/reconciliation.py): whatever the candidates of however many     *)
(* providers, two source events that exact matching takes for one come from   *)
(* different providers, name the same competition and start within the       *)
(* tolerance.  A pair that is not compatible loses its occurrence keys        *)
(* before the matching, and what one provider lists twice is ambiguous.       *)
THEOREM ExactEventsAreCompatible ==
    ASSUME Absent \notin Reasons, NEW Values, NEW tolerance \in Nat,
           NEW candidates \in Seq([source : Values, id : Values, sport : Values, competition : Values,
                                   occurrence : Values, start : Values, home : Values, away : Values,
                                   key : Values, observed : Values])
    PROVE  LET filtered == Rec!_reject_incompatible_cross_provider_pairs(candidates, tolerance)
           IN  \A r, t \in Rec!reconcile_candidates(filtered) :
                   r # t /\ r.state = "exact" /\ t.state = "exact" /\ r.canonical = t.canonical =>
                     /\ r.source # t.source
                     /\ \E i, j \in DOMAIN candidates :
                           /\ candidates[i].source = r.source /\ candidates[i].id = r.id
                           /\ candidates[j].source = t.source /\ candidates[j].id = t.id
                           /\ candidates[i].competition = candidates[j].competition
                           /\ candidates[i].start - candidates[j].start \in (-tolerance)..tolerance
<1> DEFINE filtered == Rec!_reject_incompatible_cross_provider_pairs(candidates, tolerance)
<1> SUFFICES ASSUME NEW r \in Rec!reconcile_candidates(filtered),
                    NEW t \in Rec!reconcile_candidates(filtered),
                    r # t, r.state = "exact", t.state = "exact", r.canonical = t.canonical
             PROVE  /\ r.source # t.source
                    /\ \E i, j \in DOMAIN candidates :
                          /\ candidates[i].source = r.source /\ candidates[i].id = r.id
                          /\ candidates[j].source = t.source /\ candidates[j].id = t.id
                          /\ candidates[i].competition = candidates[j].competition
                          /\ candidates[i].start - candidates[j].start \in (-tolerance)..tolerance
    OBVIOUS
<1> DEFINE Blocked(c) == \E i \in DOMAIN candidates :
               /\ (c.home # Absent /\ c.away # Absent /\ c.occurrence # Absent)
               /\ candidates[i].home # Absent /\ candidates[i].away # Absent
               /\ candidates[i].occurrence # Absent
               /\ c.source # candidates[i].source
               /\ <<c.sport, c.home, c.away, c.occurrence>> =
                  <<candidates[i].sport, candidates[i].home, candidates[i].away, candidates[i].occurrence>>
               /\ Rec!IncompatiblePair(c, candidates[i], tolerance)
<1>1. filtered = [i \in DOMAIN candidates |->
          IF Blocked(candidates[i]) THEN [candidates[i] EXCEPT !.occurrence = Absent] ELSE candidates[i]]
    BY DEF Rec!_reject_incompatible_cross_provider_pairs
<1>2. \A i \in DOMAIN candidates : [candidates[i] EXCEPT !.occurrence = Absent].occurrence = Absent
    OBVIOUS
<1> HIDE DEF filtered, Blocked
<1>3. ASSUME NEW x \in Rec!reconcile_candidates(filtered), x.state = "exact"
      PROVE  \E i \in DOMAIN candidates :
                /\ filtered[i] = candidates[i] /\ ~Blocked(candidates[i])
                /\ Rec!_incomplete_event_reason(candidates[i]) = Absent
                /\ Rec!CanonicalEventKey(candidates[i]) \notin Rec!_conflicting_event_match_keys(filtered)
                /\ x = Rec!ExactMatch(candidates[i], Rec!CanonicalEventKey(candidates[i]))
  <2>1. PICK i \in DOMAIN filtered :
            x = (IF Rec!_incomplete_event_reason(filtered[i]) # Absent
                 THEN Rec!_unresolved(filtered[i], Rec!_incomplete_event_reason(filtered[i]))
                 ELSE IF Rec!CanonicalEventKey(filtered[i]) \in Rec!_conflicting_event_match_keys(filtered)
                      THEN Rec!_unresolved(filtered[i], "ambiguous duplicate source events")
                 ELSE Rec!ExactMatch(filtered[i], Rec!CanonicalEventKey(filtered[i])))
    BY <1>3 DEF Rec!reconcile_candidates
  <2>2. \A c, reason : Rec!_unresolved(c, reason).state = "unresolved"
    BY DEF Rec!_unresolved
  <2>3. /\ Rec!_incomplete_event_reason(filtered[i]) = Absent
        /\ Rec!CanonicalEventKey(filtered[i]) \notin Rec!_conflicting_event_match_keys(filtered)
        /\ x = Rec!ExactMatch(filtered[i], Rec!CanonicalEventKey(filtered[i]))
    BY <1>3, <2>1, <2>2
  <2>4. i \in DOMAIN candidates
    BY <1>1
  <2>5. ~Blocked(candidates[i]) /\ filtered[i] = candidates[i]
    BY <1>1, <1>2, <2>3, <2>4, IncompleteReasons
  <2> QED
    BY <2>3, <2>4, <2>5
<1>4. PICK i \in DOMAIN candidates :
                /\ filtered[i] = candidates[i] /\ ~Blocked(candidates[i])
                /\ Rec!_incomplete_event_reason(candidates[i]) = Absent
                /\ Rec!CanonicalEventKey(candidates[i]) \notin Rec!_conflicting_event_match_keys(filtered)
                /\ r = Rec!ExactMatch(candidates[i], Rec!CanonicalEventKey(candidates[i]))
    BY <1>3
<1>5. PICK j \in DOMAIN candidates :
                /\ filtered[j] = candidates[j] /\ ~Blocked(candidates[j])
                /\ Rec!_incomplete_event_reason(candidates[j]) = Absent
                /\ Rec!CanonicalEventKey(candidates[j]) \notin Rec!_conflicting_event_match_keys(filtered)
                /\ t = Rec!ExactMatch(candidates[j], Rec!CanonicalEventKey(candidates[j]))
    BY <1>3
<1>6. /\ r.source = candidates[i].source /\ r.id = candidates[i].id
      /\ t.source = candidates[j].source /\ t.id = candidates[j].id
      /\ Rec!CanonicalEventKey(candidates[i]) = Rec!CanonicalEventKey(candidates[j])
    BY <1>4, <1>5 DEF Rec!ExactMatch
<1>7. i # j
    BY <1>4, <1>5
<1>8. DOMAIN filtered = DOMAIN candidates
    BY <1>1
<1>9. candidates[i].source # candidates[j].source
  <2>1. CASE candidates[i].source = candidates[j].source
    <3>1. /\ filtered[i] \in Rec!ToSet(filtered)
          /\ Rec!Ambiguous(filtered, Rec!CanonicalEventKey,
                   LAMBDA c : Rec!_incomplete_event_reason(c) = Absent,
                         Rec!CanonicalEventKey(filtered[i]))
      BY <1>4, <1>5, <1>6, <1>7, <1>8, <2>1 DEF Rec!ToSet, Rec!Ambiguous
    <3>2. Rec!CanonicalEventKey(filtered[i]) \in Rec!_conflicting_event_match_keys(filtered)
      BY <3>1 DEF Rec!_conflicting_event_match_keys
    <3> QED
      BY <1>4, <3>2
  <2> QED
    BY <2>1
<1>10. ~Rec!IncompatiblePair(candidates[i], candidates[j], tolerance)
  <2>1. /\ candidates[i].occurrence # Absent /\ candidates[i].home # Absent /\ candidates[i].away # Absent
        /\ candidates[j].occurrence # Absent /\ candidates[j].home # Absent /\ candidates[j].away # Absent
    BY <1>4, <1>5, CompleteEvents
  <2>2. <<candidates[i].sport, candidates[i].home, candidates[i].away, candidates[i].occurrence>> =
        <<candidates[j].sport, candidates[j].home, candidates[j].away, candidates[j].occurrence>>
    BY <1>6 DEF Rec!CanonicalEventKey
  <2> QED
    BY <1>4, <1>9, <2>1, <2>2 DEF Blocked
<1>11. /\ candidates[i].competition = candidates[j].competition
       /\ candidates[i].start - candidates[j].start \in (-tolerance)..tolerance
    BY <1>10 DEF Rec!IncompatiblePair, Rec!competitions_compatible
<1> QED
    BY <1>6, <1>9, <1>11

(* What can be chosen: a quote its provider's catalogue holds, open, active and fresh. *)
Selectable(quote, provider, catalogue, at, age) ==
    /\ quote # Absent /\ quote.provider = provider /\ quote \in catalogue.quotes
    /\ quote.market_status = "open" /\ quote.selection_status = "active"
    /\ quote.observed <= at /\ at - quote.observed <= age

VerifiedQuotes(Bets, Snapshots) ==
    [id : Nat, provider : {Sel!Betano, Sel!Betclic}, odds : Nat, observed : Int, bet : Bets,
     market_status : STRING, selection_status : STRING, snapshot : Snapshots]
Prices(Bets, Snapshots) ==
    [provider : {Sel!Betano, Sel!Betclic}, odds : Nat, observed : Int, bet : Bets,
     fresh : BOOLEAN, snapshot : Snapshots]

(* The price a quote is worth to the comparison, if any. *)
PriceOf(quote, at, age) ==
    Sel!Usable(IF quote = Absent THEN Absent ELSE Sel!to_priced_quote(quote, at, age))

LEMMA UsablePrices ==
    ASSUME NEW Bets, NEW Snapshots, NEW at \in Int, NEW age \in Nat,
           Absent \notin VerifiedQuotes(Bets, Snapshots), Absent \notin Prices(Bets, Snapshots),
           NEW quote \in VerifiedQuotes(Bets, Snapshots) \cup {Absent}
    PROVE  /\ PriceOf(quote, at, age) # Absent <=>
                  /\ quote # Absent /\ quote.market_status = "open" /\ quote.selection_status = "active"
                  /\ quote.observed <= at /\ at - quote.observed <= age
           /\ PriceOf(quote, at, age) # Absent =>
                  /\ PriceOf(quote, at, age).provider = quote.provider
                  /\ PriceOf(quote, at, age).odds = quote.odds
                  /\ PriceOf(quote, at, age).bet = quote.bet /\ quote.odds \in Nat
<1>1. CASE quote = Absent
    BY <1>1 DEF PriceOf, Sel!Usable
<1>2. CASE quote # Absent
  <2>1. quote \in VerifiedQuotes(Bets, Snapshots)
    BY <1>2
  <2>2. CASE ~(quote.market_status = "open" /\ quote.selection_status = "active")
    BY <1>2, <2>2 DEF PriceOf, Sel!Usable, Sel!to_priced_quote
  <2>3. CASE quote.market_status = "open" /\ quote.selection_status = "active"
    <3>1. PICK fresh \in BOOLEAN : fresh = (quote.observed <= at /\ at - quote.observed <= age)
      OBVIOUS
    <3>2. PICK price \in Prices(Bets, Snapshots) :
              price = [provider |-> quote.provider, odds |-> quote.odds, observed |-> quote.observed,
                       bet |-> quote.bet, fresh |-> fresh, snapshot |-> quote.snapshot]
      BY <2>1 DEF VerifiedQuotes, Prices
    <3>3. Sel!to_priced_quote(quote, at, age) = price
      BY <2>3, <3>1, <3>2 DEF Sel!to_priced_quote, Sel!quote_is_fresh_at
    <3>4. PriceOf(quote, at, age) = IF fresh THEN price ELSE Absent
      <4>1. PriceOf(quote, at, age) = Sel!Usable(price)
        BY <1>2, <3>3 DEF PriceOf
      <4>2. price # Absent /\ price.fresh = fresh
        BY <3>2
      <4> QED
        BY <4>1, <4>2 DEF Sel!Usable
    <3>5. /\ price # Absent /\ price.provider = quote.provider /\ price.odds = quote.odds
          /\ price.bet = quote.bet /\ quote.odds \in Nat
      BY <2>1, <3>2 DEF VerifiedQuotes
    <3> QED
      BY <1>2, <2>3, <3>1, <3>4, <3>5
  <2> QED
    BY <2>2, <2>3
<1> QED
    BY <1>1, <1>2

(* The best fresh quote is selected (bookmakers/selection.py): what is chosen *)
(* of two quotes is an open, active and fresh entry of its own provider's     *)
(* catalogue, two quotes that are compared are the same bet, and in the modes *)
(* that look for the better price no such quote of either provider pays more; *)
(* a tie goes to Betano.                                                      *)
THEOREM BestFreshQuoteIsSelected ==
    ASSUME NEW Bets, NEW Snapshots, NEW at \in Int, NEW policy, policy.maximum_age \in Nat,
           policy.mode \in Sel!SelectionModes, NEW betanoCatalogue, NEW betclicCatalogue,
           Absent \notin VerifiedQuotes(Bets, Snapshots), Absent \notin Prices(Bets, Snapshots),
           NEW p \in VerifiedQuotes(Bets, Snapshots) \cup {Absent},
           NEW q \in VerifiedQuotes(Bets, Snapshots) \cup {Absent}
    PROVE  LET chosen == Sel!select_quote_pair(p, q, policy, at, betanoCatalogue, betclicCatalogue)
               onBetano == Selectable(p, Sel!Betano, betanoCatalogue, at, policy.maximum_age)
               onBetclic == Selectable(q, Sel!Betclic, betclicCatalogue, at, policy.maximum_age)
               taken(y) == /\ chosen.provider = y.provider
                           /\ chosen.selected.odds = y.odds /\ chosen.selected.bet = y.bet
           IN  chosen # Absent /\ chosen.selected # Absent =>
                 /\ (onBetano /\ taken(p)) \/ (onBetclic /\ taken(q))
                 /\ p # Absent /\ q # Absent => p.bet = q.bet
                 /\ policy.mode \in {"best", "preferred-unless-better"} =>
                      /\ onBetano => p.odds <= chosen.selected.odds
                      /\ onBetclic => q.odds <= chosen.selected.odds
                      /\ onBetano /\ p.odds = chosen.selected.odds => chosen.provider = Sel!Betano
<1> DEFINE chosen == Sel!select_quote_pair(p, q, policy, at, betanoCatalogue, betclicCatalogue)
           age == policy.maximum_age
           betano == IF p = Absent THEN Absent ELSE Sel!to_priced_quote(p, at, age)
           betclic == IF q = Absent THEN Absent ELSE Sel!to_priced_quote(q, at, age)
           a == PriceOf(p, at, age)
           b == PriceOf(q, at, age)
<1> SUFFICES ASSUME chosen # Absent, chosen.selected # Absent
             PROVE  LET onBetano == Selectable(p, Sel!Betano, betanoCatalogue, at, age)
                        onBetclic == Selectable(q, Sel!Betclic, betclicCatalogue, at, age)
                        taken(y) == /\ chosen.provider = y.provider
                                    /\ chosen.selected.odds = y.odds /\ chosen.selected.bet = y.bet
                    IN  /\ (onBetano /\ taken(p)) \/ (onBetclic /\ taken(q))
                        /\ p # Absent /\ q # Absent => p.bet = q.bet
                        /\ policy.mode \in {"best", "preferred-unless-better"} =>
                             /\ onBetano => p.odds <= chosen.selected.odds
                             /\ onBetclic => q.odds <= chosen.selected.odds
                             /\ onBetano /\ p.odds = chosen.selected.odds => chosen.provider = Sel!Betano
    OBVIOUS
<1>1. a = Sel!Usable(betano) /\ b = Sel!Usable(betclic)
    BY DEF PriceOf
<1>2. /\ Sel!_validated_verified_side(p, Sel!Betano, betanoCatalogue)
      /\ Sel!_validated_verified_side(q, Sel!Betclic, betclicCatalogue)
      /\ p # Absent => betano # Absent
      /\ q # Absent => betclic # Absent
      /\ betano # Absent /\ betclic # Absent => Sel!quotes_are_equivalent(betano, betclic)
    BY DEF Sel!select_quote_pair
<1>3. \A x, reason : LET c == Sel!_comparison(x, betano, betclic, reason)
                     IN  c.selected = x /\ (x # Absent => c.provider = x.provider)
    BY DEF Sel!_comparison
<1>4. \E x, reason : /\ chosen = Sel!_comparison(x, betano, betclic, reason)
                     /\ x \in {a, b, Absent}
                     /\ policy.mode \in {"best", "preferred-unless-better"} /\ x # Absent =>
                          IF b = Absent THEN x = a ELSE IF a = Absent THEN x = b
                          ELSE IF b.odds > a.odds THEN x = b ELSE x = a
  <2> DEFINE better == IF policy.mode = "best" THEN "best-selected" ELSE "higher-odds"
  <2>1. CASE policy.mode = "both"
    <3>1. chosen = Sel!_comparison(Absent, betano, betclic, "both-retained")
      BY <1>2, <2>1 DEF Sel!select_quote_pair
    <3> QED
      BY <2>1, <3>1
  <2>2. CASE policy.mode = "betano"
    <3>1. chosen = 
       Sel!_comparison(a, betano, betclic, 
          IF a # Absent THEN "mode-forced-preferred" ELSE "neither-available")
      BY <1>1, <1>2, <2>2 DEF Sel!select_quote_pair
    <3> QED
      BY <2>2, <3>1
  <2>3. CASE policy.mode = "betclic"
    <3>1. chosen = 
       Sel!_comparison(b, betano, betclic, 
          IF b # Absent THEN "mode-forced-comparison" ELSE "neither-available")
      BY <1>1, <1>2, <2>3 DEF Sel!select_quote_pair
    <3> QED
      BY <2>3, <3>1
  <2>4. CASE policy.mode \in {"best", "preferred-unless-better"}
    <3>1. chosen = IF a = Absent /\ b = Absent THEN Sel!_comparison(Absent, betano, betclic, "neither-available")
                   ELSE IF b = Absent THEN Sel!_comparison(a, betano, betclic, IF betclic # Absent
                                              THEN "preferred-retained-stale-comparison" ELSE "preferred-only")
                   ELSE IF a = Absent THEN Sel!_comparison(b, betano, betclic, "comparison-fallback")
                   ELSE IF b.odds > a.odds THEN Sel!_comparison(b, betano, betclic, better)
                   ELSE IF a.odds > b.odds THEN Sel!_comparison(a, betano, betclic, better)
                   ELSE Sel!_comparison(a, betano, betclic, "equal-odds-preferred")
      BY <1>1, <1>2, <2>4 DEF Sel!select_quote_pair
    <3> HIDE DEF chosen, a, b, betano, betclic
    <3> QED
      BY <3>1
  <2> QED
    BY <2>1, <2>2, <2>3, <2>4 DEF Sel!SelectionModes
<1>5. PICK x, reason : /\ chosen = Sel!_comparison(x, betano, betclic, reason)
                       /\ x \in {a, b, Absent}
                       /\ policy.mode \in {"best", "preferred-unless-better"} /\ x # Absent =>
                            IF b = Absent THEN x = a ELSE IF a = Absent THEN x = b
                            ELSE IF b.odds > a.odds THEN x = b ELSE x = a
    BY <1>4
<1>6. chosen.selected = x /\ x # Absent /\ x \in {a, b} /\ chosen.provider = x.provider
    BY <1>3, <1>5
<1>7. /\ p # Absent => p.provider = Sel!Betano /\ p \in betanoCatalogue.quotes
      /\ q # Absent => q.provider = Sel!Betclic /\ q \in betclicCatalogue.quotes
    BY <1>2 DEF Sel!_validated_verified_side, Sel!require_catalogue_quote
<1>8. /\ p # Absent => betano.bet = p.bet
      /\ q # Absent => betclic.bet = q.bet
    BY <1>2 DEF Sel!to_priced_quote
<1>9. p # Absent /\ q # Absent => p.bet = q.bet
    BY <1>2, <1>8 DEF Sel!quotes_are_equivalent
<1>10. /\ a # Absent => /\ Selectable(p, Sel!Betano, betanoCatalogue, at, age)
                        /\ a.provider = p.provider /\ a.odds = p.odds /\ a.bet = p.bet /\ p.odds \in Nat
       /\ Selectable(p, Sel!Betano, betanoCatalogue, at, age) => a # Absent
    BY <1>7, UsablePrices DEF Selectable
<1>11. /\ b # Absent => /\ Selectable(q, Sel!Betclic, betclicCatalogue, at, age)
                        /\ b.provider = q.provider /\ b.odds = q.odds /\ b.bet = q.bet /\ q.odds \in Nat
       /\ Selectable(q, Sel!Betclic, betclicCatalogue, at, age) => b # Absent
    BY <1>7, UsablePrices DEF Selectable
<1>12. a # Absent => a.provider = Sel!Betano
    BY <1>7, <1>10 DEF Selectable
<1> HIDE DEF chosen, age, betano, betclic, a, b
<1>13. \/ Selectable(p, Sel!Betano, betanoCatalogue, at, age) /\ chosen.provider = p.provider
          /\ chosen.selected.odds = p.odds /\ chosen.selected.bet = p.bet
       \/ Selectable(q, Sel!Betclic, betclicCatalogue, at, age) /\ chosen.provider = q.provider
          /\ chosen.selected.odds = q.odds /\ chosen.selected.bet = q.bet
    BY <1>6, <1>10, <1>11
<1>14. ASSUME policy.mode \in {"best", "preferred-unless-better"}
       PROVE  /\ Selectable(p, Sel!Betano, betanoCatalogue, at, age) => p.odds <= chosen.selected.odds
              /\ Selectable(q, Sel!Betclic, betclicCatalogue, at, age) => q.odds <= chosen.selected.odds
              /\ Selectable(p, Sel!Betano, betanoCatalogue, at, age) /\ p.odds = chosen.selected.odds =>
                    chosen.provider = Sel!Betano
  <2>1. IF b = Absent THEN x = a ELSE IF a = Absent THEN x = b
        ELSE IF b.odds > a.odds THEN x = b ELSE x = a
    BY <1>5, <1>6, <1>14
  <2> QED
    BY <1>6, <1>10, <1>11, <1>12, <2>1
<1> QED
    BY <1>9, <1>13, <1>14
=============================================================================
