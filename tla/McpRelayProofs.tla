---------------------------- MODULE McpRelayProofs ----------------------------
(***************************************************************************)
(* Proofs about the relay of tool calls, for any number of calls and tasks,*)
(* any deadlines of which the host's is the shorter, and any faults.       *)
(*                                                                         *)
(* Types hold with any number of loops.  The rest is proved of one loop    *)
(* (OneLoop): RelayInv ties mcp_drain_inflight to the one live task and    *)
(* the reaper's snapshot to the calls that wait, Clean and Pace add, as    *)
(* long as nothing failed, how often a call was run and how long it may    *)
(* have waited.  Every step is first put into one of a few kinds, by what  *)
(* it does to the databases, the guard and the tasks; the invariants are   *)
(* then followed through the kinds.                                        *)
(***************************************************************************)
EXTENDS McpRelay, WellFoundedInduction, TLAPS

\* What the proofs use of the constants.
LEMMA Bounds ==
    /\ MaxCalls \in Nat /\ MaxTasks \in Nat /\ MaxFaults \in Nat /\ HostDeadline \in Nat
    /\ RunnerDeadline \in Nat /\ HostDeadline < RunnerDeadline
    /\ \A c \in Calls : Kinds[c] \subseteq {"external", "preview"}
  BY RelayAssumption DEF Calls

\* A nonempty set of numbers has a least one.
LEMMA Least == ASSUME NEW S \in SUBSET Nat, S # {} PROVE \E n \in S : \A m \in S : n <= m
  <1> DEFINE R == OpToRel(<, Nat)
  <1>1. \E x \in S : \A y \in S : ~ (<<y, x>> \in R)
    <2>1. IsWellFoundedOn(R, Nat)
      BY NatLessThanWellFounded
    <2> HIDE DEF R
    <2> QED
      BY <2>1, WFMin
  <1>2. PICK x \in S : \A y \in S : ~ (<<y, x>> \in R)
    BY <1>1
  <1>3. ASSUME NEW y \in S PROVE ~ (y < x)
    BY <1>2, <1>3 DEF OpToRel
  <1> QED
    BY <1>3

\* The call a task works on is one of its batch.
LEMMA CurrentIn ==
    ASSUME TypeOK, NEW t \in Slots, task[t].todo # {}
    PROVE  Current(t) \in task[t].todo /\ Current(t) \in Calls
  <1>1. task[t].todo \in SUBSET Calls
    BY DEF TypeOK, TypeHost, TaskRec
  <1>2. task[t].todo \in SUBSET Nat
    BY <1>1, Bounds DEF Calls
  <1>3. \E c \in task[t].todo : \A d \in task[t].todo : c <= d
    BY <1>2, Least
  <1> QED
    BY <1>1, <1>3 DEF Current

-----------------------------------------------------------------------------
(* Types.  A task that executes or responds still has the call it is at.   *)

Holding == \A t \in Slots : task[t].step \in {"cached", "connect", "fresh", "respond"} => task[t].todo # {}

LEMMA BlankType == IdlePass \in PassRec /\ NoTask \in TaskRec
  BY Bounds DEF IdlePass, NoTask, PassRec, TaskRec

\* A task at the next call of its batch.
LEMMA BatchType ==
    ASSUME NEW S \in SUBSET Calls
    PROVE  Batch(S) \in TaskRec
  <1>1. 0 \in 0..HostDeadline
    BY Bounds
  <1> QED
    BY <1>1 DEF Batch, TaskRec

LEMMA FaultType == ASSUME TypeOK, Fault \/ UNCHANGED faults PROVE faults' \in 0..MaxFaults
  BY Bounds DEF TypeOK, TypeSeen, Fault

LEMMA RunType ==
    ASSUME TypeOK, NEW c \in Calls, Running(c) \/ UNCHANGED runs
    PROVE  runs' \in [Calls -> Nat]
  BY DEF TypeOK, TypeSeen, Running

\* The runner's steps.
LEMMA TypeRunnerStep ==
    ASSUME TypeOK, Holding, NEW c \in Calls, RunnerStep(c)
    PROVE  TypeOK' /\ Holding'
  <1> USE DEF TypeOK
  <1>0. UNCHANGED <<hostVars, obs>> /\ (Fault \/ UNCHANGED faults)
    BY DEF RunnerStep, dispatch_external, queue_error, poll_hit, poll_expire, poll_error, delete_request
  <1>1. TypeHost' /\ Holding'
    BY <1>0 DEF hostVars, TypeHost, Holding
  <1>2. TypeSeen'
    BY <1>0, FaultType DEF obs, TypeSeen
  <1>3. CASE dispatch_external(c)
    <2>1. PICK k \in {"external", "preview"} : kind' = [kind EXCEPT ![c] = k]
      BY <1>3, Bounds DEF dispatch_external
    <2> QED
      BY <1>1, <1>2, <1>3, <2>1 DEF dispatch_external, TypeRunner, Waits
  <1>4. CASE queue_error(c) \/ poll_hit(c) \/ poll_expire(c) \/ poll_error(c)
    BY <1>1, <1>2, <1>4 DEF queue_error, poll_hit, poll_expire, poll_error, TypeRunner, Waits, Ends
  <1>5. CASE delete_request(c)
    <2>1. Outcome(call[c]) \in Ends
      BY <1>5 DEF delete_request, Outcome, Ends
    <2>2. 0 \in 0..RunnerDeadline
      BY Bounds
    <2> QED
      BY <1>1, <1>2, <1>5, <2>1, <2>2 DEF delete_request, TypeRunner
  <1> QED
    BY <1>3, <1>4, <1>5 DEF RunnerStep

\* A loop's pass.
LEMMA TypePassStep ==
    ASSUME TypeOK, Holding, NEW p \in Loops, PassStep(p)
    PROVE  TypeOK' /\ Holding'
  <1> USE DEF TypeOK
  <1>0. UNCHANGED <<runnerVars, conn, obs>> /\ (Fault \/ UNCHANGED faults)
    BY DEF PassStep, list_requests, request_ids, gc_orphan_responses, check_inflight, response_ids,
       claim_and_spawn, DrainFails
  <1>1. TypeRunner' /\ TypeSeen'
    BY <1>0, FaultType DEF runnerVars, obs, TypeRunner, TypeSeen
  <1>a. pass \in [Loops -> PassRec] /\ requests \subseteq Calls /\ responses \subseteq Calls
    BY DEF TypeHost, TypeRunner
  <1>b. Finish(p) => pass' \in [Loops -> PassRec]
    BY <1>a, BlankType DEF Finish
  <1>2. CASE \/ list_requests(p) \/ request_ids(p) \/ gc_orphan_responses(p)
             \/ check_inflight(p) \/ response_ids(p) \/ DrainFails(p)
    <2>1. pass' \in [Loops -> PassRec]
      <3>1. CASE list_requests(p)
        BY <3>1, <1>a DEF list_requests, PassRec
      <3>2. CASE request_ids(p)
        <4>1. [pass[p] EXCEPT !.pc = "gc", !.live = requests] \in PassRec
          BY <1>a DEF PassRec
        <4>2. pass' = [pass EXCEPT ![p] = [pass[p] EXCEPT !.pc = "gc", !.live = requests]]
          BY <3>2, <1>a DEF request_ids
        <4> QED
          BY <1>a, <4>1, <4>2
      <3>3. CASE gc_orphan_responses(p)
        BY <3>3, <1>a, <1>b DEF gc_orphan_responses, PassRec
      <3>4. CASE check_inflight(p)
        BY <3>4, <1>a, <1>b DEF check_inflight, Goto, PassRec
      <3>5. CASE response_ids(p)
        <4>1. CASE Finish(p)
          BY <4>1, <1>b
        <4>2. CASE pass' = [pass EXCEPT ![p] = [IdlePass EXCEPT !.pc = "claim",
                                                    !.todo = pass[p].requests \ responses]]
          <5>1. pass[p].requests \ responses \in SUBSET Calls
            BY <1>a DEF PassRec
          <5>2. [IdlePass EXCEPT !.pc = "claim", !.todo = pass[p].requests \ responses] \in PassRec
            BY <5>1 DEF IdlePass, PassRec
          <5> QED
            BY <1>a, <4>2, <5>2
        <4> QED
          BY <3>5, <4>1, <4>2 DEF response_ids
      <3>6. CASE DrainFails(p)
        BY <3>6, <1>b DEF DrainFails
      <3> QED
        BY <1>2, <3>1, <3>2, <3>3, <3>4, <3>5, <3>6
    <2>2. UNCHANGED <<task, inflight>> /\ responses' \subseteq responses
      BY <1>2 DEF list_requests, request_ids, gc_orphan_responses, check_inflight, response_ids,
         DrainFails
    <2> QED
      BY <1>0, <1>1, <2>1, <2>2 DEF TypeHost, Holding
  <1>3. CASE claim_and_spawn(p)
    <2>1. PICK t \in Slots : task' = [task EXCEPT ![t] = Batch(pass[p].todo)]
      BY <1>3 DEF claim_and_spawn
    <2>2. Batch(pass[p].todo) \in TaskRec
      BY <1>a, BatchType DEF PassRec
    <2>5. task' \in [Slots -> TaskRec] /\ Holding'
      BY <2>1, <2>2 DEF TypeHost, Holding, Batch
    <2>4. inflight' \in BOOLEAN /\ pass' \in [Loops -> PassRec] /\ UNCHANGED responses
      BY <1>3, <1>b DEF claim_and_spawn
    <2> QED
      BY <1>0, <1>1, <2>5, <2>4 DEF TypeHost
  <1> QED
    BY <1>2, <1>3 DEF PassStep

\* A drain task.
LEMMA TypeTaskStep ==
    ASSUME TypeOK, Holding, NEW t \in Slots, TaskStep(t)
    PROVE  TypeOK' /\ Holding'
  <1> USE DEF TypeOK
  <1>0. UNCHANGED <<runnerVars, pass, crowded>> /\ (Fault \/ UNCHANGED faults)
    BY DEF TaskStep, Unserviceable, execute_preview_call, checkout, connect, CallReturns, dead_retry,
       dead_fresh, execute_mcp_call_bounded, insert_response, TaskEnds, TaskPanics, obs
  <1>a. task \in [Slots -> TaskRec] /\ conn \in {"none", "live", "dead"} /\ inflight \in BOOLEAN
    BY DEF TypeHost
  <1>b. UNCHANGED runs \/ (task[t].todo # {} /\ Running(Current(t)))
    BY DEF TaskStep, Unserviceable, execute_preview_call, checkout, connect, CallReturns, dead_retry,
       dead_fresh, execute_mcp_call_bounded, insert_response, TaskEnds, TaskPanics, obs, Holding, Busy
  <1>1. TypeRunner' /\ TypeSeen'
    <2>1. runs' \in [Calls -> Nat]
      BY <1>b, CurrentIn, RunType DEF TypeSeen
    <2> QED
      BY <1>0, <2>1, FaultType DEF runnerVars, TypeRunner, TypeSeen
  <1>c. task[t].todo # {} /\ Respond(t) => task' \in [Slots -> TaskRec] /\ Holding'
    <2> DEFINE v == [task[t] EXCEPT !.step = "respond", !.client = "none"]
    <2>1. v \in TaskRec /\ v.todo = task[t].todo
      BY <1>a DEF TaskRec
    <2>2. Respond(t) => task' = [task EXCEPT ![t] = v]
      BY <1>a DEF Respond
    <2> HIDE DEF v
    <2> QED
      BY <1>a, <2>1, <2>2 DEF Holding
  <1>2. task' \in [Slots -> TaskRec] /\ Holding'
    <2>1. CASE Unserviceable(t)
      <3>1. task[t].todo # {} /\ Respond(t)
        BY <2>1 DEF Unserviceable
      <3> QED
        BY <3>1, <1>c
    <2>2. CASE execute_preview_call(t)
      BY <1>a, <2>2 DEF execute_preview_call, Step, TaskRec, Holding
    <2>3. CASE checkout(t)
      BY <1>a, <2>3 DEF checkout, Step, TaskRec, Holding
    <2>4. CASE connect(t)
      <3>1. task[t].todo # {}
        BY <2>4 DEF connect, Busy, Holding
      <3>2. CASE task' = [task EXCEPT ![t].step = "fresh", ![t].client = "live"]
        <4>1. [task[t] EXCEPT !.step = "fresh", !.client = "live"] \in TaskRec
          BY <1>a DEF TaskRec
        <4>2. task' = [task EXCEPT ![t] = [task[t] EXCEPT !.step = "fresh", !.client = "live"]]
          BY <3>2, <1>a
        <4>3. [task[t] EXCEPT !.step = "fresh", !.client = "live"].todo = task[t].todo
          BY <1>a DEF TaskRec
        <4> QED
          BY <1>a, <3>1, <4>1, <4>2, <4>3 DEF Holding
      <3>3. CASE Respond(t)
        BY <3>1, <3>3, <1>c
      <3> QED
        BY <2>4, <3>2, <3>3 DEF connect
    <2>5. CASE CallReturns(t) \/ dead_fresh(t)
      <3>1. task[t].todo # {} /\ Respond(t)
        BY <2>5 DEF CallReturns, dead_fresh, Holding, Busy
      <3> QED
        BY <3>1, <1>c
    <2>6. CASE dead_retry(t)
      BY <1>a, <2>6 DEF dead_retry, TaskRec, Holding, Busy
    <2>7. CASE execute_mcp_call_bounded(t)
      <3>1. task[t].todo # {} /\ Respond(t)
        BY <2>7 DEF execute_mcp_call_bounded, Holding
      <3> QED
        BY <3>1, <1>c
    <2>8. CASE insert_response(t)
      <3>1. task[t].todo \ {Current(t)} \in SUBSET Calls
        BY <1>a DEF TaskRec
      <3>2. PICK r \in TaskRec : task' = [task EXCEPT ![t] = r] /\ r.step = "next"
        BY <2>8, <3>1, BatchType DEF insert_response, Batch
      <3> QED
        BY <1>a, <3>2 DEF Holding
    <2>9. CASE TaskEnds(t) \/ TaskPanics(t)
      <3>1. NoTask \in TaskRec /\ NoTask.step = "none"
        BY BlankType DEF NoTask
      <3>2. task' = [task EXCEPT ![t] = NoTask]
        BY <2>9 DEF TaskEnds, TaskPanics
      <3> HIDE DEF NoTask
      <3> QED
        BY <1>a, <3>1, <3>2 DEF Holding
    <2> QED
      BY <2>1, <2>2, <2>3, <2>4, <2>5, <2>6, <2>7, <2>8, <2>9 DEF TaskStep
  <1>3. responses' \subseteq Calls
    <2>1. CASE insert_response(t)
      <3>1. Current(t) \in Calls
        BY <2>1, CurrentIn DEF insert_response, Busy, Holding
      <3> QED
        BY <2>1, <3>1 DEF insert_response, TypeHost
    <2>2. CASE ~ insert_response(t)
      BY <2>2 DEF TypeHost, TaskStep, Unserviceable, execute_preview_call, checkout, connect, CallReturns,
         dead_retry, dead_fresh, execute_mcp_call_bounded, TaskEnds, TaskPanics
    <2> QED
      BY <2>1, <2>2
  <1>4. conn' \in {"none", "live", "dead"}
    BY <1>a DEF TaskStep, Unserviceable, execute_preview_call, checkout, connect, CallReturns, dead_retry,
       dead_fresh, execute_mcp_call_bounded, insert_response, TaskEnds, TaskPanics
  <1>5. inflight' \in BOOLEAN
    <2>1. UNCHANGED inflight \/ inflight' = FALSE
      BY DEF TaskStep, Unserviceable, execute_preview_call, checkout, connect, CallReturns, dead_retry,
         dead_fresh, execute_mcp_call_bounded, insert_response, TaskEnds, TaskPanics
    <2> QED
      BY <1>a, <2>1
  <1> QED
    BY <1>0, <1>1, <1>2, <1>3, <1>4, <1>5 DEF TypeHost

\* The environment and the clock.
LEMMA TypeWorldStep ==
    ASSUME TypeOK, Holding, RunnerDies \/ ServerDies \/ reap_idle \/ HostRestarts \/ Tick
    PROVE  TypeOK' /\ Holding'
  <1> USE DEF TypeOK
  <1>1. CASE RunnerDies
    <2>1. 0 \in 0..RunnerDeadline
      BY Bounds
    <2> QED
      BY <1>1, <2>1, FaultType DEF RunnerDies, hostVars, obs, TypeRunner, TypeHost, TypeSeen, Ends, Holding
  <1>2. CASE ServerDies
    <2>1. task' \in [Slots -> TaskRec] /\ Holding'
      BY <1>2 DEF ServerDies, TypeHost, TaskRec, Holding
    <2> QED
      BY <1>2, <2>1, FaultType DEF ServerDies, runnerVars, obs, TypeRunner, TypeHost, TypeSeen
  <1>3. CASE reap_idle
    BY <1>3 DEF reap_idle, runnerVars, obs, TypeRunner, TypeHost, TypeSeen, Holding
  <1>4. CASE HostRestarts
    <2>1. task' \in [Slots -> TaskRec] /\ Holding' /\ pass' \in [Loops -> PassRec]
      BY <1>4, BlankType DEF HostRestarts, Holding, NoTask
    <2> QED
      BY <1>4, <2>1, FaultType DEF HostRestarts, runnerVars, obs, TypeRunner, TypeHost, TypeSeen
  <1>5. CASE Tick
    <2>1. task' \in [Slots -> TaskRec] /\ Holding'
      <3>1. \A t \in Slots : task[t].spent < HostDeadline => task[t].spent + 1 \in 0..HostDeadline
        BY Bounds DEF TypeHost, TaskRec
      <3> QED
        BY <1>5, <3>1 DEF Tick, TypeHost, TaskRec, Holding
    <2>2. age' \in [Calls -> 0..RunnerDeadline]
      BY <1>5, Bounds DEF Tick, TypeRunner, Expired
    <2>3. crowded' \subseteq Calls
      BY <1>5 DEF Tick, TypeSeen, Crowd
    <2>4. Fault \/ UNCHANGED faults
      BY <1>5 DEF Tick
    <2> QED
      BY <1>5, <2>1, <2>2, <2>3, <2>4, FaultType DEF Tick, TypeRunner, TypeHost, TypeSeen
  <1> QED
    BY <1>1, <1>2, <1>3, <1>4, <1>5

\* Every variable keeps its type, and a task that executes or responds has the
\* call it is at, for any number of loops, calls, tasks and faults.
THEOREM RelayTypeSafety == Spec => [](TypeOK /\ Holding)
  <1>1. Init => TypeOK /\ Holding
    <2>1. 0 \in 0..RunnerDeadline /\ 0 \in 0..MaxFaults /\ 0 \in Nat
      BY Bounds
    <2>2. Init => TypeRunner
      BY <2>1 DEF Init, TypeRunner
    <2>3. Init => Holding
      BY DEF Init, Holding, NoTask
    <2>4. FALSE \in BOOLEAN
      OBVIOUS
    <2>5. Init => TypeHost
      BY <2>4, BlankType DEF Init, TypeHost
    <2>6. Init => TypeSeen
      BY <2>1 DEF Init, TypeSeen
    <2> QED
      BY <2>2, <2>3, <2>5, <2>6 DEF TypeOK
  <1>2. TypeOK /\ Holding /\ [Next]_vars => (TypeOK /\ Holding)'
    <2> SUFFICES ASSUME TypeOK, Holding, [Next]_vars PROVE TypeOK' /\ Holding'
      OBVIOUS
    <2>1. CASE UNCHANGED vars
      BY <2>1 DEF vars, TypeOK, TypeRunner, TypeHost, TypeSeen, Holding
    <2> QED
      BY <2>1, TypeRunnerStep, TypePassStep, TypeTaskStep, TypeWorldStep DEF Next
  <1> QED
    BY <1>1, <1>2, PTL DEF Spec

\* Every variable of the relay keeps its type, the deadlines included.
THEOREM RelayTypeCorrect == Spec => []TypeOK
  BY RelayTypeSafety, PTL

-----------------------------------------------------------------------------
(* The steps, as the invariants below see them.                            *)

\* A call that is not yet made is nowhere, and one that waits has its request.
Unasked ==
    \A c \in Calls : call[c] = "new" =>
        /\ c \notin requests /\ c \notin responses
        /\ \A p \in Loops : c \notin pass[p].requests /\ c \notin pass[p].todo
        /\ \A t \in Slots : c \notin task[t].todo
        /\ runs[c] = 0 /\ age[c] = 0
Asked == \A c \in Calls : call[c] = "waiting" => c \in requests

\* With one loop, the guard is filled exactly while one task is alive, and a
\* pass that has looked at it finds it still empty when it fills it.
Alive(t) == task[t].step # "none"
Alone ==
    /\ \A p \in Loops : pass[p].pc \in {"answered", "claim"} => ~ inflight
    /\ ~ inflight => \A t \in Slots : ~ Alive(t)
    /\ inflight => \E t \in Slots : Alive(t)
    /\ \A t, u \in Slots : Alive(t) /\ Alive(u) => t = u

\* What the reaper takes for an orphan nobody waits for.
ReapSafe ==
    \A p \in Loops : pass[p].pc = "gc" =>
        \A c \in Calls : call[c] = "waiting" =>
            c \in pass[p].live \/ (c \notin responses /\ \A t \in Slots : c \notin task[t].todo)

RelayInv == Unasked /\ Asked /\ Alone /\ ReapSafe

\* The two delivery loops of the code drain the same sessions; what follows is
\* proved of a host in which one does.
OneLoop == \A p, q \in Loops : p = q

\* The runner answers, gives up or dies: calls are taken off, none is made.
TakenOff ==
    /\ UNCHANGED <<hostVars, obs, kind>> /\ requests' \subseteq requests
    /\ faults' \in {faults, faults + 1}
    /\ \A c \in Calls : call'[c] = "waiting" =>
          call[c] = "waiting" /\ age'[c] = age[c] /\ (c \in requests => c \in requests')
    /\ \A c \in Calls : call'[c] = "new" => call[c] = "new" /\ age'[c] \in {0, age[c]}

LEMMA RunnerEffect ==
    ASSUME TypeOK, NEW c \in Calls, RunnerStep(c), ~ dispatch_external(c)
    PROVE  TakenOff
  <1>1. CASE queue_error(c)
    BY <1>1 DEF queue_error, Fault, TakenOff, TypeOK, TypeRunner
  <1>2. CASE poll_hit(c) \/ poll_expire(c) \/ poll_error(c)
    BY <1>2 DEF poll_hit, poll_expire, poll_error, Fault, TakenOff, TypeOK, TypeRunner
  <1>3. CASE delete_request(c)
    <2>1. Outcome(call[c]) \notin {"new", "waiting"}
      BY <1>3 DEF delete_request, Outcome
    <2> QED
      BY <1>3, <2>1 DEF delete_request, Fault, TakenOff, TypeOK, TypeRunner
  <1> QED
    BY <1>1, <1>2, <1>3 DEF RunnerStep

LEMMA DeathEffect == ASSUME TypeOK, RunnerDies PROVE TakenOff
  BY DEF RunnerDies, Fault, TakenOff, TypeOK, TypeRunner, Open, Waits

\* A task goes on with the call it is at; it runs the call only to respond.
Healthy == conn # "dead" /\ \A t \in Slots : task[t].client # "dead"
Advance(t) ==
    /\ task[t].step \in {"next", "cached", "connect", "fresh"} /\ task[t].todo # {}
    /\ task'[t].step \in {"cached", "connect", "fresh", "respond"}
    /\ task'[t].todo = task[t].todo /\ task'[t].spent = task[t].spent
    /\ \A u \in Slots \ {t} : task'[u] = task[u]
    /\ UNCHANGED <<runnerVars, responses, pass, inflight, crowded, faults>>
    /\ \/ UNCHANGED runs
       \/ Running(Current(t)) /\ task[t].step # "next" /\ (Healthy => task'[t].step = "respond")
    /\ Healthy => Healthy'

Working(t) ==
    \/ Unserviceable(t) \/ execute_preview_call(t) \/ checkout(t) \/ connect(t)
    \/ CallReturns(t) \/ dead_retry(t) \/ dead_fresh(t) \/ execute_mcp_call_bounded(t)

LEMMA TaskEffect ==
    ASSUME TypeOK, Holding, NEW t \in Slots, Working(t)
    PROVE  Advance(t)
  <1>a. task \in [Slots -> TaskRec] /\ conn \in {"none", "live", "dead"}
    BY DEF TypeOK, TypeHost
  <1> USE DEF Advance, Busy, Holding, Healthy, obs, TaskRec
  <1>1. CASE Unserviceable(t)
    BY <1>1, <1>a DEF Unserviceable, Respond
  <1>2. CASE execute_preview_call(t)
    BY <1>2, <1>a DEF execute_preview_call, Step
  <1>3. CASE checkout(t)
    <2>1. CASE conn = "none"
      BY <1>3, <1>a, <2>1 DEF checkout, Step
    <2>2. CASE conn # "none"
      BY <1>3, <1>a, <2>2 DEF checkout
    <2> QED
      BY <2>1, <2>2
  <1>4. CASE connect(t)
    BY <1>4, <1>a DEF connect, Respond
  <1>5. CASE CallReturns(t)
    BY <1>5, <1>a DEF CallReturns, Respond
  <1>6. CASE dead_retry(t)
    BY <1>6, <1>a DEF dead_retry
  <1>7. CASE dead_fresh(t)
    BY <1>7, <1>a DEF dead_fresh, Respond
  <1>8. CASE execute_mcp_call_bounded(t)
    BY <1>8, <1>a DEF execute_mcp_call_bounded, Respond
  <1> QED
    BY <1>1, <1>2, <1>3, <1>4, <1>5, <1>6, <1>7, <1>8 DEF Working

\* The call a task is at depends on its batch only.
LEMMA SameCurrent ==
    ASSUME NEW t \in Slots, task'[t].todo = task[t].todo
    PROVE  Current(t)' = Current(t)
  BY DEF Current

\* The response is written, or the write fails; the call leaves the batch.
Responds(t) ==
    /\ task[t].step = "respond" /\ task[t].todo # {}
    /\ task'[t].step = "next" /\ task'[t].client = "none"
    /\ task'[t].todo = task[t].todo \ {Current(t)}
    /\ \A u \in Slots \ {t} : task'[u] = task[u]
    /\ \/ responses' = responses \cup {Current(t)} /\ UNCHANGED faults
       \/ UNCHANGED responses /\ faults' = faults + 1
    /\ UNCHANGED <<runnerVars, pass, inflight, conn, obs>>

LEMMA RespondEffect ==
    ASSUME TypeOK, Holding, NEW t \in Slots, insert_response(t)
    PROVE  Responds(t)
  BY DEF insert_response, Responds, Busy, Holding, Batch, Fault, TypeOK, TypeHost

\* A task ends or panics: the guard goes with it.
Quits(t) ==
    /\ Alive(t) /\ task'[t] = NoTask /\ inflight' = FALSE
    /\ \A u \in Slots \ {t} : task'[u] = task[u]
    /\ UNCHANGED <<runnerVars, responses, pass, conn, obs>>
    /\ (task[t].step = "next" /\ UNCHANGED faults) \/ faults' = faults + 1

LEMMA QuitEffect ==
    ASSUME TypeOK, NEW t \in Slots, TaskEnds(t) \/ TaskPanics(t)
    PROVE  Quits(t)
  <1>1. task' = [task EXCEPT ![t] = NoTask] /\ task \in [Slots -> TaskRec]
    BY DEF TaskEnds, TaskPanics, TypeOK, TypeHost
  <1>2. task'[t] = NoTask /\ \A u \in Slots \ {t} : task'[u] = task[u]
    BY <1>1
  <1> QED
    BY <1>2 DEF TaskEnds, TaskPanics, Quits, Alive, Busy, Fault, obs

\* A pass that neither reaps nor spawns, and what it may know after its step.
Looks(p) ==
    /\ \A q \in Loops \ {p} : pass'[q] = pass[q]
    /\ UNCHANGED <<runnerVars, responses, inflight, task, conn, obs>>
    /\ faults' \in {faults, faults + 1}
    /\ pass'[p].requests \subseteq pass[p].requests \cup requests
    /\ pass'[p].todo \subseteq pass[p].todo \cup pass[p].requests
    /\ pass'[p].pc \in {"answered", "claim"} => ~ inflight \/ pass[p].pc \in {"answered", "claim"}
    /\ pass'[p].pc = "gc" => pass'[p].live = requests
    /\ pass'[p].pc = "claim" => pass'[p].todo \cap responses = {}

LEMMA PassEffect ==
    ASSUME TypeOK, NEW p \in Loops,
           \/ list_requests(p) \/ request_ids(p) \/ check_inflight(p) \/ response_ids(p) \/ DrainFails(p)
    PROVE  Looks(p)
  <1>a. pass \in [Loops -> PassRec]
    BY DEF TypeOK, TypeHost
  <1>b. /\ UNCHANGED <<runnerVars, responses, inflight, task, conn, obs>>
        /\ faults' \in {faults, faults + 1}
    BY DEF list_requests, request_ids, check_inflight, response_ids, DrainFails, Fault
  <1>c. ASSUME Finish(p) PROVE Looks(p)
    BY <1>a, <1>b, <1>c DEF Finish, IdlePass, Looks
  <1>1. CASE list_requests(p)
    BY <1>1, <1>a, <1>b DEF list_requests, Looks
  <1>2. CASE request_ids(p)
    BY <1>2, <1>a, <1>b DEF request_ids, Looks, PassRec
  <1>3. CASE check_inflight(p)
    BY <1>3, <1>a, <1>b, <1>c DEF check_inflight, Goto, Looks, PassRec
  <1>4. CASE response_ids(p)
    <2>1. CASE pass' = [pass EXCEPT ![p] = [IdlePass EXCEPT !.pc = "claim",
                                                !.todo = pass[p].requests \ responses]]
      <3>1. pass'[p] = [pc |-> "claim", requests |-> {}, live |-> {},
                        todo |-> pass[p].requests \ responses]
        BY <1>a, <2>1 DEF IdlePass
      <3>2. \A q \in Loops \ {p} : pass'[q] = pass[q]
        BY <1>a, <2>1
      <3>3. pass[p].pc = "answered"
        BY <1>4 DEF response_ids, At
      <3> QED
        BY <1>b, <3>1, <3>2, <3>3 DEF Looks
    <2> QED
      BY <1>4, <1>c, <2>1 DEF response_ids
  <1>5. CASE DrainFails(p)
    BY <1>5, <1>c DEF DrainFails
  <1> QED
    BY <1>1, <1>2, <1>3, <1>4, <1>5

\* The reaper's step.
Reaps(p) ==
    /\ pass[p].pc = "gc" /\ responses' = responses \cap pass[p].live
    /\ \A q \in Loops \ {p} : pass'[q] = pass[q]
    /\ pass'[p].pc \in {"idle", "guard"}
    /\ pass'[p].requests \subseteq pass[p].requests /\ pass'[p].todo \subseteq pass[p].todo
    /\ UNCHANGED <<runnerVars, inflight, task, conn, obs, faults>>

LEMMA ReapEffect ==
    ASSUME TypeOK, NEW p \in Loops, gc_orphan_responses(p)
    PROVE  Reaps(p)
  <1>a. pass \in [Loops -> PassRec]
    BY DEF TypeOK, TypeHost
  <1> QED
    BY <1>a DEF gc_orphan_responses, Reaps, At, Finish, IdlePass, PassRec

\* A task is spawned with the batch of the pass, and the guard filled.
Spawns(p) ==
    /\ pass[p].pc = "claim" /\ pass'[p] = IdlePass /\ inflight' = TRUE
    /\ \A q \in Loops \ {p} : pass'[q] = pass[q]
    /\ \E t \in Slots : /\ task[t] = NoTask /\ task'[t] = Batch(pass[p].todo)
                         /\ \A u \in Slots \ {t} : task'[u] = task[u]
    /\ UNCHANGED <<runnerVars, responses, conn, obs, faults>>

LEMMA SpawnEffect ==
    ASSUME TypeOK, NEW p \in Loops, claim_and_spawn(p)
    PROVE  Spawns(p)
  <1>a. pass \in [Loops -> PassRec] /\ task \in [Slots -> TaskRec]
    BY DEF TypeOK, TypeHost
  <1>1. PICK t \in Slots : task[t] = NoTask /\ task' = [task EXCEPT ![t] = Batch(pass[p].todo)]
    BY DEF claim_and_spawn
  <1>2. task'[t] = Batch(pass[p].todo) /\ \A u \in Slots \ {t} : task'[u] = task[u]
    BY <1>a, <1>1
  <1>3. pass'[p] = IdlePass /\ \A q \in Loops \ {p} : pass'[q] = pass[q]
    BY <1>a DEF claim_and_spawn, Finish
  <1> QED
    BY <1>1, <1>2, <1>3 DEF claim_and_spawn, Spawns, At

\* The server's death and the clock touch no batch and no step of a task.
Passes ==
    /\ \A t \in Slots : task'[t].step = task[t].step /\ task'[t].todo = task[t].todo
    /\ UNCHANGED <<requests, responses, call, kind, pass, inflight, runs>>
    /\ \A c \in Calls : call[c] = "new" => age'[c] = age[c]

LEMMA WorldEffect == ASSUME TypeOK, ServerDies \/ reap_idle \/ Tick \/ UNCHANGED vars PROVE Passes
  <1>a. task \in [Slots -> TaskRec]
    BY DEF TypeOK, TypeHost
  <1>1. CASE ServerDies
    BY <1>1, <1>a DEF ServerDies, Passes, runnerVars, obs, TaskRec
  <1>2. CASE reap_idle \/ UNCHANGED vars
    BY <1>2 DEF reap_idle, vars, Passes, runnerVars, obs
  <1>3. CASE Tick
    BY <1>3, <1>a DEF Tick, Passes, TaskRec, TypeOK, TypeRunner
  <1> QED
    BY <1>1, <1>2, <1>3

-----------------------------------------------------------------------------
(* The relay of one loop: the guard, the batches and the reaper.           *)

\* Every step is of one of these kinds.
LEMMA StepKindsOrWorld ==
    ASSUME TypeOK, Holding, [Next]_vars
    PROVE  \/ \E c \in Calls : dispatch_external(c)
           \/ TakenOff
           \/ \E p \in Loops : Looks(p) \/ Reaps(p) \/ Spawns(p)
           \/ \E t \in Slots : Advance(t) \/ Responds(t) \/ Quits(t)
           \/ HostRestarts \/ ServerDies \/ reap_idle \/ Tick \/ UNCHANGED vars
  <1>1. ASSUME NEW c \in Calls, RunnerStep(c) PROVE dispatch_external(c) \/ TakenOff
    BY <1>1, RunnerEffect
  <1>2. ASSUME NEW p \in Loops, PassStep(p) PROVE Looks(p) \/ Reaps(p) \/ Spawns(p)
    BY <1>2, PassEffect, ReapEffect, SpawnEffect DEF PassStep
  <1>3. ASSUME NEW t \in Slots, TaskStep(t) PROVE Advance(t) \/ Responds(t) \/ Quits(t)
    BY <1>3, TaskEffect, RespondEffect, QuitEffect DEF TaskStep, Working
  <1> QED
    BY <1>1, <1>2, <1>3, DeathEffect DEF Next

LEMMA StepKinds ==
    ASSUME TypeOK, Holding, [Next]_vars
    PROVE  \/ \E c \in Calls : dispatch_external(c)
           \/ TakenOff
           \/ \E p \in Loops : Looks(p) \/ Reaps(p) \/ Spawns(p)
           \/ \E t \in Slots : Advance(t) \/ Responds(t) \/ Quits(t)
           \/ HostRestarts
           \/ Passes
  BY StepKindsOrWorld, WorldEffect

\* A new call is asked for the first time; nothing else knows of it.
LEMMA DispatchRelay ==
    ASSUME TypeOK, RelayInv, NEW c \in Calls, dispatch_external(c)
    PROVE  RelayInv'
  <1>1. /\ call[c] = "new" /\ call' = [call EXCEPT ![c] = "waiting"] /\ requests' = requests \cup {c}
        /\ UNCHANGED <<age, responses, pass, inflight, task, conn, runs, faults>>
    BY DEF dispatch_external, hostVars, obs
  <1>2. \A d \in Calls : call'[d] = IF d = c THEN "waiting" ELSE call[d]
    BY <1>1 DEF TypeOK, TypeRunner
  <1>3. Unasked' /\ Asked'
    BY <1>1, <1>2 DEF RelayInv, Unasked, Asked
  <1>4. Alone'
    BY <1>1 DEF RelayInv, Alone, Alive
  <1>5. ReapSafe'
    BY <1>1, <1>2 DEF RelayInv, Unasked, ReapSafe
  <1> QED
    BY <1>3, <1>4, <1>5 DEF RelayInv

LEMMA RelayStep ==
    ASSUME TypeOK, Holding, OneLoop, RelayInv, [Next]_vars
    PROVE  RelayInv'
  <1> USE DEF RelayInv
  <1>1. CASE \E c \in Calls : dispatch_external(c)
    BY <1>1, DispatchRelay
  <1>2. CASE TakenOff
    <2>1. UNCHANGED <<responses, pass, inflight, task, runs>>
      BY <1>2 DEF TakenOff, hostVars, obs
    <2>2. Unasked'
      BY <1>2, <2>1 DEF TakenOff, Unasked
    <2>3. Asked'
      BY <1>2 DEF TakenOff, Asked
    <2>4. Alone' /\ ReapSafe'
      BY <1>2, <2>1 DEF TakenOff, Alone, Alive, ReapSafe
    <2> QED
      BY <2>2, <2>3, <2>4
  <1>3. ASSUME NEW p \in Loops, Looks(p) PROVE RelayInv'
    <2>0. UNCHANGED <<requests, call, age, responses, inflight, task, runs>>
      BY <1>3 DEF Looks, runnerVars, obs
    <2>1. Unasked' /\ Asked'
      BY <1>3, <2>0 DEF Looks, Unasked, Asked
    <2>2. Alone'
      BY <1>3, <2>0 DEF Looks, Alone, Alive
    <2>3. ReapSafe'
      BY <1>3, <2>0 DEF Looks, ReapSafe, Asked
    <2> QED
      BY <2>1, <2>2, <2>3
  <1>4. ASSUME NEW p \in Loops, Reaps(p) PROVE RelayInv'
    <2>0. UNCHANGED <<requests, call, age, inflight, task, runs>> /\ responses' \subseteq responses
      BY <1>4 DEF Reaps, runnerVars, obs
    <2>1. Unasked' /\ Asked'
      BY <1>4, <2>0 DEF Reaps, Unasked, Asked
    <2>2. Alone' /\ ReapSafe'
      BY <1>4, <2>0 DEF Reaps, Alone, Alive, ReapSafe
    <2> QED
      BY <2>1, <2>2
  <1>5. ASSUME NEW p \in Loops, Spawns(p) PROVE RelayInv'
    <2>0. /\ UNCHANGED <<requests, call, age, responses, runs>> /\ inflight' = TRUE
          /\ pass'[p].pc = "idle" /\ pass'[p].requests = {} /\ pass'[p].todo = {}
          /\ \A q \in Loops : q = p
      BY <1>5 DEF Spawns, runnerVars, obs, IdlePass, OneLoop
    <2>1. PICK t \in Slots : /\ task'[t].step = "next" /\ task'[t].todo = pass[p].todo
                             /\ \A u \in Slots \ {t} : task'[u] = task[u]
      BY <1>5 DEF Spawns, Batch
    <2>2. Unasked' /\ Asked'
      BY <2>0, <2>1 DEF Unasked, Asked
    <2>3. \A u \in Slots : ~ Alive(u)
      BY <1>5 DEF Spawns, Alone
    <2>4. Alone' /\ ReapSafe'
      BY <2>0, <2>1, <2>3 DEF Alone, Alive, ReapSafe
    <2> QED
      BY <2>2, <2>4
  <1>6. ASSUME NEW t \in Slots, Advance(t) PROVE RelayInv'
    <2>0. /\ UNCHANGED <<requests, call, age, responses, pass, inflight>>
          /\ \A u \in Slots : task'[u].todo = task[u].todo /\ (Alive(u)' <=> Alive(u))
      BY <1>6 DEF Advance, runnerVars, Alive
    <2>1. Current(t) \in task[t].todo /\ Current(t) \in Calls
      BY <1>6, CurrentIn DEF Advance
    <2>2. \A c \in Calls : call[c] = "new" => runs'[c] = runs[c]
      BY <1>6, <2>1 DEF Advance, Running, Unasked, TypeOK, TypeSeen
    <2>3. Unasked' /\ Asked'
      BY <2>0, <2>2 DEF Unasked, Asked
    <2>4. Alone'
      BY <2>0 DEF Alone
    <2>5. ReapSafe'
      BY <2>0 DEF ReapSafe
    <2> QED
      BY <2>3, <2>4, <2>5
  <1>7. ASSUME NEW t \in Slots, Responds(t) PROVE RelayInv'
    <2>0. /\ UNCHANGED <<requests, call, age, pass, inflight, runs>>
          /\ \A u \in Slots : task'[u].todo \subseteq task[u].todo /\ (Alive(u)' <=> Alive(u))
          /\ responses' \subseteq responses \cup {Current(t)}
      BY <1>7 DEF Responds, runnerVars, Alive, obs
    <2>1. Current(t) \in task[t].todo /\ Current(t) \in Calls
      BY <1>7, CurrentIn DEF Responds
    <2>3. Unasked' /\ Asked'
      BY <2>0, <2>1 DEF Unasked, Asked
    <2>4. Alone'
      BY <2>0 DEF Alone
    <2>5. ReapSafe'
      BY <2>0, <2>1 DEF ReapSafe
    <2> QED
      BY <2>3, <2>4, <2>5
  <1>8. ASSUME NEW t \in Slots, Quits(t) PROVE RelayInv'
    <2>0. /\ UNCHANGED <<requests, call, age, responses, pass, runs>> /\ inflight' = FALSE
          /\ task'[t].step = "none" /\ task'[t].todo = {}
          /\ \A u \in Slots \ {t} : task'[u] = task[u] /\ ~ Alive(u)
      BY <1>8 DEF Quits, runnerVars, obs, NoTask, Alone
    <2>1. Unasked' /\ Asked'
      BY <2>0 DEF Unasked, Asked
    <2>2. Alone' /\ ReapSafe'
      BY <2>0 DEF Alone, Alive, ReapSafe
    <2> QED
      BY <2>1, <2>2
  <1>9. CASE HostRestarts
    <2>0. /\ UNCHANGED <<requests, call, age, responses, runs>> /\ inflight' = FALSE
          /\ \A u \in Slots : task'[u].step = "none" /\ task'[u].todo = {}
          /\ \A p \in Loops : pass'[p].pc = "idle" /\ pass'[p].requests = {} /\ pass'[p].todo = {}
      BY <1>9 DEF HostRestarts, runnerVars, obs, NoTask, IdlePass
    <2> QED
      BY <2>0 DEF Unasked, Asked, Alone, Alive, ReapSafe
  <1>10. CASE Passes
    BY <1>10 DEF Passes, Unasked, Asked, Alone, Alive, ReapSafe
  <1> QED
    BY <1>1, <1>2, <1>3, <1>4, <1>5, <1>6, <1>7, <1>8, <1>9, <1>10, StepKinds

LEMMA RelayInit == ASSUME Init PROVE RelayInv
  <1>1. /\ \A c \in Calls : call[c] = "new" /\ runs[c] = 0 /\ age[c] = 0
        /\ requests = {} /\ responses = {} /\ ~ inflight
        /\ \A p \in Loops : pass[p].pc = "idle" /\ pass[p].requests = {} /\ pass[p].todo = {}
        /\ \A t \in Slots : task[t].step = "none" /\ task[t].todo = {}
    BY DEF Init, IdlePass, NoTask
  <1> QED
    BY <1>1 DEF RelayInv, Unasked, Asked, Alone, Alive, ReapSafe

\* With one loop draining it, a session's responses are dropped only when their
\* calls no longer wait for them.
THEOREM ResponsesAreReadFirst == OneLoop => (Spec => ReadBeforeReap)
  <1> SUFFICES ASSUME OneLoop PROVE Spec => ReadBeforeReap
    OBVIOUS
  <1>1. TypeOK /\ Holding /\ RelayInv /\ [Next]_vars => RelayInv'
    BY RelayStep
  <1>2. TypeOK /\ Holding /\ RelayInv /\ [Next]_vars =>
            [\A c \in responses \ responses' : call[c] # "waiting"]_vars
    <2> SUFFICES ASSUME TypeOK, Holding, RelayInv, [Next]_vars,
                        NEW c \in responses, c \notin responses', call[c] = "waiting"
                 PROVE  FALSE
      OBVIOUS
    <2>1. ~ responses \subseteq responses' /\ c \in Calls
      BY DEF TypeOK, TypeHost
    <2>2. PICK p \in Loops : Reaps(p)
      BY <2>1, StepKinds DEF dispatch_external, TakenOff, Looks, Spawns, Advance, Responds, Quits,
         HostRestarts, Passes, hostVars
    <2> QED
      BY <2>1, <2>2 DEF Reaps, RelayInv, ReapSafe
  <1> QED
    BY <1>1, <1>2, RelayInit, RelayTypeSafety, PTL DEF Spec, ReadBeforeReap

-----------------------------------------------------------------------------
(* Undisturbed: one loop, and no fault yet.                                *)

\* A call that waits was run at most once, and then it is answered or its task
\* is about to answer; once answered, no batch holds it.
Once(c) ==
    /\ runs[c] <= 1
    /\ runs[c] = 1 => \/ c \in responses
                      \/ \E t \in Slots : task[t].step = "respond" /\ Current(t) = c
    /\ c \in responses =>
          /\ \A t \in Slots : Alive(t) => c \notin task[t].todo
          /\ \A p \in Loops : pass[p].pc = "claim" => c \notin pass[p].todo
Clean == faults = 0 => Healthy /\ \A c \in Calls : call[c] = "waiting" => Once(c)

\* An external call that waits, and shared the task with no other, has aged only
\* while a task was executing it.
Served(t, c) ==
    /\ task[t].todo # {} /\ Current(t) = c
    /\ task[t].step = "respond" \/ (Executing(t) /\ age[c] <= task[t].spent)
Paced(c) ==
    /\ age[c] <= HostDeadline
    /\ age[c] = 0 \/ c \in responses \/ \E t \in Slots : Served(t, c)
Quiet(c) == kind[c] = "external" /\ c \notin crowded
Pace == faults = 0 => \A c \in Calls : call[c] = "waiting" /\ Quiet(c) => Paced(c)

\* A call on its way to time out is already justified.
Late == faults = 0 => \A c \in Calls : call[c] \in {"expired", "timedout"} => ~ Quiet(c)

\* A fault is never forgotten.
LEMMA FaultsStay ==
    ASSUME TypeOK, Holding, [Next]_vars, faults' = 0
    PROVE  faults = 0
  <1>1. faults \in Nat
    BY Bounds DEF TypeOK, TypeSeen
  <1>2. CASE \E c \in Calls : dispatch_external(c)
    BY <1>1, <1>2 DEF dispatch_external
  <1>3. CASE TakenOff \/ (\E p \in Loops : Looks(p) \/ Reaps(p) \/ Spawns(p))
    BY <1>1, <1>3 DEF TakenOff, Looks, Reaps, Spawns
  <1>4. CASE \E t \in Slots : Advance(t) \/ Responds(t) \/ Quits(t)
    BY <1>1, <1>4 DEF Advance, Responds, Quits
  <1>5. CASE RunnerDies \/ ServerDies \/ reap_idle \/ HostRestarts \/ Tick \/ UNCHANGED vars
    BY <1>1, <1>5 DEF RunnerDies, ServerDies, reap_idle, HostRestarts, Tick, Fault, vars
  <1> QED
    BY <1>2, <1>3, <1>4, <1>5, StepKindsOrWorld

\* A step after which the batches, the tasks and the answers to the calls that
\* wait are as before.
LEMMA SameClean ==
    ASSUME TypeOK, faults = 0, Clean, RelayInv,
           \A t \in Slots : task'[t].step = task[t].step /\ task'[t].todo = task[t].todo,
           UNCHANGED runs, Healthy',
           \A c \in Calls : call'[c] = "waiting" =>
               \/ call[c] = "new" /\ responses' = responses
               \/ call[c] = "waiting" /\ (c \in responses' <=> c \in responses),
           \A p \in Loops : pass'[p].pc = "claim" =>
               pass'[p].todo \cap responses = {} \/ (pass[p].pc = "claim" /\ pass'[p].todo = pass[p].todo)
    PROVE  Clean'
  <1> SUFFICES ASSUME NEW c \in Calls, call'[c] = "waiting" PROVE Once(c)'
    BY DEF Clean
  <1>1. \A t \in Slots : Current(t)' = Current(t) /\ (Alive(t)' <=> Alive(t))
    BY SameCurrent DEF Alive
  <1>2. CASE call[c] = "new"
    BY <1>2 DEF RelayInv, Unasked, Once
  <1>3. CASE call[c] = "waiting" /\ (c \in responses' <=> c \in responses)
    BY <1>1, <1>3 DEF Clean, Once
  <1> QED
    BY <1>2, <1>3

LEMMA CleanStep ==
    ASSUME TypeOK, TypeOK', Holding, OneLoop, RelayInv, Clean, [Next]_vars
    PROVE  Clean'
  <1> SUFFICES ASSUME faults' = 0 PROVE Clean'
    BY DEF Clean
  <1>0. faults = 0
    BY FaultsStay
  <1>1. CASE \E c \in Calls : dispatch_external(c)
    BY <1>0, <1>1, SameClean DEF dispatch_external, hostVars, obs, TypeOK, TypeRunner, Clean, Healthy
  <1>2. CASE TakenOff
    BY <1>0, <1>2, SameClean DEF TakenOff, hostVars, obs, Clean, Healthy
  <1>3. ASSUME NEW p \in Loops, Looks(p) PROVE Clean'
    BY <1>0, <1>3, SameClean DEF Looks, runnerVars, obs, Clean, Healthy
  <1>4. ASSUME NEW p \in Loops, Reaps(p) PROVE Clean'
    <2>1. \A c \in Calls : call[c] = "waiting" => (c \in responses' <=> c \in responses)
      BY <1>4 DEF Reaps, RelayInv, ReapSafe
    <2> QED
      BY <1>0, <1>4, <2>1, SameClean DEF Reaps, runnerVars, obs, Clean, Healthy
  <1>5. ASSUME NEW p \in Loops, Spawns(p) PROVE Clean'
    <2>1. PICK t \in Slots : /\ task[t] = NoTask /\ task'[t] = Batch(pass[p].todo)
                             /\ \A u \in Slots \ {t} : task'[u] = task[u]
      BY <1>5 DEF Spawns
    <2>2. \A u \in Slots : ~ Alive(u)
      BY <1>5 DEF Spawns, RelayInv, Alone
    <2>3. /\ UNCHANGED <<call, responses, runs, conn>> /\ pass'[p].pc = "idle" /\ pass[p].pc = "claim"
          /\ \A q \in Loops : q = p
      BY <1>5 DEF Spawns, runnerVars, obs, IdlePass, OneLoop
    <2>4. Healthy'
      BY <1>0, <2>1, <2>3 DEF Clean, Healthy, Batch
    <2>5. ASSUME NEW c \in Calls, call[c] = "waiting" PROVE Once(c)'
      <3>1. Once(c)
        BY <1>0, <2>5 DEF Clean
      <3>2. runs[c] = 1 => c \in responses
        BY <2>2, <3>1 DEF Once, Alive
      <3>3. c \in responses => c \notin task'[t].todo /\ \A u \in Slots : Alive(u)' => u = t
        BY <2>1, <2>2, <2>3, <3>1 DEF Once, Alive, Batch
      <3> QED
        BY <2>3, <3>1, <3>2, <3>3 DEF Once
    <2> QED
      BY <2>3, <2>4, <2>5 DEF Clean
  <1>6. ASSUME NEW t \in Slots, Advance(t) PROVE Clean'
    <2>0. /\ UNCHANGED <<call, responses, pass>> /\ Healthy /\ Healthy'
          /\ \A u \in Slots : task'[u].todo = task[u].todo /\ (Alive(u)' <=> Alive(u))
      BY <1>0, <1>6 DEF Advance, runnerVars, Alive, Clean
    <2>1. Current(t) \in task[t].todo /\ Current(t) \in Calls /\ Alive(t)
      BY <1>6, CurrentIn DEF Advance, Alive
    <2>2. \A u \in Slots : Current(u)' = Current(u)
      BY <2>0, SameCurrent
    <2>3. ASSUME NEW c \in Calls, call[c] = "waiting" PROVE Once(c)'
      <3>1. Once(c) /\ runs[c] \in Nat
        BY <1>0, <2>3 DEF Clean, TypeOK, TypeSeen
      <3>2. \A u \in Slots : task[u].step = "respond" => task'[u].step = "respond"
        BY <1>6 DEF Advance
      <3>3. CASE runs'[c] = runs[c]
        BY <2>0, <2>2, <3>1, <3>2, <3>3 DEF Once
      <3>4. CASE runs'[c] # runs[c]
        <4>1. c = Current(t) /\ runs'[c] = runs[c] + 1 /\ task'[t].step = "respond"
          BY <1>6, <2>0, <2>1, <3>4 DEF Advance, Running, TypeOK, TypeSeen
        <4>2. c \notin responses
          BY <2>1, <3>1, <4>1 DEF Once
        <4>3. \A u \in Slots : task[u].step # "respond"
          BY <1>6, <2>1 DEF Advance, RelayInv, Alone, Alive
        <4>4. runs[c] = 0
          BY <3>1, <4>2, <4>3 DEF Once
        <4> QED
          BY <2>0, <2>2, <4>1, <4>2, <4>4 DEF Once
      <3> QED
        BY <3>3, <3>4
    <2> QED
      BY <2>0, <2>3 DEF Clean
  <1>7. ASSUME NEW t \in Slots, Responds(t) PROVE Clean'
    <2>0. /\ UNCHANGED <<call, pass, runs, inflight>>
          /\ responses' = responses \cup {Current(t)}
          /\ task'[t].todo = task[t].todo \ {Current(t)}
          /\ \A u \in Slots \ {t} : task'[u] = task[u]
      BY <1>0, <1>7 DEF Responds, runnerVars, obs
    <2>1. Alive(t) /\ \A u \in Slots \ {t} : ~ Alive(u) /\ ~ Alive(u)'
      BY <1>7, <2>0 DEF Responds, Alive, RelayInv, Alone
    <2>2. Healthy'
      BY <1>0, <1>7 DEF Responds, Clean, Healthy
    <2>3. \A p \in Loops : pass[p].pc # "claim"
      BY <2>1 DEF RelayInv, Alone
    <2>4. ASSUME NEW c \in Calls, call[c] = "waiting" PROVE Once(c)'
      <3>1. Once(c)
        BY <1>0, <2>4 DEF Clean
      <3>2. runs[c] = 1 => c \in responses'
        BY <2>0, <2>1, <3>1 DEF Once, Alive
      <3>3. c \in responses' => c \notin task'[t].todo
        BY <2>0, <2>1, <3>1 DEF Once
      <3> QED
        BY <2>0, <2>1, <2>3, <3>1, <3>2, <3>3 DEF Once
    <2> QED
      BY <2>0, <2>2, <2>4 DEF Clean
  <1>8. ASSUME NEW t \in Slots, Quits(t) PROVE Clean'
    <2>0. /\ UNCHANGED <<call, responses, pass, runs, conn>> /\ task[t].step = "next"
          /\ task'[t].step = "none" /\ task'[t].client = "none"
          /\ \A u \in Slots \ {t} : task'[u] = task[u] /\ ~ Alive(u)
      BY <1>0, <1>8 DEF Quits, runnerVars, obs, NoTask, RelayInv, Alone
    <2>1. Healthy'
      BY <1>0, <2>0 DEF Clean, Healthy
    <2>2. ASSUME NEW c \in Calls, call[c] = "waiting" PROVE Once(c)'
      <3>1. Once(c)
        BY <1>0, <2>2 DEF Clean
      <3> QED
        BY <2>0, <3>1 DEF Once, Alive
    <2> QED
      BY <2>0, <2>1, <2>2 DEF Clean
  <1>9. CASE HostRestarts \/ ServerDies
    <2>1. faults' = faults + 1
      BY <1>9 DEF HostRestarts, ServerDies, Fault
    <2> QED
      BY <1>0, <2>1
  <1>10. CASE reap_idle \/ Tick \/ UNCHANGED vars
    <2>1. Passes
      BY <1>10, WorldEffect
    <2>2. Healthy'
      BY <1>0, <1>10 DEF reap_idle, Tick, vars, Clean, Healthy, TypeOK, TypeHost, TaskRec
    <2> QED
      BY <1>0, <2>1, <2>2, SameClean DEF Passes
  <1> QED
    BY <1>1, <1>2, <1>3, <1>4, <1>5, <1>6, <1>7, <1>8, <1>9, <1>10, StepKindsOrWorld

\* Nothing that Paced speaks of has changed for a call that waits.
LEMMA SamePace ==
    ASSUME TypeOK, TypeOK', Holding, RelayInv, Pace, faults = 0,
           UNCHANGED <<kind, crowded>>,
           \A t \in Slots : Executing(t) \/ task[t].step = "respond" =>
               /\ task'[t].todo = task[t].todo /\ task'[t].spent = task[t].spent
               /\ task'[t].step \in {"cached", "connect", "fresh", "respond"}
               /\ task[t].step = "respond" => task'[t].step = "respond",
           \A c \in Calls : call'[c] = "waiting" =>
               \/ call[c] = "new" /\ age'[c] = age[c]
               \/ call[c] = "waiting" /\ age'[c] = age[c] /\ (c \in responses => c \in responses')
    PROVE  Pace'
  <1> SUFFICES ASSUME NEW c \in Calls, call'[c] = "waiting", Quiet(c)' PROVE Paced(c)'
    BY DEF Pace
  <1>1. CASE call[c] = "new"
    BY <1>1, Bounds DEF RelayInv, Unasked, Paced
  <1>2. CASE call[c] = "waiting" /\ age'[c] = age[c] /\ (c \in responses => c \in responses')
    <2>1. Paced(c)
      BY <1>2 DEF Pace, Quiet
    <2>2. ASSUME NEW t \in Slots, Served(t, c) PROVE Served(t, c)'
      <3>1. task'[t].todo = task[t].todo
        BY <2>2 DEF Served
      <3>2. Current(t)' = Current(t)
        BY <3>1, SameCurrent
      <3> QED
        BY <1>2, <2>2, <3>1, <3>2 DEF Served, Executing
    <2> QED
      BY <1>2, <2>1, <2>2 DEF Paced
  <1> QED
    BY <1>1, <1>2

\* One tick: a call that waits alone is being executed, and within its deadline.
LEMMA TickPace ==
    ASSUME TypeOK, TypeOK', Holding, RelayInv, Pace, faults = 0, faults' = 0, Tick
    PROVE  Pace'
  <1> SUFFICES ASSUME NEW c \in Calls, call[c] = "waiting", kind[c] = "external", c \notin crowded'
               PROVE  Paced(c)'
    BY DEF Pace, Quiet, Tick
  <1>1. ~ Stalled
    BY DEF Tick, Fault
  <1>2. c \in requests /\ c \notin responses
    BY DEF Tick, RelayInv, Asked
  <1>3. inflight
    BY <1>1, <1>2 DEF Stalled
  <1>4. PICK t \in Slots : Alive(t)
    BY <1>3 DEF RelayInv, Alone
  <1>5. Executing(t) /\ task[t].todo # {}
    BY <1>4 DEF Tick, Alive, Executing, Holding
  <1>6. Current(t) = c
    BY <1>5 DEF Tick, Crowd
  <1>7. task[t].spent < HostDeadline
    BY <1>5, <1>6 DEF Tick
  <1>8. Paced(c)
    BY DEF Pace, Quiet, Tick
  <1>9. age[c] \in Nat /\ task[t].spent \in Nat
    BY Bounds DEF TypeOK, TypeRunner, TypeHost, TaskRec
  <1>10. age[c] <= task[t].spent
    <2>1. CASE age[c] = 0
      BY <1>9, <2>1
    <2>2. CASE \E u \in Slots : Served(u, c)
      <3>1. PICK u \in Slots : Served(u, c)
        BY <2>2
      <3>2. u = t
        BY <1>4, <3>1 DEF Served, Executing, Alive, RelayInv, Alone
      <3> QED
        BY <1>5, <3>1, <3>2 DEF Served, Executing
    <2> QED
      BY <1>2, <1>8, <2>1, <2>2 DEF Paced
  <1>11. age'[c] = age[c] + 1
    BY DEF Tick
  <1>12. task'[t].spent = task[t].spent + 1 /\ task'[t].todo = task[t].todo /\ task'[t].step = task[t].step
    BY <1>5, <1>7 DEF Tick, TypeOK, TypeHost, TaskRec
  <1>13. Current(t)' = c
    BY <1>6, <1>12, SameCurrent
  <1>14. Served(t, c)'
    BY <1>5, <1>9, <1>10, <1>11, <1>12, <1>13 DEF Served, Executing
  <1>15. age'[c] <= HostDeadline
    BY <1>7, <1>9, <1>10, <1>11, Bounds
  <1> QED
    BY <1>14, <1>15 DEF Paced

LEMMA PaceStep ==
    ASSUME TypeOK, TypeOK', Holding, OneLoop, RelayInv, Pace, [Next]_vars
    PROVE  Pace'
  <1> SUFFICES ASSUME faults' = 0 PROVE Pace'
    BY DEF Pace
  <1>0. faults = 0
    BY FaultsStay
  <1> USE DEF Executing
  <1>1. ASSUME NEW c \in Calls, dispatch_external(c) PROVE Pace'
    <2>0. /\ UNCHANGED <<age, task, responses, crowded>> /\ call[c] = "new"
          /\ \A d \in Calls : d # c => call'[d] = call[d] /\ kind'[d] = kind[d]
      BY <1>1 DEF dispatch_external, hostVars, obs, TypeOK, TypeRunner
    <2> SUFFICES ASSUME NEW d \in Calls, call'[d] = "waiting", Quiet(d)' PROVE Paced(d)'
      BY DEF Pace
    <2>1. CASE d = c
      BY <2>0, <2>1, Bounds DEF RelayInv, Unasked, Paced
    <2>2. CASE d # c
      <3>1. Paced(d)
        BY <1>0, <2>0, <2>2 DEF Pace, Quiet
      <3>2. ASSUME NEW t \in Slots, Served(t, d) PROVE Served(t, d)'
        BY <2>0, <3>2, SameCurrent DEF Served
      <3> QED
        BY <2>0, <3>1, <3>2 DEF Paced
    <2> QED
      BY <2>1, <2>2
  <1>2. CASE TakenOff
    BY <1>0, <1>2, SamePace DEF TakenOff, hostVars, obs
  <1>3. ASSUME NEW p \in Loops, Looks(p) PROVE Pace'
    BY <1>0, <1>3, SamePace DEF Looks, runnerVars, obs
  <1>4. ASSUME NEW p \in Loops, Reaps(p) PROVE Pace'
    <2>1. \A c \in Calls : call[c] = "waiting" => (c \in responses => c \in responses')
      BY <1>4 DEF Reaps, RelayInv, ReapSafe
    <2> QED
      BY <1>0, <1>4, <2>1, SamePace DEF Reaps, runnerVars, obs
  <1>5. ASSUME NEW p \in Loops, Spawns(p) PROVE Pace'
    <2>1. PICK t \in Slots : task[t] = NoTask /\ \A u \in Slots \ {t} : task'[u] = task[u]
      BY <1>5 DEF Spawns
    <2>2. task[t].step = "none"
      BY <2>1 DEF NoTask
    <2> QED
      BY <1>0, <1>5, <2>1, <2>2, SamePace DEF Spawns, runnerVars, obs
  <1>6. ASSUME NEW t \in Slots, Advance(t) PROVE Pace'
    BY <1>0, <1>6, SamePace DEF Advance, runnerVars
  <1>7. ASSUME NEW t \in Slots, Responds(t) PROVE Pace'
    <2>0. /\ UNCHANGED <<call, kind, age, crowded>> /\ task[t].step = "respond"
          /\ responses' = responses \cup {Current(t)}
          /\ \A u \in Slots \ {t} : task'[u] = task[u]
      BY <1>0, <1>7 DEF Responds, runnerVars, obs
    <2> SUFFICES ASSUME NEW c \in Calls, call'[c] = "waiting", Quiet(c)' PROVE Paced(c)'
      BY DEF Pace
    <2>1. Paced(c)
      BY <1>0, <2>0 DEF Pace, Quiet
    <2>2. ASSUME NEW u \in Slots, Served(u, c) PROVE c \in responses' \/ Served(u, c)'
      <3>1. CASE u = t
        BY <2>0, <2>2, <3>1 DEF Served
      <3>2. CASE u # t
        BY <2>0, <2>2, <3>2, SameCurrent DEF Served
      <3> QED
        BY <3>1, <3>2
    <2> QED
      BY <2>0, <2>1, <2>2 DEF Paced
  <1>8. ASSUME NEW t \in Slots, Quits(t) PROVE Pace'
    <2>0. task[t].step = "next" /\ \A u \in Slots \ {t} : task'[u] = task[u]
      BY <1>0, <1>8 DEF Quits
    <2> QED
      BY <1>0, <1>8, <2>0, SamePace DEF Quits, runnerVars, obs
  <1>9. CASE HostRestarts \/ ServerDies
    <2>1. faults' = faults + 1
      BY <1>9 DEF HostRestarts, ServerDies, Fault
    <2> QED
      BY <1>0, <2>1
  <1>10. CASE reap_idle \/ UNCHANGED vars
    BY <1>0, <1>10, SamePace DEF reap_idle, vars, runnerVars, obs
  <1>11. CASE Tick
    BY <1>0, <1>11, TickPace
  <1> QED
    BY <1>1, <1>2, <1>3, <1>4, <1>5, <1>6, <1>7, <1>8, <1>9, <1>10, <1>11, StepKindsOrWorld

LEMMA LateStep ==
    ASSUME TypeOK, Holding, RelayInv, Pace, Late, [Next]_vars
    PROVE  Late'
  <1> SUFFICES ASSUME faults' = 0, NEW c \in Calls, call'[c] \in {"expired", "timedout"}
               PROVE  ~ Quiet(c)'
    BY DEF Late
  <1>0. faults = 0
    BY FaultsStay
  <1>1. crowded \subseteq crowded'
    BY DEF Next, RunnerStep, PassStep, TaskStep, RunnerDies, ServerDies, reap_idle, HostRestarts, Tick,
       dispatch_external, queue_error, poll_hit, poll_expire, poll_error, delete_request, list_requests,
       request_ids, gc_orphan_responses, check_inflight, response_ids, claim_and_spawn, DrainFails,
       Unserviceable, execute_preview_call, checkout, connect, CallReturns, dead_retry, dead_fresh,
       execute_mcp_call_bounded, insert_response, TaskEnds, TaskPanics, obs, vars
  <1>2. CASE call[c] \in {"expired", "timedout"} /\ kind'[c] = kind[c]
    BY <1>0, <1>1, <1>2 DEF Late, Quiet
  <1>3. CASE ~ (call[c] \in {"expired", "timedout"} /\ kind'[c] = kind[c])
    <2>1. PICK d \in Calls : RunnerStep(d)
      BY <1>3 DEF Next, PassStep, TaskStep, RunnerDies, ServerDies, reap_idle, HostRestarts, Tick,
         list_requests, request_ids, gc_orphan_responses, check_inflight, response_ids, claim_and_spawn,
         DrainFails, Unserviceable, execute_preview_call, checkout, connect, CallReturns, dead_retry,
         dead_fresh, execute_mcp_call_bounded, insert_response, TaskEnds, TaskPanics, runnerVars, vars
    <2>2. CASE poll_expire(d)
      <3>1. d = c /\ call[c] = "waiting" /\ age[c] >= RunnerDeadline /\ UNCHANGED <<kind, crowded>>
        BY <1>3, <2>2 DEF poll_expire, Expired, TypeOK, TypeRunner, obs
      <3>2. ~ (age[c] <= HostDeadline)
        BY <3>1, Bounds DEF TypeOK, TypeRunner
      <3> QED
        BY <1>0, <3>1, <3>2 DEF Pace, Paced, Quiet
    <2>3. CASE delete_request(d)
      <3>1. d = c /\ call'[c] = Outcome(call[c]) /\ UNCHANGED kind
        BY <1>3, <2>3 DEF delete_request, TypeOK, TypeRunner
      <3>2. call[c] = "expired"
        BY <2>3, <3>1 DEF delete_request, Outcome
      <3> QED
        BY <1>3, <3>1, <3>2
    <2>4. CASE dispatch_external(d) \/ queue_error(d) \/ poll_hit(d) \/ poll_error(d)
      BY <1>3, <2>4 DEF dispatch_external, queue_error, poll_hit, poll_error, TypeOK, TypeRunner
    <2> QED
      BY <2>1, <2>2, <2>3, <2>4 DEF RunnerStep
  <1> QED
    BY <1>2, <1>3

RelaySafe == RelayInv /\ Clean /\ Pace /\ Late

\* One loop: what holds of the guard, the batches and the deadlines.
LEMMA RelaySafety == OneLoop => (Spec => []RelaySafe)
  <1> SUFFICES ASSUME OneLoop PROVE Spec => []RelaySafe
    OBVIOUS
  <1>1. Init => RelaySafe
    <2> SUFFICES ASSUME Init PROVE RelaySafe
      OBVIOUS
    <2>1. RelayInv
      BY RelayInit
    <2>2. (\A c \in Calls : call[c] = "new") /\ Healthy
      BY DEF Init, Healthy, NoTask
    <2> QED
      BY <2>1, <2>2 DEF RelaySafe, Clean, Pace, Late
  <1>2. TypeOK /\ Holding /\ (TypeOK /\ Holding)' /\ RelaySafe /\ [Next]_vars => RelaySafe'
    BY RelayStep, CleanStep, PaceStep, LateStep DEF RelaySafe
  <1> QED
    BY <1>1, <1>2, RelayTypeSafety, PTL DEF Spec

\* With one loop and no fault, a call is executed at most once while its runner
\* waits for the answer.
THEOREM CallsRunOnce == OneLoop => (Spec => []OnceWhileWaiting)
  <1>1. RelaySafe => OnceWhileWaiting
    BY DEF RelaySafe, Clean, Once, OnceWhileWaiting
  <1> QED
    BY <1>1, RelaySafety, PTL

\* With one loop, an external call times out only after a fault, or when another
\* call of the session held the task: the host's deadline is met first.
THEOREM TimeoutsAreJustified == OneLoop => (Spec => []TimeoutJustified)
  <1>1. TypeOK /\ RelaySafe => TimeoutJustified
    BY Bounds DEF RelaySafe, Late, Quiet, TimeoutJustified, TypeOK, TypeSeen
  <1> QED
    BY <1>1, RelaySafety, RelayTypeSafety, PTL

=============================================================================
