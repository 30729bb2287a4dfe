------------------------------ MODULE McpRelay ------------------------------
(***************************************************************************)
(* Host-proxied tool calls of one session.  The runner leaves a request in *)
(* outbound.db and polls inbound.db for the response; drain_mcp_calls, run *)
(* at the end of every delivery pass, hands the open requests to a         *)
(* detached task, which executes them one after the other over a cached    *)
(* connection and writes the responses.  No lock spans the two databases,  *)
(* and each SELECT sees its own state of them.                             *)
(*                                                                         *)
(* Time advances by Tick.  The two deadlines count ticks; what takes       *)
(* milliseconds (a pass, a poll, a database write) takes no tick.          *)
(***************************************************************************)
EXTENDS Naturals, FiniteSets

CONSTANTS
    Loops,            \* the delivery loops that drain the session
    MaxCalls,         \* bound: calls the model makes
    MaxOpen,          \* bound: calls of one batch that wait at the same time
    Kinds,            \* the kinds each call may have: an external server's
                      \* tool, or a tool of the host's preview broker
    MaxTasks,         \* bound: drain tasks alive at the same time
    HostDeadline,     \* HOST_MCP_CALL_DEADLINE_SECS, in ticks
    RunnerDeadline,   \* EXTERNAL_MCP_DEADLINE_SECS, in ticks
    MaxFaults         \* bound: database errors, dead connections, stalls,
                      \* panics, restarts of the host, deaths of the runner

ASSUME RelayAssumption ==
    /\ IsFiniteSet(Loops)
    /\ Kinds \in [1..MaxCalls -> SUBSET {"external", "preview"}]
    /\ {MaxCalls, MaxOpen, MaxTasks} \subseteq Nat \ {0}
    /\ {HostDeadline, RunnerDeadline, MaxFaults} \subseteq Nat
    /\ 0 < HostDeadline /\ HostDeadline < RunnerDeadline

Calls == 1..MaxCalls
Slots == 1..MaxTasks
Waits == {"waiting", "read", "expired", "broken"}
Ends == {"served", "timedout", "failed", "dead"}

VARIABLES
    requests,    \* mcp_call_requests in outbound.db
    responses,   \* mcp_call_responses in inbound.db
    call,        \* where dispatch_external is with each call
    kind,        \* whether a call goes to an external server or the broker
    age,         \* ticks since a waiting call was queued
    pass,        \* per loop the locals of drain_mcp_calls
    inflight,    \* mcp_drain_inflight holds the session
    task,        \* the detached drain tasks
    conn,        \* the connection cache's entry: "none", "live", "dead"
    runs,        \* observation: how often the server ran each call
    crowded,     \* observation: calls that waited while a task was on another
    faults

vars == <<requests, responses, call, kind, age, pass, inflight, task,
          conn, runs, crowded, faults>>

runnerVars == <<requests, call, kind, age>>
hostVars == <<responses, pass, inflight, task, conn>>
obs == <<runs, crowded>>

IdlePass == [pc |-> "idle", requests |-> {}, live |-> {}, todo |-> {}]
NoTask == [step |-> "none", todo |-> {}, spent |-> 0, client |-> "none"]
\* A task about to take the next request of the batch.
Batch(todo) == [step |-> "next", todo |-> todo, spent |-> 0, client |-> "none"]

PassRec ==
    [pc : {"idle", "ids", "gc", "guard", "answered", "claim"},
     requests : SUBSET Calls, live : SUBSET Calls, todo : SUBSET Calls]
TaskRec ==
    [step : {"none", "next", "cached", "connect", "fresh", "respond"},
     todo : SUBSET Calls, spent : 0..HostDeadline, client : {"none", "live", "dead"}]

TypeRunner ==
    /\ requests \subseteq Calls
    /\ call \in [Calls -> {"new"} \cup Waits \cup Ends]
    /\ kind \in [Calls -> {"external", "preview"}]
    /\ age \in [Calls -> 0..RunnerDeadline]
TypeHost ==
    /\ responses \subseteq Calls
    /\ pass \in [Loops -> PassRec] /\ inflight \in BOOLEAN
    /\ task \in [Slots -> TaskRec] /\ conn \in {"none", "live", "dead"}
TypeSeen ==
    /\ runs \in [Calls -> Nat] /\ crowded \subseteq Calls /\ faults \in 0..MaxFaults

\* Every variable keeps its type; the two deadlines are never overrun.
TypeOK == TypeRunner /\ TypeHost /\ TypeSeen

Init ==
    /\ requests = {} /\ responses = {}
    /\ call = [c \in Calls |-> "new"]
    /\ kind = [c \in Calls |-> "external"]
    /\ age = [c \in Calls |-> 0]
    /\ pass = [p \in Loops |-> IdlePass]
    /\ inflight = FALSE
    /\ task = [t \in Slots |-> NoTask]
    /\ conn = "none"
    /\ runs = [c \in Calls |-> 0]
    /\ crowded = {}
    /\ faults = 0

\* One more fault of the budget.
Fault == faults < MaxFaults /\ faults' = faults + 1

-----------------------------------------------------------------------------
(* The runner: dispatch_external, once per call of a batch, concurrently.  *)

Open == {c \in Calls : call[c] \in Waits}

\* insert_request under a fresh id.
dispatch_external(c) ==
    /\ call[c] = "new"
    /\ \A d \in Calls : d < c => call[d] # "new"
    /\ Cardinality(Open) < MaxOpen
    /\ call' = [call EXCEPT ![c] = "waiting"]
    /\ \E k \in Kinds[c] : kind' = [kind EXCEPT ![c] = k]
    /\ requests' = requests \cup {c}
    /\ UNCHANGED <<age, hostVars, obs, faults>>

\* The request cannot be queued: the call returns an error at once.
queue_error(c) ==
    /\ call[c] = "new"
    /\ \A d \in Calls : d < c => call[d] # "new"
    /\ call' = [call EXCEPT ![c] = "failed"]
    /\ Fault
    /\ UNCHANGED <<requests, kind, age, hostVars, obs>>

\* poll_for_response finds the row ...
poll_hit(c) ==
    /\ call[c] = "waiting" /\ c \in responses
    /\ call' = [call EXCEPT ![c] = "read"]
    /\ UNCHANGED <<requests, kind, age, hostVars, obs, faults>>

\* Mutant of Expired: the deadline itself still counts as in time.
ExpiredLater(c) == age[c] > RunnerDeadline

\* start.elapsed() >= deadline
Expired(c) == age[c] >= RunnerDeadline

\* ... or looks once more after the deadline and gives up ...
poll_expire(c) ==
    /\ call[c] = "waiting" /\ c \notin responses
    /\ Expired(c)
    /\ call' = [call EXCEPT ![c] = "expired"]
    /\ UNCHANGED <<requests, kind, age, hostVars, obs, faults>>

\* ... or cannot read inbound.db.
poll_error(c) ==
    /\ call[c] = "waiting"
    /\ call' = [call EXCEPT ![c] = "broken"]
    /\ Fault
    /\ UNCHANGED <<requests, kind, age, hostVars, obs>>

Outcome(w) == CASE w = "read" -> "served"
                [] w = "expired" -> "timedout"
                [] w = "broken" -> "failed"

\* delete_request, whose error is ignored; the call returns to the model.
delete_request(c) ==
    /\ call[c] \in {"read", "expired", "broken"}
    /\ call' = [call EXCEPT ![c] = Outcome(call[c])]
    /\ age' = [age EXCEPT ![c] = 0]
    /\ \/ requests' = requests \ {c} /\ UNCHANGED faults
       \/ Fault /\ UNCHANGED requests
    /\ UNCHANGED <<kind, hostVars, obs>>

\* The runner dies with its calls; nothing removes their requests.
RunnerDies ==
    /\ Fault
    /\ Open # {}
    /\ call' = [c \in Calls |-> IF c \in Open THEN "dead" ELSE call[c]]
    /\ age' = [c \in Calls |-> 0]
    /\ UNCHANGED <<requests, kind, hostVars, obs>>

-----------------------------------------------------------------------------
(* A loop's pass: drain_mcp_calls.                                         *)

At(p, pc) == pass[p].pc = pc
Goto(p, pc) == pass' = [pass EXCEPT ![p].pc = pc]
Finish(p) == pass' = [pass EXCEPT ![p] = IdlePass]

\* Mutant of list_requests: only sessions with a running container.
RunningOnly(p) ==
    /\ At(p, "idle")
    /\ pass' = [pass EXCEPT ![p] =
                   [IdlePass EXCEPT !.pc = "ids",
                        !.requests = {c \in requests : call[c] # "dead"}]]
    /\ UNCHANGED <<runnerVars, responses, inflight, task, conn, obs, faults>>

\* The open requests, oldest first; the pass runs for every session, with
\* or without a container.
list_requests(p) ==
    /\ At(p, "idle")
    /\ pass' = [pass EXCEPT ![p] =
                   [pc |-> "ids", requests |-> requests, live |-> {}, todo |-> {}]]
    /\ UNCHANGED <<runnerVars, responses, inflight, task, conn, obs, faults>>

request_ids(p) ==
    /\ At(p, "ids")
    /\ pass' = [pass EXCEPT ![p].pc = "gc", ![p].live = requests]
    /\ UNCHANGED <<runnerVars, responses, inflight, task, conn, obs, faults>>

\* Mutant of gc_orphan_responses: every response is taken for an orphan.
GcEverything(p) ==
    /\ At(p, "gc")
    /\ responses' = {}
    /\ IF pass[p].requests = {} THEN Finish(p)
       ELSE pass' = [pass EXCEPT ![p].pc = "guard", ![p].live = {}]
    /\ UNCHANGED <<runnerVars, inflight, task, conn, obs, faults>>

\* Drops the responses whose request was gone at the SELECT before.
gc_orphan_responses(p) ==
    /\ At(p, "gc")
    /\ responses' = responses \cap pass[p].live
    /\ IF pass[p].requests = {} THEN Finish(p)
       ELSE pass' = [pass EXCEPT ![p].pc = "guard", ![p].live = {}]
    /\ UNCHANGED <<runnerVars, inflight, task, conn, obs, faults>>

check_inflight(p) ==
    /\ At(p, "guard")
    /\ IF inflight THEN Finish(p) ELSE Goto(p, "answered")
    /\ UNCHANGED <<runnerVars, responses, inflight, task, conn, obs, faults>>

\* Mutant of response_ids: an answered request is taken up again.
AnsweredIgnored(p) ==
    /\ At(p, "answered")
    /\ pass' = [pass EXCEPT ![p].pc = "claim", ![p].todo = pass[p].requests]
    /\ UNCHANGED <<runnerVars, responses, inflight, task, conn, obs, faults>>

response_ids(p) ==
    /\ At(p, "answered")
    /\ LET todo == pass[p].requests \ responses
       IN  IF todo = {} THEN Finish(p)
           ELSE pass' = [pass EXCEPT ![p] = [IdlePass EXCEPT !.pc = "claim",
                                                             !.todo = todo]]
    /\ UNCHANGED <<runnerVars, responses, inflight, task, conn, obs, faults>>

\* Fills the guard and spawns the task.
claim_and_spawn(p) ==
    /\ At(p, "claim")
    /\ inflight' = TRUE
    /\ \E t \in Slots :
          /\ task[t] = NoTask /\ \A u \in Slots : u < t => task[u] # NoTask
          /\ task' = [task EXCEPT ![t] = Batch(pass[p].todo)]
    /\ Finish(p)
    /\ UNCHANGED <<runnerVars, responses, conn, obs, faults>>

\* A database error ends the pass; the caller only logs it.
DrainFails(p) ==
    /\ \E pc \in {"ids", "gc", "answered"} : At(p, pc)
    /\ Fault
    /\ Finish(p)
    /\ UNCHANGED <<runnerVars, responses, inflight, task, conn, obs>>

-----------------------------------------------------------------------------
(* A drain task: for each request of its batch, oldest first, execute and  *)
(* write the response; the guard is dropped with the task.                 *)

Busy(t, step) == task[t].step = step
Current(t) == CHOOSE c \in task[t].todo : \A d \in task[t].todo : c <= d
Step(t, step) == task' = [task EXCEPT ![t].step = step]
Respond(t) == task' = [task EXCEPT ![t].step = "respond", ![t].client = "none"]

Running(c) == runs' = [runs EXCEPT ![c] = @ + 1]

\* An entry that is not configured, or no broker: an error without a call.
Unserviceable(t) ==
    /\ Busy(t, "next") /\ task[t].todo # {}
    /\ Respond(t)
    /\ UNCHANGED <<runnerVars, responses, pass, inflight, conn, obs, faults>>

\* execute_preview_call: the broker is local and has no deadline.
execute_preview_call(t) ==
    /\ Busy(t, "next") /\ task[t].todo # {} /\ kind[Current(t)] = "preview"
    /\ Step(t, "fresh")
    /\ UNCHANGED <<runnerVars, responses, pass, inflight, conn, obs, faults>>

\* call_with: take the cached connection, or connect.
checkout(t) ==
    /\ Busy(t, "next") /\ task[t].todo # {} /\ kind[Current(t)] = "external"
    /\ IF conn = "none" THEN Step(t, "connect")
       ELSE task' = [task EXCEPT ![t].step = "cached", ![t].client = conn]
    /\ UNCHANGED <<runnerVars, responses, pass, inflight, conn, obs, faults>>

connect(t) ==
    /\ Busy(t, "connect")
    /\ \/ task' = [task EXCEPT ![t].step = "fresh", ![t].client = "live"]
       \/ Respond(t)
    /\ UNCHANGED <<runnerVars, responses, pass, inflight, conn, obs, faults>>

\* The server runs the call and its answer arrives; a fresh connection is
\* cached.
CallReturns(t) ==
    /\ \/ Busy(t, "cached") /\ task[t].client = "live" /\ UNCHANGED conn
       \/ Busy(t, "fresh") /\ task[t].client = "live" /\ conn' = "live"
       \/ Busy(t, "fresh") /\ task[t].client = "none" /\ UNCHANGED conn
    /\ Running(Current(t))
    /\ Respond(t)
    /\ UNCHANGED <<runnerVars, responses, pass, inflight, crowded, faults>>

\* Transport error on a cached connection: evict it and call once more on a
\* fresh one.  The server may have run the call before the connection died.
dead_retry(t) ==
    /\ Busy(t, "cached") /\ task[t].client = "dead"
    /\ conn' = IF conn = "dead" THEN "none" ELSE conn
    /\ task' = [task EXCEPT ![t].step = "connect", ![t].client = "none"]
    /\ Running(Current(t)) \/ UNCHANGED runs
    /\ UNCHANGED <<runnerVars, responses, pass, inflight, crowded, faults>>

\* Transport error on a fresh connection: the error is the answer.
dead_fresh(t) ==
    /\ Busy(t, "fresh") /\ task[t].client = "dead"
    /\ Running(Current(t)) \/ UNCHANGED runs
    /\ Respond(t)
    /\ UNCHANGED <<runnerVars, responses, pass, inflight, conn, crowded, faults>>

\* The host-side deadline turns a hung call into an error response.
execute_mcp_call_bounded(t) ==
    /\ task[t].step \in {"cached", "connect", "fresh"}
    /\ kind[Current(t)] = "external" /\ task[t].spent = HostDeadline
    /\ Running(Current(t)) \/ UNCHANGED runs
    /\ Respond(t)
    /\ UNCHANGED <<runnerVars, responses, pass, inflight, conn, crowded, faults>>

\* Write the response, or only log that it could not be written.
insert_response(t) ==
    /\ Busy(t, "respond")
    /\ \/ responses' = responses \cup {Current(t)} /\ UNCHANGED faults
       \/ Fault /\ UNCHANGED responses
    /\ task' = [task EXCEPT ![t] = Batch(task[t].todo \ {Current(t)})]
    /\ UNCHANGED <<runnerVars, pass, inflight, conn, obs>>

\* Mutant of TaskEnds: the entry outlives its task.
GuardLeaks(t) ==
    /\ Busy(t, "next") /\ task[t].todo = {}
    /\ task' = [task EXCEPT ![t] = NoTask]
    /\ UNCHANGED <<runnerVars, responses, pass, inflight, conn, obs, faults>>

\* McpDrainGuard::drop removes the session's entry, whoever filled it.
TaskEnds(t) ==
    /\ Busy(t, "next") /\ task[t].todo = {}
    /\ task' = [task EXCEPT ![t] = NoTask]
    /\ inflight' = FALSE
    /\ UNCHANGED <<runnerVars, responses, pass, conn, obs, faults>>

\* A panic unwinds through the guard.
TaskPanics(t) ==
    /\ ~ Busy(t, "none")
    /\ Fault
    /\ task' = [task EXCEPT ![t] = NoTask]
    /\ inflight' = FALSE
    /\ UNCHANGED <<runnerVars, responses, pass, conn, obs>>

-----------------------------------------------------------------------------
(* Environment.                                                            *)

\* The server goes away: every connection to it is dead.
ServerDies ==
    /\ \E t \in Slots : task[t].client = "live" \/ conn = "live"
    /\ Fault
    /\ conn' = IF conn = "live" THEN "dead" ELSE conn
    /\ task' = [t \in Slots |-> IF task[t].client = "live"
                                THEN [task[t] EXCEPT !.client = "dead"] ELSE task[t]]
    /\ UNCHANGED <<runnerVars, responses, pass, inflight, obs>>

\* A connection that no call has used for DEFAULT_IDLE_TTL, which is longer
\* than the host's deadline, is closed.
reap_idle ==
    /\ conn # "none" /\ \A t \in Slots : task[t].client = "none"
    /\ conn' = "none"
    /\ UNCHANGED <<runnerVars, responses, pass, inflight, task, obs, faults>>

HostRestarts ==
    /\ Fault
    /\ pass' = [p \in Loops |-> IdlePass]
    /\ task' = [t \in Slots |-> NoTask]
    /\ inflight' = FALSE /\ conn' = "none"
    /\ UNCHANGED <<runnerVars, responses, obs>>

Executing(t) == task[t].step \in {"cached", "connect", "fresh"}

\* Calls that a task keeps waiting for the sake of another call.
Crowd == {c \in Calls : call[c] = "waiting" /\ \E t \in Slots :
              Executing(t) /\ Current(t) # c}

\* A request that no pass has taken up although the drain is free, or a pass
\* still on its way: the loop is held up, by a slow adapter of some session.
Stalled ==
    \/ ~ inflight /\ ~ requests \subseteq responses
    \/ \E p \in Loops : ~ At(p, "idle")

\* Time passes while calls wait and servers work.
Tick ==
    /\ \E t \in Slots : Executing(t) \/ \E c \in Calls : call[c] = "waiting"
    /\ \A c \in Calls : call[c] = "waiting" =>
           ~ Expired(c) /\ c \notin responses
    /\ \A c \in Calls : call[c] \notin {"read", "expired", "broken"}
    /\ \A t \in Slots :
          /\ task[t].step \in {"none", "cached", "connect", "fresh"}
          /\ task[t].client # "dead"
          /\ Executing(t) /\ kind[Current(t)] = "external" =>
                 task[t].spent < HostDeadline
    /\ IF Stalled THEN Fault ELSE UNCHANGED faults
    /\ age' = [c \in Calls |-> IF call[c] = "waiting" THEN age[c] + 1 ELSE age[c]]
    /\ task' = [t \in Slots |-> IF Executing(t) /\ task[t].spent < HostDeadline
                                THEN [task[t] EXCEPT !.spent = @ + 1] ELSE task[t]]
    /\ crowded' = crowded \cup Crowd
    /\ UNCHANGED <<requests, responses, call, kind, pass, inflight, conn, runs>>

-----------------------------------------------------------------------------
RunnerStep(c) ==
    \/ dispatch_external(c) \/ queue_error(c) \/ poll_hit(c)
    \/ poll_expire(c) \/ poll_error(c) \/ delete_request(c)

PassStep(p) ==
    \/ list_requests(p) \/ request_ids(p) \/ gc_orphan_responses(p)
    \/ check_inflight(p) \/ response_ids(p) \/ claim_and_spawn(p)
    \/ DrainFails(p)

TaskStep(t) ==
    \/ Unserviceable(t) \/ execute_preview_call(t) \/ checkout(t) \/ connect(t)
    \/ CallReturns(t) \/ dead_retry(t) \/ dead_fresh(t)
    \/ execute_mcp_call_bounded(t) \/ insert_response(t) \/ TaskEnds(t)
    \/ TaskPanics(t)

Next ==
    \/ \E c \in Calls : RunnerStep(c)
    \/ \E p \in Loops : PassStep(p)
    \/ \E t \in Slots : TaskStep(t)
    \/ RunnerDies \/ ServerDies \/ reap_idle \/ HostRestarts \/ Tick

Spec == Init /\ [][Next]_vars

\* The tokio runtime runs both loops and every task, the runner polls, time
\* passes, and a broker ends its calls.  An external server need not answer.
TaskRuns(t) ==
    \/ Unserviceable(t) \/ execute_preview_call(t) \/ checkout(t)
    \/ dead_retry(t) \/ dead_fresh(t) \/ execute_mcp_call_bounded(t)
    \/ insert_response(t) \/ TaskEnds(t)
    \/ task[t].step = "fresh" /\ task[t].client = "none" /\ CallReturns(t)

Fairness ==
    /\ \A p \in Loops : WF_vars(PassStep(p))
    /\ \A t \in Slots : WF_vars(TaskRuns(t))
    /\ \A c \in Calls : WF_vars(poll_hit(c) \/ poll_expire(c) \/ delete_request(c))
    /\ SF_vars(Tick)

FairSpec == Spec /\ Fairness

-----------------------------------------------------------------------------
(* Properties.                                                             *)

\* gc_orphan_responses drops a response only when its call no longer waits
\* for it: the set it compares with is older than no response it may meet.
ReadBeforeReap ==
    [][\A c \in responses \ responses' : call[c] # "waiting"]_vars

\* Undisturbed, a call is executed at most once while its runner waits for
\* the answer: the order guard check, then response_ids, on the pass's side
\* meets the order insert_response, then guard drop, on the task's.
OnceWhileWaiting ==
    faults = 0 =>
        \A c \in Calls : call[c] = "waiting" => runs[c] <= 1

\* HOST_MCP_CALL_DEADLINE_SECS lies below EXTERNAL_MCP_DEADLINE_SECS so that
\* the runner gets an answer before it gives up: an external call times out
\* only when something failed or another call of the session held the task.
TimeoutJustified ==
    \A c \in Calls : call[c] = "timedout" /\ kind[c] = "external" =>
        faults > 0 \/ c \in crowded

\* A request that stays in outbound.db, because its runner died or could not
\* delete it, is answered all the same, over restarts, panics and failed
\* writes: nothing leaves mcp_drain_inflight behind.
RequestAnswered ==
    \A c \in Calls : c \in requests ~> (c \in responses \/ c \notin requests)

\* A response whose request is gone is removed, also when no request is open.
ResponseCollected ==
    \A c \in Calls : (c \in responses /\ c \notin requests) ~> c \notin responses

\* What the two databases hold of the relay is worked off in the end.
RelayDrains == RequestAnswered /\ ResponseCollected

=============================================================================
