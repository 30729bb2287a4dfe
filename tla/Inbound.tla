------------------------------- MODULE Inbound -------------------------------
(***************************************************************************)
(* The inbound path of one session: the router writes a row to inbound.db, *)
(* the runner in the container claims it in outbound.db, runs a turn and   *)
(* settles it; the host's sweep reclaims stale claims, wakes sessions and  *)
(* apologises for rows nobody answers; the container manager spawns,       *)
(* detects crashes, restarts and quarantines.                              *)
(*                                                                         *)
(* The four work on three databases and one heartbeat file with no common  *)
(* lock, so every step below may interleave with the others, with the      *)
(* death of the runner and with a crash of the host.                       *)
(***************************************************************************)
EXTENDS Integers, Sequences, FiniteSets

CONSTANTS
    MaxMsgs,         \* BOUND: rows of messages_in
    Kinds,           \* what arrives: "chat", "reaction" and "stop" rows
    Quarantine,      \* QUARANTINE_CRASH_ATTEMPTS
    SpawnThreshold,  \* SPAWN_FAIL_THRESHOLD
    HeartbeatStale,  \* heartbeat_stale_secs, as a level of age (see Age)
    IdleTimeout,     \* idle_timeout_secs, as a level of age
    BackoffSteps,    \* BACKOFF_STEPS: per step the sweep periods it may span
    Tools,           \* whether turns run tools
    SpawnFaults,     \* whether a spawn can be refused or fail
    MaxDeaths,       \* BOUND: deaths of a runner
    MaxHostCrashes   \* BOUND: host crashes

ASSUME InboundAssumption ==
    /\ MaxMsgs \in Nat
    /\ Kinds \subseteq {"chat", "reaction", "stop"}
    /\ Quarantine \in Nat \ {0} /\ SpawnThreshold \in Nat \ {0}
    /\ HeartbeatStale \in {1, 2} /\ IdleTimeout \in {1, 2}
    /\ BackoffSteps \in Seq(SUBSET Nat) /\ Len(BackoffSteps) > 0
    /\ \A i \in 1..Len(BackoffSteps) : BackoffSteps[i] # {}
    /\ Tools \in BOOLEAN /\ SpawnFaults \in BOOLEAN
    /\ MaxDeaths \in Nat /\ MaxHostCrashes \in Nat

Msgs == 1..MaxMsgs   \* in the order of seq
NoMsg == 0

\* Ages of the heartbeat file and of last_active: 1 is past the shorter of the
\* manager's two thresholds, 2 past both, and no more is told apart.
Oldest == IF HeartbeatStale > IdleTimeout THEN HeartbeatStale ELSE IdleTimeout
Age == 0..Oldest
NoBeat == -1

\* The two tasks that may execute restart_container: the manager's reconcile
\* loop, and the sweep through its StuckActuator.
Actors == {"manager", "sweep"}

VARIABLES
    \* inbound.db
    msg,              \* messages_in
    \* outbound.db
    ack,              \* processing_ack
    replied,          \* messages some row of messages_out is in_reply_to
    tool,             \* container_state: "none", "recent" or past the ceiling
    \* the central database and the session directory
    container_status,
    last_active,      \* age of the last change of container_status
    heartbeat,        \* age of the heartbeat file, or NoBeat
    \* the runner: rpc is "dead" while there is no live runner
    rpc, batch, ceiling, failing, intool,
    \* the sweep's pass
    spc, snap, victims, queue, hand, overdue,
    \* the manager, and a restart under way
    mpc, rstep, rlist, rhand,
    \* CrashLoopTracker and SpawnAttemptTracker, in the host's memory
    streak, window, spawnfails,
    \* observation
    deaths,           \* deaths of a runner with the message in flight
    apologies,        \* apologies the sweep wrote for the message
    answered,         \* messages completed by a turn since the sweep last put them back
    cut,              \* messages failed by a step that died before telling
    ndeaths, ncrashes

inbox == msg
outbox == <<ack, replied, tool>>
session == <<container_status, last_active, heartbeat>>
runner == <<rpc, batch, ceiling, failing, intool>>
sweep == <<spc, snap, victims, queue, hand, overdue>>
restart == <<rstep, rlist, rhand>>
tracker == <<streak, window>>
seen == <<deaths, apologies, answered, cut, ndeaths, ncrashes>>
vars == <<msg, ack, replied, tool, container_status, last_active, heartbeat, rpc, batch,
          ceiling, failing, intool, spc, snap, victims, queue, hand, overdue, mpc, rstep,
          rlist, rhand, streak, window, spawnfails, deaths, apologies, answered,
          cut, ndeaths, ncrashes>>

MsgRec == [kind: {"chat", "reaction", "stop"},
           status: {"absent", "pending", "completed", "failed"},
           stamped: BOOLEAN,   \* tries >= APOLOGY_TRIES_MARKER
           crashes: 0..Quarantine,  \* crash_attempts, as far as it is compared
           aged: BOOLEAN]      \* older than APOLOGY_AFTER_SECS
\* "settled" stands for done and failed, which nothing tells apart.
AckRec == [status: {"none", "processing", "settled"},
           stale: BOOLEAN]     \* status_changed older than CLAIM_STUCK_MS
NoAck == [status |-> "none", stale |-> FALSE]

Arrived == {m \in Msgs : msg[m].status # "absent"}
Pending == {m \in Msgs : msg[m].status = "pending"}
Processing == {m \in Msgs : ack[m].status = "processing"}
Earliest(S) == CHOOSE m \in S : \A n \in S : m <= n

\* count_due: control rows and reactions carry trigger = 0.
count_due == \E m \in Pending : msg[m].kind = "chat"

\* The host runs its loops once boot has dealt with the previous run's sessions.
Up == mpc \notin {"down", "reset", "notice"}

\* set_container_status also touches last_active.
set_container_status(s) == container_status' = s /\ last_active' = 0

-----------------------------------------------------------------------------
(* The router                                                               *)

\* route_one: insert_in of a fresh row at the next seq.
Arrive ==
    LET m == Cardinality(Arrived) + 1
    IN /\ Up /\ m <= MaxMsgs
       /\ \E k \in Kinds :
            msg' = [msg EXCEPT ![m].kind = k, ![m].status = "pending"]
       /\ UNCHANGED <<outbox, session, runner, sweep, mpc, restart, tracker, spawnfails, seen>>

-----------------------------------------------------------------------------
(* The runner: run_loop, drive_turn and finalize_messages                   *)

\* Failures the runner has marked and not yet apologised for.
Untold == IF failing /\ rpc \in {"ack", "apologise"} THEN batch ELSE {}

\* One more, up to the number that decides a quarantine.
Tick(n) == IF n < Quarantine THEN n + 1 ELSE n

\* The runner process, if any, ends wherever it is.
Kill(next) ==
    /\ rpc' = next /\ batch' = {} /\ ceiling' = 0 /\ failing' = FALSE /\ intool' = FALSE
    /\ deaths' = [m \in Msgs |-> IF m \in batch /\ rpc \in {"turn", "mark", "ack"}
                                 THEN Tick(deaths[m]) ELSE deaths[m]]
    /\ cut' = cut \cup Untold

\* touch_heartbeat and get_pending; consume_fresh_reaction_rows completes the
\* reactions, and an empty batch sleeps.
Poll ==
    LET lapsed == {m \in Pending : msg[m].kind = "reaction"}
        rest == Pending \ lapsed
    IN /\ rpc = "poll"
       /\ heartbeat' = 0
       /\ msg' = [m \in Msgs |-> IF m \in lapsed THEN [msg[m] EXCEPT !.status = "completed"]
                                 ELSE msg[m]]
       /\ batch' = rest
       /\ rpc' = IF rest = {} THEN "poll" ELSE "claim"
       /\ UNCHANGED <<outbox, container_status, last_active, ceiling, failing, intool, sweep,
                      mpc, restart, tracker, spawnfails, seen>>

\* ack_picked_up, then drive_turn takes max_seq.
ack_picked_up ==
    /\ rpc = "claim"
    /\ ack' = [m \in Msgs |-> IF m \in batch THEN [status |-> "processing", stale |-> FALSE]
                              ELSE ack[m]]
    /\ ceiling' = Cardinality(Arrived)
    /\ rpc' = "turn"
    /\ UNCHANGED <<inbox, replied, tool, session, batch, failing, intool, sweep, mpc, restart,
                   tracker, spawnfails, seen>>

\* The rows a turn writes are in_reply_to the first chat row of the batch, or
\* to its first row when none is chat.
Origin ==
    LET chats == {m \in batch : msg[m].kind = "chat"}
    IN Earliest(IF chats = {} THEN batch ELSE chats)

TurnReplies ==
    /\ rpc = "turn" /\ ~intool
    /\ Origin \notin replied
    /\ replied' = replied \cup {Origin}
    /\ UNCHANGED <<inbox, ack, tool, session, runner, sweep, mpc, restart, tracker, spawnfails,
                   seen>>

\* ToolStart and ToolEnd of the provider's stream.
set_current_tool ==
    /\ Tools /\ rpc = "turn" /\ ~intool
    /\ intool' = TRUE /\ tool' = "recent"
    /\ UNCHANGED <<inbox, ack, replied, session, rpc, batch, ceiling, failing, sweep, mpc,
                   restart, tracker, spawnfails, seen>>

clear_current_tool ==
    /\ intool
    /\ intool' = FALSE /\ tool' = "none"
    /\ UNCHANGED <<inbox, ack, replied, session, rpc, batch, ceiling, failing, sweep, mpc,
                   restart, tracker, spawnfails, seen>>

\* Mutant of get_new_since: seq >= ?1.
GetSinceCeiling == {m \in Pending : m >= ceiling}

\* Rows that arrived after the turn began.
get_new_since == {m \in Pending : m > ceiling}

\* check_mid_turn_steering: a /stop row is completed, confirmed and ends the
\* turn; otherwise chat rows and reactions are folded in and completed.
MidTurnStop ==
    LET stops == {m \in get_new_since : msg[m].kind = "stop"}
    IN /\ rpc = "turn" /\ ~intool /\ stops # {}
       /\ msg' = [msg EXCEPT ![Earliest(stops)].status = "completed"]
       /\ replied' = replied \cup {Origin}
       /\ rpc' = "mark" /\ failing' = FALSE
       /\ UNCHANGED <<ack, tool, session, batch, ceiling, intool, sweep, mpc, restart, tracker,
                      spawnfails, seen>>

Interjection ==
    LET folded == get_new_since
    IN /\ rpc = "turn" /\ ~intool /\ folded # {}
       /\ \A m \in folded : msg[m].kind # "stop"
       /\ msg' = [m \in Msgs |-> IF m \in folded THEN [msg[m] EXCEPT !.status = "completed"]
                                 ELSE msg[m]]
       /\ answered' = answered \cup folded
       /\ UNCHANGED <<outbox, session, runner, sweep, mpc, restart, tracker, spawnfails, deaths,
                      apologies, cut, ndeaths, ncrashes>>

\* drive_turn or handle_slash_command returns Done or Failed. A stream that
\* breaks off after ToolStart fails the turn and leaves the tool row as it is.
TurnEnds ==
    /\ rpc = "turn"
    /\ failing' \in BOOLEAN /\ (intool => failing')
    /\ rpc' = "mark" /\ intool' = FALSE
    /\ UNCHANGED <<inbox, outbox, session, batch, ceiling, sweep, mpc, restart, tracker,
                   spawnfails, seen>>

\* finalize_messages: the rows of inbound.db first ...
finalize_inbound ==
    /\ rpc = "mark"
    /\ msg' = [m \in Msgs |->
                 IF m \in batch
                 THEN [msg[m] EXCEPT !.status = IF failing THEN "failed" ELSE "completed"]
                 ELSE msg[m]]
    /\ answered' = IF failing THEN answered ELSE answered \cup batch
    /\ rpc' = "ack"
    /\ UNCHANGED <<outbox, session, batch, ceiling, failing, intool, sweep, mpc, restart,
                   tracker, spawnfails, deaths, apologies, cut, ndeaths, ncrashes>>

\* ... then the claims that are still there ...
finalize_acks ==
    /\ rpc = "ack"
    /\ ack' = [m \in Msgs |->
                 IF m \in batch /\ ack[m].status # "none"
                 THEN [status |-> "settled", stale |-> FALSE]
                 ELSE ack[m]]
    /\ IF failing THEN rpc' = "apologise" /\ UNCHANGED <<batch, ceiling, failing>>
       ELSE rpc' = "poll" /\ batch' = {} /\ ceiling' = 0 /\ failing' = FALSE
    /\ UNCHANGED <<inbox, replied, tool, session, intool, sweep, mpc, restart, tracker,
                   spawnfails, seen>>

\* Mutant of emit_terminal_failure_apologies: only the origin is told.
ApologiseToOrigin ==
    /\ rpc = "apologise"
    /\ replied' = replied \cup {Origin}
    /\ rpc' = "poll" /\ batch' = {} /\ ceiling' = 0 /\ failing' = FALSE
    /\ UNCHANGED <<inbox, ack, tool, session, intool, sweep, mpc, restart, tracker, spawnfails,
                   seen>>

\* ... and after a failed turn one apology per chat row.
emit_terminal_failure_apologies ==
    /\ rpc = "apologise"
    /\ replied' = replied \cup {m \in batch : msg[m].kind = "chat"}
    /\ rpc' = "poll" /\ batch' = {} /\ ceiling' = 0 /\ failing' = FALSE
    /\ UNCHANGED <<inbox, ack, tool, session, intool, sweep, mpc, restart, tracker, spawnfails,
                   seen>>

\* The runner panics, is killed, or leaves run_loop through `?`.
RunnerDies ==
    /\ rpc # "dead" /\ ndeaths < MaxDeaths
    /\ Kill("dead")
    /\ ndeaths' = ndeaths + 1
    /\ UNCHANGED <<inbox, outbox, session, sweep, mpc, restart, tracker, spawnfails, apologies,
                   answered, ncrashes>>


-----------------------------------------------------------------------------
(* The sweep: run_once, then actuate_stuck                                  *)

\* The session list and stuck::check are read; processing::check scans the
\* claims. A pass is one sweep period, in which the backoff of the crash loop
\* tracker runs on.
Reclaimable(m) == m \in Processing /\ ack[m].stale /\ m \notin replied

SweepBegin ==
    /\ Up /\ spc = "idle"
    /\ spc' = "claims"
    /\ snap' = container_status
    /\ overdue' = (tool = "over")
    /\ victims' = {m \in Msgs : Reclaimable(m)}
    /\ window' = IF window = 0 THEN 0 ELSE window - 1
    /\ UNCHANGED <<inbox, outbox, session, runner, queue, hand, mpc, restart, streak, spawnfails,
                   seen>>

\* atomic_reclaim_claim: the claim is looked at again under the write lock of
\* outbound.db and deleted only if it still qualifies.
atomic_reclaim_claim ==
    /\ spc = "claims"
    /\ \E m \in victims :
         /\ victims' = victims \ {m}
         /\ IF Reclaimable(m)
            THEN ack' = [ack EXCEPT ![m] = NoAck] /\ hand' = m /\ spc' = "reset"
            ELSE UNCHANGED <<ack, hand, spc>>
    /\ UNCHANGED <<inbox, replied, tool, session, runner, snap, queue, overdue, mpc, restart,
                   tracker, spawnfails, seen>>

\* reset_message_in: pending again, whatever the row has become since; tries
\* grows by one, so a stamped row stays stamped.
reset_message_in ==
    /\ spc = "reset"
    /\ msg' = [msg EXCEPT ![hand].status = "pending"]
    /\ answered' = answered \ {hand}
    /\ spc' = "claims" /\ hand' = NoMsg
    /\ UNCHANGED <<outbox, session, runner, snap, victims, queue, overdue, mpc, restart, tracker,
                   spawnfails, deaths, apologies, cut, ndeaths, ncrashes>>

\* wake::check counts every pending row, with or without trigger, and marks the
\* session running; apology::check then scans. A reaction is a chat row there.
Wake ==
    /\ spc = "claims" /\ victims = {}
    /\ IF snap # "running" /\ Pending # {} THEN set_container_status("running")
       ELSE UNCHANGED <<container_status, last_active>>
    /\ queue' = {m \in Pending : msg[m].kind # "stop" /\ ~msg[m].stamped}
    /\ spc' = "apologise"
    /\ UNCHANGED <<inbox, outbox, heartbeat, runner, snap, victims, hand, overdue, mpc, restart,
                   tracker, spawnfails, seen>>

\* Mutant of Owed: only a stopped session is apologised for.
OwedWhenStopped(m) ==
    snap = "stopped" /\ (spawnfails >= SpawnThreshold \/ msg[m].aged)

\* Whether apology::check apologises for the row: the container never came up,
\* or the row is old and no runner says that it is on it.
Owed(m) ==
    \/ snap = "stopped" /\ spawnfails >= SpawnThreshold
    \/ msg[m].aged /\ ~(snap = "running" /\ m \in Processing)

ApologiseStuck ==
    /\ spc = "apologise" /\ queue # {}
    /\ LET m == Earliest(queue)
       IN /\ queue' = queue \ {m}
          /\ IF Owed(m)
             THEN /\ replied' = replied \cup {m}
                  /\ apologies' = [apologies EXCEPT ![m] = @ + 1]
                  /\ spc' = "stamp" /\ hand' = m
             ELSE UNCHANGED <<replied, apologies, spc, hand>>
    /\ UNCHANGED <<inbox, ack, tool, session, runner, snap, victims, overdue, mpc, restart, tracker,
                   spawnfails, deaths, answered, cut, ndeaths, ncrashes>>

\* Mutant of mark_tries_apology_sent: the stamp is not written.
StampNothing ==
    /\ spc = "stamp"
    /\ spc' = "apologise" /\ hand' = NoMsg
    /\ UNCHANGED <<inbox, outbox, session, runner, snap, victims, queue, overdue, mpc, restart,
                   tracker, spawnfails, seen>>

mark_tries_apology_sent ==
    /\ spc = "stamp"
    /\ msg' = [msg EXCEPT ![hand].stamped = TRUE]
    /\ spc' = "apologise" /\ hand' = NoMsg
    /\ UNCHANGED <<outbox, session, runner, snap, victims, queue, overdue, mpc, restart, tracker,
                   spawnfails, seen>>

\* actuate_stuck and restart_stuck, which reads the session afresh.
SweepEnd ==
    /\ spc = "apologise" /\ queue = {}
    /\ IF overdue /\ container_status = "running"
       THEN spc' = "restart" /\ rstep' = [rstep EXCEPT !["sweep"] = "remove"]
       ELSE spc' = "idle" /\ UNCHANGED rstep
    /\ snap' = "stopped" /\ overdue' = FALSE
    /\ UNCHANGED <<inbox, outbox, session, runner, victims, queue, hand, mpc, rlist, rhand, tracker,
                   spawnfails, seen>>

-----------------------------------------------------------------------------
(* The manager: tick, classify and apply                                    *)

\* heartbeat_stale, or heartbeat_missing_and_session_old.
Crashed ==
    \/ heartbeat >= HeartbeatStale
    \/ heartbeat = NoBeat /\ last_active >= HeartbeatStale

ReconcileSpawn ==
    /\ mpc = "idle" /\ container_status = "stopped"
    /\ count_due /\ window = 0
    /\ mpc' = "spawn"
    /\ UNCHANGED <<inbox, outbox, session, runner, sweep, restart, tracker, spawnfails, seen>>

ReconcileWake ==
    /\ mpc = "idle" /\ container_status = "idle" /\ count_due
    /\ set_container_status("stopped")
    /\ UNCHANGED <<inbox, outbox, heartbeat, runner, sweep, mpc, restart, tracker, spawnfails, seen>>

ReconcileCrash ==
    /\ mpc = "idle" /\ container_status = "running" /\ Crashed
    /\ mpc' = "restart" /\ rstep' = [rstep EXCEPT !["manager"] = "remove"]
    /\ UNCHANGED <<inbox, outbox, session, runner, sweep, rlist, rhand, tracker, spawnfails, seen>>

IdleStop ==
    /\ mpc = "idle" /\ container_status = "running" /\ ~Crashed
    /\ last_active >= IdleTimeout /\ heartbeat >= IdleTimeout
    /\ Kill("dead")
    /\ set_container_status("idle")
    /\ UNCHANGED <<inbox, outbox, heartbeat, sweep, mpc, restart, tracker, spawnfails, apologies,
                   answered, ndeaths, ncrashes>>

\* maybe_spawn: the gates (degraded host, full disk, nothing due any more,
\* budget, rate limit) leave the session stopped and the row pending.
SpawnRefused ==
    /\ mpc = "spawn" /\ (SpawnFaults \/ ~count_due)
    /\ mpc' = "idle"
    /\ UNCHANGED <<inbox, outbox, session, runner, sweep, restart, tracker, spawnfails, seen>>

\* The image cannot be built, or the runtime cannot start the container after
\* a lingering one and the old heartbeat file were removed.
SpawnFails ==
    /\ mpc = "spawn" /\ SpawnFaults /\ count_due
    /\ mpc' = "idle"
    /\ spawnfails' = IF spawnfails < SpawnThreshold THEN spawnfails + 1 ELSE spawnfails
    /\ \/ UNCHANGED <<heartbeat, runner, deaths, cut>>
       \/ Kill("dead") /\ heartbeat' = NoBeat
    /\ UNCHANGED <<inbox, outbox, container_status, last_active, sweep, restart, tracker, apologies,
                   answered, ndeaths, ncrashes>>

SpawnRuns ==
    /\ mpc = "spawn" /\ count_due
    /\ Kill("poll") /\ heartbeat' = NoBeat
    /\ spawnfails' = 0 /\ mpc' = "mark"
    /\ UNCHANGED <<inbox, outbox, container_status, last_active, sweep, restart, tracker, apologies,
                   answered, ndeaths, ncrashes>>

MarkRunning ==
    /\ mpc = "mark"
    /\ set_container_status("running")
    /\ mpc' = "idle"
    /\ UNCHANGED <<inbox, outbox, heartbeat, runner, sweep, restart, tracker, spawnfails, seen>>

-----------------------------------------------------------------------------
(* restart_container, executed by the manager or by the sweep               *)

\* The container is removed; a stuck restart clears the tool row; the claims
\* still processing are listed.
RestartRemove(a) ==
    /\ rstep[a] = "remove"
    /\ Kill("dead")
    /\ tool' = IF a = "sweep" THEN "none" ELSE tool
    /\ rlist' = [rlist EXCEPT ![a] = Processing]
    /\ rstep' = [rstep EXCEPT ![a] = "work"]
    /\ UNCHANGED <<inbox, ack, replied, session, sweep, mpc, rhand, tracker, spawnfails, apologies,
                   answered, ndeaths, ncrashes>>

\* emit_crash_restart_apologies: increment_crash_attempts, and mark_failed for
\* the message that has crashed the runner too often ...
RestartBump(a) ==
    /\ rstep[a] = "work"
    /\ \E m \in rlist[a] :
         LET n == Tick(msg[m].crashes)
             poison == n >= Quarantine
         IN /\ msg' = [msg EXCEPT ![m].crashes = n,
                                  ![m].status = IF poison THEN "failed" ELSE @]
            /\ rlist' = [rlist EXCEPT ![a] = @ \ {m}]
            /\ rhand' = [rhand EXCEPT ![a] = m]
            /\ rstep' = [rstep EXCEPT ![a] = IF poison THEN "bury" ELSE "tell"]
    /\ UNCHANGED <<outbox, session, runner, sweep, mpc, tracker, spawnfails, seen>>

\* Mutant of RestartTell: the claim stays processing.
TellAndKeepClaim(a) ==
    /\ rstep[a] \in {"tell", "bury"}
    /\ replied' = replied \cup {rhand[a]}
    /\ msg' = [msg EXCEPT ![rhand[a]].stamped = (rstep[a] = "tell") \/ @]
    /\ rhand' = [rhand EXCEPT ![a] = NoMsg]
    /\ rstep' = [rstep EXCEPT ![a] = "work"]
    /\ UNCHANGED <<ack, tool, session, runner, sweep, mpc, rlist, tracker, spawnfails, seen>>

\* Mutant of RestartTell: a quarantined message is buried without a word.
TellRetriedOnly(a) ==
    /\ rstep[a] \in {"tell", "bury"}
    /\ replied' = IF rstep[a] = "tell" THEN replied \cup {rhand[a]} ELSE replied
    /\ msg' = [msg EXCEPT ![rhand[a]].stamped = (rstep[a] = "tell") \/ @]
    /\ ack' = [ack EXCEPT ![rhand[a]] =
                 IF @.status = "none" THEN @ ELSE [status |-> "settled", stale |-> FALSE]]
    /\ rhand' = [rhand EXCEPT ![a] = NoMsg]
    /\ rstep' = [rstep EXCEPT ![a] = "work"]
    /\ UNCHANGED <<tool, session, runner, sweep, mpc, rlist, tracker, spawnfails, seen>>

\* ... then the apology, the stamp of a message that stays pending, and the
\* claim flipped to failed.
RestartTell(a) ==
    /\ rstep[a] \in {"tell", "bury"}
    /\ replied' = replied \cup {rhand[a]}
    /\ msg' = [msg EXCEPT ![rhand[a]].stamped = (rstep[a] = "tell") \/ @]
    /\ ack' = [ack EXCEPT ![rhand[a]] =
                 IF @.status = "none" THEN @ ELSE [status |-> "settled", stale |-> FALSE]]
    /\ rhand' = [rhand EXCEPT ![a] = NoMsg]
    /\ rstep' = [rstep EXCEPT ![a] = "work"]
    /\ UNCHANGED <<tool, session, runner, sweep, mpc, rlist, tracker, spawnfails, seen>>

\* Mutant of RestartStop: the manager does not come back to its tick.
StopAndStay(a) ==
    /\ rstep[a] = "work" /\ rlist[a] = {}
    /\ set_container_status("stopped")
    /\ streak' = 1 /\ window' \in BackoffSteps[1]
    /\ rstep' = [rstep EXCEPT ![a] = "idle"]
    /\ spc' = IF a = "sweep" THEN "idle" ELSE spc
    /\ UNCHANGED <<inbox, outbox, heartbeat, runner, snap, victims, queue, hand, overdue, mpc,
                   rlist, rhand, spawnfails, seen>>

\* CrashLoopTracker: one more crash in a row and its backoff. HEALTHY_RESET_WINDOW
\* is longer than every backoff, so the streak starts over only when none runs.
record_crash ==
    /\ \/ streak' = IF streak < Len(BackoffSteps) THEN streak + 1 ELSE streak
       \/ streak > 0 /\ window = 0 /\ streak' = 1
    /\ window' \in BackoffSteps[streak']

\* mark_container_stopped, then record_crash.
RestartStop(a) ==
    /\ rstep[a] = "work" /\ rlist[a] = {}
    /\ set_container_status("stopped")
    /\ record_crash
    /\ rstep' = [rstep EXCEPT ![a] = "idle"]
    /\ mpc' = IF a = "manager" THEN "idle" ELSE mpc
    /\ spc' = IF a = "sweep" THEN "idle" ELSE spc
    /\ UNCHANGED <<inbox, outbox, heartbeat, runner, snap, victims, queue, hand, overdue, rlist,
                   rhand, spawnfails, seen>>

-----------------------------------------------------------------------------
(* The host process                                                         *)

Idle == [a \in Actors |-> "idle"]

HostCrash ==
    /\ mpc # "down" /\ ncrashes < MaxHostCrashes
    /\ ncrashes' = ncrashes + 1
    /\ cut' = cut \cup {rhand[a] : a \in {b \in Actors : rstep[b] = "bury"}}
    /\ mpc' = "down" /\ spc' = "idle" /\ rstep' = Idle
    /\ snap' = "stopped" /\ overdue' = FALSE
    /\ victims' = {} /\ queue' = {} /\ hand' = NoMsg
    /\ rlist' = [a \in Actors |-> {}] /\ rhand' = [a \in Actors |-> NoMsg]
    /\ streak' = 0 /\ window' = 0 /\ spawnfails' = 0
    /\ UNCHANGED <<inbox, outbox, session, runner, deaths, apologies, answered, ndeaths>>

\* cleanup_orphans removes the containers of the previous run.
BootClean ==
    /\ mpc = "down"
    /\ Kill("dead")
    /\ mpc' = IF container_status = "running" THEN "reset" ELSE "idle"
    /\ UNCHANGED <<inbox, outbox, session, sweep, restart, tracker, spawnfails, apologies, answered,
                   ndeaths, ncrashes>>

\* reset_stale_running_sessions ...
BootReset ==
    /\ mpc = "reset"
    /\ set_container_status("stopped")
    /\ mpc' = "notice"
    /\ UNCHANGED <<inbox, outbox, heartbeat, runner, sweep, restart, tracker, spawnfails, seen>>

\* ... and emit_boot_recovery_notice: one notice, all claims flipped.
BootNotice ==
    /\ mpc = "notice"
    /\ mpc' = "idle"
    /\ IF count_due /\ Processing # {}
       THEN /\ \E m \in Processing : replied' = replied \cup {m}
            /\ msg' = [m \in Msgs |-> IF m \in Processing THEN [msg[m] EXCEPT !.stamped = TRUE]
                                      ELSE msg[m]]
            /\ ack' = [m \in Msgs |-> IF m \in Processing
                                      THEN [status |-> "settled", stale |-> FALSE] ELSE ack[m]]
       ELSE UNCHANGED <<msg, ack, replied>>
    /\ UNCHANGED <<tool, session, runner, sweep, restart, tracker, spawnfails, seen>>

-----------------------------------------------------------------------------
(* The clock                                                                *)

AgeMessage(m) ==
    /\ msg[m].status = "pending" /\ ~msg[m].aged
    /\ msg' = [msg EXCEPT ![m].aged = TRUE]
    /\ UNCHANGED <<outbox, session, runner, sweep, mpc, restart, tracker, spawnfails, seen>>

\* Nothing refreshes a claim while the turn runs. The removal of a container is
\* shorter than CLAIM_STUCK_MS, so a claim made during one does not go stale.
AgeClaim(m) ==
    /\ m \in Processing /\ ~ack[m].stale
    /\ \A a \in Actors : rstep[a] # "remove"
    /\ ack' = [ack EXCEPT ![m].stale = TRUE]
    /\ UNCHANGED <<inbox, replied, tool, session, runner, sweep, mpc, restart, tracker, spawnfails,
                   seen>>

\* run_loop and HeartbeatTicker keep the file of a live runner fresh.
AgeHeartbeat ==
    /\ rpc = "dead" /\ heartbeat \in 0..(Oldest - 1)
    /\ heartbeat' = heartbeat + 1
    /\ UNCHANGED <<inbox, outbox, container_status, last_active, runner, sweep, mpc, restart, tracker,
                   spawnfails, seen>>

AgeActive ==
    /\ container_status = "running" /\ last_active < Oldest
    /\ last_active' = last_active + 1
    /\ UNCHANGED <<inbox, outbox, container_status, heartbeat, runner, sweep, mpc, restart, tracker,
                   spawnfails, seen>>

AgeTool ==
    /\ tool = "recent" /\ tool' = "over"
    /\ UNCHANGED <<inbox, ack, replied, session, runner, sweep, mpc, restart, tracker, spawnfails,
                   seen>>

-----------------------------------------------------------------------------
Init ==
    /\ msg = [m \in Msgs |-> [kind |-> "chat", status |-> "absent", stamped |-> FALSE,
                              crashes |-> 0, aged |-> FALSE]]
    /\ ack = [m \in Msgs |-> NoAck] /\ replied = {} /\ tool = "none"
    /\ container_status = "stopped" /\ last_active = 0 /\ heartbeat = NoBeat
    /\ rpc = "dead" /\ batch = {} /\ ceiling = 0 /\ failing = FALSE /\ intool = FALSE
    /\ spc = "idle" /\ snap = "stopped" /\ victims = {} /\ queue = {} /\ hand = NoMsg
    /\ overdue = FALSE
    /\ mpc = "idle" /\ rstep = Idle
    /\ rlist = [a \in Actors |-> {}] /\ rhand = [a \in Actors |-> NoMsg]
    /\ streak = 0 /\ window = 0 /\ spawnfails = 0
    /\ deaths = [m \in Msgs |-> 0] /\ apologies = [m \in Msgs |-> 0] /\ answered = {}
    /\ cut = {} /\ ndeaths = 0 /\ ncrashes = 0

RunnerStep ==
    \/ Poll \/ ack_picked_up \/ MidTurnStop \/ TurnEnds
    \/ finalize_inbound \/ finalize_acks \/ emit_terminal_failure_apologies
SweepStep ==
    \/ SweepBegin \/ atomic_reclaim_claim \/ reset_message_in \/ Wake
    \/ ApologiseStuck \/ mark_tries_apology_sent \/ SweepEnd
Reconcile == ReconcileSpawn \/ ReconcileWake \/ ReconcileCrash \/ IdleStop
SpawnStep == SpawnRefused \/ SpawnFails \/ SpawnRuns
RestartStep(a) == RestartRemove(a) \/ RestartBump(a) \/ RestartTell(a) \/ RestartStop(a)
BootStep == BootClean \/ BootReset \/ BootNotice

Next ==
    \/ Arrive
    \/ RunnerStep \/ TurnReplies \/ Interjection
    \/ set_current_tool \/ clear_current_tool \/ RunnerDies
    \/ SweepStep
    \/ Reconcile \/ SpawnStep \/ MarkRunning
    \/ \E a \in Actors : RestartStep(a)
    \/ HostCrash \/ BootStep
    \/ \E m \in Msgs : AgeMessage(m) \/ AgeClaim(m)
    \/ AgeHeartbeat \/ AgeActive \/ AgeTool

Spec == Init /\ [][Next]_vars

\* Every task of the host and a live runner go on, turns end and time passes.
\* Messages, replies, tools, deaths and refusals happen or not.
Fairness ==
    /\ WF_vars(RunnerStep)
    /\ WF_vars(SweepStep)
    /\ WF_vars(Reconcile) /\ WF_vars(SpawnStep) /\ WF_vars(MarkRunning)
    /\ \A a \in Actors : WF_vars(RestartStep(a))
    /\ WF_vars(BootStep)
    /\ \A m \in Msgs : WF_vars(AgeMessage(m)) /\ WF_vars(AgeClaim(m))
    /\ WF_vars(AgeHeartbeat) /\ WF_vars(AgeActive) /\ WF_vars(AgeTool)

FairSpec == Spec /\ Fairness

-----------------------------------------------------------------------------
(* Properties                                                               *)

TypeInbox == msg \in [Msgs -> MsgRec]
TypeOutbox ==
    /\ ack \in [Msgs -> AckRec] /\ replied \subseteq Msgs
    /\ tool \in {"none", "recent", "over"}
TypeSession ==
    /\ container_status \in {"stopped", "idle", "running"}
    /\ last_active \in Age /\ heartbeat \in Age \cup {NoBeat}
TypeRunner ==
    /\ rpc \in {"dead", "poll", "claim", "turn", "mark", "ack", "apologise"}
    /\ batch \subseteq Msgs /\ ceiling \in 0..MaxMsgs
    /\ failing \in BOOLEAN /\ intool \in BOOLEAN
TypeSweep ==
    /\ spc \in {"idle", "claims", "reset", "apologise", "stamp", "restart"}
    /\ snap \in {"stopped", "idle", "running"} /\ overdue \in BOOLEAN
    /\ victims \subseteq Msgs /\ queue \subseteq Msgs /\ hand \in Msgs \cup {NoMsg}
    /\ spc \in {"reset", "stamp"} <=> hand # NoMsg
TypeManager == mpc \in {"idle", "spawn", "mark", "restart", "down", "reset", "notice"}
TypeRestart ==
    /\ rstep \in [Actors -> {"idle", "remove", "work", "tell", "bury"}]
    /\ rlist \in [Actors -> SUBSET Msgs] /\ rhand \in [Actors -> Msgs \cup {NoMsg}]
    /\ \A a \in Actors : rstep[a] \in {"tell", "bury"} <=> rhand[a] # NoMsg
TypeTracker ==
    /\ streak \in 0..Len(BackoffSteps) /\ window \in Nat
    /\ spawnfails \in 0..SpawnThreshold
TypeSeen ==
    /\ deaths \in [Msgs -> 0..Quarantine] /\ apologies \in [Msgs -> Nat]
    /\ answered \subseteq Msgs /\ cut \subseteq Msgs
    /\ ndeaths \in 0..MaxDeaths /\ ncrashes \in 0..MaxHostCrashes
\* A task is at its restart exactly while the restart it runs is under way.
Restarting ==
    /\ mpc = "restart" <=> rstep["manager"] # "idle"
    /\ spc = "restart" <=> rstep["sweep"] # "idle"

\* Every variable keeps its type: what each task holds between two of its steps
\* is a row that exists, and the trackers stay within their tables.
TypeOK ==
    /\ TypeInbox /\ TypeOutbox /\ TypeSession /\ TypeRunner /\ TypeSweep /\ TypeManager
    /\ TypeRestart /\ TypeTracker /\ TypeSeen /\ Restarting

\* The crash counter of a message never runs ahead of the runner deaths it was
\* in flight for, but for one count per host crash: no message is quarantined
\* for crashes it had no part in (emit_crash_restart_apologies). Without tools,
\* that is with a single task restarting.
CrashCountJustified ==
    \A m \in Msgs : msg[m].crashes <= deaths[m] + ncrashes

\* A chat message that ends up failed has been told so, unless the process that
\* failed it is still about to tell or died between the two writes
\* (finalize_messages, emit_crash_restart_apologies).
FailedIsTold ==
    \A m \in Msgs :
        msg[m].status = "failed" /\ msg[m].kind = "chat" =>
            \/ m \in replied \cup cut \cup Untold
            \/ \E a \in Actors : rstep[a] = "bury" /\ rhand[a] = m

\* The sweep apologises for a message at most once, or once more for a host
\* crash between the apology and the stamp: resets, restarts and boots never
\* lift the stamp (apology::check, mark_tries_apology_sent).
SweepApologyOnce ==
    \A m \in Msgs : apologies[m] <= 1 + ncrashes

\* The runner never works on a message that a turn has completed, unless the
\* sweep put it back since (get_pending, finalize_messages, steering).
NoRework ==
    rpc \in {"claim", "turn", "mark"} => batch \cap answered = {}

\* A message that is pending is heard: it is completed, or some row answers it
\* (a reply, an apology, a notice), or the process that failed it died before
\* it could tell. The sweep's apology is the last resort that makes it true
\* when the container cannot be brought up.
Heard(m) == msg[m].status = "completed" \/ m \in replied \cup cut
EveryMessageHeard ==
    \A m \in Msgs : (msg[m].status = "pending" /\ msg[m].kind = "chat") ~> Heard(m)

=============================================================================
