# Formal models of copperclaw

copperclaw runs chat agents in containers. A host process owns the channels (Telegram, Slack, ...),
a central SQLite database and, for every session, two more SQLite files that it shares with the
session's container: `inbound.db` (messages for the agent) and `outbound.db` (messages from it, and
the runner's own state). Nothing but these files and one heartbeat file connects the host with the
runner in the container. Both sides poll, and no lock spans two of the databases.

That is where the hard part of the system lies: several tasks of the host, a runner that may die at
any moment and a host that may do the same all work on the same rows, in two or three separate
writes each. The modules here model those protocols, TLC checks them on small instances, and TLAPS
proves what it can for every instance.

## Inventory

Paths are below `src/crates/`.

| part | state it keeps | operations | what makes it correct | modelled |
|---|---|---|---|---|
| Outbound delivery (`copperclaw-host-delivery`) | `messages_out`, `delivered`; in memory the retry map, the claim map, the no-adapter gauge | one pass per tick and session by an active and a sweep loop: claim, send the parts, record, retry, give up | nothing recorded as sent that was not; budgets survive crashes; every row gets one final record | `Delivery`, `Outbox` |
| Dead letters (`outbound_dropped_messages`, `handlers/dropped_messages.rs`) | letters in the central database | written for rows with no route or an expired adapter; replayed by the operator | the last replayable copy is never lost | `Delivery` |
| Loop supervisor (`supervisor.rs`) | restart streak, degraded flag | respawns a loop that panicked | a panic costs no row | panic and respawn in `Delivery`; the curve is not |
| Runner (`copperclaw-runner/src/run`) | `messages_in.status`, `processing_ack`, `container_state`, history | poll, claim a batch, drive a turn, steer, settle, apologise | a message is answered or its failure is told; none is answered twice | `Inbound` (what a turn computes is not) |
| Host sweep (`copperclaw-host-sweep`) | resets of claims, the `tries` stamp | stale claims, wake, apologies for stuck messages, stuck-tool restarts | one apology per message; no message is left unheard | `Inbound`; its other checks are parts of their own |
| Container manager (`container_manager/`) | `sessions.container_status`, crash-loop and spawn trackers in memory, `crash_attempts` | reconcile tick, spawn, crash restart, idle stop, quarantine, boot recovery | only messages that crash the runner are quarantined | `Inbound` |
| Router (`copperclaw-host-router`) | sessions, wiring, debounce buffers | route one event to its sessions, gates, commands | each accepted event becomes one row | the row it writes, in `Inbound` |
| Scheduling, goals, conditions, recurrence (`copperclaw-modules`, `checks/`) | `tasks`, `goals` and `conditions` in the central database, the condition latch in memory | the agent creates and changes them by system rows; each sweep pass fires what is due | no fire lost, none doubled but by a race that is bounded; what was stopped falls silent | `Schedule`, `Checkins` |
| Approvals (`approvals/`, `handlers/approvals.rs`, the tunnel broker) | `pending_approvals`, `approval_decisions`, the broker's active tunnels | raise, approve, deny, revoke, lapse, spend | the log, the row and the effect agree; one tunnel per approval | `Approvals` |
| Questions (`InteractiveModule`) | pending questions in memory | ask, answer, expire | an expiry and a late answer do not both win | no |
| Host-proxied MCP calls (`mcp_call.rs`, `drain_mcp_calls`) | request and response rows, `mcp_drain_inflight`, the connection cache | the runner blocks on a row, a host task executes and answers | a call runs once while its runner waits; its answer is not reaped unread | `McpRelay` |
| Agent to agent, child reaper | rows copied between sessions | dispatch, one-shot reply, reap | a delegated task is answered or reported | planned |
| Provider failover | cool-downs per provider | ordered fallback | a healthy provider is used | planned |
| Channel adapters, CLI and socket, setup, skills, browser, OneCLI, metrics | - | protocol I/O, file formats, counters | - | no: no protocol of their own; an adapter is an environment that takes or refuses a part |

How the parts meet: the router inserts into `inbound.db` and nudges the manager; the manager starts
a container; the runner claims in `outbound.db`, works, writes its replies to `outbound.db` and
settles the row in `inbound.db`; the delivery loops pick up the replies and record them in
`inbound.db`. The sweep looks at all of it once a minute and repairs what it takes for broken. The
hard behaviours are therefore interleavings of tasks that act on what they read a step earlier, the
death of either process between two writes, and repair running into work that is merely slow.
`PROJECT.json` lists them line by line under `hazards`.

## Modules

| module | content |
|---|---|
| `Delivery` | outbound delivery of one session: both loops, crashes, panics, database errors, replay |
| `Outbox` | what delivery promises, with loops, claims and retries hidden |
| `DeliveryProofs` | `Delivery`: types, final records, acknowledged rows |
| `DeliverySafety` | `Delivery`: senders, letters, budgets, reports, repetitions |
| `DeliveryRefinement` | `Delivery` implements `Outbox` |
| `Inbound` | the inbound path of one session: router, runner, sweep, manager, restarts, boot |
| `McpRelay` | host-proxied tool calls of one session: runner, drain, detached task, connection cache |
| `Schedule` | scheduled tasks and the forwarding of the older recurring messages |
| `Checkins` | goals and conditions: the sweep's check-ins against the agent's changes |
| `Approvals` | the approvals of one request identity and their use as a grant |
| `InboundProofs`, `McpRelayProofs`, `ScheduleProofs`, `CheckinsProofs`, `ApprovalsProofs` | the safety properties of these modules, from inductive invariants |
| `MCDelivery`, `MCInbound`, `MCMcpRelay`, `MCSchedule`, `MCCheckins`, `MCApprovals` | instances for TLC |

Definitions keep the names of the code where a function is one step (`bump_retry`,
`record_exhausted_row`, `ack_picked_up`, `atomic_reclaim_claim`, ...); where a function takes several
steps, each has a name of its own. `map` in `PROJECT.json` gives the lines of each. Definitions
marked `Mutant of ...` are deliberate mistakes, used to show that a property can fail; no
specification uses them.

### Delivery

State: the rows of `messages_out` with their `tries` and `not_before`, the `delivered` table, the
dead letters, `session_routing`; the in-memory maps `retries` and `inflight`; per loop the locals of
`process_session_once` (snapshot, routing, row in hand, parts sent, outcome). Observation variables
(`copies`, `fails`, `why`, `cards`) record what the platform saw.

A pass is split wherever the code awaits or writes: begin (snapshot), scan, claim, exhaustion guard,
dispatch, one step per part, record, release of the claim, settle by outcome (bump and persist,
exhaust and card, park, letter and terminal record, plain failure). The claim is released before
the outcome is settled, as in the code. Around it: a database error at each fallible write
(`RecordErr`, `AbortPass`), a panic anywhere, a host restart anywhere, an adapter that comes and
goes, routing that changes, rows that age, a replay in its two writes.

Deadlines are compared with the `now` a pass took when it began, so each deadline carries the set of
running passes whose `now` lies before it; no clock is needed.

Abstractions. A row is a kind (`chat`, `agent`, `ui`), a number of parts and whether it names its
own channel. Cards count as chat; system rows behave as agent rows. The snapshot, the priming of the
retry cache and `now` are one step. Left out: `deliver_after`, edits, reactions and streaming, the
rendering of each kind, the fallbacks inside one `call_adapter`. `drain_mcp_calls`, which ends every pass, is
`McpRelay`: the two share only the loop that runs them.

### Inbound

State: `messages_in`, `processing_ack`, what `messages_out` is in reply to, `container_state`, the
session row, the heartbeat file; the runner's program counter and batch; the sweep's pass; the
manager, and up to two executions of `restart_container` (the manager's own and the sweep's through
its `StuckActuator`); the two trackers. Ages are levels: a claim is fresh or stale, a message young or
old, the heartbeat 0, past the first or past both of the manager's thresholds.

Each task is split where it passes from one database to another or awaits: the runner's settlement
is inbound rows, claims, apologies; the sweep deletes a claim and resets the message in two steps,
apologises and stamps in two; a restart removes the container, then bumps and tells message by
message, then marks the session stopped; boot removes containers, resets and gives notice.

Abstractions.
- One session. The limit of ten rows of `get_pending`, `on_wake` and `process_after` are left out.
- Rows of one batch are marked in one step per database (the code loops under the connection's lock;
  a death inside the loop is not told apart from one before or after it).
- `Wake` contains the wake check and the apology scan; `RestartTell` the apology, the stamp and the
  flip of the claim; `RestartStop` the stop and `record_crash`.
- `crash_attempts` and the observed deaths saturate at the quarantine threshold. Done and failed
  claims are one value, since nothing tells them apart.
- The healthy-window reset of the streak is possible whenever no backoff runs, which is more than
  the code allows.
- A claim does not go stale during the removal of a container (the removal takes seconds, the
  threshold is a minute).
- Refused spawns (degraded host, budget, rate limit, full disk) are one nondeterministic refusal.
- `container_state` is written by the stream's ToolStart and ToolEnd only, as in the code.

### McpRelay

State: `mcp_call_requests` in `outbound.db` and `mcp_call_responses` in `inbound.db`; where
`dispatch_external` is with each call; per loop the locals of `drain_mcp_calls` (the requests it
listed, the ids it took for live, what is left to do); the set `mcp_drain_inflight`; the detached tasks; the cached connection.

The runner queues a call (or fails to), polls, reads and deletes, or gives up at its deadline. The
drain lists the requests, reads the ids once more, reaps the responses that have none, checks the
in-flight guard, leaves out what is answered, fills the guard and spawns a task, one step for each. The task works the requests off one
after the other: connect, call, retry once on a dead connection, answer. The host may stall, panic or
restart, the server may hang, the runner may die.

Abstractions. `Tick` advances the ages of waiting calls; what takes milliseconds takes no tick. The two
deadlines are 1 and 2 ticks, which keeps their order (the host gives up before the runner does). What
a tool returns is not modelled: an error is an answer like any other.

### Schedule

State: the `tasks` table, the series of the older engine in `messages_in`, the sweep's pass, the row
in hand of the delivery loop, which sessions' databases open. Each due task takes the pass up to four
steps: write the message, count the fire, then re-arm, or complete and clear `next_fire`. Whether a task
recurs was read when the pass listed it. An update by the agent is one statement for the recurrence
and one for the time, and the pass may come between them.

Abstractions. A time is `none`, `later` or `due`; `older` relates a task to those that became due after it,
which is the order `list_due` returns them in.
A recurrence is absent, a cron expression or text that is none. The parsing of times and of cron
expressions is therefore one of three outcomes. `fresh`, `extra`, `uncounted`, `late` and `want` are
observations.

### Checkins

State: the `goals` and `conditions` tables, `ConditionStore` (its copy of the table and the latch
`last_held`), what a sample would find, the sweep's pass, the row in hand of the delivery loop. A goal's
check-in reads, wakes and re-arms, or pauses, in separate statements. Conditions are loaded, sampled,
latched and fired in the order of the code, so a failed fire after the latch is a step like any other.

Abstractions. Times as in `Schedule`. The branch of `budget_remaining` that draws on a linked grant is
left out, because no code path links one. The id with which `goal_create` is repeated is left out.

### Approvals

State: the rows of one (request id, action) pair, oldest first, their log in `approval_decisions`, the
raiser between its read and its write, the operators' calls (command line and tap) and the
`expose` calls between their statements, the broker's mutex and its active tunnels. The code looks
rows up by identity, never across identities, so one identity is the whole protocol.

`disturbed` marks rows that two actors worked on at once or whose settling was cut short; the
property about the log exempts them, since for them the code gives no guarantee (see below).

Abstractions. Who may approve, the edits of the card, and what each approved action does are left out:
an effect is counted. Deadlines pass at any time.

## Runs

With `-workers 2` each run takes between a few seconds and four minutes.

| run | instance | shows |
|---|---|---|
| `single` | one loop; a row and one more for a card or replay; 2 parts, 2 attempts, a crash, a fault | `TypeOK`, `AckedImpliesSent`, `AttemptBudget` over a restart, `ExhaustedOnce`, `NoLostLetter`, and that `Delivery` implements `Outbox` |
| `pair` | both loops, one row, a crash, a fault | the claim admits one sender (`OneSender`); `NeverGivesUpEarly`, `ResendBound` with two loops and a restart |
| `live` | both loops under fairness, a fault; a pass may outlast the claim ceiling, so two passes do send one row at once | `RecordIsFinal`, `EveryRowSettles`, `BacklogClears` |
| `crash` | one message under fairness, a runner death, a host crash, spawns that are refused or fail | `TypeOK`, `CrashCountJustified`, `SweepApologyOnce`, `EveryMessageHeard` |
| `steer` | two messages of any kind | `FailedIsTold` for every row of a batch, `NoRework` |
| `tools` | tools, so two restarts at once; an idle timeout below the heartbeat threshold | `FailedIsTold` |
| `relay` | one loop, two calls that overlap, a fault | `TypeOK`, `OnceWhileWaiting`, `TimeoutJustified`, `ReadBeforeReap`, `RelayDrains` |
| `sched` | a task and a legacy series, two requests of the agent, a session that breaks, a fault | `TypeOK`, `FiresAccounted`, `SilencedSoon`, `OnlyResumeRevives`, `NoFireLost`, `ArmedFires` |
| `checkin` | a goal, a condition with two definitions, three requests, a fault | `TypeOK`, `QuietWhenOver`, `OneWakePerLatch`, `TerminalLostToPauseOnly`, `GoalChecksIn`, `EdgeSeen` |
| `approve` | three requests, a command line call and a tap at once, two relay tasks, a fault | `TypeOK`, `SettledHonest`, `LapseIsFinal`, `GrantSpentOnce` |
| `kept` | a task, two requests | violation of `RecurrenceKept`, see Findings |
| `others` | a task and a series, a session that breaks | violation of `OthersFire`, see Findings |

Bounds, and why they are enough. The loops of a service are two, so `pair` is the real number. Rows
are independent but for the order a pass visits them in and the rows a card or a replay adds, hence
one row and room for one more. Two parts make a first and a last one; two attempts make an attempt
that may be retried and one that may not. One crash and one fault reach every "between two
writes"; a second of each only repeats the situation with bounds in the properties that already
count them. In `Inbound` the messages meet only in a batch and in steering, which two messages cover.
The quarantine threshold is 2 instead of 3: one death that is survived and one that is not. The
backoff is measured in sweep periods; 5 s and 15 s may or may not outlast the time to the next pass,
60 s and 300 s do.

In `relay` two calls make one that is served and one that waits behind it. It has one loop, because
with both `OnceWhileWaiting` and `ReadBeforeReap` do not hold (see "Also seen"). In `sched` the task and the series are in
different sessions, so one can break and the other not; two requests make a task and change it. In
`checkin` two definitions make a condition that is registered again with another meaning under its
old latch. In `approve` two rows make a request and one raised anew after it lapsed; two relay tasks
compete for one grant.

Deadlock is checked in every run but `approve`: the loops and sweeps of the others never stop, while
there the agent and the operators may have nothing more to ask.

Symmetry: `pair` permutes the two loops, which differ only in the fairness that this run does not use;
`approve` permutes the relay tasks, which are equal. Neither run checks liveness.

### Fairness

`Delivery`: every step of a pass that has begun (the runtime polls every ready task; a panicked loop
is respawned by the supervisor and its pass is over), the tick of the sweep loop (`tokio::time::sleep`
in an endless loop over every active session), and the passing of time. Nothing is asked of the
active loop, the runner, the router or the operator, and nothing of what an adapter answers.

`Inbound`: the steps of a live runner, the sweep, the manager's tick, a spawn, a restart, boot, and the
passing of time. A turn ends because provider calls and tools have timeouts. Arrivals, replies,
tools, interjections, deaths, crashes and refusals may happen or not.

`McpRelay`: the passes and the tasks of the host, the polls of a live runner, and time (strongly, since
work in hand may stop the clock for a moment). The preview broker answers, an external server need not:
the host's deadline ends its call. Calls and faults may happen or not.

`Schedule`, `Checkins`: the sweep, the delivery loop applying a row it has read, and time. Nothing is
asked of the agent or of the conditions of the world. `EdgeSeen` speaks only of a condition that stays
true until a pass has sampled it.

`Approvals` has no fairness: it states safety only.

## Proofs

Every invariant and every action property that a passing run checks is proved, and so is the refinement of
`Outbox`. The theorems hold for every value of the constants that satisfies the assumption of the
module: any number of loops, rows, parts, messages, calls, tasks, goals, operators, crashes and
faults. The assumptions ask for little more than finite sets and natural numbers. The exceptions:
`HostDeadline < RunnerDeadline` in `McpRelay` (90 s and 120 s in the code), ages in `Inbound` that have
two thresholds, and, in `Approvals`, that the value of the free mutex is not the name of a relay task.

Eight theorems have a hypothesis besides, as part of their statement. Without it TLC finds a
counterexample to the property, `TimeoutJustified` excepted: for two loops no counterexample is known, but
the proof rests on there being one task at a time.

| hypothesis | theorems | why |
|---|---|---|
| `~SlowPass`: no pass outlasts the claim ceiling of 30 minutes | `OneSenderPerRow`, `ResendsAreBounded` | an older claim keeps nobody out, by design; with three parts a slow pass sets `chunks_sent` back and a part goes out three times |
| `SingleLoop` | `ExhaustionReportedOnce`, `BudgetSurvivesRestarts` | the claim is released before the outcome is settled |
| `~Tools`: turns run no tool | `CrashesAreJustified` | with a tool the sweep may restart a container while the manager does, and both count one death |
| `OneLoop` | the three safety theorems of `McpRelay` | the guard of the drain is checked and filled in two steps |

The form is the same everywhere: an invariant `Inv` with `Init => Inv`, `Inv /\ [Next]_vars => Inv'` (one
case per action) and `Inv => P`, combined by `PTL`. Where most actions leave an invariant alone, a predicate
on steps says what they leave alone (`ClaimsKept`, `BudgetKept`, `Steady`, ...), one lemma shows that such a
step keeps the invariant, and only the other actions are taken one by one.

### Delivery

| theorem | statement | inductive invariant |
|---|---|---|
| `TypeCorrect` | `[]TypeOK` | `TypeOK /\ InHand` |
| `RecordsAreFinal` | `RecordIsFinal` | the same |
| `AckedRowsWereSent` | `[]AckedImpliesSent` | `AckInv` |
| `DeliveryImplementsOutbox` | `ImplementsOutbox` | `AckInv` |
| `OneSenderPerRow` | `[]OneSender` | `ClaimInv` |
| `LettersAreNotLost` | `[]NoLostLetter` | `LetterInv` |
| `NoRowGivenUpEarly` | `[]NeverGivesUpEarly` | `BudgetInv` |
| `ExhaustionReportedOnce` | `[]ExhaustedOnce` | `OnceInv` |
| `BudgetSurvivesRestarts` | `[]AttemptBudget` | `SpendInv`, with `BudgetInv` and `OnceInv` |
| `ResendsAreBounded` | `[]ResendBound` | `ResendInv`, with `ClaimInv` and `BudgetInv` |

- `TypeOK` is not inductive: `SendPart` counts part `idx + 1`, which exists only when the row in hand
  was written and the index lies within its parts. `InHand` says so.
- `AckInv`: a pass may start at a later part, because `chunks_sent` remembers how far an earlier
  attempt came, and two slow passes may work on one row. An entry of the retry map never claims more
  parts than the platform took, and a pass that sends or records has all earlier parts taken
  (`Progress`); a row that does not exist has no record (`Unwritten`).
- Refinement: by `StepKinds` every step is silent, inserts a row, records a verdict or sends a part, and each
  kind is a step or a stutter of `Outbox`. That the row is whole when `RecordOk` acknowledges it is `Progress` again.
- `ClaimInv`: the claim of a row in hand stands, is open, and no running pass began so much later that
  it takes the claim for an old one.
- `LetterInv`: the terminal record of a replayable row comes after its letter, a letter goes only after
  its copy was inserted, and rows that do not exist have neither.
- `BudgetInv`: the count in the retry map plus the failures not yet counted by the passes
  that hold them, and also the stored count, never exceed the sends that failed (`Charged`, `Stored`). So no
  interleaving counts a send twice.
- `SpendInv` is the other direction: of an open row every failed send is counted, in the map and
  in the database, but for the one in hand and one for each crash or fault (`Ledger`); a pass
  sends only below the budget.
- `OnceInv`: what the loop has listed or in hand has no record, a row without a record has no card, and
  the card is written after the record, by the one step that finds none.
- `ResendInv`: a part of an open row was taken at most `crashes + faults + 1` times, and one fewer unless
  the retry map, or the pass about to record the row, knows of it. Of a closed row, the copies and the
  passes that may still send one from an older snapshot number at most
  `Cardinality(Passes) + crashes + faults`.

### Inbound

| theorem | statement | inductive invariant |
|---|---|---|
| `InboundTypeCorrect` | `[]TypeOK` | `TypeOK /\ Working`: a runner past its poll has a batch |
| `FailuresAreTold` | `[]FailedIsTold` | the property itself, over the types |
| `ApologisesOnce` | `[]SweepApologyOnce` | `Apologised` |
| `WorkIsNotRepeated` | `[]NoRework` | `Fresh /\ Handed` |
| `CrashesAreJustified` | `[]CrashCountJustified` | `Sole /\ Reserve` |

`Apologised` ties the number of apologies to the stamp, to the sweep about to write it and to the crashes.
`Fresh` says that messages are numbered in the order of arrival, that the rows of a batch lie at or below
the ceiling above which an interjection is sought, and that what a turn answered is neither absent nor
pending; `Handed` that claims, and what the sweep and a restart take from them, are rows that exist. `Reserve` says that a claim which may still be counted as a
crash has a death in reserve, or its runner is alive, or the manager has just counted it.

### McpRelay

`RelayTypeCorrect` (`TypeOK`, any number of loops), and with one loop `ResponsesAreReadFirst`
(`ReadBeforeReap`), `CallsRunOnce` (`OnceWhileWaiting`) and `TimeoutsAreJustified` (`TimeoutJustified`). The
invariant is `RelayInv`: a call not yet asked has no trace anywhere (`Unasked`), a waiting one
has its request (`Asked`), the guard is set exactly while one task lives and is still empty when a pass
fills it (`Alone`), and nobody waits for what the reaper takes for an orphan (`ReapSafe`). To it come,
while there was no fault, `Clean` (a waiting call ran at most once, is then answered or about to be, and once
answered is in no batch), `Pace` (an external call that shares its task with no other ages only while
the task executes it, and not beyond the host's deadline) and `Late` (a call that expired was not of that kind).

### Schedule, Checkins, Approvals

Each has one inductive invariant `IInv` from which all its theorems follow.

| theorem | property |
|---|---|
| `ScheduleTypeCorrect`, `FiresArePaidFor`, `SilenceIsKept` | `TypeOK`, `FiresAccounted`, `SilencedSoon` |
| `ResumeAloneRevives`, `OccurrencesAreKept` | the action properties `OnlyResumeRevives`, `NoFireLost` |
| `CheckinsTypeCorrect`, `OverGoalsFallSilent`, `ConditionsWakeOnce` | `TypeOK`, `QuietWhenOver`, `OneWakePerLatch` |
| `TerminalKept` | the action property `TerminalLostToPauseOnly` |
| `ApprovalsTypeCorrect`, `LapsesAreFinal` | `TypeOK`, `LapseIsFinal` |
| `GrantsSpentOnce`, `RowsHonest` | `GrantSpentOnce`, `SettledHonest` |

- `Schedule`: a fire beyond its arming has a fault to pay for it, one that is about to happen
  included (`Paid`); messages and counts differ by the faults and the step in hand (`Counted`); a
  task still listed after it was silenced was not woken since (`Quiet`); an arming while the pass has
  the task in hand is known as a race (`InHand`).
- `Checkins`: what the pass and the row in hand may look like (`OpOK`, `PassOK`); a goal woken after
  it was stopped, or after its budget was spent, was so once, and no pass can wake it again (`GoalInv`); a
  condition that holds and is not latched has an edge to spend (`EdgeInv`).
- `Approvals`: what each call between two statements knows of its row (`InHand`); a row
  lapses once, and a call that came late is about a row no longer pending (`Lapses`); every tunnel,
  every relay task on its way to one and a grant that can still be spent has an approval of its own
  (`Backed`), even when a late approval puts a spent grant back; the broker tracks one tunnel (`OneTunnel`); and for each undisturbed row how
  far its settling is, against its log and its effects (`Honest`).

### Only model-checked

- Liveness: `EveryRowSettles`, `BacklogClears`, `EveryMessageHeard`, `RelayDrains`, `ArmedFires`,
  `GoalChecksIn`, `EdgeSeen`. TLAPS 1.4.5 reasons neither about `ENABLED` nor, therefore, about fairness.
- The two violations under Findings, which are counterexamples.
- The safety properties that have a hypothesis above say nothing beyond it; what happens there is described
  under "Also seen while modelling".

## Findings

Each is a run whose property states what a document or a comment of the repository says, and which TLC
refutes.

- `kept` (`RecurrenceKept`): an update that names only a new time also sends `recurrence: null`, because
  `Option<Option<String>>` is serialised to `null` both for "leave alone" and for "clear". The receiver
  takes it for "clear", and a recurring task becomes a one-shot. `skills/schedule-task/SKILL.md` says
  that the difference is preserved.
- `others` (`OthersFire`): `scheduling::check` leaves its loop at the first session whose database cannot
  be opened, and the task stays first in the list. Tasks of other sessions behind it never fire,
  although the sweep promises that an error in one session does not stop the others.

### Also seen while modelling

All of these are behaviours of the models; each limits what the properties above can say.

Delivery. The claim is released before the outcome is settled, so with two loops an exhausted row can be
reported twice within one host lifetime (`ExhaustedOnce` is stated for one loop). For the same reason
two loops may store the counts of one row in the wrong order: the map in memory has the larger one,
the database the smaller, and a restart begins part of the budget again. The excess is then not
bounded by the number of crashes alone, so `AttemptBudget` is stated for one loop too. (With two attempts the two
counts are too close together for that; it takes three.) A row that
exhausts its retries gets a card but no dead letter, although `outbound_dropped_messages.rs` says one is
written. A failing agent row is recorded failed at once, although `process_row` announces a retry.

Inbound. The sweep deletes a stale claim under a lock and then resets the message in the other database
whatever it has become, so a turn that completes in between is done again (`NoRework` allows this one
way). Nothing refreshes a claim during a turn, so a crash after the sweep has deleted the claim of a
turn over 60 s counts for no message. `wake::check` marks a stopped session running during a
crash backoff, which the manager takes for another crash: with the production curve a message may be
apologised for and never served, which is why the liveness property speaks of being heard. A `/stop`
between two turns drives a turn. A stream that breaks off inside a tool leaves the tool row set, and
half an hour later the sweep restarts a healthy container. With the default thresholds `IdleStop`
cannot happen. Two concurrent restarts may count one crash twice, so `CrashCountJustified` is checked
without tools.

McpRelay. With both loops `drain_mcp_calls` checks `mcp_drain_inflight` and fills it in two steps, so two
tasks may run one call; and it reaps by live ids read before the responses, so a loop with an old
reading may reap a fresh response. The comment that a session "only ever has one external call
outstanding" does not hold, since a batch of tools runs concurrently; a call may time out behind
another, and one that has timed out may still be executed.

Schedule. A time in the past or a recurrence that does not parse is stored as an active task that never
fires; a schedule with a recurrence and no time is refused.

Checkins. The sweep's pause of an overspent goal is written over whatever status the goal has by then,
so it can reopen a completed one, although `goals.rs` says that nothing leaves a terminal state;
`TerminalLostToPauseOnly` shows that nothing else does. The latch of a condition is set before the
wake, so a wake that fails loses the edge. An error of one condition ends the pass over the others,
although a comment says it does not.

Approvals. `resolve` reads the row and later updates it without a condition on its status. Two operators,
or an operator and the broker, may both settle it; the later update wins, may leave two decisions
in the log, and may revive a grant already spent. The comment in `handlers/approvals.rs` says that
a race resolves once.

## Not modelled

- Agent to agent dispatch and the child reaper, provider failover, the router's wiring, gates and
  debounce, questions, the supervisor's curve: protocols of the system that no module covers yet.
- What a turn computes: prompts, the history and its compaction, tools, skills. The models see a turn as
  replies, tool starts and an end.
- Channel adapters, the command line and its socket, setup, browser, OneCLI, metrics: I/O, formats and
  counters, by far the larger part of the repository. They keep no state that two tasks change, or only
  through the operations modelled above (replay, approvals).
- `next_odd_seq` with two writers, and the order in which a platform sees rows that were deferred.
- Limits that need many rows or a long history: `get_pending` serves the newest ten, so the oldest wait
  while more are pending; an error card with a channel of its own may exhaust and beget another;
  `/compact` runs without a heartbeat, so a slow summary is taken for a dead runner; a goal row that is
  applied again after a crash is refused with the progress it reports; a tap whose application fails
  gets no answer.

## Plan

In this order.

1. Agent to agent dispatch, its one-shot reply and the child reaper; provider failover.
2. The router's debounce and session creation, questions, the supervisor's curve composed with the spawn
   gate of `Inbound`.
3. An abstract `Inbox` (a message is answered at least once or told that it failed) for `Inbound`, and an
   at-most-once call for `McpRelay`, with the refinement of each proved step by step as for `Outbox`.
4. What two loops do guarantee of an attempt budget and of a relayed call: `AttemptBudget` and
   `OnceWhileWaiting` with terms for the races described above, in place of the restriction to one loop.
