------------------------------ MODULE Schedule ------------------------------
(***************************************************************************)
(* Scheduled tasks.  The agent creates and changes tasks by system rows,   *)
(* which the delivery loop applies to the central tasks table; every sweep *)
(* pass writes one message into the session of each due task and re-arms   *)
(* or completes it, statement by statement, and forwards a recurring       *)
(* series of the older engine into the table.  The two loops share no      *)
(* lock, and the messages live in another database than the tasks.         *)
(*                                                                         *)
(* Times are abstract: a task is not armed, armed for later, or due.       *)
(* Tasks become due in the order of next_fire, which is kept as a relation.*)
(***************************************************************************)
EXTENDS Integers, FiniteSets

CONSTANTS
    MaxTasks,     \* bound: tasks the agent creates, redone creations included
    MaxOps,       \* bound: schedule rows the agent emits
    Recurrences,  \* what a row may carry: "null", "cron" or "bad" (no cron)
    Sessions,     \* sessions with a database of their own
    SessionOf,    \* the session of each task
    MaxBroken,    \* bound: sessions whose inbound.db can no longer be opened
    MaxFaults     \* bound: database errors and crashes of the host

\* The task that the legacy series is forwarded to has an id of its own.
Series == 0
Ids == 0..MaxTasks

ASSUME ScheduleAssumption ==
    /\ {MaxTasks, MaxOps, MaxBroken, MaxFaults} \subseteq Nat
    /\ Recurrences \subseteq {"null", "cron", "bad"}
    /\ SessionOf \in [Ids -> Sessions]

VARIABLES
    status,   \* tasks.status, or "absent"
    recur,    \* tasks.recurrence
    next,     \* tasks.next_fire: "none", "later" or "due"
    older,    \* pairs of due tasks, the earlier next_fire first
    pass,     \* the sweep's locals
    legacy,   \* the series still has a recurrence in messages_in
    op,       \* the schedule row in hand of the delivery loop
    ops,      \* rows emitted so far
    broken,   \* sessions whose inbound.db cannot be opened
    faults,
    extra,    \* observation: messages beyond one for every arming
    fresh,    \* observation: armed and not fired since, "raced" when an
              \* update came while the pass had the task in hand
    uncounted,\* observation: messages minus fire_count
    late,     \* observation: messages since the task was paused or cancelled
    want      \* observation: the recurrence the agent asked for

vars == <<status, recur, next, older, pass, legacy, op, ops, broken, faults,
          extra, fresh, uncounted, late, want>>
table == <<status, recur, next, older>>
obs == <<extra, fresh, uncounted, late, want>>

Statuses == {"absent", "active", "paused", "cancelled", "completed"}
Whens == {"absent", "future", "past"}
Live(t) == status[t] # "absent"
Due == {t \in Ids : next[t] = "due"}

\* A schedule row: what it asks for, and how far the delivery loop is with it.
Row(kind, t, when, rec) ==
    [kind |-> kind, id |-> t, when |-> when, recur |-> rec, pc |-> "new"]
NoOp == Row("none", Series, "absent", "null")

\* Where the pass stands, the task it has in hand, the tasks it still has to
\* handle (that one included), and their order and recurrence when listed.
Pass(pc, t, todo, before, rec) ==
    [pc |-> pc, at |-> t, todo |-> todo, older |-> before, recur |-> rec]
Resting(pc) == Pass(pc, Series, {}, {}, [t \in Ids |-> "null"])
IdlePass == Resting("idle")
Working == {"insert", "mark", "rearm", "clear"}

\* The row in hand names a task that exists: no operation deletes one.
TypeRow ==
    /\ op \in [kind : {"none", "create", "cancel", "pause", "resume", "update"},
               id : Ids, when : Whens, recur : {"null", "cron", "bad"},
               pc : {"new", "next", "applied"}]
    /\ op.kind \in {"cancel", "pause", "resume", "update"} => Live(op.id)

\* So does what the pass has in hand.
TypePass ==
    /\ pass \in [pc : Working \cup {"idle", "series", "forward", "forget"},
                 at : Ids, todo : SUBSET Ids, older : SUBSET (Ids \X Ids),
                 recur : [Ids -> {"null", "cron", "bad"}]]
    /\ pass.todo \subseteq {t \in Ids : Live(t)}
    /\ IF pass.pc \in Working THEN pass.at \in pass.todo ELSE pass.todo = {}

\* older is a strict order of the due tasks, any two of them.
TypeOrder ==
    /\ older \subseteq Due \X Due
    /\ \A t, u \in Due : <<t, u>> \in older => <<u, t>> \notin older
    /\ \A t, u \in Due : t # u => <<t, u>> \in older \/ <<u, t>> \in older
    /\ \A t, u, v \in Due :
          <<t, u>> \in older /\ <<u, v>> \in older => <<t, v>> \in older

TypeTable ==
    /\ status \in [Ids -> Statuses]
    /\ recur \in [Ids -> {"null", "cron", "bad"}]
    /\ next \in [Ids -> {"none", "later", "due"}]
    /\ \A t \in Ids : ~ Live(t) => next[t] = "none"

TypeRest ==
    /\ legacy \in BOOLEAN
    /\ ops \in 0..MaxOps /\ faults \in 0..MaxFaults
    /\ broken \subseteq Sessions

TypeSeen ==
    /\ extra \in [Ids -> Nat]
    /\ fresh \in [Ids -> {"no", "yes", "raced"}]
    /\ uncounted \in [Ids -> Int]
    /\ late \in [Ids -> Nat]
    /\ want \in [Ids -> {"null", "cron", "bad"}]

TypeOK == TypeTable /\ TypeOrder /\ TypePass /\ TypeRow /\ TypeRest /\ TypeSeen

Init ==
    /\ status = [t \in Ids |-> "absent"]
    /\ recur = [t \in Ids |-> "null"]
    /\ next = [t \in Ids |-> "none"]
    /\ older = {}
    /\ pass = IdlePass
    /\ legacy = TRUE
    /\ op = NoOp /\ ops = 0
    /\ broken = {} /\ faults = 0
    /\ extra = [t \in Ids |-> 0]
    /\ fresh = [t \in Ids |-> "no"]
    /\ uncounted = [t \in Ids |-> 0]
    /\ late = [t \in Ids |-> 0]
    /\ want = [t \in Ids |-> "null"]

Fault == faults < MaxFaults /\ faults' = faults + 1

-----------------------------------------------------------------------------
(* The tasks table.                                                        *)

\* compute_next_fire: a recurrence decides alone; else an instant that is
\* still ahead.
compute_next_fire(when, rec) ==
    IF rec = "null" THEN (IF when = "future" THEN "later" ELSE "none")
    ELSE IF rec = "cron" THEN "later" ELSE "none"

\* The order once t is no longer due.
Without(t) == {p \in older : p[1] # t /\ p[2] # t}

\* set_next_fire, whatever the status.
set_next_fire(t, value) ==
    /\ next' = [next EXCEPT ![t] = value]
    /\ older' = Without(t)
    /\ fresh' = [fresh EXCEPT ![t] = IF value = "later" THEN "yes" ELSE "no"]

\* Mutant of list_due: the newest due task, one per pass.
NewestDueOnly ==
    {t \in Due : /\ status[t] = "active"
                 /\ \A u \in Due : status[u] = "active" => <<t, u>> \notin older}

\* Mutant of list_due: without the predicate on status.
DueInAnyStatus == Due

\* list_due: WHERE status = 'active' AND next_fire <= now
list_due == {t \in Due : status[t] = "active"}

\* Time passes.
Elapse(t) ==
    /\ next[t] = "later"
    /\ next' = [next EXCEPT ![t] = "due"]
    /\ older' = older \cup (Due \X {t})
    /\ UNCHANGED <<status, recur, pass, legacy, op, ops, broken, faults, obs>>

-----------------------------------------------------------------------------
(* The delivery loop: ScheduleHandler::handle, then the delivered row.  A  *)
(* crash in between applies the row a second time.                         *)

\* The agent calls a tool; the runner writes the row.  An update carries the
\* recurrence always: one left alone and one cleared are both null.
Emit ==
    /\ op = NoOp /\ ops < MaxOps
    /\ ops' = ops + 1
    /\ \/ \E when \in Whens, rec \in Recurrences :
             /\ when = "absent" => rec # "null"
             /\ op' = Row("create", Series, when, rec)
             /\ UNCHANGED want
       \/ \E kind \in {"cancel", "pause", "resume"}, t \in Ids :
             /\ Live(t)
             /\ op' = Row(kind, t, "absent", "null")
             /\ UNCHANGED want
       \/ \E t \in Ids, when \in Whens, rec \in Recurrences, keep \in BOOLEAN :
             /\ Live(t)
             /\ keep => rec = "null"
             /\ op' = Row("update", t, when, rec)
             /\ want' = [want EXCEPT ![t] = IF keep THEN @ ELSE rec]
    /\ UNCHANGED <<table, pass, legacy, broken, faults,
                   extra, fresh, uncounted, late>>

Applied == op' = [op EXCEPT !.pc = "applied"]

\* op_create: a row without `when` is refused, with a recurrence or not.
op_create ==
    /\ op.kind = "create" /\ op.pc = "new"
    /\ IF op.when = "absent"
       THEN op' = NoOp /\ UNCHANGED <<table, fresh, want>>
       ELSE \E t \in Ids \ {Series} :
              /\ ~ Live(t) /\ \A u \in 1..(t - 1) : Live(u)
              /\ status' = [status EXCEPT ![t] = "active"]
              /\ recur' = [recur EXCEPT ![t] = op.recur]
              /\ set_next_fire(t, compute_next_fire(op.when, op.recur))
              /\ want' = [want EXCEPT ![t] = op.recur]
              /\ Applied
    /\ UNCHANGED <<pass, legacy, ops, broken, faults, extra, uncounted, late>>

StatusOf(kind) ==
    CASE kind = "cancel" -> "cancelled" [] kind = "pause" -> "paused"
      [] kind = "resume" -> "active"

\* Mutant of op_set_status: cancel_task removes the row.
CancelDeletes ==
    /\ op.kind \in {"cancel", "pause", "resume"} /\ op.pc = "new"
    /\ status' = [status EXCEPT ![op.id] =
                    IF op.kind = "cancel" THEN "absent" ELSE StatusOf(op.kind)]
    /\ late' = [late EXCEPT ![op.id] = 0]
    /\ Applied
    /\ UNCHANGED <<recur, next, older, pass, legacy, ops, broken, faults,
                   extra, fresh, uncounted, want>>

\* op_set_status: unconditional; the schedule itself stays.
op_set_status ==
    /\ op.kind \in {"cancel", "pause", "resume"} /\ op.pc = "new"
    /\ status' = [status EXCEPT ![op.id] = StatusOf(op.kind)]
    /\ late' = [late EXCEPT ![op.id] = 0]
    /\ Applied
    /\ UNCHANGED <<recur, next, older, pass, legacy, ops, broken, faults,
                   extra, fresh, uncounted, want>>

\* op_update: one statement for the recurrence ...
op_update ==
    /\ op.kind = "update" /\ op.pc = "new"
    /\ recur' = [recur EXCEPT ![op.id] = op.recur]
    /\ op' = [op EXCEPT !.pc = IF op.when = "absent" THEN "applied" ELSE "next"]
    /\ UNCHANGED <<status, next, older, pass, legacy, ops, broken, faults, obs>>

\* ... and one for next_fire, when the row has a time.
update_next_fire ==
    /\ op.kind = "update" /\ op.pc = "next"
    /\ LET value == compute_next_fire(op.when, op.recur)
           raced == op.id \in pass.todo
       IN  /\ next' = [next EXCEPT ![op.id] = value]
           /\ older' = Without(op.id)
           /\ fresh' = [fresh EXCEPT ![op.id] =
                          IF raced THEN "raced" ELSE IF value = "later" THEN "yes" ELSE "no"]
    /\ Applied
    /\ UNCHANGED <<status, recur, pass, legacy, ops, broken, faults,
                   extra, uncounted, late, want>>

\* delivered::insert
Delivered ==
    /\ op.kind # "none" /\ op.pc = "applied"
    /\ op' = NoOp
    /\ UNCHANGED <<table, pass, legacy, ops, broken, faults, obs>>

-----------------------------------------------------------------------------
(* The sweep: scheduling::check, then recurrence::check of the session.    *)

At(pc) == pass.pc = pc
Goto(pc) == pass' = [pass EXCEPT !.pc = pc]

\* The first of the tasks in todo, ORDER BY next_fire, or, when there is
\* none left, the per-session checks.
TakeUp(todo, before, rec) ==
    IF todo = {} THEN pass' = Resting("series")
    ELSE \E t \in todo :
           /\ \A u \in todo \ {t} : <<t, u>> \in before
           /\ pass' = Pass("insert", t, todo, before \cap (todo \X todo), rec)

NextTask == TakeUp(pass.todo \ {pass.at}, pass.older, pass.recur)

list ==
    /\ At("idle")
    /\ TakeUp(list_due, older, recur)
    /\ UNCHANGED <<table, legacy, op, ops, broken, faults, obs>>

Message(t) ==
    /\ extra' = [extra EXCEPT ![t] = IF fresh[t] = "no" THEN @ + 1 ELSE @]
    /\ fresh' = [fresh EXCEPT ![t] = "no"]
    /\ uncounted' = [uncounted EXCEPT ![t] = @ + 1]
    /\ late' = [late EXCEPT ![t] = IF status[t] \in {"paused", "cancelled"}
                                   THEN @ + 1 ELSE 0]

\* inbound_pool and insert_in
insert_in ==
    /\ At("insert") /\ SessionOf[pass.at] \notin broken
    /\ Message(pass.at)
    /\ Goto("mark")
    /\ UNCHANGED <<table, legacy, op, ops, broken, faults, want>>

mark_fired ==
    /\ At("mark")
    /\ uncounted' = [uncounted EXCEPT ![pass.at] = @ - 1]
    /\ Goto("rearm")
    /\ UNCHANGED <<table, legacy, op, ops, broken, faults, extra, fresh, late, want>>

\* set_next_fire of a recurring task, or the first half of completing.  The
\* decision rests on the row as it was listed.
rearm_or_complete ==
    /\ At("rearm")
    /\ IF pass.recur[pass.at] = "cron"
       THEN set_next_fire(pass.at, "later") /\ NextTask /\ UNCHANGED status
       ELSE /\ status' = [status EXCEPT ![pass.at] = "completed"]
            /\ Goto("clear")
            /\ UNCHANGED <<next, older, fresh>>
    /\ UNCHANGED <<recur, legacy, op, ops, broken, faults,
                   extra, uncounted, late, want>>

\* Mutant of clear_next_fire: completing leaves next_fire alone.
CompleteKeepsNext ==
    /\ At("clear")
    /\ NextTask
    /\ UNCHANGED <<table, legacy, op, ops, broken, faults, obs>>

clear_next_fire ==
    /\ At("clear")
    /\ set_next_fire(pass.at, "none")
    /\ NextTask
    /\ UNCHANGED <<status, recur, legacy, op, ops, broken, faults,
                   extra, uncounted, late, want>>

\* An error ends scheduling::check, whatever tasks are left, and the pass
\* goes on; a session that cannot be opened is one.
Abort == pass' = Resting("series")

\* Mutant of check_fails: an error of insert_in is logged and the task re-armed.
FailsOnward ==
    /\ pass.pc \in Working
    /\ \/ At("insert") /\ SessionOf[pass.at] \in broken /\ UNCHANGED faults
       \/ Fault
    /\ IF At("insert") THEN Goto("rearm") ELSE Abort
    /\ UNCHANGED <<table, legacy, op, ops, broken, obs>>

check_fails ==
    /\ pass.pc \in Working
    /\ \/ At("insert") /\ SessionOf[pass.at] \in broken /\ UNCHANGED faults
       \/ Fault
    /\ Abort
    /\ UNCHANGED <<table, legacy, op, ops, broken, obs>>

EndPass == pass' = IdlePass

\* newest_per_series
newest_per_series ==
    /\ At("series")
    /\ IF legacy /\ SessionOf[Series] \notin broken
       THEN Goto("forward") ELSE EndPass
    /\ UNCHANGED <<table, legacy, op, ops, broken, faults, obs>>

\* Mutant of forward_series: INSERT OR REPLACE without the look-up.
ForwardReplaces ==
    /\ At("forward")
    /\ status' = [status EXCEPT ![Series] = "active"]
    /\ recur' = [recur EXCEPT ![Series] = "cron"]
    /\ want' = [want EXCEPT ![Series] = "cron"]
    /\ set_next_fire(Series, "later")
    /\ Goto("forget")
    /\ UNCHANGED <<legacy, op, ops, broken, faults, extra, uncounted, late>>

\* tasks::get by the deterministic id; insert only when there is no row.
forward_series ==
    /\ At("forward")
    /\ IF Live(Series)
       THEN UNCHANGED <<table, fresh, want>>
       ELSE /\ status' = [status EXCEPT ![Series] = "active"]
            /\ recur' = [recur EXCEPT ![Series] = "cron"]
            /\ want' = [want EXCEPT ![Series] = "cron"]
            /\ set_next_fire(Series, "later")
    /\ Goto("forget")
    /\ UNCHANGED <<legacy, op, ops, broken, faults, extra, uncounted, late>>

\* clear_series_recurrence
clear_series_recurrence ==
    /\ At("forget")
    /\ legacy' = FALSE
    /\ EndPass
    /\ UNCHANGED <<table, op, ops, broken, faults, obs>>

series_fails ==
    /\ pass.pc \in {"forward", "forget"}
    /\ Fault
    /\ EndPass
    /\ UNCHANGED <<table, legacy, op, ops, broken, obs>>

-----------------------------------------------------------------------------
(* Faults.                                                                 *)

HostCrashes ==
    /\ Fault
    /\ pass' = IdlePass
    /\ op' = [op EXCEPT !.pc = "new"]
    /\ UNCHANGED <<table, legacy, ops, broken, obs>>

SessionBreaks(s) ==
    /\ Cardinality(broken) < MaxBroken
    /\ broken' = broken \cup {s}
    /\ UNCHANGED <<table, pass, legacy, op, ops, faults, obs>>

-----------------------------------------------------------------------------
Apply == op_create \/ op_set_status \/ op_update \/ update_next_fire \/ Delivered

Sweep ==
    \/ list \/ insert_in \/ mark_fired \/ rearm_or_complete \/ clear_next_fire
    \/ check_fails \/ newest_per_series \/ forward_series
    \/ clear_series_recurrence \/ series_fails

Next ==
    \/ Emit \/ Apply \/ Sweep \/ HostCrashes
    \/ \E t \in Ids : Elapse(t)
    \/ \E s \in Sessions : SessionBreaks(s)

Spec == Init /\ [][Next]_vars

\* The two loops run and time passes; the agent need not call anything.
FairSpec ==
    Spec /\ WF_vars(Sweep) /\ WF_vars(Apply) /\ \A t \in Ids : WF_vars(Elapse(t))

-----------------------------------------------------------------------------
(* Properties.                                                             *)

\* Every message of a task is paid for: by an arming of its own, or by a
\* crash or database error between insert_in and the re-arming.  In
\* particular a completed task that is resumed does not fire again, because
\* completing clears next_fire.
OneFirePerArming == \A t \in Ids : extra[t] <= faults

\* fire_count never exceeds the messages written, and lags behind them by
\* the message in hand and those whose mark_fired a fault prevented.
FireCountHonest ==
    \A t \in Ids :
        /\ 0 <= uncounted[t]
        /\ uncounted[t] <= faults + (IF At("mark") /\ pass.at = t THEN 1 ELSE 0)

\* The pass accounts for its fires: one per arming, and as many as fire_count.
FiresAccounted == OneFirePerArming /\ FireCountHonest

\* After a cancel or a pause has been applied the pass in hand may still
\* write one message; no later pass does.
SilencedSoon == \A t \in Ids : late[t] <= 1

\* Only resume_task makes a task active again; neither a re-armed fire nor
\* the forwarding of its series, repeated after a crash, does.
OnlyResumeRevives ==
    [][\A t \in Ids :
         status[t] \in {"paused", "cancelled", "completed"} /\ status'[t] = "active"
             => op.kind = "resume" /\ op.id = t]_vars

\* The pass takes no occurrence away that has not fired: a fault repeats a
\* fire and never loses one.  Only an update that arrives while the pass has
\* the task in hand is overwritten.
NoFireLost ==
    [][\A t \in Ids :
         next[t] # "none" /\ fresh[t] = "yes" /\ fresh'[t] # "yes"
             => At("insert") \/ op.kind = "update"]_vars

Fires(t) == At("mark") /\ pass.at = t

\* An armed, active task fires, over aborted passes, crashes and rows that
\* are applied twice, as long as every session can be opened.
ArmedFires ==
    \A t \in Ids :
        (status[t] = "active" /\ next[t] # "none")
            ~> (Fires(t) \/ status[t] # "active" \/ next[t] = "none" \/ broken # {})

\* Errors of one session leave the others alone.
OthersFire ==
    \A t \in Ids :
        (status[t] = "active" /\ next[t] # "none")
            ~> (Fires(t) \/ status[t] # "active" \/ next[t] = "none"
                \/ SessionOf[t] \in broken)

\* A field the agent did not name stays: a task it asked to recur is not
\* completed for want of a recurrence.
RecurrenceKept ==
    [][\A t \in Ids :
         status[t] = "active" /\ status'[t] = "completed" /\ want[t] = "cron"
             => recur[t] = "cron" \/ op.kind = "update"]_vars

=============================================================================
