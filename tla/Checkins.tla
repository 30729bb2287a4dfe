------------------------------ MODULE Checkins ------------------------------
(***************************************************************************)
(* Goals and conditions.  Each sweep pass wakes the sessions of the goals  *)
(* whose check-in is due, or pauses a goal whose budget is spent, and then *)
(* reloads the conditions into memory and wakes those that have just come  *)
(* true.  The delivery loop changes both tables meanwhile, statement by    *)
(* statement, at the agent's request.                                      *)
(***************************************************************************)
EXTENDS Integers, FiniteSets

CONSTANTS
    Goals,
    Conditions,
    MaxDefs,     \* bound: different definitions of a condition
    MaxBudget,   \* bound: token budgets and reported tokens
    MaxOps,      \* bound: rows the agent emits
    MaxFaults    \* bound: database errors and crashes of the host

ASSUME CheckinAssumption ==
    /\ IsFiniteSet(Goals) /\ IsFiniteSet(Conditions)
    /\ {MaxDefs, MaxBudget, MaxOps, MaxFaults} \subseteq Nat

Unbounded == -1       \* no token_budget
Nobody == "nobody"
Terminal == {"completed", "abandoned"}
Statuses == {"active", "paused"} \cup Terminal

VARIABLES
    status,   \* goals.status, or "absent"
    cron,     \* the goal has a checkin_recurrence
    next,     \* goals.next_checkin: "none", "later" or "due"
    budget,   \* goals.token_budget
    used,     \* goals.tokens_consumed
    row,      \* the conditions table: the definition, 0 when not registered
    store,    \* ConditionStore.conditions, in memory
    latch,    \* ConditionStore.last_held, in memory
    holds,    \* what a sample of the session would find
    pass,     \* the sweep's locals
    op,       \* the goal or condition row in hand of the delivery loop
    ops, faults,
    asked,    \* observation: the status the agent gave the goal last
    late,     \* observation: wakes of a goal since it left "active"
    over,     \* observation: wakes of a goal whose budget is spent
    told,     \* observation: the session was woken for what the latch says
    edge,     \* observation: a rising edge, or a reason to see one, unspent
    extra     \* observation: wakes of a condition without one

vars == <<status, cron, next, budget, used, row, store, latch, holds, pass,
          op, ops, faults, asked, late, over, told, edge, extra>>
\* The tokens reported exceed what the goal was given.
Spent(g) == budget[g] # Unbounded /\ used[g] >= budget[g]

goalRows == <<status, cron, next, budget, used>>
goalObs == <<asked, late, over>>
condVars == <<row, store, latch, holds, told, edge, extra>>

NoOp == [kind |-> "none"]
IdlePass == [pc |-> "idle", todo |-> {}, cur |-> Nobody, rearm |-> {}]

TypeOK ==
    /\ status \in [Goals -> {"absent"} \cup Statuses]
    /\ cron \in [Goals -> BOOLEAN]
    /\ next \in [Goals -> {"none", "later", "due"}]
    /\ budget \in [Goals -> {Unbounded} \cup 1..MaxBudget]
    /\ used \in [Goals -> Nat]
    /\ row \in [Conditions -> 0..MaxDefs]
    /\ store \in [Conditions -> 0..MaxDefs]
    /\ latch \in [Conditions -> BOOLEAN]
    /\ \A c \in Conditions : latch[c] => store[c] # 0
    /\ holds \in [Conditions -> BOOLEAN]
    /\ pass.pc \in {"idle", "goals", "pause", "write", "insert", "rearm",
                    "reload", "conditions", "fire", "audit"}
    /\ pass.todo \subseteq Goals \/ pass.todo \subseteq Conditions
    /\ op.kind \in {"none", "create", "update", "register", "remove"}
    /\ ops \in 0..MaxOps /\ faults \in 0..MaxFaults
    /\ told \in [Conditions -> BOOLEAN] /\ edge \in [Conditions -> BOOLEAN]

Init ==
    /\ status = [g \in Goals |-> "absent"]
    /\ cron = [g \in Goals |-> FALSE]
    /\ next = [g \in Goals |-> "none"]
    /\ budget = [g \in Goals |-> Unbounded]
    /\ used = [g \in Goals |-> 0]
    /\ row = [c \in Conditions |-> 0]
    /\ store = [c \in Conditions |-> 0]
    /\ latch = [c \in Conditions |-> FALSE]
    /\ holds = [c \in Conditions |-> FALSE]
    /\ pass = IdlePass
    /\ op = NoOp /\ ops = 0 /\ faults = 0
    /\ asked = [g \in Goals |-> "active"]
    /\ late = [g \in Goals |-> 0]
    /\ over = [g \in Goals |-> 0]
    /\ told = [c \in Conditions |-> FALSE]
    /\ edge = [c \in Conditions |-> FALSE]
    /\ extra = [c \in Conditions |-> 0]

Fault == faults < MaxFaults /\ faults' = faults + 1

-----------------------------------------------------------------------------
(* The delivery loop: apply_goal and apply_condition, then the delivered   *)
(* row.                                                                    *)

Emit ==
    /\ op = NoOp /\ ops < MaxOps
    /\ ops' = ops + 1
    /\ \/ \E g \in Goals, c \in BOOLEAN, first \in {"none", "later"},
             b \in {Unbounded} \cup 1..MaxBudget :
             /\ status[g] = "absent"
             /\ op' = [kind |-> "create", id |-> g, cron |-> c, first |-> first,
                       budget |-> b, pc |-> "new"]
       \/ \E g \in Goals, to \in {"keep"} \cup Statuses, n \in -1..MaxBudget :
             /\ status[g] # "absent" /\ (to = "keep" => n >= 0)
             /\ op' = [kind |-> "update", id |-> g, to |-> to, tokens |-> n,
                       pc |-> "new"]
       \/ \E c \in Conditions, d \in 1..MaxDefs :
             op' = [kind |-> "register", id |-> c, def |-> d, pc |-> "new"]
       \/ \E c \in Conditions :
             op' = [kind |-> "remove", id |-> c, pc |-> "new"]
    /\ UNCHANGED <<goalRows, goalObs, condVars, pass, faults>>

Step(pc) == op' = [op EXCEPT !.pc = pc]

\* The first check-in: the time given, else from the recurrence, else none.
goal_create ==
    /\ op.kind = "create" /\ op.pc = "new" /\ status[op.id] = "absent"
    /\ status' = [status EXCEPT ![op.id] = "active"]
    /\ cron' = [cron EXCEPT ![op.id] = op.cron]
    /\ next' = [next EXCEPT ![op.id] = IF op.cron THEN "later" ELSE op.first]
    /\ budget' = [budget EXCEPT ![op.id] = op.budget]
    /\ Step("applied")
    /\ UNCHANGED <<used, goalObs, condVars, pass, ops, faults>>

\* A create row that is applied again makes a second goal, under an id of
\* its own that the model leaves out.
goal_create_again ==
    /\ op.kind = "create" /\ op.pc = "new" /\ status[op.id] # "absent"
    /\ Step("applied")
    /\ UNCHANGED <<goalRows, goalObs, condVars, pass, ops, faults>>

\* Mutant of transition: an abandoned or completed goal may be resumed.
ResumesAny(from, to) == from \notin Terminal \/ to = "active"

\* Nothing leaves a terminal status, not even for itself; between the other
\* statuses, and into the terminal ones, everything is allowed.
transition(from, to) == from \notin Terminal

\* set_status reads the row and refuses an illegal transition, which fails
\* the whole row, progress included ...
set_status_check ==
    /\ op.kind = "update" /\ op.pc = "new"
    /\ IF op.to = "keep" THEN Step("progress")
       ELSE IF transition(status[op.id], op.to) THEN Step("write") ELSE op' = NoOp
    /\ UNCHANGED <<goalRows, goalObs, condVars, pass, ops, faults>>

\* ... and writes it by a second statement, clearing the check-in of a
\* terminal goal.
set_status_write ==
    /\ op.kind = "update" /\ op.pc = "write"
    /\ status' = [status EXCEPT ![op.id] = op.to]
    /\ next' = [next EXCEPT ![op.id] = IF op.to \in Terminal THEN "none" ELSE @]
    /\ asked' = [asked EXCEPT ![op.id] = op.to]
    /\ late' = [late EXCEPT ![op.id] = 0]
    /\ Step(IF op.tokens >= 0 THEN "progress" ELSE "applied")
    /\ UNCHANGED <<cron, budget, used, over, condVars, pass, ops, faults>>

record_progress ==
    /\ op.kind = "update" /\ op.pc = "progress"
    /\ used' = [used EXCEPT ![op.id] = @ + op.tokens]
    /\ Step("applied")
    /\ UNCHANGED <<status, cron, next, budget, goalObs, condVars, pass, ops, faults>>

\* upsert or soft_remove
apply_condition ==
    /\ op.kind \in {"register", "remove"} /\ op.pc = "new"
    /\ row' = [row EXCEPT ![op.id] = IF op.kind = "register" THEN op.def ELSE 0]
    /\ Step("applied")
    /\ UNCHANGED <<goalRows, goalObs, store, latch, holds, told, edge, extra,
                   pass, ops, faults>>

Delivered ==
    /\ op.kind # "none" /\ op.pc = "applied"
    /\ op' = NoOp
    /\ UNCHANGED <<goalRows, goalObs, condVars, pass, ops, faults>>

-----------------------------------------------------------------------------
(* The sweep: goals::check.                                                *)

At(pc) == pass.pc = pc
Goto(pc) == pass' = [pass EXCEPT !.pc = pc]
NextGoal == pass' = [pass EXCEPT !.pc = "goals", !.todo = @ \ {pass.cur}, !.cur = Nobody]

\* list_due_checkin: WHERE status = 'active' AND next_checkin <= now
Due == {g \in Goals : status[g] = "active" /\ next[g] = "due"}

list_due_checkin ==
    /\ At("idle")
    /\ pass' = [IdlePass EXCEPT !.pc = "goals", !.todo = Due,
                                !.rearm = {g \in Due : cron[g]}]
    /\ UNCHANGED <<goalRows, goalObs, condVars, op, ops, faults>>

\* Mutants of Exhausted: an overdrawn budget is not zero; none is zero.
ExhaustedExactly(g) == budget[g] # Unbounded /\ used[g] = budget[g]
NoneIsZero(g) == used[g] >= budget[g]

\* budget_remaining is Some(0)
Exhausted(g) == budget[g] # Unbounded /\ used[g] >= budget[g]

budget_gate(g) ==
    /\ At("goals") /\ g \in pass.todo
    /\ pass' = [pass EXCEPT !.cur = g, !.pc = IF Exhausted(g) THEN "pause" ELSE "insert"]
    /\ UNCHANGED <<goalRows, goalObs, condVars, op, ops, faults>>

GoalsFail == pass' = [IdlePass EXCEPT !.pc = "reload"]

\* set_status(Paused): the read; a goal that was completed since is an error,
\* which ends goals::check ...
pause_check ==
    /\ At("pause")
    /\ IF transition(status[pass.cur], "paused") THEN Goto("write") ELSE GoalsFail
    /\ UNCHANGED <<goalRows, goalObs, condVars, op, ops, faults>>

\* ... and the write.
pause_write ==
    /\ At("write")
    /\ status' = [status EXCEPT ![pass.cur] = "paused"]
    /\ NextGoal
    /\ UNCHANGED <<cron, next, budget, used, goalObs, condVars, op, ops, faults>>

\* insert_in of the check-in, and mark_checkin, whose count nothing reads.
insert_checkin ==
    /\ At("insert")
    /\ LET g == pass.cur IN
         /\ late' = [late EXCEPT ![g] = IF status[g] = "active" THEN 0 ELSE @ + 1]
         /\ over' = [over EXCEPT ![g] = IF Spent(g) THEN @ + 1 ELSE @]
    /\ Goto("rearm")
    /\ UNCHANGED <<goalRows, asked, condVars, op, ops, faults>>

\* set_next_checkin, whatever the status, by the recurrence as it was listed.
set_next_checkin ==
    /\ At("rearm")
    /\ next' = [next EXCEPT ![pass.cur] =
                  IF pass.cur \in pass.rearm THEN "later" ELSE "none"]
    /\ NextGoal
    /\ UNCHANGED <<status, cron, budget, used, goalObs, condVars, op, ops, faults>>

\* The end of the list, or an error of one of its goals.
goals_end ==
    /\ \/ At("goals") /\ pass.todo = {} /\ UNCHANGED faults
       \/ pass.pc \in {"goals", "pause", "write", "insert", "rearm"} /\ Fault
    /\ GoalsFail
    /\ UNCHANGED <<goalRows, goalObs, condVars, op, ops>>

-----------------------------------------------------------------------------
(* The sweep: the reload of the conditions and condition_checkin::check.   *)

Registered(defs) == {c \in Conditions : defs[c] # 0}

\* register and remove drop the latch; what is unchanged keeps it.
Reload(changed) ==
    /\ store' = [c \in Conditions |-> IF c \in changed THEN row[c] ELSE store[c]]
    /\ latch' = [c \in Conditions |-> c \notin changed /\ latch[c]]
    /\ told' = [c \in Conditions |-> c \notin changed /\ told[c]]
    /\ edge' = [c \in Conditions |-> edge[c] \/ store[c] # row[c]]

\* Mutant of Changed: every condition is registered anew by each pass.
ChangedAlways == Conditions

\* Mutant of Changed: a condition that is registered already is skipped.
ChangedNewOnly == {c \in Conditions : store[c] = 0 \/ row[c] = 0}

\* Conditions whose row differs from the one in memory.
Changed == {c \in Conditions : store[c] # row[c]}

\* Mutant of reconcile: register and remove forget last_held.
LatchKept ==
    /\ At("reload")
    /\ store' = row
    /\ told' = [c \in Conditions |-> c \notin Changed /\ told[c]]
    /\ edge' = [c \in Conditions |-> edge[c] \/ c \in Changed]
    /\ pass' = [IdlePass EXCEPT !.pc = "conditions", !.todo = Registered(row)]
    /\ UNCHANGED <<goalRows, goalObs, row, latch, holds, extra, op, ops, faults>>

\* list_active and reconcile; when the table cannot be read the pass goes on
\* with the conditions in memory.
reconcile ==
    /\ At("reload")
    /\ \/ Reload(Changed) /\ UNCHANGED faults
       \/ Fault /\ UNCHANGED <<store, latch, told, edge>>
    /\ pass' = [IdlePass EXCEPT !.pc = "conditions", !.todo = Registered(store')]
    /\ UNCHANGED <<goalRows, goalObs, row, holds, extra, op, ops>>

\* sample and observe_edge: the latch moves before the wake is written.  A
\* database that cannot be read samples as quiet.
observe_edge(c) ==
    /\ At("conditions") /\ c \in pass.todo
    /\ \E sample \in BOOLEAN :
         /\ \/ sample = holds[c] /\ UNCHANGED <<faults, edge>>
            \/ /\ ~ sample /\ holds[c] /\ Fault
               /\ edge' = [edge EXCEPT ![c] = TRUE]
         /\ latch' = [latch EXCEPT ![c] = sample]
         /\ told' = [told EXCEPT ![c] = @ /\ sample]
         /\ pass' = [pass EXCEPT !.todo = @ \ {c},
                       !.pc = IF sample /\ ~ latch[c] THEN "fire" ELSE @,
                       !.cur = IF sample /\ ~ latch[c] THEN c ELSE @]
    /\ UNCHANGED <<goalRows, goalObs, row, store, holds, extra, op, ops>>

\* The wake ...
fire ==
    /\ At("fire")
    /\ told' = [told EXCEPT ![pass.cur] = TRUE]
    /\ extra' = [extra EXCEPT ![pass.cur] = IF edge[pass.cur] THEN @ ELSE @ + 1]
    /\ edge' = [edge EXCEPT ![pass.cur] = FALSE]
    /\ Goto("audit")
    /\ UNCHANGED <<goalRows, goalObs, row, store, latch, holds, op, ops, faults>>

\* ... and its audit row.
insert_audit ==
    /\ At("audit")
    /\ pass' = [pass EXCEPT !.pc = "conditions", !.cur = Nobody]
    /\ UNCHANGED <<goalRows, goalObs, condVars, op, ops, faults>>

conditions_end ==
    /\ \/ At("conditions") /\ pass.todo = {} /\ UNCHANGED faults
       \/ pass.pc \in {"fire", "audit"} /\ Fault
    /\ pass' = IdlePass
    /\ UNCHANGED <<goalRows, goalObs, condVars, op, ops>>

-----------------------------------------------------------------------------
(* Environment.                                                            *)

\* Time passes.
Elapse(g) ==
    /\ next[g] = "later"
    /\ next' = [next EXCEPT ![g] = "due"]
    /\ UNCHANGED <<status, cron, budget, used, goalObs, condVars, pass, op, ops, faults>>

\* Messages pile up or are worked off, a session falls idle or wakes, the
\* agent sets or clears a flag.
Change(c) ==
    /\ holds' = [holds EXCEPT ![c] = ~ @]
    /\ edge' = [edge EXCEPT ![c] = @ \/ holds'[c]]
    /\ UNCHANGED <<goalRows, goalObs, row, store, latch, told, extra, pass, op, ops, faults>>

HostCrashes ==
    /\ Fault
    /\ pass' = IdlePass
    /\ store' = [c \in Conditions |-> 0]
    /\ latch' = [c \in Conditions |-> FALSE]
    /\ told' = [c \in Conditions |-> FALSE]
    /\ op' = IF op = NoOp THEN op ELSE [op EXCEPT !.pc = "new"]
    /\ UNCHANGED <<goalRows, goalObs, row, holds, edge, extra, ops>>

-----------------------------------------------------------------------------
Apply ==
    \/ goal_create \/ goal_create_again \/ set_status_check \/ set_status_write
    \/ record_progress \/ apply_condition \/ Delivered

Sweep ==
    \/ list_due_checkin \/ pause_check \/ pause_write \/ insert_checkin
    \/ set_next_checkin \/ goals_end \/ reconcile \/ fire \/ insert_audit
    \/ conditions_end
    \/ \E g \in Goals : budget_gate(g)
    \/ \E c \in Conditions : observe_edge(c)

Next ==
    \/ Emit \/ Apply \/ Sweep \/ HostCrashes
    \/ \E g \in Goals : Elapse(g)
    \/ \E c \in Conditions : Change(c)

Spec == Init /\ [][Next]_vars

\* The two loops run and time passes; nothing makes a condition change.
FairSpec ==
    Spec /\ WF_vars(Sweep) /\ WF_vars(Apply) /\ \A g \in Goals : WF_vars(Elapse(g))

-----------------------------------------------------------------------------
(* Properties.                                                             *)

\* After a goal was paused, completed or abandoned the pass in hand may
\* still write one check-in; no later pass does.
SilencedSoon == \A g \in Goals : late[g] <= 1

\* A goal whose budget is spent is woken at most once more, by a pass that
\* read the budget before the tokens were reported: resuming the goal does
\* not wake it again, the gate pauses it.
SpentStaysQuiet == \A g \in Goals : over[g] <= 1

\* A goal that was stopped, or has spent its budget, falls silent.
QuietWhenOver == SilencedSoon /\ SpentStaysQuiet

\* A goal leaves a terminal status only in one way: set_status(Paused) of
\* the sweep read the goal before it was completed and writes after.
TerminalLostToPauseOnly ==
    [][\A g \in Goals :
         status[g] \in Terminal /\ status'[g] # status[g]
             => At("write") /\ pass.cur = g /\ status'[g] = "paused"]_vars

\* A condition wakes its session once for every rising edge: again only
\* after it was false, registered anew, sampled in vain, or the host started.
OneWakePerEdge == \A c \in Conditions : extra[c] = 0

\* While the latch suppresses wakes the session has had its wake, or is
\* about to; only a fault between observe_edge and the insert loses it.
LatchMeansTold ==
    \A c \in Conditions :
        latch[c] => told[c] \/ (At("fire") /\ pass.cur = c) \/ faults > 0

\* The latch turns each rising edge into one wake, neither more nor fewer.
OneWakePerLatch == OneWakePerEdge /\ LatchMeansTold

\* A due goal with budget left gets its check-in unless the agent stops it,
\* over aborted passes and crashes.
GoalChecksIn ==
    \A g \in Goals :
        (status[g] = "active" /\ next[g] # "none" /\ ~ Spent(g))
            ~> (\/ At("rearm") /\ pass.cur = g
                \/ asked[g] # "active" \/ next[g] = "none" \/ Spent(g))

\* A registered condition that stays true is noticed under its present
\* definition, after a restart too.
EdgeSeen ==
    \A c \in Conditions :
        (row[c] # 0 /\ holds[c])
            ~> ((latch[c] /\ store[c] = row[c]) \/ ~ holds[c] \/ row[c] = 0)

=============================================================================
