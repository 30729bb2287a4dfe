--------------------------- MODULE CheckinsProofs ---------------------------
(***************************************************************************)
(* Proofs about Checkins, for any goals and conditions and any number of   *)
(* definitions, requests and faults.                                       *)
(***************************************************************************)
EXTENDS Checkins, TLAPS

Budgets == {Unbounded} \cup 1..MaxBudget

\* The row in hand of the delivery loop, by its kind.
OpOK ==
    \/ op = NoOp
    \/ op \in [kind : {"create"}, id : Goals, cron : BOOLEAN,
               first : {"none", "later"}, budget : Budgets,
               pc : {"new", "applied"}]
    \/ /\ op \in [kind : {"update"}, id : Goals, to : {"keep"} \cup Statuses,
                  tokens : -1..MaxBudget,
                  pc : {"new", "write", "progress", "applied"}]
       /\ op.to = "keep" \/ op.pc = "progress" => op.tokens >= 0 
       /\ op.to = "keep" => op.pc # "write"
    \/ op \in [kind : {"register"}, id : Conditions, def : 1..MaxDefs,
               pc : {"new", "applied"}]
    \/ op \in [kind : {"remove"}, id : Conditions, pc : {"new", "applied"}]

OverGoal == {"pause", "write", "insert", "rearm"}
OverGoals == {"goals"} \cup OverGoal
OverCondition == {"fire", "audit"}
OverConditions == {"conditions"} \cup OverCondition

\* The locals of the sweep are what its place says they are.
PassOK ==
    /\ pass \in [pc : {"idle", "reload"} \cup OverGoals \cup OverConditions,
                 todo : SUBSET (Goals \cup Conditions),
                 cur : Goals \cup Conditions \cup {Nobody},
                 rearm : SUBSET Goals]
    /\ pass.pc \in {"idle", "reload"} => pass.todo = {}
    /\ pass.pc \in OverGoals => pass.todo \subseteq Goals
    /\ pass.pc \in OverGoal => pass.cur \in pass.todo
    /\ pass.pc \in OverConditions => pass.todo \subseteq Registered(store)
    /\ pass.pc \in OverCondition => pass.cur \in Registered(store)

\* A listed goal exists, and the agent's write follows a check that the
\* sweep's own writes cannot make out of date.
GoalsOK ==
    /\ late \in [Goals -> Nat] /\ over \in [Goals -> Nat]
    /\ op.kind = "update" => status[op.id] # "absent"
    /\ pass.pc \in OverGoals => \A g \in pass.todo : status[g] # "absent"
    /\ op.kind = "update" /\ op.pc = "write" => status[op.id] \notin Terminal

\* A goal that was woken after it was stopped is not active, and the pass is
\* done with it.
LateOK ==
    \A g \in Goals : late[g] > 0 =>
        /\ late[g] = 1
        /\ status[g] \notin {"absent", "active"}
        /\ pass.pc \in OverGoals /\ g \in pass.todo => At("rearm") /\ pass.cur = g

\* A goal that was woken after its budget was spent stays spent, and no pass
\* is past the gate with it.
OverOK ==
    \A g \in Goals : over[g] > 0 =>
        /\ over[g] = 1
        /\ status[g] # "absent"
        /\ Spent(g)
        /\ ~ (At("insert") /\ pass.cur = g)

\* The latch of a condition that is true and not latched has an edge to spend.
LatchOK ==
    /\ \A c \in Conditions :
         store[c] # 0 /\ holds[c] /\ ~ latch[c] => edge[c]
    /\ At("fire") => latch[pass.cur] /\ edge[pass.cur]


Types == TypeOK /\ OpOK /\ PassOK
GoalInv == GoalsOK /\ LateOK /\ OverOK
EdgeInv == LatchOK /\ OneWakePerLatch

IInv == Types /\ GoalInv /\ EdgeInv

USE DEF Types, GoalInv, EdgeInv, IInv, Unbounded, Budgets, Statuses, Terminal, NoOp, IdlePass,
        OverGoal, OverGoals, OverCondition, OverConditions, At

-----------------------------------------------------------------------------
LEMMA InitIInv == Init => IInv
  <1> SUFFICES ASSUME Init PROVE IInv
    OBVIOUS
  <1>1. Types
    BY CheckinAssumption DEF Init, TypeOK, OpOK, PassOK
  <1>2. GoalInv
    BY DEF Init, GoalsOK, LateOK, OverOK
  <1>3. EdgeInv
    BY DEF Init, LatchOK, OneWakePerLatch, OneWakePerEdge, LatchMeansTold
  <1> QED
    BY <1>1, <1>2, <1>3

LEMMA TypesKept ==
    ASSUME IInv, Next
    PROVE  Types'
  <1>1. CASE Emit
    <2>1. TypeOK'
      BY <1>1, CheckinAssumption DEF Emit, goalRows, goalObs, condVars, TypeOK, OpOK,
         PassOK
    <2>2. OpOK'
      BY <1>1, CheckinAssumption DEF Emit, goalRows, goalObs, condVars, OpOK
    <2>3. PassOK'
      BY <1>1, CheckinAssumption DEF Emit, goalRows, goalObs, condVars, TypeOK, OpOK,
         PassOK, Registered
    <2> QED
      BY <2>1, <2>2, <2>3
  <1>2. CASE goal_create
    BY <1>2, CheckinAssumption DEF goal_create, Step, goalRows, goalObs, condVars,
       TypeOK, OpOK, PassOK, Registered
  <1>3. CASE goal_create_again
    BY <1>3, CheckinAssumption DEF goal_create_again, Step, goalRows, goalObs, condVars,
       TypeOK, OpOK, PassOK, Registered
  <1>4. CASE set_status_check
    BY <1>4, CheckinAssumption DEF set_status_check, Step, transition, goalRows,
       goalObs, condVars, TypeOK, OpOK, PassOK, Registered
  <1>5. CASE set_status_write
    BY <1>5, CheckinAssumption DEF set_status_write, Step, goalRows, goalObs, condVars,
       TypeOK, OpOK, PassOK, Registered
  <1>6. CASE record_progress
    BY <1>6, CheckinAssumption DEF record_progress, Step, goalRows, goalObs, condVars,
       TypeOK, OpOK, PassOK, Registered
  <1>7. CASE apply_condition
    BY <1>7, CheckinAssumption DEF apply_condition, Step, goalRows, goalObs, condVars,
       TypeOK, OpOK, PassOK, Registered
  <1>8. CASE Delivered
    BY <1>8, CheckinAssumption DEF Delivered, goalRows, goalObs, condVars, TypeOK, OpOK,
       PassOK, Registered
  <1>9. CASE list_due_checkin
    BY <1>9, CheckinAssumption DEF list_due_checkin, Due, goalRows, goalObs, condVars,
       TypeOK, OpOK, PassOK, Registered
  <1>10. CASE pause_check
    BY <1>10, CheckinAssumption DEF pause_check, Goto, GoalsFail, transition, goalRows,
       goalObs, condVars, TypeOK, OpOK, PassOK, Registered
  <1>11. CASE pause_write
    BY <1>11, CheckinAssumption DEF pause_write, NextGoal, goalRows, goalObs, condVars,
       TypeOK, OpOK, PassOK, Registered
  <1>12. CASE insert_checkin
    BY <1>12, CheckinAssumption DEF insert_checkin, Goto, goalRows, goalObs, condVars,
       TypeOK, OpOK, PassOK, Registered
  <1>13. CASE set_next_checkin
    BY <1>13, CheckinAssumption DEF set_next_checkin, NextGoal, goalRows, goalObs,
       condVars, TypeOK, OpOK, PassOK, Registered
  <1>14. CASE goals_end
    BY <1>14, CheckinAssumption DEF goals_end, GoalsFail, Fault, goalRows, goalObs,
       condVars, TypeOK, OpOK, PassOK, Registered
  <1>15. CASE reconcile
    <2>1. store' \in [Conditions -> 0..MaxDefs] /\ faults' \in 0..MaxFaults
      BY <1>15, CheckinAssumption DEF reconcile, Reload, Fault, TypeOK
    <2>2. ASSUME NEW c \in Conditions, latch'[c] PROVE store'[c] # 0
      <3>1. CASE Reload(Changed)
        <4>1. latch[c] /\ c \notin Changed
          BY <2>2, <3>1, Zenon DEF Reload
        <4>2. store'[c] = store[c]
          BY <3>1, <4>1 DEF Reload
        <4> QED
          BY <4>1, <4>2 DEF TypeOK
      <3>2. CASE UNCHANGED <<store, latch>>
        BY <2>2, <3>2 DEF TypeOK
      <3> QED
        BY <1>15, <3>1, <3>2 DEF reconcile
    <2>3. /\ latch' \in [Conditions -> BOOLEAN] /\ told' \in [Conditions -> BOOLEAN]
          /\ edge' \in [Conditions -> BOOLEAN]
      BY <1>15, Zenon DEF reconcile, Reload, TypeOK
    <2>4. TypeOK'
      BY <1>15, <2>2, <2>1, <2>3 DEF reconcile, goalRows, TypeOK, Registered
    <2>5. OpOK'
      BY <1>15, CheckinAssumption DEF reconcile, Reload, Fault, Changed, goalRows,
         goalObs, condVars, OpOK
    <2>6. PassOK'
      BY <1>15, CheckinAssumption DEF reconcile, Reload, Fault, Changed, goalRows,
         goalObs, condVars, TypeOK, OpOK, PassOK, Registered
    <2> QED
      BY <2>4, <2>5, <2>6
  <1>16. CASE fire
    BY <1>16, CheckinAssumption DEF fire, Goto, goalRows, goalObs, condVars, TypeOK,
       OpOK, PassOK, Registered
  <1>17. CASE insert_audit
    BY <1>17, CheckinAssumption DEF insert_audit, goalRows, goalObs, condVars, TypeOK,
       OpOK, PassOK, Registered
  <1>18. CASE conditions_end
    <2>1. pass' = IdlePass /\ UNCHANGED <<goalRows, goalObs, condVars, op, ops>>
      BY <1>18 DEF conditions_end
    <2>2. TypeOK'
      BY <1>18, <2>1, CheckinAssumption DEF conditions_end, Fault, goalRows, goalObs, condVars, TypeOK
    <2>3. OpOK'
      BY <2>1 DEF OpOK
    <2>4. PassOK'
      BY <2>1 DEF PassOK
    <2> QED
      BY <2>2, <2>3, <2>4
  <1>19. ASSUME NEW g \in Goals, budget_gate(g) PROVE Types'
    <2>1. PICK to \in {"pause", "insert"} :
            /\ At("goals") /\ g \in pass.todo
            /\ pass' = [pass EXCEPT !.cur = g, !.pc = to]
            /\ UNCHANGED <<goalRows, goalObs, condVars, op, ops, faults>>
      BY <1>19 DEF budget_gate
    <2>2. PassOK'
      BY <2>1 DEF PassOK, Registered, condVars
    <2>3. /\ pass'.pc = to /\ pass'.todo = pass.todo
      BY <2>1 DEF PassOK
    <2>4. TypeOK'
      BY <2>1, <2>3 DEF TypeOK, goalRows, goalObs, condVars
    <2>5. OpOK'
      BY <2>1 DEF OpOK
    <2> QED
      BY <2>2, <2>4, <2>5
  <1>20. ASSUME NEW c \in Conditions, observe_edge(c) PROVE Types'
    <2>1. PICK sample \in BOOLEAN :
             /\ \/ sample = holds[c] /\ UNCHANGED <<faults, edge>>
                \/ ~ sample /\ holds[c] /\ Fault /\ edge' = [edge EXCEPT ![c] = TRUE]
             /\ latch' = [latch EXCEPT ![c] = sample]
             /\ told' = [told EXCEPT ![c] = @ /\ sample]
             /\ pass' = [pass EXCEPT !.todo = @ \ {c},
                           !.pc = IF sample /\ ~ latch[c] THEN "fire" ELSE @,
                           !.cur = IF sample /\ ~ latch[c] THEN c ELSE @]
      BY <1>20 DEF observe_edge
    <2>2. OpOK'
      BY <1>20, CheckinAssumption DEF observe_edge, OpOK
    <2>3. PassOK'
      <3>1. CASE sample /\ ~ latch[c]
        BY <1>20, <2>1, <3>1 DEF observe_edge, TypeOK, PassOK, Registered
      <3>2. CASE ~ (sample /\ ~ latch[c])
        <4>1. pass' = [pass EXCEPT !.todo = @ \ {c}]
          BY <2>1, <3>2 DEF PassOK
        <4> QED
          BY <1>20, <4>1 DEF observe_edge, TypeOK, PassOK, Registered
      <3> QED
        BY <3>1, <3>2
    <2>4. TypeOK'
      <3>1. faults' \in 0..MaxFaults /\ \A d \in Conditions : latch'[d] => store'[d] # 0
        BY <1>20, <2>1, CheckinAssumption DEF observe_edge, Fault, TypeOK, PassOK, Registered
      <3>2. /\ latch' \in [Conditions -> BOOLEAN] /\ told' \in [Conditions -> BOOLEAN]
            /\ edge' \in [Conditions -> BOOLEAN]
        BY <1>20, <2>1 DEF observe_edge, TypeOK
      <3> QED
        BY <1>20, <2>3, <3>1, <3>2 DEF observe_edge, goalRows, TypeOK, PassOK, Registered
    <2> QED
      BY <2>4, <2>2, <2>3
  <1>21. CASE HostCrashes
    BY <1>21, CheckinAssumption DEF HostCrashes, Fault, goalRows, goalObs, condVars,
       TypeOK, OpOK, PassOK, Registered
  <1>22. ASSUME NEW g \in Goals, Elapse(g) PROVE Types'
    BY <1>22, CheckinAssumption DEF Elapse, goalRows, goalObs, condVars, TypeOK, OpOK,
       PassOK, Registered
  <1>23. ASSUME NEW c \in Conditions, Change(c) PROVE Types'
    BY <1>23, CheckinAssumption DEF Change, goalRows, goalObs, condVars, TypeOK, OpOK,
       PassOK, Registered
  <1> QED
    BY <1>1, <1>2, <1>3, <1>4, <1>5, <1>6, <1>7, <1>8, <1>9, <1>10, <1>11, <1>12, <1>13,
       <1>14, <1>15, <1>16, <1>17, <1>18, <1>19, <1>20, <1>21, <1>22, <1>23 DEF Next, Apply, Sweep

LEMMA GoalsKept ==
    ASSUME IInv, Next
    PROVE  GoalInv'
  <1>1. CASE Emit
    BY <1>1, CheckinAssumption DEF Emit, goalRows, goalObs, condVars, TypeOK, OpOK,
       PassOK, GoalsOK, LateOK, OverOK, Spent
  <1>2. CASE goal_create
    BY <1>2, CheckinAssumption DEF goal_create, Step, goalRows, goalObs, condVars,
       TypeOK, OpOK, PassOK, GoalsOK, LateOK, OverOK, Spent
  <1>3. CASE goal_create_again
    BY <1>3, CheckinAssumption DEF goal_create_again, Step, goalRows, goalObs, condVars,
       TypeOK, OpOK, PassOK, GoalsOK, LateOK, OverOK, Spent
  <1>4. CASE set_status_check
    BY <1>4, CheckinAssumption DEF set_status_check, Step, transition, goalRows,
       goalObs, condVars, TypeOK, OpOK, PassOK, GoalsOK, LateOK, OverOK, Spent
  <1>5. CASE set_status_write
    BY <1>5, CheckinAssumption DEF set_status_write, Step, goalRows, goalObs, condVars,
       TypeOK, OpOK, PassOK, GoalsOK, LateOK, OverOK, Spent
  <1>6. CASE record_progress
    BY <1>6, CheckinAssumption DEF record_progress, Step, goalRows, goalObs, condVars,
       TypeOK, OpOK, PassOK, GoalsOK, LateOK, OverOK, Spent
  <1>7. CASE apply_condition
    BY <1>7, CheckinAssumption DEF apply_condition, Step, goalRows, goalObs, condVars,
       TypeOK, OpOK, PassOK, GoalsOK, LateOK, OverOK, Spent
  <1>8. CASE Delivered
    BY <1>8, CheckinAssumption DEF Delivered, goalRows, goalObs, condVars, TypeOK, OpOK,
       PassOK, GoalsOK, LateOK, OverOK, Spent
  <1>9. CASE list_due_checkin
    BY <1>9, CheckinAssumption DEF list_due_checkin, Due, goalRows, goalObs, condVars,
       TypeOK, OpOK, PassOK, GoalsOK, LateOK, OverOK, Spent
  <1>10. CASE pause_check
    BY <1>10, CheckinAssumption DEF pause_check, Goto, GoalsFail, transition, goalRows,
       goalObs, condVars, TypeOK, OpOK, PassOK, GoalsOK, LateOK, OverOK, Spent
  <1>11. CASE pause_write
    BY <1>11, CheckinAssumption DEF pause_write, NextGoal, goalRows, goalObs, condVars,
       TypeOK, OpOK, PassOK, GoalsOK, LateOK, OverOK, Spent
  <1>12. CASE insert_checkin
    BY <1>12, CheckinAssumption DEF insert_checkin, Goto, goalRows, goalObs, condVars,
       TypeOK, OpOK, PassOK, GoalsOK, LateOK, OverOK, Spent
  <1>13. CASE set_next_checkin
    BY <1>13, CheckinAssumption DEF set_next_checkin, NextGoal, goalRows, goalObs,
       condVars, TypeOK, OpOK, PassOK, GoalsOK, LateOK, OverOK, Spent
  <1>14. CASE goals_end
    BY <1>14, CheckinAssumption DEF goals_end, GoalsFail, Fault, goalRows, goalObs,
       condVars, TypeOK, OpOK, PassOK, GoalsOK, LateOK, OverOK, Spent
  <1>15. CASE reconcile
    BY <1>15, CheckinAssumption DEF reconcile, Reload, Fault, Changed, goalRows,
       goalObs, condVars, TypeOK, OpOK, PassOK, GoalsOK, LateOK, OverOK, Spent
  <1>16. CASE fire
    BY <1>16, CheckinAssumption DEF fire, Goto, goalRows, goalObs, condVars, TypeOK,
       OpOK, PassOK, GoalsOK, LateOK, OverOK, Spent
  <1>17. CASE insert_audit
    BY <1>17, CheckinAssumption DEF insert_audit, goalRows, goalObs, condVars, TypeOK,
       OpOK, PassOK, GoalsOK, LateOK, OverOK, Spent
  <1>18. CASE conditions_end
    BY <1>18, CheckinAssumption DEF conditions_end, Fault, goalRows, goalObs, condVars,
       TypeOK, OpOK, PassOK, GoalsOK, LateOK, OverOK, Spent
  <1>19. ASSUME NEW g \in Goals, budget_gate(g) PROVE GoalInv'
    BY <1>19, CheckinAssumption DEF budget_gate, Exhausted, goalRows, goalObs, condVars,
       TypeOK, OpOK, PassOK, GoalsOK, LateOK, OverOK, Spent
  <1>20. ASSUME NEW c \in Conditions, observe_edge(c) PROVE GoalInv'
    BY <1>20, CheckinAssumption DEF observe_edge, Fault, goalRows, goalObs, condVars,
       TypeOK, OpOK, PassOK, GoalsOK, LateOK, OverOK, Spent
  <1>21. CASE HostCrashes
    BY <1>21, CheckinAssumption DEF HostCrashes, Fault, goalRows, goalObs, condVars,
       TypeOK, OpOK, PassOK, GoalsOK, LateOK, OverOK, Spent
  <1>22. ASSUME NEW g \in Goals, Elapse(g) PROVE GoalInv'
    BY <1>22, CheckinAssumption DEF Elapse, goalRows, goalObs, condVars, TypeOK, OpOK,
       PassOK, GoalsOK, LateOK, OverOK, Spent
  <1>23. ASSUME NEW c \in Conditions, Change(c) PROVE GoalInv'
    BY <1>23, CheckinAssumption DEF Change, goalRows, goalObs, condVars, TypeOK, OpOK,
       PassOK, GoalsOK, LateOK, OverOK, Spent
  <1> QED
    BY <1>1, <1>2, <1>3, <1>4, <1>5, <1>6, <1>7, <1>8, <1>9, <1>10, <1>11, <1>12, <1>13,
       <1>14, <1>15, <1>16, <1>17, <1>18, <1>19, <1>20, <1>21, <1>22, <1>23 DEF Next, Apply, Sweep

LEMMA EdgesKept ==
    ASSUME IInv, Next
    PROVE  EdgeInv'
  <1>1. CASE Emit
    BY <1>1, CheckinAssumption DEF Emit, goalRows, goalObs, condVars, TypeOK, OpOK,
       PassOK, Registered, LatchOK, OneWakePerLatch, OneWakePerEdge, LatchMeansTold
  <1>2. CASE goal_create
    BY <1>2, CheckinAssumption DEF goal_create, Step, goalRows, goalObs, condVars,
       TypeOK, OpOK, PassOK, Registered, LatchOK, OneWakePerLatch, OneWakePerEdge,
       LatchMeansTold
  <1>3. CASE goal_create_again
    BY <1>3, CheckinAssumption DEF goal_create_again, Step, goalRows, goalObs, condVars,
       TypeOK, OpOK, PassOK, Registered, LatchOK, OneWakePerLatch, OneWakePerEdge,
       LatchMeansTold
  <1>4. CASE set_status_check
    BY <1>4, CheckinAssumption DEF set_status_check, Step, transition, goalRows,
       goalObs, condVars, TypeOK, OpOK, PassOK, Registered, LatchOK, OneWakePerLatch,
       OneWakePerEdge, LatchMeansTold
  <1>5. CASE set_status_write
    BY <1>5, CheckinAssumption DEF set_status_write, Step, goalRows, goalObs, condVars,
       TypeOK, OpOK, PassOK, Registered, LatchOK, OneWakePerLatch, OneWakePerEdge,
       LatchMeansTold
  <1>6. CASE record_progress
    BY <1>6, CheckinAssumption DEF record_progress, Step, goalRows, goalObs, condVars,
       TypeOK, OpOK, PassOK, Registered, LatchOK, OneWakePerLatch, OneWakePerEdge,
       LatchMeansTold
  <1>7. CASE apply_condition
    BY <1>7, CheckinAssumption DEF apply_condition, Step, goalRows, goalObs, condVars,
       TypeOK, OpOK, PassOK, Registered, LatchOK, OneWakePerLatch, OneWakePerEdge,
       LatchMeansTold
  <1>8. CASE Delivered
    BY <1>8, CheckinAssumption DEF Delivered, goalRows, goalObs, condVars, TypeOK, OpOK,
       PassOK, Registered, LatchOK, OneWakePerLatch, OneWakePerEdge, LatchMeansTold
  <1>9. CASE list_due_checkin
    BY <1>9, CheckinAssumption DEF list_due_checkin, Due, goalRows, goalObs, condVars,
       TypeOK, OpOK, PassOK, Registered, LatchOK, OneWakePerLatch, OneWakePerEdge,
       LatchMeansTold
  <1>10. CASE pause_check
    BY <1>10, CheckinAssumption DEF pause_check, Goto, GoalsFail, transition, goalRows,
       goalObs, condVars, TypeOK, OpOK, PassOK, Registered, LatchOK, OneWakePerLatch,
       OneWakePerEdge, LatchMeansTold
  <1>11. CASE pause_write
    BY <1>11, CheckinAssumption DEF pause_write, NextGoal, goalRows, goalObs, condVars,
       TypeOK, OpOK, PassOK, Registered, LatchOK, OneWakePerLatch, OneWakePerEdge,
       LatchMeansTold
  <1>12. CASE insert_checkin
    BY <1>12, CheckinAssumption DEF insert_checkin, Goto, goalRows, goalObs, condVars,
       TypeOK, OpOK, PassOK, Registered, LatchOK, OneWakePerLatch, OneWakePerEdge,
       LatchMeansTold
  <1>13. CASE set_next_checkin
    BY <1>13, CheckinAssumption DEF set_next_checkin, NextGoal, goalRows, goalObs,
       condVars, TypeOK, OpOK, PassOK, Registered, LatchOK, OneWakePerLatch,
       OneWakePerEdge, LatchMeansTold
  <1>14. CASE goals_end
    BY <1>14, CheckinAssumption DEF goals_end, GoalsFail, Fault, goalRows, goalObs,
       condVars, TypeOK, OpOK, PassOK, Registered, LatchOK, OneWakePerLatch,
       OneWakePerEdge, LatchMeansTold
  <1>15. CASE reconcile
    BY <1>15, CheckinAssumption DEF reconcile, Reload, Fault, Changed, goalRows,
       goalObs, condVars, TypeOK, OpOK, PassOK, Registered, LatchOK, OneWakePerLatch,
       OneWakePerEdge, LatchMeansTold
  <1>16. CASE fire
    BY <1>16, CheckinAssumption DEF fire, Goto, goalRows, goalObs, condVars, TypeOK,
       OpOK, PassOK, Registered, LatchOK, OneWakePerLatch, OneWakePerEdge,
       LatchMeansTold
  <1>17. CASE insert_audit
    BY <1>17, CheckinAssumption DEF insert_audit, goalRows, goalObs, condVars, TypeOK,
       OpOK, PassOK, Registered, LatchOK, OneWakePerLatch, OneWakePerEdge,
       LatchMeansTold
  <1>18. CASE conditions_end
    BY <1>18, CheckinAssumption DEF conditions_end, Fault, goalRows, goalObs, condVars,
       TypeOK, OpOK, PassOK, Registered, LatchOK, OneWakePerLatch, OneWakePerEdge,
       LatchMeansTold
  <1>19. ASSUME NEW g \in Goals, budget_gate(g) PROVE EdgeInv'
    BY <1>19, CheckinAssumption DEF budget_gate, Exhausted, goalRows, goalObs, condVars,
       TypeOK, OpOK, PassOK, Registered, LatchOK, OneWakePerLatch, OneWakePerEdge,
       LatchMeansTold
  <1>20. ASSUME NEW c \in Conditions, observe_edge(c) PROVE EdgeInv'
    BY <1>20, CheckinAssumption DEF observe_edge, Fault, goalRows, goalObs, condVars,
       TypeOK, OpOK, PassOK, Registered, LatchOK, OneWakePerLatch, OneWakePerEdge,
       LatchMeansTold
  <1>21. CASE HostCrashes
    BY <1>21, CheckinAssumption DEF HostCrashes, Fault, goalRows, goalObs, condVars,
       TypeOK, OpOK, PassOK, Registered, LatchOK, OneWakePerLatch, OneWakePerEdge,
       LatchMeansTold
  <1>22. ASSUME NEW g \in Goals, Elapse(g) PROVE EdgeInv'
    BY <1>22, CheckinAssumption DEF Elapse, goalRows, goalObs, condVars, TypeOK, OpOK,
       PassOK, Registered, LatchOK, OneWakePerLatch, OneWakePerEdge, LatchMeansTold
  <1>23. ASSUME NEW c \in Conditions, Change(c) PROVE EdgeInv'
    BY <1>23, CheckinAssumption DEF Change, goalRows, goalObs, condVars, TypeOK, OpOK,
       PassOK, Registered, LatchOK, OneWakePerLatch, OneWakePerEdge, LatchMeansTold
  <1> QED
    BY <1>1, <1>2, <1>3, <1>4, <1>5, <1>6, <1>7, <1>8, <1>9, <1>10, <1>11, <1>12, <1>13,
       <1>14, <1>15, <1>16, <1>17, <1>18, <1>19, <1>20, <1>21, <1>22, <1>23 DEF Next, Apply, Sweep

-----------------------------------------------------------------------------
LEMMA StutterKeeps ==
    ASSUME IInv, UNCHANGED vars
    PROVE  IInv'
  <1>1. Types'
    BY DEF vars, TypeOK, OpOK, PassOK, Registered
  <1>2. GoalInv'
    BY DEF vars, GoalsOK, LateOK, OverOK, Spent
  <1>3. EdgeInv'
    BY DEF vars, LatchOK, OneWakePerLatch, OneWakePerEdge, LatchMeansTold
  <1> QED
    BY <1>1, <1>2, <1>3

\* The invariant is inductive.
THEOREM CheckinsInvariant == Spec => []IInv
  <1>1. IInv /\ [Next]_vars => IInv'
    BY TypesKept, GoalsKept, EdgesKept, StutterKeeps
  <1> HIDE DEF IInv
  <1> QED
    BY InitIInv, <1>1, PTL DEF Spec

\* Every variable of the sweep's check-ins keeps its type; in particular a
\* latch is never held for a condition that is not registered.
THEOREM CheckinsTypeCorrect == Spec => []TypeOK
  BY CheckinsInvariant, PTL

\* However the agent's requests, the sweep's passes and the faults interleave,
\* goals::check wakes a goal at most once after it was stopped and at most once
\* after its budget was spent.
THEOREM OverGoalsFallSilent == Spec => []QuietWhenOver
  <1>1. IInv => QuietWhenOver
    BY DEF QuietWhenOver, SilencedSoon, SpentStaysQuiet, LateOK, OverOK, GoalsOK
  <1> HIDE DEF IInv
  <1> QED
    BY <1>1, CheckinsInvariant, PTL

\* observe_edge wakes a session once for every rising edge of a condition, and
\* its latch is closed only when the wake was written or a fault took it.
THEOREM ConditionsWakeOnce == Spec => []OneWakePerLatch
  BY CheckinsInvariant, PTL

\* set_status lets no goal out of a terminal status, but for the sweep's pause
\* that read the goal before it was completed.
THEOREM TerminalKept == Spec => TerminalLostToPauseOnly
  <1> DEFINE A == \A g \in Goals :
                     status[g] \in Terminal /\ status'[g] # status[g]
                         => At("write") /\ pass.cur = g /\ status'[g] = "paused"
  <1>1. ASSUME IInv, Next PROVE A
    <2>1. CASE UNCHANGED status
      BY <2>1
    <2>2. CASE goal_create
      BY <1>1, <2>2 DEF goal_create, TypeOK
    <2>3. CASE set_status_write
      <3>1. op.id \in Goals /\ status[op.id] \notin Terminal
        BY <1>1, <2>3 DEF set_status_write, OpOK, GoalsOK
      <3> QED
        BY <1>1, <2>3, <3>1 DEF set_status_write, TypeOK
    <2>4. CASE pause_write
      BY <1>1, <2>4 DEF pause_write, TypeOK, PassOK
    <2> QED
      BY <1>1, <2>1, <2>2, <2>3, <2>4
      DEF Next, Apply, Sweep, Emit, goal_create_again, set_status_check, record_progress,
          apply_condition, Delivered, list_due_checkin, pause_check, insert_checkin,
          set_next_checkin, goals_end, reconcile, fire, insert_audit, conditions_end,
          budget_gate, observe_edge, HostCrashes, Elapse, Change, goalRows
  <1>2. IInv /\ [Next]_vars => [A]_vars
    BY <1>1
  <1> HIDE DEF IInv, A
  <1>3. Spec => [][A]_vars
    BY <1>2, CheckinsInvariant, PTL DEF Spec
  <1> QED
    BY <1>3 DEF TerminalLostToPauseOnly, A

=============================================================================
