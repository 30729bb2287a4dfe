--------------------------- MODULE ScheduleProofs ---------------------------
(***************************************************************************)
(* Scheduled tasks, proved for any number of tasks, rows, sessions and     *)
(* faults.                                                                 *)
(*                                                                         *)
(* The pass reads the table once and then works, statement by statement,   *)
(* on rows that the delivery loop goes on changing.  The argument follows  *)
(* one task through the three places where its occurrence may be: armed in *)
(* the table, listed by the pass, or handled (written, and not yet         *)
(* re-armed).  Whoever leaves a task armed or listed whose message is      *)
(* already written has had a fault to do so.                               *)
(***************************************************************************)
EXTENDS Schedule, TLAPS

-----------------------------------------------------------------------------
(* Type correctness.                                                       *)

Recurs == {"null", "cron", "bad"}

\* The tasks have ids, the series among them.
LEMMA SeriesIsTask == Series \in Ids
  BY ScheduleAssumption DEF Series, Ids

\* compute_next_fire arms for later or not at all.
LEMMA ComputedNext ==
  ASSUME NEW when, NEW rec
  PROVE  compute_next_fire(when, rec) \in {"none", "later"}
  BY DEF compute_next_fire

\* The three status operations and what they write.
LEMMA StatusWritten ==
  ASSUME NEW kind \in {"cancel", "pause", "resume"}
  PROVE  /\ StatusOf(kind) \in {"cancelled", "paused", "active"}
         /\ StatusOf(kind) = "active" => kind = "resume"
  BY DEF StatusOf

\* Writing next_fire takes the task out of the order of the due ones.
LEMMA NextWritten ==
  ASSUME TypeTable, TypeOrder, NEW t \in Ids, NEW value \in {"none", "later"},
         next' = [next EXCEPT ![t] = value], older' = Without(t)
  PROVE  /\ TypeOrder'
         /\ next' \in [Ids -> {"none", "later", "due"}]
         /\ next'[t] = value
         /\ \A u \in Ids \ {t} : next'[u] = next[u]
<1>1. /\ next' \in [Ids -> {"none", "later", "due"}]
      /\ next'[t] = value
      /\ \A u \in Ids \ {t} : next'[u] = next[u]
  BY DEF TypeTable
<1>2. Due' = Due \ {t}
  BY <1>1 DEF Due
<1>3. \A p \in older' : p \in older /\ p[1] # t /\ p[2] # t
  BY DEF Without
<1>4. older' \subseteq Due' \X Due'
  BY <1>2, <1>3 DEF TypeOrder
<1>5. \A u, v \in Due' : <<u, v>> \in older' <=> <<u, v>> \in older
  BY <1>2 DEF Without
<1>6. \A u \in Due' : u \in Due
  BY <1>2
<1>7. TypeOrder'
  BY <1>4, <1>5, <1>6 DEF TypeOrder
<1> QED
  BY <1>1, <1>7

\* A task that comes due is the last in the order.
LEMMA ElapseOrder ==
  ASSUME TypeTable, TypeOrder, NEW t \in Ids, Elapse(t)
  PROVE  TypeOrder' /\ TypeTable'
<1>1. /\ next[t] = "later"
      /\ next' = [next EXCEPT ![t] = "due"]
      /\ older' = older \cup (Due \X {t})
      /\ status' = status /\ recur' = recur
  BY DEF Elapse
<1>2. Due' = Due \cup {t} /\ t \notin Due
  BY <1>1 DEF Due, TypeTable
<1>3. older' \subseteq Due' \X Due'
  BY <1>1, <1>2 DEF TypeOrder
<1>4. \A u, v \in Due : <<u, v>> \in older' <=> <<u, v>> \in older
  BY <1>1, <1>2
<1>5. \A u \in Due : <<u, t>> \in older' /\ <<t, u>> \notin older'
  BY <1>1, <1>2 DEF TypeOrder
<1>6. <<t, t>> \notin older'
  BY <1>1, <1>2 DEF TypeOrder
<1>7. \A u, v \in Due' : <<u, v>> \in older' => <<v, u>> \notin older'
  BY <1>2, <1>4, <1>5, <1>6 DEF TypeOrder
<1>8. \A u, v \in Due' : u # v => <<u, v>> \in older' \/ <<v, u>> \in older'
  BY <1>2, <1>4, <1>5 DEF TypeOrder
<1>9. \A u, v, w \in Due' :
        <<u, v>> \in older' /\ <<v, w>> \in older' => <<u, w>> \in older'
  <2> SUFFICES ASSUME NEW u \in Due', NEW v \in Due', NEW w \in Due',
                      <<u, v>> \in older', <<v, w>> \in older'
               PROVE  <<u, w>> \in older'
    OBVIOUS
  <2>1. u \in Due
    BY <1>2, <1>5, <1>6
  <2>2. v \in Due
    BY <1>2, <1>5, <1>6
  <2>3. CASE w = t
    BY <2>1, <2>3, <1>5
  <2>4. CASE w \in Due
    <3>1. <<u, v>> \in older /\ <<v, w>> \in older
      BY <2>1, <2>2, <2>4, <1>4
    <3>2. <<u, w>> \in older
      BY <3>1, <2>1, <2>2, <2>4 DEF TypeOrder
    <3> QED
      BY <3>2, <1>1
  <2> QED
    BY <2>3, <2>4, <1>2
<1>10. TypeTable'
  BY <1>1 DEF TypeTable, Live
<1> QED
  BY <1>3, <1>7, <1>8, <1>9, <1>10 DEF TypeOrder

\* No task disappears, so what the pass has in hand stays.
LEMMA PassKept ==
  ASSUME TypePass, pass' = pass, \A t \in Ids : Live(t) => Live(t)'
  PROVE  TypePass'
  BY DEF TypePass

\* A pass that rests has nothing in hand.
LEMMA RestingPass ==
  ASSUME NEW pc \in {"idle", "series", "forward", "forget"}, pass' = Resting(pc)
  PROVE  TypePass' /\ pass'.pc = pc /\ pass'.todo = {}
<1>1. Series \in Ids
  BY SeriesIsTask
<1>2. [t \in Ids |-> "null"] \in [Ids -> Recurs]
  BY DEF Recurs
<1> QED
  BY <1>1, <1>2 DEF TypePass, Resting, Pass, Working, Recurs

\* Moving to the next statement for the task in hand.
LEMMA Onward ==
  ASSUME TypePass, NEW pc \in Working, pass.pc \in Working, Goto(pc),
         \A t \in Ids : Live(t) => Live(t)'
  PROVE  /\ TypePass'
         /\ pass'.pc = pc /\ pass'.at = pass.at /\ pass'.todo = pass.todo
  BY DEF TypePass, Goto, Working

LEMMA OnwardResting ==
  ASSUME TypePass, NEW pc \in {"forward", "forget"}, pass.pc \notin Working, Goto(pc),
         \A t \in Ids : Live(t) => Live(t)'
  PROVE  /\ TypePass'
         /\ pass'.pc = pc /\ pass'.todo = {}
  BY DEF TypePass, Goto, Working

\* Taking up the next task: one of those left, and none is added.
LEMMA TakenUp ==
  ASSUME NEW todo \in SUBSET Ids, NEW before, NEW rec \in [Ids -> Recurs],
         TakeUp(todo, before, rec), \A t \in todo : Live(t)'
  PROVE  /\ TypePass'
         /\ pass'.todo = todo
         /\ pass'.pc \in {"insert", "series"}
<1>1. CASE todo = {}
  <2>1. pass' = Resting("series")
    BY <1>1 DEF TakeUp
  <2> QED
    BY <2>1, <1>1, RestingPass
<1>2. CASE todo # {}
  <2>1. PICK t \in todo :
           pass' = Pass("insert", t, todo, before \cap (todo \X todo), rec)
    BY <1>2 DEF TakeUp
  <2>2. before \cap (todo \X todo) \in SUBSET (Ids \X Ids)
    OBVIOUS
  <2> QED
    BY <2>1, <2>2 DEF TypePass, Pass, Working, Recurs
<1> QED
  BY <1>1, <1>2

\* What a step that leaves the table alone has to keep.
LEMMA TableKept ==
  ASSUME TypeTable, TypeOrder, UNCHANGED table
  PROVE  TypeTable' /\ TypeOrder' /\ \A t \in Ids : Live(t) => Live(t)'
<1>1. status' = status /\ recur' = recur /\ next' = next /\ older' = older
  BY DEF table
<1>2. Due' = Due
  BY <1>1 DEF Due
<1> QED
  BY <1>1, <1>2 DEF TypeTable, TypeOrder, Live

LEMMA SeenKept ==
  ASSUME TypeSeen, UNCHANGED obs
  PROVE  TypeSeen'
  BY DEF TypeSeen, obs

LEMMA RowKept ==
  ASSUME TypeRow, op' = op, \A t \in Ids : Live(t) => Live(t)'
  PROVE  TypeRow'
  BY DEF TypeRow

LEMMA RestKept ==
  ASSUME TypeRest, UNCHANGED <<legacy, ops, broken, faults>>
  PROVE  TypeRest'
  BY DEF TypeRest

LEMMA FaultTyped ==
  ASSUME TypeRest, Fault, UNCHANGED <<legacy, ops, broken>>
  PROVE  TypeRest' /\ faults' = faults + 1
  BY ScheduleAssumption DEF TypeRest, Fault

LEMMA InitType == Init => TypeOK
<1> SUFFICES ASSUME Init PROVE TypeOK
  OBVIOUS
<1>1. Series \in Ids
  BY SeriesIsTask
<1>2. TypeTable
  BY DEF Init, TypeTable, Statuses, Live
<1>3. Due = {}
  BY DEF Init, Due
<1>4. TypeOrder
  BY <1>3 DEF Init, TypeOrder
<1>5. TypePass
  <2>1. pass = Resting("idle")
    BY DEF Init, IdlePass
  <2>2. [t \in Ids |-> "null"] \in [Ids -> {"null", "cron", "bad"}]
    OBVIOUS
  <2> QED
    BY <2>1, <2>2, <1>1 DEF TypePass, Resting, Pass, Working
<1>6. TypeRow
  BY <1>1 DEF Init, TypeRow, NoOp, Row, Whens
<1>7. TypeRest
  BY ScheduleAssumption DEF Init, TypeRest
<1>8. TypeSeen
  BY DEF Init, TypeSeen
<1> QED
  BY <1>2, <1>4, <1>5, <1>6, <1>7, <1>8 DEF TypeOK

LEMMA EmitType ==
  ASSUME TypeOK, Emit
  PROVE  TypeOK'
<1>1. /\ UNCHANGED table /\ pass' = pass
      /\ ops' = ops + 1 /\ ops < MaxOps
      /\ UNCHANGED <<legacy, broken, faults, extra, fresh, uncounted, late>>
  BY DEF Emit
<1>2. TypeTable' /\ TypeOrder' /\ TypePass' /\ \A t \in Ids : Live(t) => Live(t)'
  BY <1>1, TableKept, PassKept DEF TypeOK
<1>3. TypeRest'
  BY <1>1, ScheduleAssumption DEF TypeOK, TypeRest
<1>4. TypeRow' /\ TypeSeen'
  <2>1. Series \in Ids
    BY SeriesIsTask
  <2>2. CASE \E when \in Whens, rec \in Recurrences :
               op' = Row("create", Series, when, rec) /\ UNCHANGED want
    <3>1. PICK when \in Whens, rec \in Recurrences :
               op' = Row("create", Series, when, rec) /\ UNCHANGED want
      BY <2>2
    <3>2. rec \in {"null", "cron", "bad"}
      BY ScheduleAssumption
    <3>3. TypeRow'
      BY <2>1, <3>1, <3>2 DEF TypeRow, Row
    <3> QED
      BY <3>1, <3>3, <1>1 DEF TypeOK, TypeSeen
  <2>3. CASE \E kind \in {"cancel", "pause", "resume"}, t \in Ids :
               Live(t) /\ op' = Row(kind, t, "absent", "null") /\ UNCHANGED want
    <3>1. TypeRow'
      BY <1>2, <2>3 DEF TypeRow, Row, Whens
    <3> QED
      BY <2>3, <3>1, <1>1 DEF TypeOK, TypeSeen
  <2>4. CASE \E t \in Ids, when \in Whens, rec \in Recurrences, keep \in BOOLEAN :
               /\ Live(t) /\ op' = Row("update", t, when, rec)
               /\ want' = [want EXCEPT ![t] = IF keep THEN @ ELSE rec]
    <3>1. PICK t \in Ids, when \in Whens, rec \in Recurrences, keep \in BOOLEAN :
               /\ Live(t) /\ op' = Row("update", t, when, rec)
               /\ want' = [want EXCEPT ![t] = IF keep THEN @ ELSE rec]
      BY <2>4
    <3>2. rec \in {"null", "cron", "bad"}
      BY ScheduleAssumption
    <3>3. TypeRow'
      BY <1>2, <3>1, <3>2 DEF TypeRow, Row
    <3>4. want' \in [Ids -> {"null", "cron", "bad"}]
      BY <3>1, <3>2 DEF TypeOK, TypeSeen
    <3> QED
      BY <3>3, <3>4, <1>1 DEF TypeOK, TypeSeen
  <2> QED
    BY <2>2, <2>3, <2>4 DEF Emit
<1> QED
  BY <1>2, <1>3, <1>4 DEF TypeOK

\* A refused creation changes nothing but the row; the other takes an id that
\* no task has.
CreatesAt(t) ==
    /\ ~ Live(t)
    /\ status' = [status EXCEPT ![t] = "active"]
    /\ recur' = [recur EXCEPT ![t] = op.recur]
    /\ set_next_fire(t, compute_next_fire(op.when, op.recur))
    /\ want' = [want EXCEPT ![t] = op.recur]
    /\ Applied

LEMMA CreateCases ==
  ASSUME op_create
  PROVE  /\ \/ op' = NoOp /\ UNCHANGED <<table, fresh, want>>
            \/ \E t \in Ids \ {Series} : CreatesAt(t)
         /\ UNCHANGED <<pass, legacy, ops, broken, faults, extra, uncounted, late>>
  BY DEF op_create, CreatesAt

\* Adding a task in status active, with whatever next_fire.
LEMMA TableGrows ==
  ASSUME TypeTable, TypeOrder, NEW t \in Ids, NEW rec \in Recurs,
         NEW value \in {"none", "later"},
         status' = [status EXCEPT ![t] = "active"],
         recur' = [recur EXCEPT ![t] = rec],
         next' = [next EXCEPT ![t] = value], older' = Without(t)
  PROVE  TypeTable' /\ TypeOrder' /\ \A u \in Ids : Live(u) => Live(u)'
<1>1. /\ TypeOrder'
      /\ next' \in [Ids -> {"none", "later", "due"}]
      /\ next'[t] = value
      /\ \A u \in Ids \ {t} : next'[u] = next[u]
  BY NextWritten
<1>2. status' \in [Ids -> Statuses] /\ recur' \in [Ids -> {"null", "cron", "bad"}]
  BY DEF TypeTable, Statuses, Recurs
<1>3. status'[t] = "active" /\ \A u \in Ids \ {t} : status'[u] = status[u]
  BY DEF TypeTable
<1> QED
  BY <1>1, <1>2, <1>3 DEF TypeTable, Live

LEMMA NoOpTyped == op' = NoOp => TypeRow'
  BY SeriesIsTask DEF TypeRow, NoOp, Row, Whens

LEMMA AppliedTyped ==
  ASSUME TypeRow, NEW pc \in {"new", "next", "applied"}, op' = [op EXCEPT !.pc = pc],
         \A t \in Ids : Live(t) => Live(t)'
  PROVE  TypeRow' /\ op'.kind = op.kind
  BY DEF TypeRow

LEMMA CreateType ==
  ASSUME TypeOK, op_create
  PROVE  TypeOK'
<1>1. UNCHANGED <<pass, legacy, ops, broken, faults, extra, uncounted, late>>
  BY CreateCases
<1>2. TypeRest'
  BY <1>1, RestKept DEF TypeOK
<1>3. CASE op' = NoOp /\ UNCHANGED <<table, fresh, want>>
  <2>1. UNCHANGED obs
    BY <1>1, <1>3 DEF obs
  <2> QED
    BY <1>1, <1>2, <1>3, <2>1, TableKept, PassKept, SeenKept, NoOpTyped DEF TypeOK
<1>4. CASE \E t \in Ids \ {Series} : CreatesAt(t)
  <2>1. PICK t \in Ids : CreatesAt(t)
    BY <1>4
  <2> DEFINE value == compute_next_fire(op.when, op.recur)
  <2>2. value \in {"none", "later"}
    BY ComputedNext
  <2>3. op.recur \in Recurs
    BY DEF TypeOK, TypeRow, Recurs
  <2>4. /\ next' = [next EXCEPT ![t] = value]
        /\ older' = Without(t)
        /\ fresh' = [fresh EXCEPT ![t] = IF value = "later" THEN "yes" ELSE "no"]
    BY <2>1 DEF CreatesAt, set_next_fire
  <2> HIDE DEF value
  <2>5. TypeTable' /\ TypeOrder' /\ \A u \in Ids : Live(u) => Live(u)'
    BY <2>1, <2>2, <2>3, <2>4, TableGrows DEF TypeOK, CreatesAt
  <2>6. TypePass'
    BY <1>1, <2>5, PassKept DEF TypeOK
  <2>7. TypeRow'
    BY <2>1, <2>5, AppliedTyped DEF TypeOK, CreatesAt, Applied
  <2>8. TypeSeen'
    BY <1>1, <2>1, <2>3, <2>4 DEF TypeOK, TypeSeen, CreatesAt, Recurs
  <2> QED
    BY <1>2, <2>5, <2>6, <2>7, <2>8 DEF TypeOK
<1> QED
  BY <1>3, <1>4, CreateCases

LEMMA SetStatusType ==
  ASSUME TypeOK, op_set_status
  PROVE  TypeOK'
<1>1. /\ op.kind \in {"cancel", "pause", "resume"}
      /\ status' = [status EXCEPT ![op.id] = StatusOf(op.kind)]
      /\ late' = [late EXCEPT ![op.id] = 0]
      /\ op' = [op EXCEPT !.pc = "applied"]
      /\ UNCHANGED <<recur, next, older, pass, legacy, ops, broken, faults,
                     extra, fresh, uncounted, want>>
  BY DEF op_set_status, Applied
<1>2. StatusOf(op.kind) \in {"cancelled", "paused", "active"}
  BY <1>1, StatusWritten
<1>3. op.id \in Ids
  BY DEF TypeOK, TypeRow
<1>4. status' \in [Ids -> Statuses] /\ \A t \in Ids : Live(t) => Live(t)'
  BY <1>1, <1>2, <1>3 DEF TypeOK, TypeTable, Statuses, Live
<1>5. TypeTable'
  <2>1. \A t \in Ids : ~ Live(t)' => ~ Live(t)
    BY <1>4
  <2> QED
    BY <1>1, <1>4, <2>1 DEF TypeOK, TypeTable
<1>6. TypeOrder'
  <2>1. Due' = Due
    BY <1>1 DEF Due
  <2> QED
    BY <1>1, <2>1 DEF TypeOK, TypeOrder
<1>7. TypePass'
  BY <1>1, <1>4, PassKept DEF TypeOK
<1>8. TypeRow'
  BY <1>1, <1>4, AppliedTyped DEF TypeOK
<1>9. TypeSeen'
  BY <1>1, <1>3 DEF TypeOK, TypeSeen
<1> QED
  BY <1>1, <1>5, <1>6, <1>7, <1>8, <1>9, RestKept DEF TypeOK

LEMMA UpdateType ==
  ASSUME TypeOK, op_update
  PROVE  TypeOK'
<1>1. /\ recur' = [recur EXCEPT ![op.id] = op.recur]
      /\ op' = [op EXCEPT !.pc = IF op.when = "absent" THEN "applied" ELSE "next"]
      /\ UNCHANGED <<status, next, older, pass, legacy, ops, broken, faults, obs>>
  BY DEF op_update
<1>2. op.id \in Ids /\ op.recur \in {"null", "cron", "bad"}
  BY DEF TypeOK, TypeRow
<1>3. TypeTable' /\ \A t \in Ids : Live(t) => Live(t)'
  BY <1>1, <1>2 DEF TypeOK, TypeTable, Live
<1>4. TypeOrder'
  <2>1. Due' = Due
    BY <1>1 DEF Due
  <2> QED
    BY <1>1, <2>1 DEF TypeOK, TypeOrder
<1>5. TypeRow'
  <2> DEFINE pc == IF op.when = "absent" THEN "applied" ELSE "next"
  <2>1. pc \in {"new", "next", "applied"}
    OBVIOUS
  <2>2. op' = [op EXCEPT !.pc = pc]
    BY <1>1
  <2> HIDE DEF pc
  <2> QED
    BY <1>3, <2>1, <2>2, AppliedTyped DEF TypeOK
<1> QED
  BY <1>1, <1>3, <1>4, <1>5, PassKept, RestKept, SeenKept DEF TypeOK

\* What the second statement of an update writes.
LEMMA UpdateNextEffect ==
  ASSUME TypeOK, update_next_fire
  PROVE  /\ op.kind = "update" /\ op.id \in Ids
         /\ \E value \in {"none", "later"} :
              /\ next' = [next EXCEPT ![op.id] = value]
              /\ older' = Without(op.id)
              /\ fresh' = [fresh EXCEPT ![op.id] =
                             IF op.id \in pass.todo THEN "raced"
                             ELSE IF value = "later" THEN "yes" ELSE "no"]
         /\ op' = [op EXCEPT !.pc = "applied"]
         /\ UNCHANGED <<status, recur, pass, legacy, ops, broken, faults,
                        extra, uncounted, late, want>>
<1>1. op.id \in Ids
  BY DEF TypeOK, TypeRow
<1>2. compute_next_fire(op.when, op.recur) \in {"none", "later"}
  BY ComputedNext
<1> QED
  BY <1>1, <1>2 DEF update_next_fire, Applied

LEMMA UpdateNextType ==
  ASSUME TypeOK, update_next_fire
  PROVE  TypeOK'
<1>1. PICK value \in {"none", "later"} :
              /\ next' = [next EXCEPT ![op.id] = value]
              /\ older' = Without(op.id)
              /\ fresh' = [fresh EXCEPT ![op.id] =
                             IF op.id \in pass.todo THEN "raced"
                             ELSE IF value = "later" THEN "yes" ELSE "no"]
  BY UpdateNextEffect
<1>2. /\ op' = [op EXCEPT !.pc = "applied"] /\ op.id \in Ids
      /\ UNCHANGED <<status, recur, pass, legacy, ops, broken, faults,
                     extra, uncounted, late, want>>
  BY UpdateNextEffect
<1>3. /\ TypeOrder'
      /\ next' \in [Ids -> {"none", "later", "due"}]
      /\ next'[op.id] = value
      /\ \A u \in Ids \ {op.id} : next'[u] = next[u]
  BY <1>1, <1>2, NextWritten DEF TypeOK
<1>4. \A t \in Ids : Live(t)' <=> Live(t)
  BY <1>2 DEF Live
<1>5. TypeTable'
  <2>1. Live(op.id)
    BY UpdateNextEffect DEF TypeOK, TypeRow
  <2> QED
    BY <1>2, <1>3, <1>4, <2>1 DEF TypeOK, TypeTable
<1>6. TypePass' /\ TypeRow' /\ TypeRest'
  BY <1>2, <1>4, PassKept, AppliedTyped, RestKept DEF TypeOK
<1>7. TypeSeen'
  BY <1>1, <1>2 DEF TypeOK, TypeSeen
<1> QED
  BY <1>3, <1>5, <1>6, <1>7 DEF TypeOK

LEMMA DeliveredType ==
  ASSUME TypeOK, Delivered
  PROVE  TypeOK'
  BY TableKept, PassKept, NoOpTyped, RestKept, SeenKept DEF TypeOK, Delivered

-----------------------------------------------------------------------------
(* The pass and the faults.                                                *)

LEMMA ListType ==
  ASSUME TypeOK, list
  PROVE  /\ TypeOK'
         /\ pass'.todo \subseteq Due /\ \A t \in pass'.todo : status[t] = "active"
         /\ pass'.pc \in {"insert", "series"}
<1>1. /\ TakeUp(list_due, older, recur)
      /\ UNCHANGED <<table, legacy, op, ops, broken, faults, obs>>
  BY DEF list
<1>2. TypeTable' /\ TypeOrder' /\ \A t \in Ids : Live(t) => Live(t)'
  BY <1>1, TableKept DEF TypeOK
<1>3. list_due \in SUBSET Ids /\ \A t \in list_due : Live(t)'
  BY <1>2 DEF list_due, Due, Live
<1>4. TypePass' /\ pass'.todo = list_due /\ pass'.pc \in {"insert", "series"}
  BY <1>1, <1>3, TakenUp DEF TypeOK, TypeTable, Recurs
<1>5. TypeOK'
  BY <1>1, <1>2, <1>4, RowKept, RestKept, SeenKept DEF TypeOK
<1> QED
  BY <1>4, <1>5 DEF list_due

\* Going on to the next task.
LEMMA NextTaken ==
  ASSUME TypePass, NextTask, \A t \in Ids : Live(t) => Live(t)'
  PROVE  /\ TypePass'
         /\ pass'.todo = pass.todo \ {pass.at}
         /\ pass'.pc \in {"insert", "series"}
<1> DEFINE todo == pass.todo \ {pass.at}
<1>1. TakeUp(todo, pass.older, pass.recur)
  BY DEF NextTask
<1>2. todo \in SUBSET Ids /\ \A t \in todo : Live(t)'
  BY DEF TypePass
<1>3. pass.recur \in [Ids -> Recurs]
  BY DEF TypePass, Recurs
<1> HIDE DEF todo
<1>4. TypePass' /\ pass'.todo = todo /\ pass'.pc \in {"insert", "series"}
  BY <1>1, <1>2, <1>3, TakenUp
<1> QED
  BY <1>4 DEF todo

LEMMA InsertType ==
  ASSUME TypeOK, insert_in
  PROVE  /\ TypeOK' /\ pass.at \in pass.todo /\ pass.at \in Ids
         /\ pass'.pc = "mark" /\ pass'.at = pass.at /\ pass'.todo = pass.todo
<1>1. /\ pass.pc = "insert" /\ Message(pass.at) /\ Goto("mark")
      /\ UNCHANGED <<table, legacy, op, ops, broken, faults, want>>
  BY DEF insert_in, At
<1>2. TypeTable' /\ TypeOrder' /\ \A t \in Ids : Live(t) => Live(t)'
  BY <1>1, TableKept DEF TypeOK
<1>3. pass.at \in pass.todo /\ pass.at \in Ids
  BY <1>1 DEF TypeOK, TypePass, Working
<1>4. /\ TypePass'
      /\ pass'.pc = "mark" /\ pass'.at = pass.at /\ pass'.todo = pass.todo
  BY <1>1, <1>2, Onward DEF TypeOK, Working
<1>5. TypeSeen'
  BY <1>1, <1>3 DEF TypeOK, TypeSeen, Message
<1> QED
  BY <1>1, <1>2, <1>3, <1>4, <1>5, RowKept, RestKept DEF TypeOK

LEMMA MarkType ==
  ASSUME TypeOK, mark_fired
  PROVE  /\ TypeOK' /\ pass.at \in pass.todo /\ pass.at \in Ids
         /\ pass'.pc = "rearm" /\ pass'.at = pass.at /\ pass'.todo = pass.todo
<1>1. /\ pass.pc = "mark" /\ Goto("rearm")
      /\ uncounted' = [uncounted EXCEPT ![pass.at] = @ - 1]
      /\ UNCHANGED <<table, legacy, op, ops, broken, faults, extra, fresh, late, want>>
  BY DEF mark_fired, At
<1>2. TypeTable' /\ TypeOrder' /\ \A t \in Ids : Live(t) => Live(t)'
  BY <1>1, TableKept DEF TypeOK
<1>3. pass.at \in pass.todo /\ pass.at \in Ids
  BY <1>1 DEF TypeOK, TypePass, Working
<1>4. /\ TypePass'
      /\ pass'.pc = "rearm" /\ pass'.at = pass.at /\ pass'.todo = pass.todo
  BY <1>1, <1>2, Onward DEF TypeOK, Working
<1>5. TypeSeen'
  BY <1>1, <1>3 DEF TypeOK, TypeSeen
<1> QED
  BY <1>1, <1>2, <1>3, <1>4, <1>5, RowKept, RestKept DEF TypeOK
LEMMA RearmCases ==
  ASSUME TypeOK, rearm_or_complete
  PROVE  /\ pass.pc = "rearm" /\ pass.at \in pass.todo /\ pass.at \in Ids
         /\ \/ set_next_fire(pass.at, "later") /\ NextTask /\ UNCHANGED status
            \/ /\ status' = [status EXCEPT ![pass.at] = "completed"]
               /\ Goto("clear") /\ UNCHANGED <<next, older, fresh>>
         /\ UNCHANGED <<recur, legacy, op, ops, broken, faults,
                        extra, uncounted, late, want>>
  BY DEF rearm_or_complete, At, TypeOK, TypePass, Working

LEMMA RearmType ==
  ASSUME TypeOK, rearm_or_complete
  PROVE  TypeOK'
<1>1. /\ pass.pc = "rearm" /\ pass.at \in pass.todo /\ pass.at \in Ids
      /\ UNCHANGED <<recur, legacy, op, ops, broken, faults,
                     extra, uncounted, late, want>>
  BY RearmCases
<1>2. Live(pass.at)
  BY <1>1 DEF TypeOK, TypePass
<1>3. CASE set_next_fire(pass.at, "later") /\ NextTask /\ UNCHANGED status
  <2>1. /\ next' = [next EXCEPT ![pass.at] = "later"] /\ older' = Without(pass.at)
        /\ fresh' = [fresh EXCEPT ![pass.at] = "yes"]
    BY <1>3 DEF set_next_fire
  <2>2. /\ TypeOrder'
        /\ next' \in [Ids -> {"none", "later", "due"}]
        /\ next'[pass.at] = "later"
        /\ \A u \in Ids \ {pass.at} : next'[u] = next[u]
    BY <1>1, <2>1, NextWritten DEF TypeOK
  <2>3. \A t \in Ids : Live(t)' <=> Live(t)
    BY <1>3 DEF Live
  <2>4. TypeTable'
    BY <1>1, <1>2, <1>3, <2>2, <2>3 DEF TypeOK, TypeTable
  <2>5. TypePass'
    BY <1>3, <2>3, NextTaken DEF TypeOK
  <2>6. TypeSeen'
    BY <1>1, <2>1 DEF TypeOK, TypeSeen
  <2> QED
    BY <1>1, <2>2, <2>3, <2>4, <2>5, <2>6, RowKept, RestKept DEF TypeOK
<1>4. CASE /\ status' = [status EXCEPT ![pass.at] = "completed"]
           /\ Goto("clear") /\ UNCHANGED <<next, older, fresh>>
  <2>1. status' \in [Ids -> Statuses] /\ \A t \in Ids : Live(t)' <=> Live(t)
    BY <1>1, <1>2, <1>4 DEF TypeOK, TypeTable, Statuses, Live
  <2>2. TypeTable'
    BY <1>1, <1>4, <2>1 DEF TypeOK, TypeTable
  <2>3. TypeOrder'
    <3>1. Due' = Due
      BY <1>4 DEF Due
    <3> QED
      BY <1>4, <3>1 DEF TypeOK, TypeOrder
  <2>4. TypePass'
    BY <1>1, <1>4, <2>1, Onward DEF TypeOK, Working
  <2>5. TypeSeen'
    BY <1>1, <1>4 DEF TypeOK, TypeSeen
  <2> QED
    BY <1>1, <2>1, <2>2, <2>3, <2>4, <2>5, RowKept, RestKept DEF TypeOK
<1> QED
  BY <1>3, <1>4, RearmCases

LEMMA ClearType ==
  ASSUME TypeOK, clear_next_fire
  PROVE  /\ TypeOK' /\ pass.at \in pass.todo /\ pass.at \in Ids
         /\ pass'.todo = pass.todo \ {pass.at} /\ pass'.pc \in {"insert", "series"}
         /\ next'[pass.at] = "none" /\ \A u \in Ids \ {pass.at} : next'[u] = next[u]
         /\ fresh' = [fresh EXCEPT ![pass.at] = "no"]
<1>1. /\ pass.pc = "clear" /\ NextTask
      /\ next' = [next EXCEPT ![pass.at] = "none"] /\ older' = Without(pass.at)
      /\ fresh' = [fresh EXCEPT ![pass.at] = "no"]
      /\ UNCHANGED <<status, recur, legacy, op, ops, broken, faults,
                     extra, uncounted, late, want>>
  BY DEF clear_next_fire, At, set_next_fire
<1>2. pass.at \in pass.todo /\ pass.at \in Ids
  BY <1>1 DEF TypeOK, TypePass, Working
<1>3. /\ TypeOrder'
      /\ next' \in [Ids -> {"none", "later", "due"}]
      /\ next'[pass.at] = "none"
      /\ \A u \in Ids \ {pass.at} : next'[u] = next[u]
  BY <1>1, <1>2, NextWritten DEF TypeOK
<1>4. \A t \in Ids : Live(t)' <=> Live(t)
  BY <1>1 DEF Live
<1>5. TypeTable'
  BY <1>1, <1>2, <1>3, <1>4 DEF TypeOK, TypeTable
<1>6. /\ TypePass' /\ pass'.todo = pass.todo \ {pass.at}
      /\ pass'.pc \in {"insert", "series"}
  BY <1>1, <1>4, NextTaken DEF TypeOK
<1>7. TypeSeen'
  BY <1>1, <1>2 DEF TypeOK, TypeSeen
<1> QED
  BY <1>1, <1>2, <1>3, <1>4, <1>5, <1>6, <1>7, RowKept, RestKept DEF TypeOK

LEMMA FailsType ==
  ASSUME TypeOK, check_fails
  PROVE  /\ TypeOK' /\ pass'.todo = {} /\ pass'.pc = "series"
         /\ faults' = faults + 1 \/ (pass.pc = "insert" /\ faults' = faults)
<1>1. /\ pass' = Resting("series")
      /\ UNCHANGED <<table, legacy, op, ops, broken, obs>>
      /\ (pass.pc = "insert" /\ faults' = faults) \/ Fault
  BY DEF check_fails, Abort, At
<1>2. TypeTable' /\ TypeOrder' /\ \A t \in Ids : Live(t) => Live(t)'
  BY <1>1, TableKept DEF TypeOK
<1>3. TypePass' /\ pass'.todo = {} /\ pass'.pc = "series"
  BY <1>1, RestingPass
<1>4. TypeRest' /\ (faults' = faults + 1 \/ (pass.pc = "insert" /\ faults' = faults))
  <2>1. CASE pass.pc = "insert" /\ faults' = faults
    BY <1>1, <2>1, RestKept DEF TypeOK
  <2>2. CASE Fault
    BY <1>1, <2>2, FaultTyped DEF TypeOK
  <2> QED
    BY <1>1, <2>1, <2>2
<1> QED
  BY <1>1, <1>2, <1>3, <1>4, RowKept, SeenKept DEF TypeOK

\* The pass outside of scheduling::check holds no task.
LEMMA EndPassRests ==
  ASSUME EndPass
  PROVE  TypePass' /\ pass'.todo = {} /\ pass'.pc = "idle"
  BY RestingPass DEF EndPass, IdlePass

LEMMA SeriesType ==
  ASSUME TypeOK, newest_per_series
  PROVE  TypeOK' /\ pass'.todo = {} /\ pass'.pc \in {"idle", "forward"}
<1>1. /\ pass.pc = "series"
      /\ Goto("forward") \/ EndPass
      /\ UNCHANGED <<table, legacy, op, ops, broken, faults, obs>>
  BY DEF newest_per_series, At
<1>2. TypeTable' /\ TypeOrder' /\ \A t \in Ids : Live(t) => Live(t)'
  BY <1>1, TableKept DEF TypeOK
<1>3. TypePass' /\ pass'.todo = {} /\ pass'.pc \in {"idle", "forward"}
  <2>1. CASE Goto("forward")
    BY <1>1, <1>2, <2>1, OnwardResting DEF TypeOK, Working
  <2>2. CASE EndPass
    BY <2>2, EndPassRests
  <2> QED
    BY <1>1, <2>1, <2>2
<1> QED
  BY <1>1, <1>2, <1>3, RowKept, RestKept, SeenKept DEF TypeOK

LEMMA ForwardCases ==
  ASSUME forward_series
  PROVE  /\ pass.pc = "forward" /\ Goto("forget")
         /\ \/ UNCHANGED <<table, fresh, want>>
            \/ /\ ~ Live(Series)
               /\ status' = [status EXCEPT ![Series] = "active"]
               /\ recur' = [recur EXCEPT ![Series] = "cron"]
               /\ want' = [want EXCEPT ![Series] = "cron"]
               /\ next' = [next EXCEPT ![Series] = "later"]
               /\ older' = Without(Series)
               /\ fresh' = [fresh EXCEPT ![Series] = "yes"]
         /\ UNCHANGED <<legacy, op, ops, broken, faults, extra, uncounted, late>>
  BY DEF forward_series, At, set_next_fire

LEMMA ForwardType ==
  ASSUME TypeOK, forward_series
  PROVE  TypeOK' /\ pass'.todo = {} /\ pass'.pc = "forget"
<1>1. /\ pass.pc = "forward" /\ Goto("forget")
      /\ UNCHANGED <<legacy, op, ops, broken, faults, extra, uncounted, late>>
  BY ForwardCases
<1>2. /\ TypeTable' /\ TypeOrder' /\ TypeSeen' /\ \A t \in Ids : Live(t) => Live(t)'
  <2>1. CASE UNCHANGED <<table, fresh, want>>
    <3>1. UNCHANGED obs
      BY <1>1, <2>1 DEF obs
    <3> QED
      BY <2>1, <3>1, TableKept, SeenKept DEF TypeOK
  <2>2. CASE /\ ~ Live(Series)
             /\ status' = [status EXCEPT ![Series] = "active"]
             /\ recur' = [recur EXCEPT ![Series] = "cron"]
             /\ want' = [want EXCEPT ![Series] = "cron"]
             /\ next' = [next EXCEPT ![Series] = "later"]
             /\ older' = Without(Series)
             /\ fresh' = [fresh EXCEPT ![Series] = "yes"]
    <3>1. Series \in Ids /\ "cron" \in Recurs
      BY SeriesIsTask DEF Recurs
    <3>2. TypeTable' /\ TypeOrder' /\ \A u \in Ids : Live(u) => Live(u)'
      BY <2>2, <3>1, TableGrows DEF TypeOK
    <3>3. TypeSeen'
      BY <1>1, <2>2, <3>1 DEF TypeOK, TypeSeen
    <3> QED
      BY <3>2, <3>3
  <2> QED
    BY <2>1, <2>2, ForwardCases
<1>3. TypePass' /\ pass'.todo = {} /\ pass'.pc = "forget"
  BY <1>1, <1>2, OnwardResting DEF TypeOK, Working
<1> QED
  BY <1>1, <1>2, <1>3, RowKept, RestKept DEF TypeOK

LEMMA ForgetType ==
  ASSUME TypeOK, clear_series_recurrence
  PROVE  TypeOK' /\ pass'.todo = {} /\ pass'.pc = "idle"
<1>1. /\ legacy' = FALSE /\ EndPass
      /\ UNCHANGED <<table, op, ops, broken, faults, obs>>
  BY DEF clear_series_recurrence
<1>2. TypeTable' /\ TypeOrder' /\ \A t \in Ids : Live(t) => Live(t)'
  BY <1>1, TableKept DEF TypeOK
<1>3. FALSE \in BOOLEAN
  OBVIOUS
<1>4. TypeRest'
  BY <1>1, <1>3 DEF TypeOK, TypeRest
<1> QED
  BY <1>1, <1>2, <1>4, EndPassRests, RowKept, SeenKept DEF TypeOK

LEMMA SeriesFailsType ==
  ASSUME TypeOK, series_fails
  PROVE  TypeOK' /\ pass'.todo = {} /\ pass'.pc = "idle" /\ faults' = faults + 1
<1>1. /\ Fault /\ EndPass
      /\ UNCHANGED <<table, legacy, op, ops, broken, obs>>
  BY DEF series_fails
<1>2. TypeTable' /\ TypeOrder' /\ \A t \in Ids : Live(t) => Live(t)'
  BY <1>1, TableKept DEF TypeOK
<1> QED
  BY <1>1, <1>2, EndPassRests, FaultTyped, RowKept, SeenKept DEF TypeOK

LEMMA CrashType ==
  ASSUME TypeOK, HostCrashes
  PROVE  TypeOK' /\ pass'.todo = {} /\ pass'.pc = "idle" /\ faults' = faults + 1
<1>1. /\ Fault /\ pass' = IdlePass /\ op' = [op EXCEPT !.pc = "new"]
      /\ UNCHANGED <<table, legacy, ops, broken, obs>>
  BY DEF HostCrashes
<1>2. TypeTable' /\ TypeOrder' /\ \A t \in Ids : Live(t) => Live(t)'
  BY <1>1, TableKept DEF TypeOK
<1>3. TypePass' /\ pass'.todo = {} /\ pass'.pc = "idle"
  BY <1>1, RestingPass DEF IdlePass
<1>4. TypeRow'
  BY <1>1, <1>2, AppliedTyped DEF TypeOK
<1> QED
  BY <1>1, <1>2, <1>3, <1>4, FaultTyped, SeenKept DEF TypeOK

LEMMA BreaksType ==
  ASSUME TypeOK, NEW s \in Sessions, SessionBreaks(s)
  PROVE  TypeOK'
<1>1. /\ broken' = broken \cup {s}
      /\ UNCHANGED <<table, pass, legacy, op, ops, faults, obs>>
  BY DEF SessionBreaks
<1>2. TypeTable' /\ TypeOrder' /\ \A t \in Ids : Live(t) => Live(t)'
  BY <1>1, TableKept DEF TypeOK
<1>3. TypeRest'
  BY <1>1 DEF TypeOK, TypeRest
<1> QED
  BY <1>1, <1>2, <1>3, PassKept, RowKept, SeenKept DEF TypeOK

LEMMA ElapseType ==
  ASSUME TypeOK, NEW t \in Ids, Elapse(t)
  PROVE  TypeOK'
<1>1. UNCHANGED <<status, recur, pass, legacy, op, ops, broken, faults, obs>>
  BY DEF Elapse
<1>2. TypeTable' /\ TypeOrder'
  BY ElapseOrder DEF TypeOK
<1>3. \A u \in Ids : Live(u) => Live(u)'
  BY <1>1 DEF Live
<1> QED
  BY <1>1, <1>2, <1>3, PassKept, RowKept, RestKept, SeenKept DEF TypeOK

LEMMA StutterType ==
  ASSUME TypeOK, UNCHANGED vars
  PROVE  TypeOK'
<1>1. UNCHANGED table /\ UNCHANGED obs
      /\ UNCHANGED <<pass, legacy, op, ops, broken, faults>>
  BY DEF vars, table, obs
<1> QED
  BY <1>1, TableKept, PassKept, RowKept, RestKept, SeenKept DEF TypeOK

-----------------------------------------------------------------------------
(* Where an occurrence is.                                                 *)

\* The message of t is written and t not yet re-armed or cleared.
Handled(t) == pass.at = t /\ pass.pc \in {"mark", "rearm", "clear"}

\* The pass has listed t and has still to write its message.
Listed(t) == t \in pass.todo /\ ~ Handled(t)

\* t will be written again although its arming has had its message.
Owed(t) == fresh[t] = "no" /\ ~ Handled(t) /\ (next[t] # "none" \/ t \in pass.todo)

\* A repeated fire, and one that is yet to come, has had a fault to cause it.
Paid == \A t \in Ids : extra[t] <= faults /\ (Owed(t) => extra[t] + 1 <= faults)

Counted ==
    \A t \in Ids :
        /\ 0 <= uncounted[t]
        /\ uncounted[t] <= faults + (IF At("mark") /\ pass.at = t THEN 1 ELSE 0)
        /\ At("mark") /\ pass.at = t => 1 <= uncounted[t]

\* A task that is listed, or may be, was not silenced; or only since.
Quiet ==
    \A t \in Ids :
        /\ late[t] <= 1
        /\ status[t] \in {"absent", "active"} => late[t] = 0
        /\ Listed(t) => late[t] = 0

\* An arming while the pass has the task in hand is known as a race.
InHand == \A t \in Ids : Handled(t) => fresh[t] # "yes"

IInv == TypeOK /\ Paid /\ Counted /\ Quiet /\ InHand

LEMMA InitIInv == Init => IInv
<1> SUFFICES ASSUME Init PROVE IInv
  OBVIOUS
<1>1. TypeOK
  BY InitType
<1>2. pass.pc = "idle" /\ pass.todo = {}
  BY DEF Init, IdlePass, Resting, Pass
<1> QED
  BY <1>1, <1>2 DEF Init, IInv, Paid, Counted, Quiet, InHand, Owed, Listed, Handled, At

\* A step that changes neither what the pass has in hand nor the observations
\* and arms nothing.
LEMMA Calm ==
  ASSUME IInv, TypeOK', UNCHANGED <<pass, faults, extra, fresh, uncounted, late>>,
         \A t \in Ids : next'[t] # "none" => next[t] # "none",
         \A t \in Ids : status'[t] \in {"absent", "active"} => late[t] = 0
  PROVE  IInv'
<1>1. \A t \in Ids : (Handled(t)' <=> Handled(t)) /\ (Listed(t)' <=> Listed(t))
  BY DEF Handled, Listed
<1>2. \A t \in Ids : Owed(t)' => Owed(t)
  BY <1>1 DEF Owed
<1> QED
  BY <1>1, <1>2 DEF IInv, Paid, Counted, Quiet, InHand, At

\* A fault, or the end of the pass, leaves tasks armed whose message is
\* written: the fault pays for them.
LEMMA Dropped ==
  ASSUME IInv, TypeOK', UNCHANGED <<table, obs>>, pass'.todo = {},
         pass'.pc \in {"idle", "series", "forward", "forget"},
         \/ faults' = faults + 1
         \/ faults' = faults /\ pass.pc \notin {"mark", "rearm", "clear"}
  PROVE  IInv'
<1>1. /\ next' = next /\ status' = status
      /\ UNCHANGED <<extra, fresh, uncounted, late>>
  BY DEF table, obs
<1>2. \A t \in Ids : ~ Handled(t)' /\ ~ Listed(t)'
  BY DEF Handled, Listed
<1>3. ~ At("mark")'
  BY DEF At
<1>4. /\ faults \in Nat /\ faults' \in Nat
      /\ \A t \in Ids : extra[t] \in Nat /\ uncounted[t] \in Int
  BY DEF IInv, TypeOK, TypeRest, TypeSeen
<1>5. Paid'
  <2> SUFFICES ASSUME NEW t \in Ids
               PROVE  (extra[t] <= faults)' /\ (Owed(t)' => (extra[t] + 1 <= faults)')
    BY DEF Paid
  <2>1. extra[t] <= faults /\ (Owed(t) => extra[t] + 1 <= faults)
    BY DEF IInv, Paid
  <2>2. CASE faults' = faults + 1
    BY <1>1, <1>4, <2>1, <2>2
  <2>3. CASE faults' = faults /\ pass.pc \notin {"mark", "rearm", "clear"}
    <3>1. Owed(t)' => Owed(t)
      BY <1>1, <2>3 DEF Owed, Handled
    <3> QED
      BY <1>1, <2>1, <2>3, <3>1
  <2> QED
    BY <2>2, <2>3
<1>6. Counted'
  <2> SUFFICES ASSUME NEW t \in Ids
               PROVE  (0 <= uncounted[t])' /\ (uncounted[t] <= faults)'
    BY <1>3, <1>4 DEF Counted
  <2>1. /\ 0 <= uncounted[t]
        /\ uncounted[t] <= faults + (IF At("mark") /\ pass.at = t THEN 1 ELSE 0)
    BY DEF IInv, Counted
  <2>2. CASE faults' = faults + 1
    BY <1>1, <1>4, <2>1, <2>2
  <2>3. CASE faults' = faults /\ ~ At("mark")
    BY <1>1, <1>4, <2>1, <2>3
  <2> QED
    BY <2>2, <2>3 DEF At
<1>7. Quiet' /\ InHand'
  BY <1>1, <1>2 DEF IInv, Quiet, InHand
<1> QED
  BY <1>5, <1>6, <1>7 DEF IInv

\* Writing next_fire, from outside of the pass, arms the task or clears it.
LEMMA Rewritten ==
  ASSUME IInv, TypeOK', NEW t \in Ids, NEW value \in {"none", "later"},
         UNCHANGED <<pass, faults, extra, uncounted, late>>,
         next' = [next EXCEPT ![t] = value],
         fresh' = [fresh EXCEPT ![t] = IF t \in pass.todo THEN "raced"
                                       ELSE IF value = "later" THEN "yes" ELSE "no"],
         \A u \in Ids : status'[u] \in {"absent", "active"} => late[u] = 0
  PROVE  IInv'
<1>1. /\ next'[t] = value
      /\ fresh'[t] = IF t \in pass.todo THEN "raced"
                     ELSE IF value = "later" THEN "yes" ELSE "no"
      /\ \A u \in Ids \ {t} : next'[u] = next[u] /\ fresh'[u] = fresh[u]
  BY DEF IInv, TypeOK, TypeTable, TypeSeen
<1>2. \A u \in Ids : (Handled(u)' <=> Handled(u)) /\ (Listed(u)' <=> Listed(u))
  BY DEF Handled, Listed
<1>3. \A u \in Ids : Owed(u)' => Owed(u)
  BY <1>1, <1>2 DEF Owed
<1>4. \A u \in Ids : Handled(u) => u \in pass.todo
  BY DEF IInv, TypeOK, TypePass, Handled, Working
<1>5. InHand'
  BY <1>1, <1>2, <1>4 DEF IInv, InHand
<1> QED
  BY <1>2, <1>3, <1>5 DEF IInv, Paid, Counted, Quiet, At

-----------------------------------------------------------------------------
(* Every step keeps it.                                                    *)

LEMMA NatsSeen ==
  ASSUME TypeOK
  PROVE  /\ faults \in Nat
         /\ \A t \in Ids : extra[t] \in Nat /\ uncounted[t] \in Int /\ late[t] \in Nat
  BY DEF TypeOK, TypeRest, TypeSeen

LEMMA EmitKeeps ==
  ASSUME IInv, Emit
  PROVE  IInv'
<1>1. TypeOK'
  BY EmitType DEF IInv
<1>2. /\ UNCHANGED <<pass, faults, extra, fresh, uncounted, late>>
      /\ status' = status /\ next' = next
  BY DEF Emit, table
<1> QED
  BY <1>1, <1>2, Calm DEF IInv, Quiet

LEMMA CreateKeeps ==
  ASSUME IInv, op_create
  PROVE  IInv'
<1>1. TypeOK'
  BY CreateType DEF IInv
<1>2. UNCHANGED <<pass, faults, extra, uncounted, late>>
  BY CreateCases
<1>3. CASE op' = NoOp /\ UNCHANGED <<table, fresh, want>>
  <2>1. status' = status /\ next' = next /\ fresh' = fresh
    BY <1>3 DEF table
  <2> QED
    BY <1>1, <1>2, <2>1, Calm DEF IInv, Quiet
<1>4. CASE \E t \in Ids \ {Series} : CreatesAt(t)
  <2>1. PICK t \in Ids : CreatesAt(t)
    BY <1>4
  <2> DEFINE value == compute_next_fire(op.when, op.recur)
  <2>2. value \in {"none", "later"}
    BY ComputedNext
  <2>3. t \notin pass.todo /\ status[t] = "absent"
    BY <2>1 DEF IInv, TypeOK, TypePass, CreatesAt, Live
  <2>4. /\ next' = [next EXCEPT ![t] = value]
        /\ fresh' = [fresh EXCEPT ![t] = IF value = "later" THEN "yes" ELSE "no"]
    BY <2>1 DEF CreatesAt, set_next_fire
  <2> HIDE DEF value
  <2>5. \A u \in Ids : status'[u] \in {"absent", "active"} => late[u] = 0
    BY <2>1, <2>3 DEF CreatesAt, IInv, Quiet, TypeOK, TypeTable
  <2>6. fresh' = [fresh EXCEPT ![t] = IF t \in pass.todo THEN "raced"
                                      ELSE IF value = "later" THEN "yes" ELSE "no"]
    BY <2>3, <2>4
  <2> QED
    BY <1>1, <1>2, <2>2, <2>4, <2>5, <2>6, Rewritten
<1> QED
  BY <1>3, <1>4, CreateCases

LEMMA SetStatusKeeps ==
  ASSUME IInv, op_set_status
  PROVE  IInv'
<1>1. TypeOK'
  BY SetStatusType DEF IInv
<1>2. /\ status' = [status EXCEPT ![op.id] = StatusOf(op.kind)]
      /\ late' = [late EXCEPT ![op.id] = 0]
      /\ UNCHANGED <<next, pass, faults, extra, fresh, uncounted>>
  BY DEF op_set_status
<1>3. op.id \in Ids
  BY DEF IInv, TypeOK, TypeRow
<1>4. /\ late'[op.id] = 0
      /\ \A t \in Ids \ {op.id} : late'[t] = late[t] /\ status'[t] = status[t]
  BY <1>2, <1>3 DEF IInv, TypeOK, TypeSeen, TypeTable
<1>5. \A t \in Ids : /\ Handled(t)' <=> Handled(t)
                     /\ Listed(t)' <=> Listed(t)
                     /\ Owed(t)' <=> Owed(t)
  BY <1>2 DEF Handled, Listed, Owed
<1>6. Quiet'
  BY <1>4, <1>5 DEF IInv, Quiet
<1> QED
  BY <1>1, <1>2, <1>5, <1>6 DEF IInv, Paid, Counted, InHand, At

LEMMA UpdateKeeps ==
  ASSUME IInv, op_update
  PROVE  IInv'
<1>1. TypeOK'
  BY UpdateType DEF IInv
<1>2. /\ UNCHANGED <<pass, faults, extra, fresh, uncounted, late>>
      /\ status' = status /\ next' = next
  BY DEF op_update, obs
<1> QED
  BY <1>1, <1>2, Calm DEF IInv, Quiet

LEMMA UpdateNextKeeps ==
  ASSUME IInv, update_next_fire
  PROVE  IInv'
<1>1. TypeOK /\ TypeOK'
  BY UpdateNextType DEF IInv
<1>2. PICK value \in {"none", "later"} :
         /\ next' = [next EXCEPT ![op.id] = value]
         /\ fresh' = [fresh EXCEPT ![op.id] =
                        IF op.id \in pass.todo THEN "raced"
                        ELSE IF value = "later" THEN "yes" ELSE "no"]
  BY <1>1, UpdateNextEffect
<1>3. op.id \in Ids /\ UNCHANGED <<status, pass, faults, extra, uncounted, late>>
  BY <1>1, UpdateNextEffect
<1>4. \A u \in Ids : status'[u] \in {"absent", "active"} => late[u] = 0
  BY <1>3 DEF IInv, Quiet
<1> QED
  BY <1>1, <1>2, <1>3, <1>4, Rewritten

LEMMA DeliveredKeeps ==
  ASSUME IInv, Delivered
  PROVE  IInv'
<1>1. TypeOK'
  BY DeliveredType DEF IInv
<1>2. /\ UNCHANGED <<pass, faults, extra, fresh, uncounted, late>>
      /\ status' = status /\ next' = next
  BY DEF Delivered, table, obs
<1> QED
  BY <1>1, <1>2, Calm DEF IInv, Quiet

LEMMA ElapseKeeps ==
  ASSUME IInv, NEW t \in Ids, Elapse(t)
  PROVE  IInv'
<1>1. TypeOK'
  BY ElapseType DEF IInv
<1>2. /\ UNCHANGED <<pass, faults, extra, fresh, uncounted, late>>
      /\ status' = status
      /\ next[t] = "later" /\ next' = [next EXCEPT ![t] = "due"]
  BY DEF Elapse, obs
<1>3. \A u \in Ids : next'[u] # "none" => next[u] # "none"
  BY <1>2 DEF IInv, TypeOK, TypeTable
<1> QED
  BY <1>1, <1>2, <1>3, Calm DEF IInv, Quiet

LEMMA BreaksKeeps ==
  ASSUME IInv, NEW s \in Sessions, SessionBreaks(s)
  PROVE  IInv'
<1>1. TypeOK'
  BY BreaksType DEF IInv
<1>2. /\ UNCHANGED <<pass, faults, extra, fresh, uncounted, late>>
      /\ status' = status /\ next' = next
  BY DEF SessionBreaks, table, obs
<1> QED
  BY <1>1, <1>2, Calm DEF IInv, Quiet

LEMMA StutterKeeps ==
  ASSUME IInv, UNCHANGED vars
  PROVE  IInv'
<1>1. TypeOK'
  BY StutterType DEF IInv
<1>2. /\ UNCHANGED <<pass, faults, extra, fresh, uncounted, late>>
      /\ status' = status /\ next' = next
  BY DEF vars
<1> QED
  BY <1>1, <1>2, Calm DEF IInv, Quiet

\* The list holds due tasks in status active, which nobody has silenced.
LEMMA ListKeeps ==
  ASSUME IInv, list
  PROVE  IInv'
<1>1. /\ TypeOK'
      /\ pass'.todo \subseteq Due /\ \A t \in pass'.todo : status[t] = "active"
      /\ pass'.pc \in {"insert", "series"}
  BY ListType DEF IInv
<1>2. /\ pass.pc = "idle" /\ next' = next /\ status' = status
      /\ UNCHANGED <<faults, extra, fresh, uncounted, late>>
  BY DEF list, At, table, obs
<1>3. \A t \in Ids : ~ Handled(t) /\ ~ Handled(t)'
  BY <1>1, <1>2 DEF Handled
<1>4. \A t \in Ids : Owed(t)' => Owed(t)
  BY <1>1, <1>2, <1>3 DEF Owed, Due
<1>5. \A t \in Ids : Listed(t)' => late[t] = 0
  BY <1>1 DEF Listed, IInv, Quiet
<1>6. ~ At("mark") /\ ~ At("mark")'
  BY <1>1, <1>2 DEF At
<1>7. Counted'
  BY <1>2, <1>6 DEF IInv, Counted
<1> QED
  BY <1>1, <1>2, <1>3, <1>4, <1>5, <1>7 DEF IInv, Paid, Quiet, InHand

\* The message uses up the arming, or the fault that left it owed.
LEMMA InsertKeeps ==
  ASSUME IInv, insert_in
  PROVE  IInv'
<1>0. PICK t \in Ids : t = pass.at
  BY InsertType DEF IInv
<1>1. /\ TypeOK' /\ t \in pass.todo /\ t = pass.at
      /\ pass'.pc = "mark" /\ pass'.at = pass.at /\ pass'.todo = pass.todo
  BY <1>0, InsertType DEF IInv
<1>2. /\ pass.pc = "insert" /\ Message(t)
      /\ next' = next /\ status' = status /\ faults' = faults
  BY <1>0 DEF insert_in, At, table
<1>3. /\ extra'[t] = IF fresh[t] = "no" THEN extra[t] + 1 ELSE extra[t]
      /\ fresh'[t] = "no"
      /\ uncounted'[t] = uncounted[t] + 1
      /\ late'[t] = IF status[t] \in {"paused", "cancelled"} THEN late[t] + 1 ELSE 0
  BY <1>1, <1>2 DEF Message, IInv, TypeOK, TypeSeen
<1>4. \A u \in Ids \ {t} : /\ extra'[u] = extra[u] /\ fresh'[u] = fresh[u]
                           /\ uncounted'[u] = uncounted[u] /\ late'[u] = late[u]
  BY <1>1, <1>2 DEF Message, IInv, TypeOK, TypeSeen
<1>5. /\ Handled(t)' /\ ~ Handled(t) /\ Listed(t)
      /\ \A u \in Ids \ {t} : /\ ~ Handled(u) /\ ~ Handled(u)'
                              /\ Listed(u)' <=> Listed(u)
  BY <1>1, <1>2 DEF Handled, Listed
<1>6. Paid'
  <2>1. ~ Owed(t)' /\ \A u \in Ids \ {t} : Owed(u)' <=> Owed(u)
    BY <1>1, <1>2, <1>4, <1>5 DEF Owed
  <2>2. fresh[t] = "no" => Owed(t)
    BY <1>1, <1>5 DEF Owed
  <2>3. (extra[t] <= faults)'
    BY <1>1, <1>2, <1>3, <2>2 DEF IInv, Paid
  <2>4. \A u \in Ids \ {t} : (extra[u] <= faults)' /\ (Owed(u)' => (extra[u] + 1 <= faults)')
    BY <1>2, <1>4, <2>1 DEF IInv, Paid
  <2> QED
    BY <2>1, <2>3, <2>4 DEF Paid
<1>7. Counted'
  <2>1. ~ At("mark") /\ At("mark")'
    BY <1>1, <1>2 DEF At
  <2>2. 0 <= uncounted[t] /\ uncounted[t] <= faults
    BY <1>1, <2>1, NatsSeen DEF IInv, Counted
  <2>3. 1 <= uncounted'[t] /\ uncounted'[t] <= faults' + 1
    BY <1>1, <1>2, <1>3, <2>2, NatsSeen DEF IInv
  <2>4. \A u \in Ids \ {t} : 0 <= uncounted'[u] /\ uncounted'[u] <= faults' + 0
    BY <1>2, <1>4, <2>1 DEF IInv, Counted
  <2>5. \A u \in Ids : pass'.at = u <=> u = t
    BY <1>1
  <2>6. \A u \in Ids :
          /\ 0 <= uncounted'[u]
          /\ uncounted'[u] <= faults' + (IF pass'.at = u THEN 1 ELSE 0)
          /\ pass'.at = u => 1 <= uncounted'[u]
    <3> SUFFICES ASSUME NEW u \in Ids
                 PROVE  /\ 0 <= uncounted'[u]
                        /\ uncounted'[u] <= faults' + (IF pass'.at = u THEN 1 ELSE 0)
                        /\ pass'.at = u => 1 <= uncounted'[u]
      OBVIOUS
    <3>1. uncounted'[u] \in Int
      BY <1>1 DEF TypeOK, TypeSeen
    <3>2. CASE u = t
      BY <2>3, <2>5, <3>1, <3>2
    <3>3. CASE u # t
      BY <2>4, <2>5, <3>3
    <3> QED
      BY <3>2, <3>3
  <2> QED
    BY <2>1, <2>6 DEF Counted
<1>8. Quiet'
  <2>1. late[t] = 0
    BY <1>1, <1>5 DEF IInv, Quiet
  <2>2. /\ late'[t] <= 1 /\ ~ Listed(t)'
        /\ status[t] \in {"absent", "active"} => late'[t] = 0
    BY <1>3, <1>5, <2>1 DEF Listed
  <2> QED
    BY <1>1, <1>2, <1>4, <1>5, <2>2 DEF IInv, Quiet
<1>9. InHand'
  BY <1>3, <1>5 DEF InHand
<1> QED
  BY <1>1, <1>6, <1>7, <1>8, <1>9 DEF IInv

LEMMA MarkKeeps ==
  ASSUME IInv, mark_fired
  PROVE  IInv'
<1>0. PICK t \in Ids : t = pass.at
  BY MarkType DEF IInv
<1>1. /\ TypeOK' /\ t \in pass.todo /\ t = pass.at
      /\ pass'.pc = "rearm" /\ pass'.at = pass.at /\ pass'.todo = pass.todo
  BY <1>0, MarkType DEF IInv
<1>2. /\ pass.pc = "mark" /\ uncounted' = [uncounted EXCEPT ![t] = @ - 1]
      /\ next' = next /\ status' = status
      /\ UNCHANGED <<faults, extra, fresh, late>>
  BY <1>0 DEF mark_fired, At, table
<1>3. \A u \in Ids : /\ Handled(u)' <=> Handled(u)
                     /\ Listed(u)' <=> Listed(u)
                     /\ Owed(u)' <=> Owed(u)
  BY <1>1, <1>2 DEF Handled, Listed, Owed
<1>4. /\ uncounted'[t] = uncounted[t] - 1
      /\ \A u \in Ids \ {t} : uncounted'[u] = uncounted[u]
  BY <1>1, <1>2 DEF IInv, TypeOK, TypeSeen
<1>5. At("mark") /\ ~ At("mark")'
  BY <1>1, <1>2 DEF At
<1>6. 1 <= uncounted[t] /\ uncounted[t] <= faults + 1
  BY <1>1, <1>5 DEF IInv, Counted
<1>7. 0 <= uncounted'[t] /\ uncounted'[t] <= faults
  BY <1>1, <1>4, <1>6, NatsSeen DEF IInv
<1>8. \A u \in Ids \ {t} : 0 <= uncounted'[u] /\ uncounted'[u] <= faults + 0
  BY <1>0, <1>4 DEF IInv, Counted
<1>9. Counted'
  BY <1>1, <1>2, <1>5, <1>7, <1>8, NatsSeen DEF Counted, IInv
<1> QED
  BY <1>1, <1>2, <1>3, <1>9 DEF IInv, Paid, Quiet, InHand

\* The task in hand is armed again or cleared, and the pass takes up the next.
LEMMA HandedOn ==
  ASSUME IInv, TypeOK', pass.at \in Ids, pass.pc \in {"rearm", "clear"},
         pass'.todo = pass.todo \ {pass.at}, pass'.pc \in {"insert", "series"},
         UNCHANGED <<status, faults, extra, uncounted, late>>,
         \A u \in Ids \ {pass.at} : next'[u] = next[u] /\ fresh'[u] = fresh[u],
         next'[pass.at] = "none" \/ fresh'[pass.at] = "yes"
  PROVE  IInv'
<1>0. PICK t \in Ids : t = pass.at
  OBVIOUS
<1>1. \A u \in Ids : ~ Handled(u)'
  BY DEF Handled
<1>2. \A u \in Ids \ {t} : ~ Handled(u)
  BY <1>0 DEF Handled
<1>3. ~ Owed(t)' /\ \A u \in Ids \ {t} : Owed(u)' => Owed(u)
  BY <1>0, <1>2 DEF Owed
<1>4. \A u \in Ids : Listed(u)' => Listed(u)
  BY <1>0, <1>2 DEF Listed
<1>5. ~ At("mark") /\ ~ At("mark")'
  BY DEF At
<1>6. Counted'
  BY <1>5 DEF IInv, Counted
<1>7. Paid'
  BY <1>3 DEF IInv, Paid
<1> QED
  BY <1>1, <1>4, <1>6, <1>7 DEF IInv, Quiet, InHand

LEMMA RearmKeeps ==
  ASSUME IInv, rearm_or_complete
  PROVE  IInv'
<1>1. TypeOK /\ TypeOK'
  BY RearmType DEF IInv
<1>2. /\ pass.pc = "rearm" /\ pass.at \in pass.todo /\ pass.at \in Ids
      /\ UNCHANGED <<faults, extra, uncounted, late>>
  BY <1>1, RearmCases
<1>3. CASE set_next_fire(pass.at, "later") /\ NextTask /\ UNCHANGED status
  <2>1. /\ next' = [next EXCEPT ![pass.at] = "later"]
        /\ fresh' = [fresh EXCEPT ![pass.at] = "yes"]
    BY <1>3 DEF set_next_fire
  <2>2. /\ fresh'[pass.at] = "yes"
        /\ \A u \in Ids \ {pass.at} : next'[u] = next[u] /\ fresh'[u] = fresh[u]
    BY <1>1, <1>2, <2>1 DEF TypeOK, TypeTable, TypeSeen
  <2>3. \A t \in Ids : Live(t) => Live(t)'
    BY <1>3 DEF Live
  <2>4. pass'.todo = pass.todo \ {pass.at} /\ pass'.pc \in {"insert", "series"}
    BY <1>1, <1>3, <2>3, NextTaken DEF TypeOK
  <2> QED
    BY <1>1, <1>2, <1>3, <2>2, <2>4, HandedOn
<1>4. CASE /\ status' = [status EXCEPT ![pass.at] = "completed"]
           /\ Goto("clear") /\ UNCHANGED <<next, older, fresh>>
  <2>1. /\ status'[pass.at] = "completed"
        /\ \A u \in Ids \ {pass.at} : status'[u] = status[u]
    BY <1>1, <1>2, <1>4 DEF TypeOK, TypeTable
  <2>2. \A t \in Ids : Live(t) => Live(t)'
    BY <1>2, <2>1 DEF Live
  <2>3. pass'.pc = "clear" /\ pass'.at = pass.at /\ pass'.todo = pass.todo
    BY <1>1, <1>2, <1>4, <2>2, Onward DEF TypeOK, Working
  <2>4. \A u \in Ids : /\ Handled(u)' <=> Handled(u)
                       /\ Listed(u)' <=> Listed(u)
                       /\ Owed(u)' <=> Owed(u)
    BY <1>2, <1>4, <2>3 DEF Handled, Listed, Owed
  <2>5. ~ At("mark") /\ ~ At("mark")'
    BY <1>2, <2>3 DEF At
  <2>6. Counted'
    BY <1>2, <2>5 DEF IInv, Counted
  <2>7. Quiet'
    BY <1>2, <2>1, <2>4 DEF IInv, Quiet
  <2> QED
    BY <1>1, <1>2, <1>4, <2>4, <2>6, <2>7 DEF IInv, Paid, InHand
<1> QED
  BY <1>1, <1>3, <1>4, RearmCases

LEMMA ClearKeeps ==
  ASSUME IInv, clear_next_fire
  PROVE  IInv'
<1>1. /\ TypeOK' /\ pass.at \in Ids
      /\ pass'.todo = pass.todo \ {pass.at} /\ pass'.pc \in {"insert", "series"}
      /\ next'[pass.at] = "none" /\ \A u \in Ids \ {pass.at} : next'[u] = next[u]
      /\ fresh' = [fresh EXCEPT ![pass.at] = "no"]
  BY ClearType DEF IInv
<1>2. pass.pc = "clear" /\ UNCHANGED <<status, faults, extra, uncounted, late>>
  BY DEF clear_next_fire, At
<1>3. \A u \in Ids \ {pass.at} : fresh'[u] = fresh[u]
  BY <1>1 DEF IInv, TypeOK, TypeSeen
<1> QED
  BY <1>1, <1>2, <1>3, HandedOn

LEMMA FailsKeeps ==
  ASSUME IInv, check_fails
  PROVE  IInv'
<1>1. /\ TypeOK' /\ pass'.todo = {} /\ pass'.pc = "series"
      /\ faults' = faults + 1 \/ (pass.pc = "insert" /\ faults' = faults)
  BY FailsType DEF IInv
<1>2. UNCHANGED <<table, obs>>
  BY DEF check_fails
<1> QED
  BY <1>1, <1>2, Dropped

LEMMA SeriesKeeps ==
  ASSUME IInv, newest_per_series
  PROVE  IInv'
<1>1. TypeOK' /\ pass'.todo = {} /\ pass'.pc \in {"idle", "forward"}
  BY SeriesType DEF IInv
<1>2. UNCHANGED <<table, obs>> /\ pass.pc = "series" /\ faults' = faults
  BY DEF newest_per_series, At
<1> QED
  BY <1>1, <1>2, Dropped

\* Forwarding arms a task that was absent, or none.
LEMMA ForwardKeeps ==
  ASSUME IInv, forward_series
  PROVE  IInv'
<1>1. TypeOK' /\ pass'.todo = {} /\ pass'.pc = "forget"
  BY ForwardType DEF IInv
<1>2. /\ pass.pc = "forward"
      /\ UNCHANGED <<faults, extra, uncounted, late>>
  BY ForwardCases
<1>3. \A u \in Ids : /\ ~ Handled(u) /\ ~ Handled(u)'
                     /\ ~ Listed(u)'
  BY <1>1, <1>2 DEF Handled, Listed
<1>4. ~ At("mark") /\ ~ At("mark")'
  BY <1>1, <1>2 DEF At
<1>5. Counted'
  BY <1>2, <1>4 DEF IInv, Counted
<1>6. /\ \A u \in Ids : Owed(u)' => Owed(u)
      /\ \A u \in Ids : status'[u] \in {"absent", "active"} => late[u] = 0
  <2>1. CASE UNCHANGED <<table, fresh, want>>
    <3>1. next' = next /\ status' = status /\ fresh' = fresh
      BY <2>1 DEF table
    <3> QED
      BY <1>1, <1>3, <3>1 DEF Owed, IInv, Quiet
  <2>2. CASE /\ ~ Live(Series)
             /\ status' = [status EXCEPT ![Series] = "active"]
             /\ next' = [next EXCEPT ![Series] = "later"]
             /\ fresh' = [fresh EXCEPT ![Series] = "yes"]
    <3>1. Series \in Ids
      BY SeriesIsTask
    <3>2. /\ fresh'[Series] = "yes" /\ status[Series] = "absent"
          /\ \A u \in Ids \ {Series} : /\ next'[u] = next[u] /\ fresh'[u] = fresh[u]
                                       /\ status'[u] = status[u]
      BY <2>2, <3>1 DEF IInv, TypeOK, TypeTable, TypeSeen, Live
    <3> QED
      BY <1>1, <1>3, <3>1, <3>2 DEF Owed, IInv, Quiet
  <2> QED
    BY <2>1, <2>2, ForwardCases
<1> QED
  BY <1>1, <1>2, <1>3, <1>5, <1>6 DEF IInv, Paid, Quiet, InHand

LEMMA ForgetKeeps ==
  ASSUME IInv, clear_series_recurrence
  PROVE  IInv'
<1>1. TypeOK' /\ pass'.todo = {} /\ pass'.pc = "idle"
  BY ForgetType DEF IInv
<1>2. UNCHANGED <<table, obs>> /\ pass.pc = "forget" /\ faults' = faults
  BY DEF clear_series_recurrence, At
<1> QED
  BY <1>1, <1>2, Dropped

LEMMA SeriesFailsKeeps ==
  ASSUME IInv, series_fails
  PROVE  IInv'
<1>1. TypeOK' /\ pass'.todo = {} /\ pass'.pc = "idle" /\ faults' = faults + 1
  BY SeriesFailsType DEF IInv
<1>2. UNCHANGED <<table, obs>>
  BY DEF series_fails
<1> QED
  BY <1>1, <1>2, Dropped

LEMMA CrashKeeps ==
  ASSUME IInv, HostCrashes
  PROVE  IInv'
<1>1. TypeOK' /\ pass'.todo = {} /\ pass'.pc = "idle" /\ faults' = faults + 1
  BY CrashType DEF IInv
<1>2. UNCHANGED <<table, obs>>
  BY DEF HostCrashes
<1> QED
  BY <1>1, <1>2, Dropped

LEMMA StepKeeps == IInv /\ [Next]_vars => IInv'
<1> SUFFICES ASSUME IInv, [Next]_vars PROVE IInv'
  OBVIOUS
<1>1. CASE Emit
  BY <1>1, EmitKeeps
<1>2. CASE op_create
  BY <1>2, CreateKeeps
<1>3. CASE op_set_status
  BY <1>3, SetStatusKeeps
<1>4. CASE op_update
  BY <1>4, UpdateKeeps
<1>5. CASE update_next_fire
  BY <1>5, UpdateNextKeeps
<1>6. CASE Delivered
  BY <1>6, DeliveredKeeps
<1>7. CASE list
  BY <1>7, ListKeeps
<1>8. CASE insert_in
  BY <1>8, InsertKeeps
<1>9. CASE mark_fired
  BY <1>9, MarkKeeps
<1>10. CASE rearm_or_complete
  BY <1>10, RearmKeeps
<1>11. CASE clear_next_fire
  BY <1>11, ClearKeeps
<1>12. CASE check_fails
  BY <1>12, FailsKeeps
<1>13. CASE newest_per_series
  BY <1>13, SeriesKeeps
<1>14. CASE forward_series
  BY <1>14, ForwardKeeps
<1>15. CASE clear_series_recurrence
  BY <1>15, ForgetKeeps
<1>16. CASE series_fails
  BY <1>16, SeriesFailsKeeps
<1>17. CASE HostCrashes
  BY <1>17, CrashKeeps
<1>18. CASE \E t \in Ids : Elapse(t)
  BY <1>18, ElapseKeeps
<1>19. CASE \E s \in Sessions : SessionBreaks(s)
  BY <1>19, BreaksKeeps
<1>20. CASE UNCHANGED vars
  BY <1>20, StutterKeeps
<1> QED
  BY <1>1, <1>2, <1>3, <1>4, <1>5, <1>6, <1>7, <1>8, <1>9, <1>10, <1>11, <1>12,
     <1>13, <1>14, <1>15, <1>16, <1>17, <1>18, <1>19, <1>20
     DEF Next, Apply, Sweep

-----------------------------------------------------------------------------
(* What it gives.                                                          *)

\* Whatever rows the agent emits and whatever fails between two statements
\* of the pass, the invariant holds.
THEOREM ScheduleInvariant == Spec => []IInv
  BY InitIInv, StepKeeps, PTL DEF Spec

\* The variables keep their types, no operation deletes a task a row or the
\* pass has in hand, and the due tasks stay in the order of next_fire.
THEOREM ScheduleTypeCorrect == Spec => []TypeOK
<1>1. IInv => TypeOK
  BY DEF IInv
<1> QED
  BY <1>1, ScheduleInvariant, PTL

\* scheduling::check writes one message for every arming, beyond it one at
\* most for every crash or database error, and fire_count keeps up with the
\* messages but for those.
THEOREM FiresArePaidFor == Spec => []FiresAccounted
<1>1. IInv => FiresAccounted
  <2> SUFFICES ASSUME IInv PROVE FiresAccounted
    OBVIOUS
  <2>1. OneFirePerArming
    BY DEF IInv, Paid, OneFirePerArming
  <2>2. FireCountHonest
    BY DEF IInv, Counted, FireCountHonest
  <2> QED
    BY <2>1, <2>2 DEF FiresAccounted
<1> QED
  BY <1>1, ScheduleInvariant, PTL

\* A task that is cancelled or paused is heard of once more at most, from the
\* pass that had listed it.
THEOREM SilenceIsKept == Spec => []SilencedSoon
<1>1. IInv => SilencedSoon
  BY DEF IInv, Quiet, SilencedSoon
<1> QED
  BY <1>1, ScheduleInvariant, PTL

\* The status of a task changes to active by a creation, by the forwarding of
\* a series that has no task yet, or by resume_task.
LEMMA RevivedByResume ==
  ASSUME IInv, [Next]_vars, NEW t \in Ids,
         status[t] \in {"paused", "cancelled", "completed"}, status'[t] = "active"
  PROVE  op.kind = "resume" /\ op.id = t
<1>1. status' # status
  OBVIOUS
<1>2. op_create \/ op_set_status \/ rearm_or_complete \/ forward_series
  BY <1>1 DEF Next, Apply, Sweep, vars, table, Emit, op_update, update_next_fire,
     Delivered, list, insert_in, mark_fired, clear_next_fire, check_fails,
     newest_per_series, clear_series_recurrence, series_fails, HostCrashes,
     Elapse, SessionBreaks
<1>3. CASE op_create
  <2>1. PICK u \in Ids : CreatesAt(u)
    BY <1>1, <1>3, CreateCases DEF table
  <2>2. t # u
    BY <2>1 DEF CreatesAt, Live
  <2> QED
    BY <2>1, <2>2 DEF CreatesAt, IInv, TypeOK, TypeTable
<1>4. CASE op_set_status
  <2>1. /\ op.kind \in {"cancel", "pause", "resume"} /\ op.id \in Ids
        /\ status' = [status EXCEPT ![op.id] = StatusOf(op.kind)]
    BY <1>4 DEF op_set_status, IInv, TypeOK, TypeRow
  <2>2. op.id = t
    BY <2>1 DEF IInv, TypeOK, TypeTable
  <2>3. StatusOf(op.kind) = "active"
    BY <2>1, <2>2 DEF IInv, TypeOK, TypeTable
  <2> QED
    BY <2>1, <2>2, <2>3, StatusWritten
<1>5. CASE rearm_or_complete
  <2>1. pass.at \in Ids /\ status' = [status EXCEPT ![pass.at] = "completed"]
    BY <1>1, <1>5, RearmCases DEF IInv
  <2> QED
    BY <2>1 DEF IInv, TypeOK, TypeTable
<1>6. CASE forward_series
  <2>1. ~ Live(Series) /\ status' = [status EXCEPT ![Series] = "active"]
    BY <1>1, <1>6, ForwardCases DEF table
  <2>2. t # Series
    BY <2>1 DEF Live
  <2> QED
    BY <2>1, <2>2 DEF IInv, TypeOK, TypeTable
<1> QED
  BY <1>2, <1>3, <1>4, <1>5, <1>6

\* Only resume_task makes a task active again, whatever op_create, the
\* re-arming and forward_series are doing, a row applied twice included.
THEOREM ResumeAloneRevives == Spec => OnlyResumeRevives
<1>1. IInv /\ [Next]_vars =>
        [\A t \in Ids :
           status[t] \in {"paused", "cancelled", "completed"} /\ status'[t] = "active"
               => op.kind = "resume" /\ op.id = t]_vars
  BY RevivedByResume
<1> QED
  BY <1>1, ScheduleInvariant, PTL DEF Spec, OnlyResumeRevives

\* fresh[t] ends by the message itself or by an update.
LEMMA LostByMessageOnly ==
  ASSUME IInv, [Next]_vars, NEW t \in Ids,
         next[t] # "none", fresh[t] = "yes", fresh'[t] # "yes"
  PROVE  At("insert") \/ op.kind = "update"
<1>1. fresh' # fresh
  OBVIOUS
<1>2. op_create \/ update_next_fire \/ insert_in \/ rearm_or_complete
      \/ clear_next_fire \/ forward_series
  BY <1>1 DEF Next, Apply, Sweep, vars, obs, Emit, op_set_status, op_update,
     Delivered, list, mark_fired, check_fails, newest_per_series,
     clear_series_recurrence, series_fails, HostCrashes, Elapse, SessionBreaks
<1>3. CASE op_create
  <2>1. PICK u \in Ids : CreatesAt(u)
    BY <1>1, <1>3, CreateCases
  <2>2. t # u
    BY <2>1 DEF CreatesAt, IInv, TypeOK, TypeTable
  <2> QED
    BY <2>1, <2>2 DEF CreatesAt, set_next_fire, IInv, TypeOK, TypeSeen
<1>4. CASE update_next_fire
  BY <1>4 DEF update_next_fire
<1>5. CASE insert_in
  BY <1>5 DEF insert_in
<1>6. CASE rearm_or_complete
  <2>1. pass.at \in Ids /\ set_next_fire(pass.at, "later")
    BY <1>1, <1>6, RearmCases DEF IInv
  <2>2. fresh' = [fresh EXCEPT ![pass.at] = "yes"]
    BY <2>1 DEF set_next_fire
  <2> QED
    BY <2>1, <2>2 DEF IInv, TypeOK, TypeSeen
<1>7. CASE clear_next_fire
  <2>1. pass.at \in Ids /\ fresh' = [fresh EXCEPT ![pass.at] = "no"]
    BY <1>7, ClearType DEF IInv
  <2>2. pass.pc = "clear"
    BY <1>7 DEF clear_next_fire, At
  <2>3. t = pass.at
    BY <2>1 DEF IInv, TypeOK, TypeSeen
  <2>4. Handled(t)
    BY <2>2, <2>3 DEF Handled
  <2> QED
    BY <2>4 DEF IInv, InHand
<1>8. CASE forward_series
  <2>1. ~ Live(Series) /\ fresh' = [fresh EXCEPT ![Series] = "yes"]
    BY <1>1, <1>8, ForwardCases
  <2> QED
    BY <2>1, SeriesIsTask DEF IInv, TypeOK, TypeSeen
<1> QED
  BY <1>2, <1>3, <1>4, <1>5, <1>6, <1>7, <1>8

\* No occurrence is lost: an arming ends with its message, in insert_in, or
\* by an update; no failure between the statements of the pass takes it away.
THEOREM OccurrencesAreKept == Spec => NoFireLost
<1>1. IInv /\ [Next]_vars =>
        [\A t \in Ids :
           next[t] # "none" /\ fresh[t] = "yes" /\ fresh'[t] # "yes"
               => At("insert") \/ op.kind = "update"]_vars
  BY LostByMessageOnly
<1> QED
  BY <1>1, ScheduleInvariant, PTL DEF Spec, NoFireLost

=============================================================================
